------------------------------- MODULE Lifecycle -------------------------------
(***************************************************************************)
(* The life of one run: the engine of internal/engine (Next, Complete,     *)
(* Fail, Approve, Pause, Resume, Terminal) with the rows of internal/store *)
(* that its commits write.  A command is one atomic step here: it reads    *)
(* the run, checks, and commits.                                           *)
(*                                                                         *)
(* The agent is not trusted: the outcome and the evidence of an action are *)
(* any the validators accept.  Revisions are not values: the engine only   *)
(* compares the reported revisions with the ones stored with the brief, so *)
(* evidence either agrees or is drift.                                     *)
(***************************************************************************)
EXTENDS Workflow, FiniteSets

CONSTANTS
  Briefs,          \* brief hashes the agent can compute
  Plans,           \* review-plan hashes
  Heads,           \* commits
  ChangeRequests,  \* change-request identities
  Events,          \* review events, by deduplication key (id or fingerprint)
  EventType,       \* [Events -> EventTypes]
  ThreadOf,        \* [Events -> Threads], read for actionable comments only
  Threads,         \* review threads
  Inventories,     \* the capability sets a host may announce
  RetryBound,      \* bound: RetryAttempt is not followed beyond it
  None             \* the empty string or the nil pointer

EventTypes ==
  {"actionable_comment", "approval", "build_status", "merged", "closed",
   "declined"}

ASSUME NoneAssumption ==
  /\ None \notin Briefs \cup Plans \cup Heads \cup ChangeRequests
  /\ None \notin States \cup ActionTypes

ASSUME EventAssumption ==
  /\ EventType \in [Events -> EventTypes]
  /\ ThreadOf \in [Events -> Threads]

ASSUME BoundAssumption == RetryBound \in Nat

VARIABLES
  run,       \* runs.snapshot, the fields some guard reads
  action,    \* the type of the one pending row of actions, or None
  lease,     \* the lease row: "none" (absent or expired), "held" (live), or
             \* "bound" (live, and its token is the pending action's)
  schedule,  \* is there a schedules row
  approvals, \* the approvals table
  green,     \* history: heads that a committed check evidence passed
  answered   \* history: threads a committed thread receipt covers

history == <<green, answered>>
vars == <<run, action, lease, schedule, approvals, green, answered>>

WaitKinds == {"none", "human", "external", "capability", "error"}

\* NextWakeAt: nil, still After(now), or passed.
Wakes == {"none", "future", "due"}

RunType ==
  [ state       : States,
    resume      : States \cup {None},
    wait        : WaitKinds,
    wake        : Wakes,
    retry       : Nat,
    brief       : Briefs \cup {None},
    head        : Heads \cup {None},
    verified    : Heads \cup {None},
    cr          : ChangeRequests \cup {None},
    plan        : Plans \cup {None},
    planThreads : SUBSET Threads,
    pending     : SUBSET Threads,
    seen        : SUBSET Events ]

\* Well-typed state.  A live lease is bound only to an action that is pending.
TypeOK ==
  /\ run \in RunType
  /\ action \in ActionTypes \cup {None}
  /\ lease \in {"none", "held", "bound"}
  /\ lease = "bound" => action # None
  /\ schedule \in BOOLEAN
  /\ approvals \subseteq (({"brief"} \X Briefs) \cup ({"review_plan"} \X Plans))
  /\ green \subseteq Heads
  /\ answered \subseteq Threads

NewRun ==
  [ state |-> "discovering_context", resume |-> None, wait |-> "none",
    wake |-> "none", retry |-> 0, brief |-> None, head |-> None,
    verified |-> None, cr |-> None, plan |-> None, planThreads |-> {},
    pending |-> {}, seen |-> {} ]

Init ==
  /\ run = NewRun
  /\ action = None
  /\ lease = "none"
  /\ schedule = FALSE
  /\ approvals = {}
  /\ green = {}
  /\ answered = {}

-------------------------------------------------------------------------------
(* What a commit writes besides the snapshot.  Operators whose comment says    *)
(* "seeded bug" are plausible mistakes the runs have to notice.                 *)

\* A run that has ended or waits gives its lease up.
LeaseGivenUp(r) == r.state \in TerminalStates \/ r.wait # "none"

\* Seeded bug: the row is inserted but never deleted.
ScheduleKept(r) == schedule' = (schedule \/ r.wake # "none")

\* The schedules row mirrors NextWakeAt.
WriteSchedule(r) == schedule' = (r.wake # "none")

\* Store.UpdateRun: the pending action is left alone.
UpdateRun(r) ==
  /\ run' = r
  /\ WriteSchedule(r)
  /\ lease' = IF r.state = "paused" \/ LeaseGivenUp(r) THEN "none" ELSE lease
  /\ UNCHANGED <<action, approvals, green, answered>>

\* Seeded bugs: the action stays pending; its token outlives it.
CommitActionKeepsPending(r) ==
  /\ run' = r
  /\ WriteSchedule(r)
  /\ lease' = IF LeaseGivenUp(r) THEN "none" ELSE "held"
  /\ UNCHANGED <<action, approvals>>
CommitActionKeepsBinding(r) ==
  /\ run' = r
  /\ action' = None
  /\ WriteSchedule(r)
  /\ lease' = IF LeaseGivenUp(r) THEN "none" ELSE lease
  /\ UNCHANGED approvals

\* Store.commitAction: the action leaves the pending state.
CommitAction(r) ==
  /\ run' = r
  /\ action' = None
  /\ WriteSchedule(r)
  /\ lease' = IF LeaseGivenUp(r) THEN "none" ELSE "held"
  /\ UNCHANGED approvals

\* commitAction finds the result's lease live and equal to the action's.
Delivered(type) == action = type /\ lease = "bound"

-------------------------------------------------------------------------------
(* Leases and time. *)

\* AcquireLease looks at the lease row only, whatever the run's state; the new
\* token is not the one on a pending action.
AcquireLease ==
  /\ lease = "none"
  /\ lease' = "held"
  /\ UNCHANGED <<run, action, schedule, approvals, green, answered>>

\* ReleaseLease, or the expiry passing.
LeaseEnds ==
  /\ lease # "none"
  /\ lease' = "none"
  /\ UNCHANGED <<run, action, schedule, approvals, green, answered>>

\* The clock passes NextWakeAt; nothing is written.
WakePasses ==
  /\ run.wake = "future"
  /\ run' = [run EXCEPT !.wake = "due"]
  /\ UNCHANGED <<action, lease, schedule, approvals, green, answered>>

-------------------------------------------------------------------------------
(* Engine.Next. *)

Dispatchable ==
  /\ lease # "none"
  /\ run.wake # "future"
  /\ run.state \in ActionStates

\* Missing capabilities block the run instead of dispatching.
NextBlocked(caps) ==
  /\ Dispatchable
  /\ ~Capable(run.state, caps)
  /\ UpdateRun([run EXCEPT !.resume = run.state, !.state = "blocked",
                           !.wait = "capability", !.wake = "none"])

\* Seeded bug: it is handed out again only under the lease it was handed out with.
NextRebindsBound(caps) ==
  /\ Dispatchable
  /\ Capable(run.state, caps)
  /\ action # None
  /\ lease = "bound"
  /\ UNCHANGED <<run, action, lease, schedule, approvals, green, answered>>

\* A pending action is handed out again under the caller's lease, as it is.
NextRebinds(caps) ==
  /\ Dispatchable
  /\ Capable(run.state, caps)
  /\ action # None
  /\ lease' = "bound"
  /\ UNCHANGED <<run, action, schedule, approvals, green, answered>>

NextCreates(caps) ==
  /\ Dispatchable
  /\ Capable(run.state, caps)
  /\ action = None
  /\ \E type \in ActionTypes : <<run.state, type>> \in Dispatches /\ action' = type
  /\ lease' = "bound"
  /\ UNCHANGED <<run, schedule, approvals, green, answered>>

-------------------------------------------------------------------------------
(* Engine.Complete. *)

\* The end of Complete, once the evidence is applied and the target known.
Arrive(r, target) ==
  [r EXCEPT !.state = target,
            !.retry = 0,
            !.wait  = CASE target \in GateStates \cup {"blocked"} -> "human"
                        [] target = "awaiting_review" -> "external"
                        [] OTHER -> "none",
            !.wake  = IF target = "awaiting_review" THEN "future" ELSE "none"]

\* The outcome is looked up in the state the run is in, not in the state the
\* action was made for.
Follow(r, outcome) ==
  \E target \in Targets(run.state, outcome) : CommitAction(Arrive(r, target))

\* The pending action, of this type, is completed and leaves the run as r.
Complete(type, outcome, r) ==
  Delivered(type) /\ Follow(r, outcome) /\ UNCHANGED history

\* Seeded bug: an absent change request is stored as well.
ReconciledWithoutNilCheck(head, cr) ==
  [run EXCEPT !.head     = IF head = None THEN @ ELSE head,
              !.verified = IF head \in {None, run.head} THEN @ ELSE None,
              !.cr       = cr]

\* What reconciliation observed replaces what was recorded; a head that moved
\* is not verified any more.
Reconciled(head, cr) ==
  [run EXCEPT !.head     = IF head = None THEN @ ELSE head,
              !.verified = IF head \in {None, run.head} THEN @ ELSE None,
              !.cr       = IF cr = None THEN @ ELSE cr]

\* A completed reconciliation goes back to the state kept by Pause, Fail or
\* Next, if there is one; any other outcome leaves it kept.
CompleteReconcile(outcome, head, cr) ==
  /\ Delivered("reconcile")
  /\ run.cr # None /\ cr # None => cr = run.cr
  /\ IF outcome = "complete" /\ run.resume # None
       THEN /\ Targets(run.state, outcome) # {}
            /\ CommitAction(Arrive([Reconciled(head, cr) EXCEPT !.resume = None],
                                   run.resume))
       ELSE Follow(Reconciled(head, cr), outcome)
  /\ UNCHANGED history

\* The brief is stored whether it is complete or only provisional.
CompleteInspect(outcome, brief) ==
  Complete("inspect_context", outcome, [run EXCEPT !.brief = brief])

CompletePrepare(outcome, base) ==
  Complete("prepare_workspace", outcome, [run EXCEPT !.head = base])

CompleteImplement(outcome, head) ==
  Complete("implement_change", outcome,
           [run EXCEPT !.head = head, !.verified = None])

\* The verified head is the run's; "passed" needs every command to succeed.
CompleteVerify(outcome) ==
  /\ Delivered("verify_change")
  /\ outcome \in {"passed", "failed_fixable"}
  /\ run.head # None
  /\ LET passed == outcome = "passed"
     IN /\ Follow([run EXCEPT !.verified = IF passed THEN run.head ELSE None],
                  outcome)
        /\ green' = IF passed THEN green \cup {run.head} ELSE green
  /\ UNCHANGED answered

\* The final head is the verified one, whatever the run's head is.
CompleteFinalize(outcome) ==
  /\ outcome \in {"complete", "needs_changes"}
  /\ run.verified # None
  /\ Complete("finalize_change", outcome, [run EXCEPT !.head = run.verified])

\* Seeded bug: the published head need not be the verified one.
PublishableUnverified == run.head # None

\* What validateTypedEvidence requires of a publication before it compares
\* the revisions.
Publishable == run.head # None /\ run.head = run.verified

CompletePublish(outcome, cr) ==
  /\ Publishable
  /\ run.brief # None
  /\ Complete("publish_change", outcome, [run EXCEPT !.cr = cr])

NewEvents(batch) == batch \ run.seen

\* The outcomes the new terminal events of a batch admit; the last event of the
\* batch decides, and the order is the agent's.
TerminalOutcomes(new) ==
  { IF EventType[e] = "merged" THEN "merged" ELSE "closed" :
    e \in { f \in new : EventType[f] \in {"merged", "closed", "declined"} } }

Actionable(new) ==
  { ThreadOf[e] : e \in { f \in new : EventType[f] = "actionable_comment" } }

\* Seeded bug: a merge is believed without a merged event.
PollOutcomesUnchecked(new) ==
  IF TerminalOutcomes(new) # {} THEN TerminalOutcomes(new)
  ELSE IF Actionable(new) = {} THEN {"no_change", "merged"}
  ELSE IF run.plan = None THEN {"feedback"}
  ELSE {"feedback_overlap", "feedback_independent"}

\* The outcomes processReviewEvidence accepts: a terminal event comes before
\* everything, then comments; with a plan, the agent classifies them.
PollOutcomes(new) ==
  IF TerminalOutcomes(new) # {} THEN TerminalOutcomes(new)
  ELSE IF Actionable(new) = {} THEN {"no_change"}
  ELSE IF run.plan = None THEN {"feedback"}
  ELSE {"feedback_overlap", "feedback_independent"}

\* Seeded bug: the threads of the overlapped plan are not pending again.
FiledWithoutPlan(outcome, threads) ==
  CASE outcome = "feedback_overlap" ->
         [run EXCEPT !.pending = @ \cup threads, !.plan = None,
                     !.planThreads = {}]
    [] outcome \in {"feedback", "feedback_independent"} ->
         [run EXCEPT !.pending = @ \cup threads]
    [] OTHER -> run

\* Seeded bug: the overlapped plan stays in force.
FiledKeepsPlan(outcome, threads) ==
  CASE outcome = "feedback_overlap" ->
         [run EXCEPT !.pending = @ \cup run.planThreads \cup threads]
    [] outcome \in {"feedback", "feedback_independent"} ->
         [run EXCEPT !.pending = @ \cup threads]
    [] OTHER -> run

\* New comments are the next batch, or are merged with the plan they overlap.
Filed(outcome, threads) ==
  CASE outcome = "feedback_overlap" ->
         [run EXCEPT !.pending = @ \cup run.planThreads \cup threads,
                     !.plan = None, !.planThreads = {}]
    [] outcome \in {"feedback", "feedback_independent"} ->
         [run EXCEPT !.pending = @ \cup threads]
    [] OTHER -> run

\* processReviewEvidence: events already seen are dropped, the others are seen
\* from now on.
CompletePoll(outcome, batch) ==
  LET new == NewEvents(batch)
  IN /\ outcome \in PollOutcomes(new)
     /\ Complete("poll_change_request", outcome,
                 [Filed(outcome, Actionable(new)) EXCEPT !.seen = @ \cup new])

\* The plan covers exactly the pending threads, and takes them over.
CompleteAnalyze(outcome, plan) ==
  /\ run.pending # {}
  /\ Complete("analyze_review", outcome,
              [run EXCEPT !.plan = plan, !.planThreads = run.pending,
                          !.pending = {}])

\* Seeded bug: the next batch is analysed even when there is none.
AnalysesNextAlways(outcome) == outcome = "complete"

\* Seeded bug: the batch that waits is left for another poll.
AnalysesNextNever(outcome) == FALSE

\* Feedback that arrived meanwhile sends a completed run to its analysis.
AnalysesNext(outcome) == outcome = "complete" /\ run.pending # {}

\* The receipts cover exactly the plan's threads.  Whatever the outcome, the
\* head counts as verified and the plan is done with.
CompleteAddress(outcome, head) ==
  LET r == [run EXCEPT !.head = head, !.verified = head, !.plan = None,
                       !.planThreads = {}]
  IN /\ Delivered("address_review")
     /\ run.brief # None /\ run.cr # None
     /\ run.planThreads # {}
     /\ IF AnalysesNext(outcome)
          THEN /\ Targets(run.state, outcome) # {}
               /\ CommitAction(Arrive(r, "analyzing_review"))
          ELSE Follow(r, outcome)
     /\ green' = green \cup {head}
     /\ answered' = answered \cup run.planThreads

\* The merge receipt is for the run's head.
CompleteResolve(outcome) ==
  /\ run.cr # None /\ run.head # None
  /\ Complete("resolve_work_item", outcome, run)

\* The evidence reports other revisions than the ones stored with the brief.
DriftReported ==
  \/ Delivered("reconcile") /\ run.brief # None
  \/ Delivered("publish_change") /\ Publishable
  \/ Delivered("address_review")

CompleteDrift ==
  /\ DriftReported
  /\ CommitAction([run EXCEPT !.resume = run.state, !.state = "brief_stale",
                              !.wait = "human", !.wake = "none"])
  /\ UNCHANGED history

-------------------------------------------------------------------------------
(* Engine.Fail. *)

FailureClasses ==
  {"transient", "rate_limited", "auth", "validation", "conflict", "permanent"}

\* The retry policy is that of the state the run is in.
Retries(class) ==
  /\ class \in {"transient", "rate_limited"}
  /\ run.state \in RetryStates
  /\ run.retry + 1 < MaxAttempts(run.state)

\* A failed write is to be reconciled first; a failed read is tried again.
FailRetries(class) ==
  LET r == [run EXCEPT !.retry = @ + 1, !.wait = "external", !.wake = "future"]
  IN /\ action # None /\ Delivered(action)
     /\ run.retry < RetryBound
     /\ Retries(class)
     /\ CommitAction(IF run.state \in ReconciledWriteStates
                       THEN [r EXCEPT !.resume = run.state,
                                      !.state = "reconciling"]
                       ELSE r)
     /\ UNCHANGED history

FailBlocks(class) ==
  /\ action # None /\ Delivered(action)
  /\ run.retry < RetryBound
  /\ ~Retries(class)
  /\ CommitAction([run EXCEPT !.retry = @ + 1, !.resume = run.state,
                              !.state = "blocked", !.wait = "error",
                              !.wake = "none"])
  /\ UNCHANGED history

-------------------------------------------------------------------------------
(* The operator's commands. *)

\* Seeded bug: the hash is not compared with the artifact's.
AtGateOnly(kind, hash) ==
  \/ kind = "brief" /\ run.state = BriefGate
  \/ kind = "review_plan" /\ run.state = PlanGate

\* The gate the run is at is about the artifact with this hash.
AtGateFor(kind, hash) ==
  \/ kind = "brief" /\ run.state = BriefGate /\ hash = run.brief
  \/ kind = "review_plan" /\ run.state = PlanGate /\ hash = run.plan

\* Engine.Approve and Store.CommitApproval.
Approve(kind, hash) ==
  /\ AtGateFor(kind, hash)
  /\ \E target \in Targets(run.state, "approved") :
       run' = [run EXCEPT !.state = target, !.wait = "none"]
  /\ approvals' = approvals \cup {<<kind, hash>>}
  /\ schedule' = FALSE
  /\ UNCHANGED <<action, lease, green, answered>>

\* Seeded bug: a run that has ended can be paused.
PauseAnyRun ==
  UpdateRun([run EXCEPT !.resume = run.state, !.state = "paused",
                        !.wait = "human", !.wake = "none"])

\* Any run that has not ended can be paused, a paused one too.
Pause ==
  /\ run.state \notin TerminalStates
  /\ UpdateRun([run EXCEPT !.resume = run.state, !.state = "paused",
                           !.wait = "human", !.wake = "none"])

Resume ==
  /\ run.state \in {"paused", "blocked"}
  /\ UpdateRun([run EXCEPT !.resume = IF @ = None THEN "discovering_context" ELSE @,
                           !.state = "reconciling", !.wait = "none"])

\* Only a resolved run refuses.
Terminal(target) ==
  /\ target \in {"cancelled", "failed_permanent", "superseded"}
  /\ run.state # "resolved"
  /\ UpdateRun([run EXCEPT !.state = target, !.wait = "none", !.wake = "none"])

-------------------------------------------------------------------------------
CompleteAction ==
  \E outcome \in AllowedOutcomes(run.state) :
    \/ \E head \in Heads \cup {None}, cr \in ChangeRequests \cup {None} :
         CompleteReconcile(outcome, head, cr)
    \/ \E brief \in Briefs : CompleteInspect(outcome, brief)
    \/ \E base \in Heads : CompletePrepare(outcome, base)
    \/ \E head \in Heads : CompleteImplement(outcome, head)
    \/ CompleteVerify(outcome)
    \/ CompleteFinalize(outcome)
    \/ \E cr \in ChangeRequests : CompletePublish(outcome, cr)
    \/ \E batch \in SUBSET Events : CompletePoll(outcome, batch)
    \/ \E plan \in Plans : CompleteAnalyze(outcome, plan)
    \/ \E head \in Heads : CompleteAddress(outcome, head)
    \/ CompleteResolve(outcome)

\* What the agent and the clock do.
AgentStep ==
  \/ AcquireLease
  \/ LeaseEnds
  \/ WakePasses
  \/ \E caps \in Inventories :
       NextBlocked(caps) \/ NextRebinds(caps) \/ NextCreates(caps)
  \/ CompleteAction
  \/ CompleteDrift
  \/ \E class \in FailureClasses : FailRetries(class) \/ FailBlocks(class)

Approval ==
  \/ \E hash \in Briefs : Approve("brief", hash)
  \/ \E hash \in Plans : Approve("review_plan", hash)

Next ==
  \/ AgentStep
  \/ Approval
  \/ Pause
  \/ Resume
  \/ \E target \in TerminalStates : Terminal(target)

Spec == Init /\ [][Next]_vars

\* The same engine under an operator who never resumes a run.
UninterruptedNext ==
  \/ AgentStep
  \/ Approval
  \/ Pause
  \/ \E target \in TerminalStates : Terminal(target)

UninterruptedSpec == Init /\ [][UninterruptedNext]_vars

-------------------------------------------------------------------------------
(* Properties. *)

CodeStates ==
  {"preparing_workspace", "implementing", "verifying", "finalizing",
   "publishing"}

ReviewStates ==
  {"awaiting_review", "analyzing_review", PlanGate, "confirming_review_plan",
   "addressing_review", "merged_pending_resolution"}

\* The run is in one of the states, or a resume would take it there.
Reaches(S) == run.state \in S \/ run.resume \in S

SeenTypes == { EventType[e] : e \in run.seen }

\* A pending action outlives pauses, blocks and lease takeovers, and is handed
\* out again in whatever state the run is then in (engine.go:176).  Outside
\* reconciliation that state is always the one the action was made for.
ActionFitsState ==
  action # None /\ run.state \in ActionStates \ {"reconciling"}
    => <<run.state, action>> \in Dispatches

\* No state in which code is written, published or reviewed is entered, or is
\* kept as a resume point, before some brief of the run has been approved.
SomeBriefApproved ==
  Reaches(CodeStates \cup ReviewStates)
    => \E b \in Briefs : <<"brief", b>> \in approvals

\* Review, and the resolution of the work item, need a change request that is
\* still recorded, through every pause, drift and reconciliation.
PublishedBeforeReview ==
  Reaches(ReviewStates) \/ run.state = "resolved" => run.cr # None

\* The work item is resolved only after a merge was observed by a poll.
MergeObserved ==
  \/ Reaches({"merged_pending_resolution"})
  \/ run.state = "resolved"
  => "merged" \in SeenTypes

\* The thread of an actionable comment that polling marked as seen (and so
\* will never report again) is waiting, planned or answered, unless the change
\* request ended.
ThreadsAccounted ==
  \A e \in run.seen :
    EventType[e] = "actionable_comment" =>
      \/ ThreadOf[e] \in run.pending \cup run.planThreads \cup answered
      \/ SeenTypes \cap {"merged", "closed", "declined"} # {}

\* A run whose NextWakeAt is set has a schedules row and no other has: UpdateRun
\* and commitAction mirror it, CommitApproval deletes it (control.go:171).
ScheduleMirrorsWake == schedule <=> run.wake # "none"

\* A head that is published had its checks pass, although preparing a
\* workspace, finalizing and reconciling all move the head.
PublishedHeadIsGreen ==
  [][ run.state = "publishing" /\ run'.state = "awaiting_review"
        => run'.head \in green ]_vars

\* No command takes a run out of the terminal states, and none moves it once
\* it is resolved.
TerminalIsFinal ==
  [][ /\ run.state \in TerminalStates => run'.state \in TerminalStates
      /\ run.state = "resolved" => run' = run ]_vars

\* What a run shows to those who only look at its milestones.
ApprovedBriefs == { b \in Briefs : <<"brief", b>> \in approvals }

Fate(state) == CASE state = "resolved" -> "resolved"
                 [] state \in TerminalStates \ {"resolved"} -> "abandoned"
                 [] state \notin TerminalStates -> "open"

Promise == INSTANCE Milestones WITH
  approved  <- ApprovedBriefs,
  checked   <- green,
  head      <- run.head,
  request   <- run.cr,
  reviewing <- Reaches(ReviewStates),
  merged    <- "merged" \in SeenTypes,
  outcome   <- Fate(run.state)

\* The run keeps the promise of the milestones (SPEC.md:170 "`resolved` requires both
\* an observed merge receipt and a tracker-resolution receipt", README.md:19,
\* README.md:23): approval, checks, review, merge and resolution follow each other in
\* this order, through pauses, drift, failures, and actions that are handed out late.
MilestonesKept == Promise!Spec

\* What a run shows to those who only look at what moves it.
Mover == INSTANCE Commands WITH
  state     <- run.state,
  resume    <- run.resume,
  brief     <- run.brief,
  plan      <- run.plan,
  approvals <- { a[2] : a \in approvals }

\* The run keeps the promise of the commands (SPEC.md:164): only a result, in the
\* state it finds, moves it along the table, whatever action was pending for how long.
CommandsKept == Mover!Spec

\* What it does with the threads of the review.
EndEvents == { e \in Events : EventType[e] \in {"merged", "closed", "declined"} }

Ledger == INSTANCE Feedback WITH
  Ends     <- EndEvents,
  reported <- Actionable(run.seen),
  waiting  <- run.pending,
  planned  <- run.planThreads,
  ended    <- run.seen \cap EndEvents

\* The run keeps the promise of the review (SPEC.md:305): whatever the order in which
\* comments, approvals and fixes arrive, no thread is lost, no plan is replaced by
\* another, and a plan is answered as a whole.
FeedbackKept == Ledger!Spec

\* What the safety properties above need to be inductive, each a fact about the
\* engine of its own: a run at a gate has nothing pending; a token is bound only
\* where an action can be worked on; no resume ends a run; a run at a gate or at
\* its end has no wake-up; later work is pending only after an approval;
\* the verified head passed its checks; a plan is kept as long as its threads;
\* and a batch that waits behind a plan in force never reaches the analysis,
\* which would drop the threads of that plan.
GateHasNoAction == run.state \in GateStates => action = None
BoundIsWorkable == lease = "bound" => run.state \in ActionStates
ResumeIsNotFinal == run.resume \notin TerminalStates
StoppedHasNoWake ==
  run.state \in GateStates \cup TerminalStates => run.wake = "none"
LaterWorkIsApproved ==
  action \notin {None, "reconcile", "inspect_context"}
    => \E b \in Briefs : <<"brief", b>> \in approvals
VerifiedIsGreen == run.verified \in green \cup {None}
PlanHasThreads == run.plan = None <=> run.planThreads = {}
PlanKeepsAnalysisAway ==
  run.pending # {} /\ run.planThreads # {} =>
    /\ run.state # "analyzing_review"
    /\ action # "analyze_review"
    /\ run.resume = "analyzing_review"
         => run.state \in {"addressing_review"} \cup TerminalStates

Strengthening ==
  /\ GateHasNoAction
  /\ BoundIsWorkable
  /\ ResumeIsNotFinal
  /\ StoppedHasNoWake
  /\ LaterWorkIsApproved
  /\ VerifiedIsGreen
  /\ PlanHasThreads
  /\ PlanKeepsAnalysisAway

\* Without a resume, the brief a run works on is always one that was approved:
\* every change of the brief goes back through the gate (README.md:19).
WorkIsOnApprovedBrief ==
  run.state \in CodeStates \cup ReviewStates
    => <<"brief", run.brief>> \in approvals

\* Without a resume, the plan that is confirmed and carried out is one that was
\* approved (README.md:20), although feedback can replace it meanwhile.
FixesAreOnApprovedPlan ==
  /\ run.state \in {"confirming_review_plan", "addressing_review"}
  /\ run.planThreads # {}
  => <<"review_plan", run.plan>> \in approvals

\* Without a resume, a run under analysis has threads to analyse: otherwise the
\* validator rejects every plan and the run can only fail.
AnalysisHasThreads == run.state = "analyzing_review" => run.pending # {}

\* What the documents say and the code does not do (see the README).

\* Implementation cannot start before hash-bound approval (SPEC.md:112).
ImplementationIsApproved ==
  run.state = "implementing" => <<"brief", run.brief>> \in approvals

\* resume always goes through reconciliation (README.md:368): work goes on after
\* the state reconciling only by completing a reconcile action.
ReconciledBeforeWork ==
  [][ /\ run.state = "reconciling"
      /\ run'.state \in ActionStates \ {"reconciling", "brief_stale"}
      => action = "reconcile" ]_vars

\* Actionable comments form one new batch (SPEC.md:305): a run that waits for
\* them can file them.  processReviewEvidence files a batch under an outcome of
\* awaiting_review only while no plan is kept.
FeedbackCanBeFiled == run.state = "awaiting_review" => run.plan = None
===============================================================================
