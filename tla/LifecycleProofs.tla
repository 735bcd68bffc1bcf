----------------------------- MODULE LifecycleProofs -----------------------------
(***************************************************************************)
(* The safety of Lifecycle for every set of briefs, plans, heads, events,  *)
(* threads and capability inventories, and every number of retries.        *)
(***************************************************************************)
EXTENDS Lifecycle, TLAPS

-------------------------------------------------------------------------------
(* The table. *)

\* A target of the table is one of its lines read from left to right.
LEMMA TargetLine ==
  ASSUME NEW s, NEW o, NEW t \in Targets(s, o)
  PROVE  <<s, o, t>> \in Transitions
<1>1. PICK u \in Transitions : u[1] = s /\ u[2] = o /\ t = u[3]
  BY DEF Targets
<1>2. u = <<u[1], u[2], u[3]>>
  BY <1>1 DEF Transitions
<1> QED
  BY <1>1, <1>2

\* Every line leads to a state of the table.
LEMMA TargetIsState ==
  ASSUME NEW s, NEW o, NEW t \in Targets(s, o)
  PROVE  t \in States /\ s \in States
<1>1. <<s, o, t>> \in Transitions
  BY TargetLine
<1>2. /\ \A d \in Dispatches : d[1] \in ActionStates
  BY DEF ActionStates
<1> QED
  BY <1>1 DEF Transitions, States, ActionStates, Dispatches, GateStates, WaitStates, TerminalStates, BriefGate, PlanGate

\* Review is entered from review, and from publishing.
LEMMA IntoReview ==
  ASSUME NEW s, NEW o, NEW t \in Targets(s, o), t \in ReviewStates
  PROVE  s \in ReviewStates \/ s = "publishing"
<1>1. <<s, o, t>> \in Transitions
  BY TargetLine
<1> QED
  BY <1>1 DEF Transitions, ReviewStates, PlanGate

\* Code and review are entered from code, from review, and from the brief's gate.
LEMMA IntoWork ==
  ASSUME NEW s, NEW o, NEW t \in Targets(s, o),
         t \in CodeStates \cup ReviewStates
  PROVE  s \in CodeStates \cup ReviewStates \cup {BriefGate}
<1>1. <<s, o, t>> \in Transitions
  BY TargetLine
<1> QED
  BY <1>1 DEF Transitions, CodeStates, ReviewStates, PlanGate, BriefGate

\* The resolution is entered by polls that report a merge, and left to be
\* resolved.
LEMMA IntoResolution ==
  ASSUME NEW s, NEW o, NEW t \in Targets(s, o)
  PROVE  /\ t = "merged_pending_resolution" =>
              /\ o = "merged"
              /\ s \in {"awaiting_review", "confirming_review_plan"}
         /\ t = "resolved" => s = "merged_pending_resolution"
<1>1. <<s, o, t>> \in Transitions
  BY TargetLine
<1> QED
  BY <1>1 DEF Transitions

\* The analysis is entered by polls that report feedback, or from its gate.
LEMMA IntoAnalysis ==
  ASSUME NEW s, NEW o, NEW t \in Targets(s, o), t = "analyzing_review"
  PROVE  \/ /\ o \in {"feedback", "feedback_overlap"}
            /\ s \in {"awaiting_review", "confirming_review_plan"}
         \/ s = PlanGate
<1>1. <<s, o, t>> \in Transitions
  BY TargetLine
<1> QED
  BY <1>1 DEF Transitions, PlanGate

\* Independent feedback leads to addressing the review.
LEMMA IndependentFeedback ==
  ASSUME NEW s, NEW t \in Targets(s, "feedback_independent")
  PROVE  t = "addressing_review"
<1>1. <<s, "feedback_independent", t>> \in Transitions
  BY TargetLine
<1> QED
  BY <1>1 DEF Transitions

\* The table leads nowhere from a terminal state.
LEMMA TerminalHasNoTarget ==
  ASSUME NEW s \in TerminalStates, NEW o
  PROVE  Targets(s, o) = {}
<1>1. SUFFICES ASSUME NEW t \in Targets(s, o) PROVE FALSE
  OBVIOUS
<1>2. <<s, o, t>> \in Transitions
  BY TargetLine
<1> QED
  BY <1>2 DEF Transitions, TerminalStates

-------------------------------------------------------------------------------
(* Type correctness. *)

\* The end of Complete, field by field.
LEMMA ArriveRun ==
  ASSUME NEW r \in RunType, NEW t \in States
  PROVE  /\ Arrive(r, t) \in RunType
         /\ Arrive(r, t).state = t
         /\ Arrive(r, t).retry = 0
         /\ Arrive(r, t).resume = r.resume
         /\ Arrive(r, t).brief = r.brief
         /\ Arrive(r, t).head = r.head
         /\ Arrive(r, t).verified = r.verified
         /\ Arrive(r, t).cr = r.cr
         /\ Arrive(r, t).plan = r.plan
         /\ Arrive(r, t).planThreads = r.planThreads
         /\ Arrive(r, t).pending = r.pending
         /\ Arrive(r, t).seen = r.seen
         /\ t # "awaiting_review" => Arrive(r, t).wake = "none"
BY DEF Arrive, RunType, WaitKinds, Wakes

\* A run that was just created is well typed.
THEOREM InitType == Init => TypeOK
<1>1. NewRun \in RunType
  BY DEF NewRun, RunType, States, ActionStates, Dispatches, WaitKinds, Wakes
<1> QED
  BY <1>1, NoneAssumption DEF Init, TypeOK

\* A completed action leaves a well-typed state.
LEMMA CommitType ==
  ASSUME TypeOK, NEW r \in RunType, CommitAction(r)
  PROVE  /\ run' \in RunType
         /\ action' \in ActionTypes \cup {None}
         /\ lease' \in {"none", "held", "bound"}
         /\ lease' = "bound" => action' # None
         /\ schedule' \in BOOLEAN
         /\ approvals' = approvals
BY DEF TypeOK, CommitAction, WriteSchedule

LEMMA FollowType ==
  ASSUME TypeOK, NEW r \in RunType, NEW o, Follow(r, o)
  PROVE  /\ run' \in RunType
         /\ action' \in ActionTypes \cup {None}
         /\ lease' \in {"none", "held", "bound"}
         /\ lease' = "bound" => action' # None
         /\ schedule' \in BOOLEAN
         /\ approvals' = approvals
<1>1. PICK t \in Targets(run.state, o) : CommitAction(Arrive(r, t))
  BY DEF Follow
<1>2. Arrive(r, t) \in RunType
  BY ArriveRun, TargetIsState
<1> QED
  BY <1>1, <1>2, CommitType

\* What reconciliation replaces.
LEMMA ReconciledRun ==
  ASSUME run \in RunType,
         NEW head \in Heads \cup {None}, NEW cr \in ChangeRequests \cup {None}
  PROVE  LET r == Reconciled(head, cr)
         IN  /\ r \in RunType /\ r.resume = run.resume /\ r.brief = run.brief
             /\ r.verified \in {run.verified, None}
             /\ r.cr # run.cr => r.cr # None
             /\ r.plan = run.plan /\ r.planThreads = run.planThreads
             /\ r.pending = run.pending /\ r.seen = run.seen
<1> DEFINE h == IF head = None THEN run.head ELSE head
           v == IF head \in {None, run.head} THEN run.verified ELSE None
           c == IF cr = None THEN run.cr ELSE cr
<1>1. /\ h \in Heads \cup {None}
      /\ v \in Heads \cup {None} /\ v \in {run.verified, None}
      /\ c \in ChangeRequests \cup {None} /\ (c # run.cr => c # None)
  BY DEF RunType
<1>2. Reconciled(head, cr) = [run EXCEPT !.head = h, !.verified = v, !.cr = c]
  BY DEF Reconciled
<1> HIDE DEF h, v, c
<1>3. [run EXCEPT !.head = h, !.verified = v, !.cr = c] \in RunType
  BY <1>1 DEF RunType
<1> QED
  BY <1>1, <1>2, <1>3 DEF RunType

LEMMA UpdateType ==
  ASSUME TypeOK, NEW r \in RunType, UpdateRun(r)
  PROVE  TypeOK'
BY DEF TypeOK, UpdateRun, WriteSchedule

\* Every step keeps the state well-typed.
THEOREM NextType == TypeOK /\ [Next]_vars => TypeOK'
<1> SUFFICES ASSUME TypeOK, [Next]_vars PROVE TypeOK'
  OBVIOUS
<1> USE DEF TypeOK
<1>0. /\ {"blocked", "paused", "reconciling", "brief_stale", "discovering_context"}
           \cup TerminalStates \cup ActionStates \subseteq States
      /\ run.state \in States /\ run.resume \in States \cup {None}
  BY DEF States, WaitStates, ActionStates, Dispatches, RunType
<1>1. CASE UNCHANGED vars
  BY <1>1 DEF vars
<1>2. CASE AcquireLease
  BY <1>2 DEF AcquireLease
<1>3. CASE LeaseEnds
  BY <1>3 DEF LeaseEnds
<1>4. CASE WakePasses
  <2>1. [run EXCEPT !.wake = "due"] \in RunType
    BY DEF RunType, Wakes
  <2> QED
    BY <1>4, <2>1 DEF WakePasses
<1>5. ASSUME NEW caps \in Inventories,
             NextBlocked(caps) \/ NextRebinds(caps) \/ NextCreates(caps)
      PROVE  TypeOK'
  <2>1. CASE NextBlocked(caps)
    <3>1. [run EXCEPT !.resume = run.state, !.state = "blocked",
                      !.wait = "capability", !.wake = "none"] \in RunType
      BY <1>0 DEF RunType, WaitKinds, Wakes
    <3> QED
      BY <2>1, <3>1, UpdateType DEF NextBlocked
  <2>2. CASE NextRebinds(caps)
    BY <2>2 DEF NextRebinds
  <2>3. CASE NextCreates(caps)
    BY <2>3, NoneAssumption DEF NextCreates
  <2> QED
    BY <1>5, <2>1, <2>2, <2>3
<1>6. CASE CompleteAction
  <2> USE NoneAssumption
  <2>0. PICK o \in AllowedOutcomes(run.state) :
          \/ \E head \in Heads \cup {None}, cr \in ChangeRequests \cup {None} :
               CompleteReconcile(o, head, cr)
          \/ \E brief \in Briefs : CompleteInspect(o, brief)
          \/ \E base \in Heads : CompletePrepare(o, base)
          \/ \E head \in Heads : CompleteImplement(o, head)
          \/ CompleteVerify(o)
          \/ CompleteFinalize(o)
          \/ \E cr \in ChangeRequests : CompletePublish(o, cr)
          \/ \E batch \in SUBSET Events : CompletePoll(o, batch)
          \/ \E plan \in Plans : CompleteAnalyze(o, plan)
          \/ \E head \in Heads : CompleteAddress(o, head)
          \/ CompleteResolve(o)
    BY <1>6 DEF CompleteAction
  <2>1. ASSUME NEW head \in Heads \cup {None}, NEW cr \in ChangeRequests \cup {None},
               CompleteReconcile(o, head, cr)
        PROVE  TypeOK'
    <3>1. Reconciled(head, cr) \in RunType
      BY ReconciledRun
    <3>2. CASE o = "complete" /\ run.resume # None
      <4> DEFINE r == [Reconciled(head, cr) EXCEPT !.resume = None]
      <4>1. r \in RunType
        BY <3>1 DEF RunType
      <4>2. Arrive(r, run.resume) \in RunType
        BY <4>1, <3>2, <1>0, ArriveRun
      <4> QED
        BY <2>1, <3>2, <4>2, CommitType DEF CompleteReconcile, history
    <3>3. CASE ~(o = "complete" /\ run.resume # None)
      BY <2>1, <3>1, <3>3, FollowType DEF CompleteReconcile, history
    <3> QED
      BY <3>2, <3>3
  <2>2. ASSUME NEW brief \in Briefs, CompleteInspect(o, brief) PROVE TypeOK'
    <3>1. [run EXCEPT !.brief = brief] \in RunType
      BY DEF RunType
    <3> QED
      BY <2>2, <3>1, FollowType DEF CompleteInspect, Complete, history
  <2>3. ASSUME NEW base \in Heads, CompletePrepare(o, base) PROVE TypeOK'
    <3>1. [run EXCEPT !.head = base] \in RunType
      BY DEF RunType
    <3> QED
      BY <2>3, <3>1, FollowType DEF CompletePrepare, Complete, history
  <2>4. ASSUME NEW head \in Heads, CompleteImplement(o, head) PROVE TypeOK'
    <3>1. [run EXCEPT !.head = head, !.verified = None] \in RunType
      BY DEF RunType
    <3> QED
      BY <2>4, <3>1, FollowType DEF CompleteImplement, Complete, history
  <2>5. CASE CompleteVerify(o)
    <3>1. [run EXCEPT !.verified = IF o = "passed" THEN run.head ELSE None] \in RunType
      BY DEF RunType
    <3>2. run.head \in Heads
      BY <2>5 DEF CompleteVerify, RunType
    <3> QED
      BY <2>5, <3>1, <3>2, FollowType DEF CompleteVerify
  <2>6. CASE CompleteFinalize(o)
    <3>1. [run EXCEPT !.head = run.verified] \in RunType
      BY DEF RunType
    <3> QED
      BY <2>6, <3>1, FollowType DEF CompleteFinalize, Complete, history
  <2>7. ASSUME NEW cr \in ChangeRequests, CompletePublish(o, cr) PROVE TypeOK'
    <3>1. [run EXCEPT !.cr = cr] \in RunType
      BY DEF RunType
    <3> QED
      BY <2>7, <3>1, FollowType DEF CompletePublish, Complete, history
  <2>8. ASSUME NEW batch \in SUBSET Events, CompletePoll(o, batch) PROVE TypeOK'
    <3> DEFINE new == NewEvents(batch)
               r   == [Filed(o, Actionable(new)) EXCEPT !.seen = @ \cup new]
    <3>1. Actionable(new) \subseteq Threads
      BY EventAssumption DEF Actionable, NewEvents
    <3>2. Filed(o, Actionable(new)) \in RunType
      BY <3>1 DEF Filed, RunType
    <3>3. Filed(o, Actionable(new)).seen \cup new \in SUBSET Events
      BY <3>2 DEF RunType, NewEvents
    <3>4. r \in RunType
      BY <3>2, <3>3 DEF RunType
    <3> QED
      BY <2>8, <3>4, FollowType DEF CompletePoll, Complete, history
  <2>9. ASSUME NEW plan \in Plans, CompleteAnalyze(o, plan) PROVE TypeOK'
    <3>1. [run EXCEPT !.plan = plan, !.planThreads = run.pending,
                      !.pending = {}] \in RunType
      BY DEF RunType
    <3> QED
      BY <2>9, <3>1, FollowType DEF CompleteAnalyze, Complete, history
  <2>10. ASSUME NEW head \in Heads, CompleteAddress(o, head) PROVE TypeOK'
    <3> DEFINE r == [run EXCEPT !.head = head, !.verified = head, !.plan = None,
                                !.planThreads = {}]
    <3>1. r \in RunType /\ run.planThreads \subseteq Threads
      BY DEF RunType
    <3>2. Arrive(r, "analyzing_review") \in RunType
      BY <3>1, <1>0, ArriveRun DEF ActionStates, Dispatches
    <3> QED
      BY <2>10, <3>1, <3>2, CommitType, FollowType DEF CompleteAddress
  <2>11. CASE CompleteResolve(o)
    BY <2>11, FollowType DEF CompleteResolve, Complete, history
  <2> QED
    BY <2>0, <2>1, <2>2, <2>3, <2>4, <2>5, <2>6, <2>7, <2>8, <2>9, <2>10, <2>11
<1>7. CASE CompleteDrift
  <2>1. [run EXCEPT !.resume = run.state, !.state = "brief_stale",
                    !.wait = "human", !.wake = "none"] \in RunType
    BY <1>0 DEF RunType, WaitKinds, Wakes
  <2> QED
    BY <1>7, <2>1, CommitType DEF CompleteDrift, history
<1>8. ASSUME NEW class \in FailureClasses, FailRetries(class) \/ FailBlocks(class)
      PROVE  TypeOK'
  <2> DEFINE r == [run EXCEPT !.retry = @ + 1, !.wait = "external", !.wake = "future"]
  <2>0. run.retry + 1 \in Nat
    BY DEF RunType
  <2>1. r \in RunType
    BY <2>0 DEF RunType, WaitKinds, Wakes
  <2>2. [r EXCEPT !.resume = run.state, !.state = "reconciling"] \in RunType
    BY <2>1, <1>0 DEF RunType
  <2>3. [run EXCEPT !.retry = @ + 1, !.resume = run.state, !.state = "blocked",
                    !.wait = "error", !.wake = "none"] \in RunType
    BY <1>0, <2>0 DEF RunType, WaitKinds, Wakes
  <2>4. CASE FailRetries(class)
    BY <2>1, <2>2, <2>4, CommitType DEF FailRetries, history
  <2>5. CASE FailBlocks(class)
    BY <2>3, <2>5, CommitType DEF FailBlocks, history
  <2> QED
    BY <1>8, <2>4, <2>5
<1>9. CASE Approval
  <2>1. ASSUME NEW kind, NEW hash, Approve(kind, hash),
               <<kind, hash>> \in ({"brief"} \X Briefs) \cup ({"review_plan"} \X Plans)
        PROVE  TypeOK'
    <3>1. PICK t \in Targets(run.state, "approved") :
            run' = [run EXCEPT !.state = t, !.wait = "none"]
      BY <2>1 DEF Approve
    <3>2. run' \in RunType
      BY <3>1, TargetIsState DEF RunType, WaitKinds
    <3> QED
      BY <2>1, <3>2 DEF Approve
  <2> QED
    BY <1>9, <2>1 DEF Approval
<1>10. CASE Pause
  <2>1. [run EXCEPT !.resume = run.state, !.state = "paused",
                    !.wait = "human", !.wake = "none"] \in RunType
    BY <1>0 DEF RunType, WaitKinds, Wakes
  <2> QED
    BY <1>10, <2>1, UpdateType DEF Pause
<1>11. CASE Resume
  <2> DEFINE point == IF run.resume = None THEN "discovering_context" ELSE run.resume
  <2>0. point \in States \cup {None} /\ "reconciling" \in States
    BY <1>0 DEF RunType
  <2>1. ASSUME NEW q \in States \cup {None}
        PROVE  [run EXCEPT !.resume = q, !.state = "reconciling", !.wait = "none"]
                 \in RunType
    BY <2>0 DEF RunType, WaitKinds
  <2>2. UpdateRun([run EXCEPT !.resume = point, !.state = "reconciling",
                              !.wait = "none"])
    BY <1>11 DEF Resume
  <2> QED
    BY <2>0, <2>1, <2>2, <1>11, UpdateType DEF Resume
<1>12. ASSUME NEW target \in TerminalStates, Terminal(target) PROVE TypeOK'
  <2>1. [run EXCEPT !.state = target, !.wait = "none", !.wake = "none"] \in RunType
    BY <1>0 DEF RunType, WaitKinds, Wakes
  <2> QED
    BY <1>12, <2>1, UpdateType DEF Terminal
<1> QED
  BY <1>1, <1>2, <1>3, <1>4, <1>5, <1>6, <1>7, <1>8, <1>9, <1>10, <1>11, <1>12
     DEF Next, AgentStep

\* In every reachable state the tables hold well-typed rows, and a token is
\* bound only to an action that is pending.
THEOREM TypeCorrect == Spec => []TypeOK
<1> QED
  BY InitType, NextType, PTL DEF Spec

-------------------------------------------------------------------------------
(* What a completed action does: where it leads, and what its evidence changes. *)

\* Along the table, back to the resume point, or to the analysis of a new batch.
Landing(o, r, t) ==
  \/ t \in Targets(run.state, o) /\ r.resume = run.resume
  \/ /\ action = "reconcile" /\ o = "complete" /\ run.resume # None
     /\ t = run.resume /\ r.resume = None
  \/ /\ action = "address_review" /\ o = "complete"
     /\ run.cr # None /\ run.pending # {}
     /\ t = "analyzing_review" /\ r.resume = run.resume

\* The brief is changed by its inspection only; the change request stays or is
\* set; the verified head is green; only the head that was verified is published.
HeadsAndRequest(o, r) ==
  /\ r.brief # run.brief => action = "inspect_context" /\ r.brief \in Briefs
  /\ r.cr # run.cr => r.cr # None
  /\ action = "publish_change" => r.cr # None /\ r.head = run.verified /\ r.head # None
  /\ r.verified \in green' \cup {None}
  /\ \/ green' = green
     \/ /\ action \in {"verify_change", "address_review"}
        /\ r.head # None /\ green' = green \cup {r.head}
  /\ action = "address_review" => r.head \in green'
  /\ action \in {"poll_change_request", "resolve_work_item"}
       => r.head = run.head /\ r.cr = run.cr

\* New events are seen, and the events they came with are never forgotten.
NewTypes(r) == { EventType[e] : e \in r.seen }

\* No event that came is the end of the change request.
NothingEnds(r) ==
  \A e \in r.seen \ run.seen : EventType[e] \notin {"merged", "closed", "declined"}

KeepsThreads(o, r) ==
  /\ action \notin {"analyze_review", "address_review"}
  /\ action = "poll_change_request" => o \notin {"feedback", "feedback_overlap"}
  /\ r.plan = run.plan /\ r.planThreads = run.planThreads
  /\ r.pending = run.pending /\ answered' = answered
  /\ \/ \A e \in r.seen \ run.seen : EventType[e] # "actionable_comment"
     \/ ~NothingEnds(r)
FilesThreads(o, r) ==
  /\ action = "poll_change_request"
  /\ \/ o = "feedback" /\ run.plan = None
     \/ o = "feedback_independent"
  /\ r.plan = run.plan /\ r.planThreads = run.planThreads
  /\ answered' = answered /\ r.pending # {} /\ NothingEnds(r)
  /\ r.pending = run.pending \cup { ThreadOf[e] : e \in
       { f \in r.seen \ run.seen : EventType[f] = "actionable_comment" } }
MergesThreads(o, r) ==
  /\ action = "poll_change_request" /\ o = "feedback_overlap"
  /\ r.plan = None /\ r.planThreads = {} /\ answered' = answered
  /\ r.pending # {} /\ NothingEnds(r)
  /\ r.pending = run.pending \cup run.planThreads \cup { ThreadOf[e] : e \in
       { f \in r.seen \ run.seen : EventType[f] = "actionable_comment" } }
PlansThreads(r) ==
  /\ action = "analyze_review" /\ run.pending # {}
  /\ r.plan \in Plans /\ r.planThreads = run.pending /\ r.pending = {}
  /\ r.seen = run.seen /\ answered' = answered
AnswersThreads(r) ==
  /\ action = "address_review"
  /\ r.plan = None /\ r.planThreads = {} /\ r.pending = run.pending
  /\ r.seen = run.seen /\ answered' = answered \cup run.planThreads

ReviewThreads(o, r) ==
  /\ run.seen \subseteq r.seen
  /\ action # "poll_change_request" => r.seen = run.seen
  /\ action = "poll_change_request" /\ o = "merged" => "merged" \in NewTypes(r)
  /\ "merged" \in NewTypes(r) \ SeenTypes => o \in {"merged", "closed"}
  /\ \/ KeepsThreads(o, r)
     \/ FilesThreads(o, r)
     \/ MergesThreads(o, r)
     \/ PlansThreads(r)
     \/ AnswersThreads(r)

Completed(o, r, t) ==
  /\ CommitAction(Arrive(r, t))
  /\ lease = "bound"
  /\ Targets(run.state, o) # {}
  /\ Landing(o, r, t)
  /\ HeadsAndRequest(o, r)
  /\ ReviewThreads(o, r)

\* A completion that follows the table.
LEMMA CompletedAlong ==
  ASSUME TypeOK, NEW o, NEW r \in RunType, NEW type,
         Delivered(type), Follow(r, o), r.resume = run.resume,
         HeadsAndRequest(o, r), ReviewThreads(o, r)
  PROVE  \E t \in States : Completed(o, r, t)
<1>1. PICK t \in Targets(run.state, o) : CommitAction(Arrive(r, t))
  BY DEF Follow
<1>2. t \in States
  BY TargetIsState
<1>3. Completed(o, r, t)
  BY <1>1 DEF Completed, Landing, Delivered
<1> QED
  BY <1>2, <1>3

\* Evidence that has nothing to do with the review.
LEMMA ReviewUntouched ==
  ASSUME NEW o, NEW r, answered' = answered,
         action \notin {"poll_change_request", "analyze_review", "address_review"},
         r.plan = run.plan, r.planThreads = run.planThreads,
         r.pending = run.pending, r.seen = run.seen
  PROVE  ReviewThreads(o, r)
BY DEF ReviewThreads, KeepsThreads, NewTypes, SeenTypes

\* What a completed action of any type does to the run.
LEMMA Completion ==
  ASSUME TypeOK, VerifiedIsGreen, CompleteAction
  PROVE  \E o \in AllowedOutcomes(run.state), r \in RunType, t \in States :
           Completed(o, r, t)
<1> USE NoneAssumption DEF TypeOK
<1>0. PICK o \in AllowedOutcomes(run.state) :
        \/ \E head \in Heads \cup {None}, cr \in ChangeRequests \cup {None} :
             CompleteReconcile(o, head, cr)
        \/ \E brief \in Briefs : CompleteInspect(o, brief)
        \/ \E base \in Heads : CompletePrepare(o, base)
        \/ \E head \in Heads : CompleteImplement(o, head)
        \/ CompleteVerify(o)
        \/ CompleteFinalize(o)
        \/ \E cr \in ChangeRequests : CompletePublish(o, cr)
        \/ \E batch \in SUBSET Events : CompletePoll(o, batch)
        \/ \E plan \in Plans : CompleteAnalyze(o, plan)
        \/ \E head \in Heads : CompleteAddress(o, head)
        \/ CompleteResolve(o)
  BY DEF CompleteAction
<1> SUFFICES \E r \in RunType, t \in States : Completed(o, r, t)
  OBVIOUS
<1>1. ASSUME NEW head \in Heads \cup {None}, NEW cr \in ChangeRequests \cup {None},
             CompleteReconcile(o, head, cr)
      PROVE  \E r \in RunType, t \in States : Completed(o, r, t)
  <2> DEFINE r0 == Reconciled(head, cr)
             r1 == [r0 EXCEPT !.resume = None]
  <2>1. /\ r0 \in RunType /\ r0.resume = run.resume /\ r0.brief = run.brief
        /\ r0.verified \in {run.verified, None}
        /\ r0.cr # run.cr => r0.cr # None
        /\ r0.plan = run.plan /\ r0.planThreads = run.planThreads
        /\ r0.pending = run.pending /\ r0.seen = run.seen
    BY ReconciledRun
  <2>2. action = "reconcile" /\ green' = green /\ answered' = answered
    BY <1>1 DEF CompleteReconcile, Delivered, history
  <2>3. HeadsAndRequest(o, r0) /\ ReviewThreads(o, r0)
    BY <2>1, <2>2, ReviewUntouched DEF HeadsAndRequest, VerifiedIsGreen
  <2> HIDE DEF r0
  <2>4. /\ r1 \in RunType /\ r1.resume = None
        /\ HeadsAndRequest(o, r1) /\ ReviewThreads(o, r1)
    <3>1. /\ r1 \in RunType /\ r1.resume = None /\ r1.brief = r0.brief
          /\ r1.verified = r0.verified /\ r1.cr = r0.cr /\ r1.head = r0.head
          /\ r1.plan = r0.plan /\ r1.planThreads = r0.planThreads
          /\ r1.pending = r0.pending /\ r1.seen = r0.seen
      BY <2>1 DEF RunType
    <3>2. HeadsAndRequest(o, r1)
      BY <3>1, <2>3 DEF HeadsAndRequest
    <3>3. /\ r1.plan = run.plan /\ r1.planThreads = run.planThreads
          /\ r1.pending = run.pending /\ r1.seen = run.seen
      BY <3>1, <2>1
    <3> HIDE DEF r1
    <3>4. ReviewThreads(o, r1)
      BY <3>3, <2>2, ReviewUntouched
    <3> QED
      BY <3>1, <3>2, <3>4
  <2>5. CASE o = "complete" /\ run.resume # None
    <3>1. run.resume \in States
      BY <2>5 DEF RunType
    <3>2. Completed(o, r1, run.resume)
      BY <1>1, <2>2, <2>4, <2>5 DEF CompleteReconcile, Completed, Landing, Delivered, r0
    <3> QED
      BY <2>4, <3>1, <3>2
  <2>6. CASE ~(o = "complete" /\ run.resume # None)
    <3>1. Follow(r0, o) /\ Delivered("reconcile")
      BY <1>1, <2>6 DEF CompleteReconcile, r0
    <3> QED
      BY <2>1, <2>3, <3>1, CompletedAlong
  <2> QED
    BY <2>5, <2>6
<1>2. ASSUME NEW brief \in Briefs, CompleteInspect(o, brief)
      PROVE  \E r \in RunType, t \in States : Completed(o, r, t)
  <2> DEFINE r == [run EXCEPT !.brief = brief]
  <2>1. /\ r \in RunType /\ r.resume = run.resume
        /\ r.plan = run.plan /\ r.planThreads = run.planThreads
        /\ r.pending = run.pending /\ r.seen = run.seen
        /\ r.verified = run.verified /\ r.cr = run.cr /\ r.brief = brief
    BY <1>2 DEF RunType, CompleteInspect
  <2>2. /\ Delivered("inspect_context") /\ Follow(r, o) /\ action = "inspect_context"
        /\ answered' = answered
    BY <1>2 DEF CompleteInspect, Complete, Delivered, history
  <2>3. HeadsAndRequest(o, r) /\ ReviewThreads(o, r)
    BY <1>2, <2>1, <2>2, ReviewUntouched
       DEF HeadsAndRequest, VerifiedIsGreen, CompleteInspect, Complete, history
  <2> QED
    BY <2>1, <2>2, <2>3, CompletedAlong
<1>3. ASSUME NEW base \in Heads, CompletePrepare(o, base)
      PROVE  \E r \in RunType, t \in States : Completed(o, r, t)
  <2> DEFINE r == [run EXCEPT !.head = base]
  <2>1. /\ r \in RunType /\ r.resume = run.resume /\ r.brief = run.brief
        /\ r.plan = run.plan /\ r.planThreads = run.planThreads
        /\ r.pending = run.pending /\ r.seen = run.seen
        /\ r.verified = run.verified /\ r.cr = run.cr
    BY <1>3 DEF RunType, CompletePrepare
  <2>2. /\ Delivered("prepare_workspace") /\ Follow(r, o) /\ action = "prepare_workspace"
        /\ answered' = answered
    BY <1>3 DEF CompletePrepare, Complete, Delivered, history
  <2>3. HeadsAndRequest(o, r) /\ ReviewThreads(o, r)
    BY <1>3, <2>1, <2>2, ReviewUntouched
       DEF HeadsAndRequest, VerifiedIsGreen, CompletePrepare, Complete, history
  <2> QED
    BY <2>1, <2>2, <2>3, CompletedAlong
<1>4. ASSUME NEW head \in Heads, CompleteImplement(o, head)
      PROVE  \E r \in RunType, t \in States : Completed(o, r, t)
  <2> DEFINE r == [run EXCEPT !.head = head, !.verified = None]
  <2>1. /\ r \in RunType /\ r.resume = run.resume /\ r.brief = run.brief
        /\ r.plan = run.plan /\ r.planThreads = run.planThreads
        /\ r.pending = run.pending /\ r.seen = run.seen
        /\ r.verified = None /\ r.cr = run.cr
    BY <1>4 DEF RunType, CompleteImplement
  <2>2. /\ Delivered("implement_change") /\ Follow(r, o) /\ action = "implement_change"
        /\ answered' = answered
    BY <1>4 DEF CompleteImplement, Complete, Delivered, history
  <2>3. HeadsAndRequest(o, r) /\ ReviewThreads(o, r)
    BY <1>4, <2>1, <2>2, ReviewUntouched
       DEF HeadsAndRequest, VerifiedIsGreen, CompleteImplement, Complete, history
  <2> QED
    BY <2>1, <2>2, <2>3, CompletedAlong
<1>5. CASE CompleteVerify(o)
  <2> DEFINE r == [run EXCEPT !.verified = IF o = "passed" THEN run.head ELSE None]
  <2>1. /\ r \in RunType /\ r.resume = run.resume /\ r.brief = run.brief
        /\ r.plan = run.plan /\ r.planThreads = run.planThreads
        /\ r.pending = run.pending /\ r.seen = run.seen
        /\ r.cr = run.cr /\ r.head = run.head
        /\ r.verified = IF o = "passed" THEN run.head ELSE None
    BY <1>5 DEF RunType, CompleteVerify
  <2>2. /\ Delivered("verify_change") /\ Follow(r, o) /\ action = "verify_change"
        /\ answered' = answered
    BY <1>5 DEF CompleteVerify, Delivered
  <2>3. ReviewThreads(o, r)
    BY <2>1, <2>2, ReviewUntouched
  <2>4. run.head # None /\ green' = IF o = "passed" THEN green \cup {run.head} ELSE green
    BY <1>5 DEF CompleteVerify
  <2>5. HeadsAndRequest(o, r)
    BY <2>1, <2>2, <2>4 DEF HeadsAndRequest
  <2> QED
    BY <2>1, <2>2, <2>3, <2>5, CompletedAlong
<1>6. CASE CompleteFinalize(o)
  <2> DEFINE r == [run EXCEPT !.head = run.verified]
  <2>1. /\ r \in RunType /\ r.resume = run.resume /\ r.brief = run.brief
        /\ r.plan = run.plan /\ r.planThreads = run.planThreads
        /\ r.pending = run.pending /\ r.seen = run.seen
        /\ r.verified = run.verified /\ r.cr = run.cr
    BY <1>6 DEF RunType, CompleteFinalize
  <2>2. /\ Delivered("finalize_change") /\ Follow(r, o) /\ action = "finalize_change"
        /\ answered' = answered
    BY <1>6 DEF CompleteFinalize, Complete, Delivered, history
  <2>3. HeadsAndRequest(o, r) /\ ReviewThreads(o, r)
    BY <1>6, <2>1, <2>2, ReviewUntouched
       DEF HeadsAndRequest, VerifiedIsGreen, CompleteFinalize, Complete, history
  <2> QED
    BY <2>1, <2>2, <2>3, CompletedAlong
<1>7. ASSUME NEW cr \in ChangeRequests, CompletePublish(o, cr)
      PROVE  \E r \in RunType, t \in States : Completed(o, r, t)
  <2> DEFINE r == [run EXCEPT !.cr = cr]
  <2>1. /\ r \in RunType /\ r.resume = run.resume /\ r.brief = run.brief
        /\ r.plan = run.plan /\ r.planThreads = run.planThreads
        /\ r.pending = run.pending /\ r.seen = run.seen
        /\ r.verified = run.verified /\ r.cr = cr /\ r.head = run.head
    BY <1>7 DEF RunType, CompletePublish
  <2>2. /\ Delivered("publish_change") /\ Follow(r, o) /\ action = "publish_change"
        /\ answered' = answered
    BY <1>7 DEF CompletePublish, Complete, Delivered, history
  <2>3. HeadsAndRequest(o, r) /\ ReviewThreads(o, r)
    BY <1>7, <2>1, <2>2, ReviewUntouched
       DEF HeadsAndRequest, VerifiedIsGreen, CompletePublish, Publishable, Complete, history
  <2> QED
    BY <2>1, <2>2, <2>3, CompletedAlong
<1>8. ASSUME NEW batch \in SUBSET Events, CompletePoll(o, batch)
      PROVE  \E r \in RunType, t \in States : Completed(o, r, t)
  <2> DEFINE new == NewEvents(batch)
             f   == Filed(o, Actionable(new))
             r   == [f EXCEPT !.seen = @ \cup new]
  <2>1. Actionable(new) \subseteq Threads /\ new \subseteq Events
    BY EventAssumption DEF Actionable, NewEvents
  <2>2. f \in RunType /\ f.seen = run.seen
    BY <2>1 DEF Filed, RunType
  <2>3. /\ r \in RunType /\ r.seen = run.seen \cup new
        /\ r.resume = f.resume /\ r.brief = f.brief /\ r.head = f.head
        /\ r.verified = f.verified /\ r.cr = f.cr
        /\ r.plan = f.plan /\ r.planThreads = f.planThreads /\ r.pending = f.pending
    BY <2>1, <2>2 DEF RunType
  <2>4. /\ f.resume = run.resume /\ f.brief = run.brief /\ f.head = run.head
        /\ f.verified = run.verified /\ f.cr = run.cr
    BY DEF Filed, RunType
  <2>5. /\ Delivered("poll_change_request") /\ Follow(r, o)
        /\ action = "poll_change_request"
        /\ green' = green /\ answered' = answered
        /\ o \in PollOutcomes(new)
    BY <1>8 DEF CompletePoll, Complete, Delivered, history
  <2>6. r.seen \ run.seen = new
    BY <2>3 DEF NewEvents
  <2>7. HeadsAndRequest(o, r)
    BY <2>3, <2>4, <2>5 DEF HeadsAndRequest, VerifiedIsGreen
  <2>8. ReviewThreads(o, r)
    <3>0. /\ TerminalOutcomes(new) = {} => NothingEnds(r)
          /\ NothingEnds(r) => "merged" \notin NewTypes(r) \ SeenTypes
      BY <2>3, <2>6 DEF TerminalOutcomes, NothingEnds, NewTypes, SeenTypes
    <3>1. CASE TerminalOutcomes(new) # {}
      <4>1. o \in TerminalOutcomes(new)
        BY <2>5, <3>1 DEF PollOutcomes
      <4>2. PICK e \in new : /\ EventType[e] \in {"merged", "closed", "declined"}
                             /\ o = IF EventType[e] = "merged" THEN "merged" ELSE "closed"
        BY <4>1 DEF TerminalOutcomes
      <4>3. f = run
        BY <4>2 DEF Filed
      <4>4. EventType[e] \in NewTypes(r) /\ ~NothingEnds(r)
        BY <2>3, <2>6, <4>2 DEF NewTypes, NothingEnds
      <4> QED
        BY <2>3, <2>5, <4>2, <4>3, <4>4 DEF ReviewThreads, KeepsThreads
    <3>2. CASE TerminalOutcomes(new) = {} /\ Actionable(new) = {}
      <4>1. o = "no_change" /\ f = run
        BY <2>5, <3>2 DEF PollOutcomes, Filed
      <4>2. \A e \in new : EventType[e] # "actionable_comment"
        BY <3>2 DEF Actionable
      <4> QED
        BY <2>3, <2>5, <2>6, <3>0, <3>2, <4>1, <4>2 DEF ReviewThreads, KeepsThreads
    <3>3. CASE TerminalOutcomes(new) = {} /\ Actionable(new) # {}
      <4>1. \/ o = "feedback" /\ run.plan = None
            \/ o = "feedback_independent" \/ o = "feedback_overlap"
        BY <2>5, <3>3 DEF PollOutcomes
      <4>2. CASE o = "feedback_overlap"
        <5>1. /\ f.plan = None /\ f.planThreads = {}
              /\ f.pending = run.pending \cup run.planThreads \cup Actionable(new)
          BY <4>2 DEF Filed, RunType
        <5> QED
          BY <2>3, <2>5, <2>6, <3>0, <3>3, <4>2, <5>1
             DEF ReviewThreads, MergesThreads, Actionable
      <4>3. CASE o # "feedback_overlap"
        <5>1. /\ f.plan = run.plan /\ f.planThreads = run.planThreads
              /\ f.pending = run.pending \cup Actionable(new)
          BY <4>1, <4>3 DEF Filed, RunType
        <5> QED
          BY <2>3, <2>5, <2>6, <3>0, <3>3, <4>1, <4>3, <5>1
             DEF ReviewThreads, FilesThreads, Actionable
      <4> QED
        BY <4>2, <4>3
    <3> QED
      BY <3>1, <3>2, <3>3
  <2> QED
    BY <2>3, <2>4, <2>5, <2>7, <2>8, CompletedAlong
<1>9. ASSUME NEW plan \in Plans, CompleteAnalyze(o, plan)
      PROVE  \E r \in RunType, t \in States : Completed(o, r, t)
  <2> DEFINE r == [run EXCEPT !.plan = plan, !.planThreads = run.pending, !.pending = {}]
  <2>1. /\ r \in RunType /\ r.resume = run.resume /\ r.brief = run.brief
        /\ r.plan = plan /\ r.planThreads = run.pending
        /\ r.pending = {} /\ r.seen = run.seen
        /\ r.verified = run.verified /\ r.cr = run.cr
    BY DEF RunType
  <2>2. /\ Delivered("analyze_review") /\ Follow(r, o) /\ action = "analyze_review"
        /\ green' = green /\ answered' = answered /\ run.pending # {}
    BY <1>9 DEF CompleteAnalyze, Complete, Delivered, history
  <2>3. HeadsAndRequest(o, r) /\ ReviewThreads(o, r)
    BY <2>1, <2>2 DEF HeadsAndRequest, VerifiedIsGreen, ReviewThreads, PlansThreads,
       NewTypes, SeenTypes
  <2> QED
    BY <2>1, <2>2, <2>3, CompletedAlong
<1>10. ASSUME NEW head \in Heads, CompleteAddress(o, head)
       PROVE  \E r \in RunType, t \in States : Completed(o, r, t)
  <2> DEFINE r == [run EXCEPT !.head = head, !.verified = head, !.plan = None,
                              !.planThreads = {}]
  <2>1. /\ r \in RunType /\ r.resume = run.resume /\ r.brief = run.brief
        /\ r.plan = None /\ r.planThreads = {}
        /\ r.pending = run.pending /\ r.seen = run.seen
        /\ r.verified = head /\ r.cr = run.cr /\ r.head = head
    BY DEF RunType
  <2>2. /\ Delivered("address_review") /\ action = "address_review"
        /\ green' = green \cup {head} /\ answered' = answered \cup run.planThreads
        /\ run.cr # None
    BY <1>10 DEF CompleteAddress, Delivered
  <2>3. HeadsAndRequest(o, r) /\ ReviewThreads(o, r)
    BY <2>1, <2>2 DEF HeadsAndRequest, ReviewThreads, AnswersThreads, NewTypes, SeenTypes
  <2>4. CASE AnalysesNext(o)
    <3>1. "analyzing_review" \in States
      BY DEF States, ActionStates, Dispatches
    <3>2. Completed(o, r, "analyzing_review")
      BY <1>10, <2>1, <2>2, <2>3, <2>4
         DEF CompleteAddress, AnalysesNext, Completed, Landing, Delivered
    <3> QED
      BY <2>1, <3>1, <3>2
  <2>5. CASE ~AnalysesNext(o)
    <3>1. Follow(r, o)
      BY <1>10, <2>5 DEF CompleteAddress
    <3> QED
      BY <2>1, <2>2, <2>3, <3>1, CompletedAlong
  <2> QED
    BY <2>4, <2>5
<1>11. CASE CompleteResolve(o)
  <2>1. /\ Delivered("resolve_work_item") /\ Follow(run, o)
        /\ action = "resolve_work_item" /\ answered' = answered
    BY <1>11 DEF CompleteResolve, Complete, Delivered, history
  <2>2. HeadsAndRequest(o, run) /\ ReviewThreads(o, run)
    BY <1>11, <2>1, ReviewUntouched
       DEF HeadsAndRequest, VerifiedIsGreen, CompleteResolve, Complete, history
  <2> QED
    BY <2>1, <2>2, CompletedAlong
<1> QED
  BY <1>0, <1>1, <1>2, <1>3, <1>4, <1>5, <1>6, <1>7, <1>8, <1>9, <1>10, <1>11

-------------------------------------------------------------------------------
(* The rows that follow the state: pending action, lease and schedule. *)

Control ==
  /\ GateHasNoAction
  /\ BoundIsWorkable
  /\ ResumeIsNotFinal
  /\ StoppedHasNoWake
  /\ ScheduleMirrorsWake

LEMMA KindsOfStates ==
  /\ ActionStates \cap (GateStates \cup WaitStates \cup TerminalStates) = {}
  /\ GateStates \cap (WaitStates \cup TerminalStates) = {}
  /\ WaitStates \cap TerminalStates = {}
  /\ RetryStates \subseteq ActionStates
  /\ {"reconciling", "brief_stale", "discovering_context"} \subseteq ActionStates
BY DEF ActionStates, Dispatches, GateStates, WaitStates, TerminalStates, RetryStates,
       SafeReadStates, ReconciledWriteStates, BriefGate, PlanGate

\* A delivered action was handed out where an action can be worked on.
LEMMA DeliveredWorks ==
  ASSUME TypeOK, BoundIsWorkable, NEW type, Delivered(type)
  PROVE  run.state \in ActionStates /\ type \in ActionTypes
BY DEF TypeOK, BoundIsWorkable, Delivered

LEMMA InitControl == Init => Control
BY NoneAssumption, KindsOfStates
   DEF Init, NewRun, Control, GateHasNoAction, BoundIsWorkable, ResumeIsNotFinal,
       StoppedHasNoWake, ScheduleMirrorsWake, States

LEMMA NextControl == TypeOK /\ VerifiedIsGreen /\ Control /\ [Next]_vars => Control'
<1> SUFFICES ASSUME TypeOK, VerifiedIsGreen, Control, [Next]_vars PROVE Control'
  OBVIOUS
<1> USE KindsOfStates, NoneAssumption
    DEF Control, GateHasNoAction, BoundIsWorkable, ResumeIsNotFinal,
        StoppedHasNoWake, ScheduleMirrorsWake
<1>0. run \in RunType /\ run.state \in States
  BY DEF TypeOK, RunType
<1>1. CASE UNCHANGED vars
  BY <1>1 DEF vars
<1>2. CASE AcquireLease \/ LeaseEnds
  BY <1>2 DEF AcquireLease, LeaseEnds
<1>3. CASE WakePasses
  BY <1>0, <1>3 DEF WakePasses, RunType
<1>4. ASSUME NEW caps \in Inventories,
             NextBlocked(caps) \/ NextRebinds(caps) \/ NextCreates(caps)
      PROVE  Control'
  <2>1. run.state \in ActionStates
    BY <1>4 DEF NextBlocked, NextRebinds, NextCreates, Dispatchable
  <2>2. CASE NextBlocked(caps)
    BY <1>0, <2>1, <2>2 DEF NextBlocked, UpdateRun, WriteSchedule, LeaseGivenUp, RunType,
         WaitStates
  <2>3. CASE NextRebinds(caps) \/ NextCreates(caps)
    BY <2>1, <2>3 DEF NextRebinds, NextCreates
  <2> QED
    BY <1>4, <2>2, <2>3
<1>5. CASE CompleteAction
  <2>1. PICK o \in AllowedOutcomes(run.state), r \in RunType, t \in States :
          Completed(o, r, t)
    BY <1>5, Completion
  <2>2. Arrive(r, t).state = t /\ Arrive(r, t).resume = r.resume
    BY ArriveRun
  <2>3. Arrive(r, t).wake = (IF t = "awaiting_review" THEN "future" ELSE "none")
    BY DEF Arrive, RunType
  <2>4. r.resume \in {run.resume, None} /\ "awaiting_review" \in ActionStates
    BY <2>1 DEF Completed, Landing, ActionStates, Dispatches
  <2>5. None \notin TerminalStates
    BY DEF States
  <2> QED
    BY <2>1, <2>2, <2>3, <2>4, <2>5 DEF Completed, CommitAction, WriteSchedule
<1>6. CASE CompleteDrift
  <2>1. run.state \in ActionStates
    BY <1>6, DeliveredWorks DEF CompleteDrift, DriftReported
  <2> QED
    BY <1>0, <1>6, <2>1 DEF CompleteDrift, CommitAction, WriteSchedule, RunType
<1>7. ASSUME NEW class \in FailureClasses, FailRetries(class) \/ FailBlocks(class)
      PROVE  Control'
  <2>1. run.state \in ActionStates
    BY <1>7, DeliveredWorks DEF FailRetries, FailBlocks
  <2>2. CASE FailRetries(class)
    BY <1>0, <2>1, <2>2 DEF FailRetries, CommitAction, WriteSchedule, RunType
  <2>3. CASE FailBlocks(class)
    BY <1>0, <2>1, <2>3 DEF FailBlocks, CommitAction, WriteSchedule, RunType, WaitStates
  <2> QED
    BY <1>7, <2>2, <2>3
<1>8. CASE Approval
  <2>1. ASSUME NEW kind, NEW hash, Approve(kind, hash) PROVE Control'
    <3>1. run.state \in GateStates /\ action' = None /\ lease' # "bound"
      BY <2>1 DEF Approve, AtGateFor, GateStates, TypeOK
    <3>2. run'.wake = "none" /\ run'.resume = run.resume /\ schedule' = FALSE
      BY <1>0, <2>1, <3>1 DEF Approve, RunType
    <3> QED
      BY <3>1, <3>2
  <2> QED
    BY <1>8, <2>1 DEF Approval
<1>9. CASE Pause
  BY <1>0, <1>9 DEF Pause, UpdateRun, WriteSchedule, LeaseGivenUp, RunType, WaitStates
<1>10. CASE Resume
  BY <1>0, <1>10 DEF Resume, UpdateRun, WriteSchedule, RunType, WaitStates
<1>11. ASSUME NEW target \in TerminalStates, Terminal(target) PROVE Control'
  BY <1>0, <1>11 DEF Terminal, UpdateRun, WriteSchedule, LeaseGivenUp, RunType
<1> QED
  BY <1>1, <1>2, <1>3, <1>4, <1>5, <1>6, <1>7, <1>8, <1>9, <1>10, <1>11
     DEF Next, AgentStep

-------------------------------------------------------------------------------
(* The shapes of the other steps: how state, resume point and pending action   *)
(* move when no action is completed.                                           *)

Stays ==
  /\ run'.state = run.state /\ run'.resume = run.resume /\ approvals' = approvals
  /\ \/ action' = action
     \/ action # None /\ action' = None /\ run.state \in ActionStates
     \/ action = None /\ <<run.state, action'>> \in Dispatches
Stops ==
  /\ run.state \notin TerminalStates
  /\ run'.state \in {"blocked", "paused", "brief_stale", "reconciling"}
  /\ run'.resume = run.state /\ action' \in {action, None} /\ approvals' = approvals
  /\ run'.state \in {"brief_stale", "reconciling"} => action # None /\ action' = None
  /\ action' # action => run.state \in ActionStates /\ run'.state # "paused"
  /\ run'.state = "reconciling" => run.state \in ReconciledWriteStates
Resumes ==
  /\ run.state \in WaitStates /\ run'.state = "reconciling"
  /\ run'.resume \in {run.resume, "discovering_context"} /\ action' = action
  /\ approvals' = approvals
Approves ==
  /\ run.state \in GateStates /\ run'.state \in Targets(run.state, "approved")
  /\ run'.resume = run.resume /\ action' = action
  /\ run.state = BriefGate
       => run.brief \in Briefs /\ approvals' = approvals \cup {<<"brief", run.brief>>}
  /\ run.state = PlanGate
       => run.plan \in Plans
          /\ approvals' = approvals \cup {<<"review_plan", run.plan>>}
Ends ==
  /\ run.state # "resolved" /\ run'.state \in TerminalStates \ {"resolved"}
  /\ run'.resume = run.resume /\ action' = action /\ approvals' = approvals

\* Nothing a completed action changes is changed.
Untouched ==
  /\ run'.brief = run.brief /\ run'.head = run.head /\ run'.verified = run.verified
  /\ run'.cr = run.cr /\ run'.plan = run.plan /\ run'.planThreads = run.planThreads
  /\ run'.pending = run.pending /\ run'.seen = run.seen
  /\ green' = green /\ answered' = answered /\ approvals \subseteq approvals'

\* What every other step does: the work data stays, and the state moves in one of
\* five ways.
LEMMA StepShape ==
  ASSUME TypeOK, Control, [Next]_vars, ~CompleteAction
  PROVE  Untouched /\ (Stays \/ Stops \/ Resumes \/ Approves \/ Ends)
<1> USE KindsOfStates DEF Untouched
<1>0. run \in RunType /\ run.state \in States
  BY DEF TypeOK, RunType
<1>1. CASE UNCHANGED vars
  BY <1>1 DEF vars, Stays
<1>2. CASE AcquireLease \/ LeaseEnds
  BY <1>2 DEF AcquireLease, LeaseEnds, Stays
<1>3. CASE WakePasses
  BY <1>0, <1>3 DEF WakePasses, RunType, Stays
<1>4. ASSUME NEW caps \in Inventories,
             NextBlocked(caps) \/ NextRebinds(caps) \/ NextCreates(caps)
      PROVE  Untouched /\ (Stays \/ Stops)
  <2>1. run.state \in ActionStates
    BY <1>4 DEF NextBlocked, NextRebinds, NextCreates, Dispatchable
  <2>2. CASE NextBlocked(caps)
    BY <1>0, <2>1, <2>2 DEF NextBlocked, UpdateRun, RunType, Stops
  <2>3. CASE NextRebinds(caps) \/ NextCreates(caps)
    BY <2>3 DEF NextRebinds, NextCreates, Stays
  <2> QED
    BY <1>4, <2>2, <2>3
<1>5. CASE CompleteDrift
  <2>1. run.state \in ActionStates
    BY <1>5, DeliveredWorks DEF CompleteDrift, DriftReported, Control
  <2>2. action # None
    BY <1>5 DEF CompleteDrift, DriftReported, Delivered, TypeOK
  <2> QED
    BY <1>0, <1>5, <2>1, <2>2 DEF CompleteDrift, CommitAction, RunType, Stops, history
<1>6. ASSUME NEW class \in FailureClasses, FailRetries(class) \/ FailBlocks(class)
      PROVE  Untouched /\ (Stays \/ Stops)
  <2>1. run.state \in ActionStates
    BY <1>6, DeliveredWorks DEF FailRetries, FailBlocks, Control
  <2>2. CASE FailRetries(class)
    BY <1>0, <2>1, <2>2 DEF FailRetries, CommitAction, RunType, Stays, Stops, history
  <2>3. CASE FailBlocks(class)
    BY <1>0, <2>1, <2>3 DEF FailBlocks, CommitAction, RunType, Stops, history
  <2> QED
    BY <1>6, <2>2, <2>3
<1>7. CASE Approval
  <2>1. ASSUME NEW hash \in Briefs, Approve("brief", hash)
        PROVE  Untouched /\ Approves
    <3>1. /\ run.state = BriefGate /\ hash = run.brief
          /\ BriefGate \in GateStates /\ PlanGate # BriefGate
      BY <2>1 DEF Approve, AtGateFor, GateStates, PlanGate, BriefGate
    <3>2. approvals' = approvals \cup {<<"brief", run.brief>>} /\ run.brief \in Briefs
      BY <2>1, <3>1 DEF Approve
    <3> QED
      BY <1>0, <2>1, <3>1, <3>2 DEF Approve, Approves, RunType
  <2>2. ASSUME NEW hash \in Plans, Approve("review_plan", hash)
        PROVE  Untouched /\ Approves
    <3>1. /\ run.state = PlanGate /\ hash = run.plan
          /\ PlanGate \in GateStates /\ PlanGate # BriefGate
      BY <2>2 DEF Approve, AtGateFor, GateStates, PlanGate, BriefGate
    <3> QED
      BY <1>0, <2>2, <3>1 DEF Approve, Approves, RunType
  <2> QED
    BY <1>7, <2>1, <2>2 DEF Approval
<1>8. CASE Pause
  BY <1>0, <1>8 DEF Pause, UpdateRun, RunType, Stops
<1>9. CASE Resume
  BY <1>0, <1>9 DEF Resume, UpdateRun, RunType, Resumes, WaitStates
<1>10. ASSUME NEW target \in TerminalStates, Terminal(target)
       PROVE  Untouched /\ Ends
  BY <1>0, <1>10 DEF Terminal, UpdateRun, RunType, Ends, TerminalStates
<1> QED
  BY <1>1, <1>2, <1>3, <1>4, <1>5, <1>6, <1>7, <1>8, <1>9, <1>10
     DEF Next, AgentStep

\* What a completion leaves in the variables.
LEMMA CompletionShape ==
  ASSUME TypeOK, VerifiedIsGreen, BoundIsWorkable, CompleteAction
  PROVE  \E o \in Outcomes, r \in RunType, t \in States :
           /\ Completed(o, r, t)
           /\ run.state \in ActionStates /\ action # None /\ action' = None
           /\ run'.state = t /\ run'.resume = r.resume
           /\ run'.brief = r.brief
           /\ run'.head = r.head /\ run'.verified = r.verified /\ run'.cr = r.cr
           /\ run'.plan = r.plan /\ run'.planThreads = r.planThreads
           /\ run'.pending = r.pending /\ run'.seen = r.seen
           /\ approvals' = approvals
<1>1. PICK o \in AllowedOutcomes(run.state), r \in RunType, t \in States :
        Completed(o, r, t)
  BY Completion
<1>0. o \in Outcomes
  BY DEF AllowedOutcomes, Outcomes
<1>2. run.state \in ActionStates /\ action # None
  BY <1>1 DEF Completed, BoundIsWorkable, TypeOK
<1>3. run' = Arrive(r, t) /\ action' = None /\ approvals' = approvals
  BY <1>1 DEF Completed, CommitAction
<1>4. /\ run'.state = t /\ run'.resume = r.resume /\ run'.brief = r.brief
      /\ run'.head = r.head /\ run'.verified = r.verified /\ run'.cr = r.cr
      /\ run'.plan = r.plan /\ run'.planThreads = r.planThreads
      /\ run'.pending = r.pending /\ run'.seen = r.seen
  BY <1>3, ArriveRun
<1> QED
  BY <1>0, <1>1, <1>2, <1>3, <1>4

-------------------------------------------------------------------------------
(* The pending action fits the state. *)

\* The action that is pending goes on to fit the state.
LEMMA NextFits ==
  ActionFitsState /\ TypeOK /\ VerifiedIsGreen /\ Control /\ [Next]_vars
    => ActionFitsState'
<1> SUFFICES ASSUME ActionFitsState, TypeOK, VerifiedIsGreen, Control, [Next]_vars
             PROVE  ActionFitsState'
  OBVIOUS
<1> USE KindsOfStates DEF ActionFitsState
<1>1. CASE CompleteAction
  BY <1>1, CompletionShape DEF Control
<1>2. CASE ~CompleteAction
  <2>1. CASE Stays
    BY <2>1 DEF Stays
  <2>2. CASE Stops
    BY <2>2 DEF Stops, WaitStates
  <2>3. CASE Resumes
    BY <2>3 DEF Resumes
  <2>4. CASE Approves
    BY <2>4, NoneAssumption DEF Approves, Control, GateHasNoAction
  <2>5. CASE Ends
    BY <2>5 DEF Ends
  <2> QED
    BY <1>2, <2>1, <2>2, <2>3, <2>4, <2>5, StepShape
<1> QED
  BY <1>1, <1>2

-------------------------------------------------------------------------------
(* Approval. *)

Approved == SomeBriefApproved /\ LaterWorkIsApproved

\* What is dispatched in the states of code and review, and only there.
LEMMA LaterWork ==
  ASSUME NEW s, NEW type, <<s, type>> \in Dispatches,
         type \notin {"reconcile", "inspect_context"}
  PROVE  s \in CodeStates \cup ReviewStates
BY DEF Dispatches, CodeStates, ReviewStates

\* Work goes on to be approved.
LEMMA NextApproved ==
  Approved /\ ActionFitsState /\ TypeOK /\ VerifiedIsGreen /\ Control /\ [Next]_vars
    => Approved'
<1> DEFINE Given(a) == \E b \in Briefs : <<"brief", b>> \in a
           Work == CodeStates \cup ReviewStates
<1> SUFFICES ASSUME Approved, ActionFitsState, TypeOK, VerifiedIsGreen, Control,
                    [Next]_vars
             PROVE  Approved'
  OBVIOUS
<1>0. /\ run.state \in Work \/ run.resume \in Work => Given(approvals)
      /\ action \notin {None, "reconcile", "inspect_context"} => Given(approvals)
  BY DEF Approved, SomeBriefApproved, LaterWorkIsApproved, Reaches
<1>1. SUFFICES
        /\ run'.state \in Work \/ run'.resume \in Work => Given(approvals')
        /\ action' \notin {None, "reconcile", "inspect_context"} => Given(approvals')
  BY DEF Approved, SomeBriefApproved, LaterWorkIsApproved, Reaches
<1>2. /\ BriefGate \notin ActionStates /\ None \notin Work
      /\ {"blocked", "paused", "brief_stale", "reconciling", "discovering_context"}
           \cap Work = {}
      /\ TerminalStates \cap Work = {} /\ PlanGate \in Work
      /\ GateStates = {BriefGate, PlanGate}
  BY NoneAssumption DEF BriefGate, PlanGate, ActionStates, Dispatches, CodeStates,
     ReviewStates, TerminalStates, States, GateStates
<1>3. CASE CompleteAction
  <2>1. PICK o \in Outcomes, r \in RunType, t \in States :
          /\ Completed(o, r, t)
          /\ run.state \in ActionStates /\ action # None /\ action' = None
          /\ run'.state = t /\ run'.resume = r.resume /\ approvals' = approvals
    BY <1>3, CompletionShape DEF Control
  <2>2. r.resume \in {run.resume, None}
    BY <2>1 DEF Completed, Landing
  <2>3. t \in Work => Given(approvals)
    <3>1. CASE t \in Targets(run.state, o)
      BY <1>0, <1>2, <2>1, <3>1, IntoWork
    <3>2. CASE t = run.resume
      BY <1>0, <3>2
    <3>3. CASE action = "address_review"
      BY <1>0, <3>3, NoneAssumption DEF ActionTypes, Dispatches
    <3> QED
      BY <2>1, <3>1, <3>2, <3>3 DEF Completed, Landing
  <2> QED
    BY <1>0, <1>2, <2>1, <2>2, <2>3
<1>4. CASE ~CompleteAction
  <2>0. approvals \subseteq approvals'
    BY <1>4, StepShape DEF Untouched
  <2>1. CASE Stays
    BY <1>0, <2>0, <2>1, LaterWork DEF Stays
  <2>2. CASE Stops
    BY <1>0, <1>2, <2>0, <2>2 DEF Stops
  <2>3. CASE Resumes
    BY <1>0, <1>2, <2>0, <2>3 DEF Resumes
  <2>4. CASE Approves
    BY <1>0, <1>2, <2>0, <2>4 DEF Approves
  <2>5. CASE Ends
    BY <1>0, <1>2, <2>0, <2>5 DEF Ends
  <2> QED
    BY <1>4, <2>1, <2>2, <2>3, <2>4, <2>5, StepShape
<1> QED
  BY <1>3, <1>4

-------------------------------------------------------------------------------
(* The change request and the merge. *)

Delivery == PublishedBeforeReview /\ MergeObserved

\* The only actions of three states.
LEMMA ActionOfState ==
  ASSUME NEW s, NEW type, <<s, type>> \in Dispatches
  PROVE  /\ s = "publishing" => type = "publish_change"
         /\ s \in {"awaiting_review", "confirming_review_plan"}
              => type = "poll_change_request"
         /\ s = "addressing_review" => type = "address_review"
         /\ type = "analyze_review" => s = "analyzing_review"
BY DEF Dispatches

\* Review and resolution go on to have their change request and their merge.
LEMMA NextDelivery ==
  Delivery /\ ActionFitsState /\ TypeOK /\ VerifiedIsGreen /\ Control /\ [Next]_vars
    => Delivery'
<1> SUFFICES ASSUME Delivery, ActionFitsState, TypeOK, VerifiedIsGreen, Control,
                    [Next]_vars
             PROVE  Delivery'
  OBVIOUS
<1> USE DEF Delivery, PublishedBeforeReview, MergeObserved, Reaches, SeenTypes
<1>0. /\ {"blocked", "paused", "brief_stale", "reconciling", "discovering_context",
          "resolved", None} \cap ReviewStates = {}
      /\ None \notin {"merged_pending_resolution", "resolved"}
      /\ "merged_pending_resolution" \in ReviewStates
      /\ TerminalStates \cap ReviewStates = {} /\ "resolved" \in TerminalStates
  BY NoneAssumption DEF ReviewStates, PlanGate, TerminalStates, States, ActionStates,
     Dispatches
<1>1. CASE CompleteAction
  <2>1. PICK o \in Outcomes, r \in RunType, t \in States :
          /\ Completed(o, r, t)
          /\ run.state \in ActionStates /\ action # None /\ action' = None
          /\ run'.state = t /\ run'.resume = r.resume
          /\ run'.cr = r.cr /\ run'.seen = r.seen
    BY <1>1, CompletionShape DEF Control
  <2>2. /\ r.resume \in {run.resume, None}
        /\ run.cr # None => r.cr # None
        /\ action = "publish_change" => r.cr # None
        /\ run.seen \subseteq r.seen
        /\ action = "poll_change_request" /\ o = "merged" => "merged" \in NewTypes(r)
    BY <2>1 DEF Completed, Landing, HeadsAndRequest, ReviewThreads
  <2>3. t \in ReviewStates \cup {"resolved"} => r.cr # None
    <3>1. CASE t \in Targets(run.state, o) /\ t \in ReviewStates
      <4>1. run.state \in ReviewStates \/ run.state = "publishing"
        BY <3>1, IntoReview
      <4>2. run.state = "publishing" => action = "publish_change"
        BY <2>1, ActionOfState DEF ActionFitsState
      <4> QED
        BY <2>2, <4>1, <4>2
    <3>2. CASE t \in Targets(run.state, o) /\ t = "resolved"
      BY <1>0, <2>2, <3>2, IntoResolution
    <3>3. CASE t = run.resume
      BY <1>0, <2>2, <3>3 DEF Control, ResumeIsNotFinal
    <3>4. CASE run.cr # None
      BY <2>2, <3>4
    <3> QED
      BY <2>1, <3>1, <3>2, <3>3, <3>4 DEF Completed, Landing
  <2>4. "merged" \in SeenTypes => "merged" \in NewTypes(r)
    BY <2>2 DEF NewTypes
  <2>5. t \in {"merged_pending_resolution", "resolved"} => "merged" \in NewTypes(r)
    <3>1. CASE t \in Targets(run.state, o) /\ t = "merged_pending_resolution"
      <4>1. o = "merged" /\ run.state \in {"awaiting_review", "confirming_review_plan"}
        BY <3>1, IntoResolution
      <4>2. action = "poll_change_request"
        BY <2>1, <4>1, ActionOfState DEF ActionFitsState
      <4> QED
        BY <2>2, <4>1, <4>2
    <3>2. CASE t \in Targets(run.state, o) /\ t = "resolved"
      BY <2>4, <3>2, IntoResolution
    <3>3. CASE t = run.resume
      BY <1>0, <2>4, <3>3 DEF Control, ResumeIsNotFinal
    <3>4. CASE t = "analyzing_review"
      BY <3>4
    <3> QED
      BY <2>1, <3>1, <3>2, <3>3, <3>4 DEF Completed, Landing
  <2> QED
    BY <1>0, <2>1, <2>2, <2>3, <2>4, <2>5 DEF NewTypes
<1>2. CASE ~CompleteAction
  <2>0. run'.cr = run.cr /\ run'.seen = run.seen
    BY <1>2, StepShape DEF Untouched
  <2>1. CASE Stays
    BY <2>0, <2>1 DEF Stays
  <2>2. CASE Stops
    BY <1>0, <2>0, <2>2 DEF Stops
  <2>3. CASE Resumes
    BY <1>0, <2>0, <2>3 DEF Resumes
  <2>4. CASE Approves
    <3>1. run'.state \in ReviewStates => run.state \in ReviewStates
      BY <2>4, IntoReview, KindsOfStates DEF Approves, ActionStates, Dispatches
    <3>2. run'.state \notin {"merged_pending_resolution", "resolved"}
      BY <2>4, IntoResolution, KindsOfStates DEF Approves, ActionStates, Dispatches
    <3> QED
      BY <2>0, <2>4, <3>1, <3>2 DEF Approves
  <2>5. CASE Ends
    BY <1>0, <2>0, <2>5 DEF Ends
  <2> QED
    BY <1>2, <2>1, <2>2, <2>3, <2>4, <2>5, StepShape
<1> QED
  BY <1>1, <1>2

-------------------------------------------------------------------------------
(* The verified head. *)

\* The verified head goes on to be one whose checks passed.
LEMMA NextVerified ==
  VerifiedIsGreen /\ TypeOK /\ Control /\ [Next]_vars => VerifiedIsGreen'
<1> SUFFICES ASSUME VerifiedIsGreen, TypeOK, Control, [Next]_vars
             PROVE  VerifiedIsGreen'
  OBVIOUS
<1>1. CASE CompleteAction
  <2>1. PICK o \in Outcomes, r \in RunType, t \in States :
          Completed(o, r, t) /\ run'.verified = r.verified
    BY <1>1, CompletionShape DEF Control
  <2> QED
    BY <2>1 DEF VerifiedIsGreen, Completed, HeadsAndRequest
<1>2. CASE ~CompleteAction
  BY <1>2, StepShape DEF VerifiedIsGreen, Untouched
<1> QED
  BY <1>1, <1>2

\* Only a completed publication takes a run from publishing to review.
LEMMA PublishGreen ==
  VerifiedIsGreen /\ ActionFitsState /\ TypeOK /\ Control /\ [Next]_vars
    => (run.state = "publishing" /\ run'.state = "awaiting_review"
          => run'.head \in green)
<1> SUFFICES ASSUME VerifiedIsGreen, ActionFitsState, TypeOK, Control, [Next]_vars,
                    run.state = "publishing", run'.state = "awaiting_review"
             PROVE  run'.head \in green
  OBVIOUS
<1>1. CASE CompleteAction
  <2>1. PICK o \in Outcomes, r \in RunType, t \in States :
          /\ Completed(o, r, t) /\ run'.head = r.head
          /\ run.state \in ActionStates /\ action # None
    BY <1>1, CompletionShape DEF Control
  <2>2. action = "publish_change"
    BY <2>1, ActionOfState DEF ActionFitsState
  <2> QED
    BY <2>1, <2>2 DEF VerifiedIsGreen, Completed, HeadsAndRequest
<1>2. CASE ~CompleteAction
  BY <1>2, StepShape, KindsOfStates
     DEF Stays, Stops, Resumes, Approves, Ends, GateStates, BriefGate, PlanGate,
         WaitStates, TerminalStates
<1> QED
  BY <1>1, <1>2

-------------------------------------------------------------------------------
(* The threads of the review. *)

Batches == PlanHasThreads /\ PlanKeepsAnalysisAway /\ ThreadsAccounted

\* Threads that were seen go on to be accounted for.
LEMMA NextBatches ==
  Batches /\ ActionFitsState /\ TypeOK /\ VerifiedIsGreen /\ Control /\ [Next]_vars
    => Batches'
<1> SUFFICES ASSUME Batches, ActionFitsState, TypeOK, VerifiedIsGreen, Control,
                    [Next]_vars
             PROVE  Batches'
  OBVIOUS
<1> USE DEF Batches
<1>0. /\ "analyzing_review" \notin TerminalStates \cup WaitStates \cup GateStates
      /\ "addressing_review" \notin TerminalStates \cup WaitStates \cup GateStates
      /\ "analyzing_review" \notin {"reconciling", "blocked", "paused", "brief_stale"}
      /\ "analyze_review" # None /\ "analyzing_review" # None
      /\ "analyzing_review" \in States
  BY NoneAssumption DEF TerminalStates, WaitStates, GateStates, BriefGate, PlanGate,
     States, ActionStates, ActionTypes, Dispatches
<1>1. CASE CompleteAction
  <2>1. PICK o \in Outcomes, r \in RunType, t \in States :
          /\ Completed(o, r, t)
          /\ run.state \in ActionStates /\ action # None /\ action' = None
          /\ run'.state = t /\ run'.resume = r.resume
          /\ run'.plan = r.plan /\ run'.planThreads = r.planThreads
          /\ run'.pending = r.pending /\ run'.seen = r.seen
    BY <1>1, CompletionShape DEF Control
  <2>2. Landing(o, r, t) /\ ReviewThreads(o, r)
    BY <2>1 DEF Completed
  <2>3. PlanHasThreads'
    BY <2>1, <2>2, NoneAssumption
       DEF PlanHasThreads, ReviewThreads, KeepsThreads, FilesThreads, MergesThreads,
           PlansThreads, AnswersThreads
  <2>4. PlanKeepsAnalysisAway'
    <3>1. SUFFICES ASSUME r.pending # {}, r.planThreads # {}
                   PROVE  /\ t # "analyzing_review"
                          /\ r.resume = "analyzing_review" => t = "addressing_review"
      BY <1>0, <2>1 DEF PlanKeepsAnalysisAway
    <3>2. KeepsThreads(o, r) \/ (FilesThreads(o, r) /\ o = "feedback_independent")
      BY <2>2, <3>1 DEF ReviewThreads, FilesThreads, MergesThreads, PlansThreads,
         AnswersThreads, PlanHasThreads
    <3>3. CASE KeepsThreads(o, r)
      <4>1. /\ run.state # "analyzing_review"
            /\ run.resume = "analyzing_review"
                 => run.state \in {"addressing_review"} \cup TerminalStates
        BY <3>1, <3>3 DEF PlanKeepsAnalysisAway, KeepsThreads
      <4>2. run.resume # "analyzing_review"
        <5>1. SUFFICES ASSUME run.state = "addressing_review" PROVE FALSE
          BY <2>1, <4>1, KindsOfStates
        <5>2. action = "address_review"
          BY <2>1, <5>1, ActionOfState DEF ActionFitsState
        <5> QED
          BY <3>3, <5>2 DEF KeepsThreads
      <4>3. t # "analyzing_review"
        <5>1. CASE t \in Targets(run.state, o)
          <6>1. SUFFICES ASSUME t = "analyzing_review" PROVE FALSE
            OBVIOUS
          <6>2. /\ o \in {"feedback", "feedback_overlap"}
                /\ run.state \in {"awaiting_review", "confirming_review_plan"}
            BY <2>1, <5>1, <6>1, KindsOfStates, IntoAnalysis DEF GateStates
          <6>3. action = "poll_change_request"
            BY <2>1, <6>2, ActionOfState DEF ActionFitsState
          <6> QED
            BY <3>3, <6>2, <6>3 DEF KeepsThreads
        <5>2. CASE t = run.resume
          BY <4>2, <5>2
        <5>3. CASE action = "address_review"
          BY <3>3, <5>3 DEF KeepsThreads
        <5> QED
          BY <2>2, <5>1, <5>2, <5>3 DEF Landing
      <4> QED
        BY <1>0, <2>2, <4>2, <4>3 DEF Landing
    <3>4. CASE FilesThreads(o, r) /\ o = "feedback_independent"
      BY <2>2, <3>4, IndependentFeedback DEF Landing, FilesThreads
    <3> QED
      BY <3>2, <3>3, <3>4
  <2>5. ThreadsAccounted'
    <3>1. SUFFICES ASSUME NEW e \in r.seen, EventType[e] = "actionable_comment",
                          NewTypes(r) \cap {"merged", "closed", "declined"} = {}
                   PROVE  ThreadOf[e] \in r.pending \cup r.planThreads \cup answered'
      BY <2>1 DEF ThreadsAccounted, SeenTypes, NewTypes
    <3>2. run.seen \subseteq r.seen
      BY <2>2 DEF ReviewThreads
    <3>3. SeenTypes \cap {"merged", "closed", "declined"} = {}
      BY <3>1, <3>2 DEF SeenTypes, NewTypes
    <3>4. e \in run.seen => ThreadOf[e] \in run.pending \cup run.planThreads \cup answered
      BY <3>1, <3>3 DEF ThreadsAccounted
    <3>5. CASE KeepsThreads(o, r)
      BY <3>1, <3>4, <3>5 DEF KeepsThreads, NothingEnds, NewTypes
    <3>6. CASE FilesThreads(o, r)
      BY <3>1, <3>4, <3>6 DEF FilesThreads
    <3>7. CASE MergesThreads(o, r)
      BY <3>1, <3>4, <3>7 DEF MergesThreads
    <3>8. CASE PlansThreads(r)
      <4>1. run.planThreads = {}
        BY <3>8 DEF PlansThreads, PlanKeepsAnalysisAway
      <4> QED
        BY <3>1, <3>4, <3>8, <4>1 DEF PlansThreads
    <3>9. CASE AnswersThreads(r)
      BY <3>1, <3>4, <3>9 DEF AnswersThreads
    <3> QED
      BY <2>2, <3>5, <3>6, <3>7, <3>8, <3>9 DEF ReviewThreads
  <2> QED
    BY <2>3, <2>4, <2>5
<1>2. CASE ~CompleteAction
  <2>0. /\ run'.plan = run.plan /\ run'.planThreads = run.planThreads
        /\ run'.pending = run.pending /\ run'.seen = run.seen /\ answered' = answered
    BY <1>2, StepShape DEF Untouched
  <2>1. PlanHasThreads' /\ ThreadsAccounted'
    BY <2>0 DEF PlanHasThreads, ThreadsAccounted, SeenTypes
  <2>2. PlanKeepsAnalysisAway'
    <3>1. SUFFICES ASSUME run.pending # {}, run.planThreads # {}
                   PROVE  /\ run'.state # "analyzing_review"
                          /\ action' # "analyze_review"
                          /\ run'.resume = "analyzing_review" => run'.state \in
                               {"addressing_review"} \cup TerminalStates
      BY <2>0 DEF PlanKeepsAnalysisAway
    <3>2. /\ run.state # "analyzing_review" /\ action # "analyze_review"
          /\ run.resume = "analyzing_review"
               => run.state \in {"addressing_review"} \cup TerminalStates
      BY <3>1 DEF PlanKeepsAnalysisAway
    <3>3. CASE Stays
      BY <1>0, <3>2, <3>3, ActionOfState DEF Stays
    <3>4. CASE Stops
      BY <1>0, <3>2, <3>4 DEF Stops
    <3>5. CASE Resumes
      BY <1>0, <3>2, <3>5 DEF Resumes, WaitStates, TerminalStates
    <3>6. CASE Approves
      <4>1. run.resume # "analyzing_review"
        BY <1>0, <3>2, <3>6, KindsOfStates DEF Approves
      <4>2. run'.state # "analyzing_review"
        <5>1. <<run.state, "approved", run'.state>> \in Transitions
          BY <3>6, TargetLine DEF Approves
        <5> QED
          BY <5>1 DEF Transitions
      <4> QED
        BY <3>2, <3>6, <4>1, <4>2 DEF Approves
    <3>7. CASE Ends
      BY <1>0, <3>2, <3>7 DEF Ends
    <3> QED
      BY <1>2, <3>3, <3>4, <3>5, <3>6, <3>7, StepShape
  <2> QED
    BY <2>1, <2>2
<1> QED
  BY <1>1, <1>2

-------------------------------------------------------------------------------
(* Terminal states. *)

\* No step leaves the end.
LEMMA NextFinal ==
  TypeOK /\ Control /\ VerifiedIsGreen /\ [Next]_vars
    => /\ run.state \in TerminalStates => run'.state \in TerminalStates
       /\ run.state = "resolved" => run' = run
<1> SUFFICES ASSUME TypeOK, Control, VerifiedIsGreen, [Next]_vars,
                    run.state \in TerminalStates
             PROVE  /\ run'.state \in TerminalStates
                    /\ run.state = "resolved" => run' = run
  BY DEF TerminalStates
<1>1. run.state \notin ActionStates \cup GateStates \cup WaitStates
  BY KindsOfStates
<1>2. run.wake = "none" /\ lease # "bound"
  BY <1>1 DEF Control, StoppedHasNoWake, BoundIsWorkable
<1>3. ~CompleteAction
  BY <1>1, CompletionShape DEF Control
<1>4. run'.state \in TerminalStates
  BY <1>1, <1>3, StepShape, KindsOfStates DEF Stays, Stops, Resumes, Approves, Ends
<1>5. ASSUME run.state = "resolved" PROVE run' = run
  <2>1. ~Delivered(action) /\ \A type : ~Delivered(type)
    BY <1>2 DEF Delivered
  <2>2. ~Dispatchable /\ ~WakePasses
    BY <1>1, <1>2 DEF Dispatchable, WakePasses
  <2>3. run.state \notin GateStates /\ run.state \notin {"paused", "blocked"}
    BY <1>1 DEF WaitStates
  <2>4. ~Pause /\ ~Resume /\ \A target : ~Terminal(target)
    BY <1>5, <2>3 DEF Pause, Resume, Terminal
  <2>5. ~Approval
    BY <2>3 DEF Approval, Approve, AtGateFor, GateStates
  <2> QED
    BY <1>3, <2>1, <2>2, <2>4, <2>5
       DEF Next, AgentStep, AcquireLease, LeaseEnds, NextBlocked, NextRebinds,
           NextCreates, CompleteDrift, DriftReported, FailRetries, FailBlocks, vars
<1> QED
  BY <1>4, <1>5

-------------------------------------------------------------------------------
(* The inductive invariant and the theorems. *)

IInv ==
  /\ TypeOK
  /\ Control
  /\ VerifiedIsGreen
  /\ ActionFitsState
  /\ Approved
  /\ Delivery
  /\ Batches

LEMMA InitIInv == Init => IInv
<1> SUFFICES ASSUME Init PROVE IInv
  OBVIOUS
<1>1. TypeOK /\ Control
  BY InitType, InitControl
<1>2. /\ run.state = "discovering_context" /\ run.resume = None /\ run.brief = None
      /\ run.verified = None /\ run.plan = None /\ run.planThreads = {}
      /\ run.pending = {} /\ run.seen = {} /\ action = None
  BY DEF Init, NewRun
<1>3. {"discovering_context", None} \cap
        (CodeStates \cup ReviewStates \cup {"resolved", "merged_pending_resolution"}) = {}
  BY NoneAssumption
     DEF CodeStates, ReviewStates, PlanGate, States, ActionStates, Dispatches,
         GateStates, TerminalStates
<1>4. VerifiedIsGreen /\ ActionFitsState /\ Approved
  BY <1>2, <1>3 DEF VerifiedIsGreen, ActionFitsState, Approved, SomeBriefApproved,
     LaterWorkIsApproved, Reaches
<1>5. Delivery
  BY <1>2, <1>3 DEF Delivery, PublishedBeforeReview, MergeObserved, Reaches
<1>6. Batches
  BY <1>2 DEF Batches, PlanHasThreads, PlanKeepsAnalysisAway, ThreadsAccounted
<1> QED
  BY <1>1, <1>4, <1>5, <1>6 DEF IInv

\* The inductive invariant.
LEMMA NextIInv == IInv /\ [Next]_vars => IInv'
BY NextType, NextControl, NextVerified, NextFits, NextApproved, NextDelivery,
   NextBatches
   DEF IInv

LEMMA Inductive == Spec => []IInv
BY InitIInv, NextIInv, PTL DEF Spec

\* The strengthening the run MCReview checks is what the induction proves.
THEOREM StrengtheningHolds == Spec => []Strengthening
<1>1. IInv => Strengthening
  BY DEF IInv, Control, Approved, Batches, Strengthening
<1> QED
  BY <1>1, Inductive, PTL

\* A pending action that is handed out again outside reconciliation is the one
\* its state asks for, whatever pauses, failures and takeovers came between.
THEOREM ActionFits == Spec => []ActionFitsState
<1>1. IInv => ActionFitsState
  BY DEF IInv
<1> QED
  BY <1>1, Inductive, PTL

\* No code is written and nothing is published or reviewed, nor is a run able to
\* resume there, before a brief of the run was approved.
THEOREM WorkIsApproved == Spec => []SomeBriefApproved
<1>1. IInv => SomeBriefApproved
  BY DEF IInv, Approved
<1> QED
  BY <1>1, Inductive, PTL

\* A run under review, or resolved, has its change request recorded.
THEOREM ReviewIsPublished == Spec => []PublishedBeforeReview
<1>1. IInv => PublishedBeforeReview
  BY DEF IInv, Delivery
<1> QED
  BY <1>1, Inductive, PTL

\* A resolved work item was merged, as far as the polls tell.
THEOREM ResolvedIsMerged == Spec => []MergeObserved
<1>1. IInv => MergeObserved
  BY DEF IInv, Delivery
<1> QED
  BY <1>1, Inductive, PTL

\* No review thread is lost between polling, planning and answering.
THEOREM NoThreadLost == Spec => []ThreadsAccounted
<1>1. IInv => ThreadsAccounted
  BY DEF IInv, Batches
<1> QED
  BY <1>1, Inductive, PTL

\* The schedules row follows NextWakeAt through every commit.
THEOREM ScheduleFollows == Spec => []ScheduleMirrorsWake
<1>1. IInv => ScheduleMirrorsWake
  BY DEF IInv, Control
<1> QED
  BY <1>1, Inductive, PTL

\* What is published passed its checks.
THEOREM PublishedIsGreen == Spec => PublishedHeadIsGreen
<1>1. IInv /\ [Next]_vars
        => [ run.state = "publishing" /\ run'.state = "awaiting_review"
               => run'.head \in green ]_vars
  BY PublishGreen DEF IInv
<1> QED
  BY <1>1, Inductive, PTL DEF Spec, PublishedHeadIsGreen

\* A run that has ended stays ended, and a resolved run stays as it is.
THEOREM EndsForGood == Spec => TerminalIsFinal
<1>1. IInv /\ [Next]_vars
        => [ /\ run.state \in TerminalStates => run'.state \in TerminalStates
             /\ run.state = "resolved" => run' = run ]_vars
  BY NextFinal DEF IInv
<1> QED
  BY <1>1, Inductive, PTL DEF Spec, TerminalIsFinal

-------------------------------------------------------------------------------
(* Without a resume, work is on the approved brief.  A run then reconciles only *)
(* after a failed write, with the brief that was approved for it, and nothing   *)
(* but a reconcile action is pending meanwhile.                                 *)

OnBrief ==
  run.state \in CodeStates \cup ReviewStates \cup {"reconciling"}
    => <<"brief", run.brief>> \in approvals
OnlyReconciles == run.state = "reconciling" => action \in {None, "reconcile"}

LEMMA StaysWaiting ==
  ASSUME TypeOK, Control, VerifiedIsGreen, UninterruptedNext,
         run.state \in WaitStates
  PROVE  run'.state # "reconciling"
<1>1. /\ run.state \notin ActionStates \cup GateStates /\ run \in RunType
      /\ run.state # "reconciling"
  BY KindsOfStates DEF TypeOK, WaitStates
<1>2. \A type : ~Delivered(type)
  BY <1>1 DEF Delivered, Control, BoundIsWorkable
<1>3. ~Dispatchable /\ ~CompleteAction
  BY <1>1, CompletionShape DEF Dispatchable, Control
<1>4. ~Approval
  BY <1>1 DEF Approval, Approve, AtGateFor, GateStates
<1>5. CASE AcquireLease \/ LeaseEnds \/ WakePasses
  BY <1>1, <1>5 DEF AcquireLease, LeaseEnds, WakePasses, RunType
<1>6. CASE Pause
  BY <1>1, <1>6 DEF Pause, UpdateRun, RunType
<1>7. ASSUME NEW target \in TerminalStates, Terminal(target)
      PROVE  run'.state # "reconciling"
  BY <1>1, <1>7 DEF Terminal, UpdateRun, RunType, TerminalStates
<1> QED
  BY <1>2, <1>3, <1>4, <1>5, <1>6, <1>7
     DEF UninterruptedNext, AgentStep, NextBlocked, NextRebinds, NextCreates,
         CompleteDrift, DriftReported, FailRetries, FailBlocks

LEMMA NextOnBrief ==
  IInv /\ OnBrief /\ OnlyReconciles /\ [UninterruptedNext]_vars
    => OnBrief' /\ OnlyReconciles'
<1> DEFINE Work == CodeStates \cup ReviewStates
<1> SUFFICES ASSUME IInv, OnBrief, OnlyReconciles, [UninterruptedNext]_vars
             PROVE  OnBrief' /\ OnlyReconciles'
  OBVIOUS
<1>0. /\ TypeOK /\ Control /\ VerifiedIsGreen /\ ActionFitsState
      /\ [Next]_vars
  BY DEF IInv, UninterruptedNext, Next
<1>1. /\ {"blocked", "paused", "brief_stale", "reconciling", "discovering_context"}
           \cap Work = {}
      /\ TerminalStates \cap (Work \cup {"reconciling"}) = {}
      /\ ReconciledWriteStates \subseteq Work
      /\ GateStates = {BriefGate, PlanGate} /\ PlanGate \in Work
      /\ BriefGate \notin ActionStates /\ BriefGate # "reconciling"
      /\ "addressing_review" \in Work
  BY DEF CodeStates, ReviewStates, TerminalStates, ReconciledWriteStates, GateStates,
     BriefGate, PlanGate, ActionStates, Dispatches
<1>2. \A s, o : \A t \in Targets(s, o) : t # "reconciling"
  <2>1. SUFFICES ASSUME NEW s, NEW o, NEW t \in Targets(s, o) PROVE t # "reconciling"
    OBVIOUS
  <2>2. <<s, o, t>> \in Transitions
    BY TargetLine
  <2> QED
    BY <2>2 DEF Transitions
<1>3. CASE CompleteAction
  <2>1. PICK o \in Outcomes, r \in RunType, t \in States :
          /\ Completed(o, r, t)
          /\ run.state \in ActionStates /\ action # None /\ action' = None
          /\ run'.state = t /\ run'.resume = r.resume /\ approvals' = approvals
          /\ run' = Arrive(r, t)
    BY <1>0, <1>3, CompletionShape DEF Control, Completed, CommitAction
  <2>2. run'.brief = r.brief /\ (r.brief # run.brief => action = "inspect_context")
    BY <2>1, ArriveRun DEF Completed, HeadsAndRequest
  <2>3. run.state \in Work \cup {"reconciling"} => r.brief = run.brief
    <3>1. SUFFICES ASSUME run.state \in Work, action = "inspect_context" PROVE FALSE
      BY <2>2, NoneAssumption DEF OnlyReconciles, ActionTypes, Dispatches
    <3>2. <<run.state, "inspect_context">> \in Dispatches
      BY <1>0, <1>1, <2>1, <3>1 DEF ActionFitsState
    <3> QED
      BY <3>1, <3>2 DEF Dispatches, CodeStates, ReviewStates, PlanGate
  <2>4. t \in Work \cup {"reconciling"} => run.state \in Work \cup {"reconciling"}
    <3>1. CASE t \in Targets(run.state, o)
      BY <1>1, <1>2, <2>1, <3>1, IntoWork
    <3>2. CASE action \in {"reconcile", "address_review"}
      <4>1. run.state # "reconciling" => <<run.state, action>> \in Dispatches
        BY <1>0, <2>1 DEF ActionFitsState
      <4> QED
        BY <1>1, <3>2, <4>1 DEF Dispatches
    <3> QED
      BY <2>1, <3>1, <3>2 DEF Completed, Landing
  <2> QED
    BY <2>1, <2>2, <2>3, <2>4 DEF OnBrief, OnlyReconciles
<1>4. CASE ~CompleteAction
  <2>0. Untouched /\ (Stays \/ Stops \/ Resumes \/ Approves \/ Ends)
    BY <1>0, <1>4, StepShape
  <2>1. CASE Stays
    <3>1. run.state = "reconciling" /\ <<run.state, action'>> \in Dispatches
            => action' = "reconcile"
      BY DEF Dispatches
    <3> QED
      BY <2>0, <2>1, <3>1 DEF Stays, Untouched, OnBrief, OnlyReconciles
  <2>2. CASE Stops
    BY <1>1, <2>0, <2>2 DEF Stops, Untouched, OnBrief, OnlyReconciles
  <2>3. CASE Resumes
    <3>1. UninterruptedNext
      BY <2>3 DEF Resumes, WaitStates, vars
    <3> QED
      BY <1>0, <2>3, <3>1, StaysWaiting DEF Resumes
  <2>4. CASE Approves
    <3>1. run'.state # "reconciling"
      BY <1>2, <2>4 DEF Approves
    <3> QED
      BY <1>1, <2>0, <2>4, <3>1 DEF Approves, Untouched, OnBrief, OnlyReconciles
  <2>5. CASE Ends
    BY <1>1, <2>5 DEF Ends, OnBrief, OnlyReconciles
  <2> QED
    BY <2>0, <2>1, <2>2, <2>3, <2>4, <2>5
<1> QED
  BY <1>3, <1>4

\* As long as nobody resumes the run, the brief it works on was approved,
\* whatever scope changes, drift and failed writes came between.
THEOREM WorkIsOnBrief == UninterruptedSpec => []WorkIsOnApprovedBrief
<1>1. Init => IInv /\ OnBrief /\ OnlyReconciles
  <2>1. "discovering_context" \notin CodeStates \cup ReviewStates \cup {"reconciling"}
    BY DEF CodeStates, ReviewStates, PlanGate
  <2> QED
    BY <2>1, InitIInv DEF Init, NewRun, OnBrief, OnlyReconciles
<1>2. IInv /\ [UninterruptedNext]_vars => IInv'
  BY NextIInv DEF UninterruptedNext, Next
<1>3. OnBrief => WorkIsOnApprovedBrief
  BY DEF OnBrief, WorkIsOnApprovedBrief
<1> QED
  BY <1>1, <1>2, <1>3, NextOnBrief, PTL DEF UninterruptedSpec

-------------------------------------------------------------------------------
(* Without a resume, reconciliation goes back to the write it was for, so the   *)
(* table alone leads to the review: to an analysis with a new batch, and to the *)
(* fixes from the gate of their plan.                                           *)

WriteIsReconciled == run.state = "reconciling" => run.resume \in ReconciledWriteStates

Review ==
  /\ WriteIsReconciled
  /\ OnlyReconciles
  /\ AnalysisHasThreads
  /\ FixesAreOnApprovedPlan

\* No line leads back to reconciliation or, from an action, to the confirmation of
\* a plan; and the fixes come after that confirmation, unless feedback overlaps.
LEMMA IntoFixes ==
  ASSUME NEW s, NEW o, NEW t \in Targets(s, o)
  PROVE  /\ t # "reconciling"
         /\ t = "confirming_review_plan" => s = PlanGate
         /\ t = "addressing_review" =>
              s = "confirming_review_plan" /\ o # "feedback_overlap"
<1>1. <<s, o, t>> \in Transitions
  BY TargetLine
<1> QED
  BY <1>1 DEF Transitions, PlanGate

\* Where the completion of an action leads, and with which threads and plan.
LEMMA CompletionOnPlan ==
  ASSUME IInv, Review, CompleteAction
  PROVE  Review'
<1>0. /\ TypeOK /\ Control /\ VerifiedIsGreen /\ ActionFitsState
      /\ GateStates \cap ActionStates = {} /\ PlanGate \in GateStates
      /\ ReconciledWriteStates = {"publishing", "merged_pending_resolution"}
  BY KindsOfStates DEF IInv, GateStates, ReconciledWriteStates
<1>1. PICK o \in Outcomes, r \in RunType, t \in States :
        /\ Completed(o, r, t)
        /\ run.state \in ActionStates /\ action # None /\ action' = None
        /\ run'.state = t /\ run'.resume = r.resume
        /\ run'.plan = r.plan /\ run'.planThreads = r.planThreads
        /\ run'.pending = r.pending /\ approvals' = approvals
  BY <1>0, CompletionShape DEF Control
<1>2. Landing(o, r, t) /\ ReviewThreads(o, r)
  BY <1>1 DEF Completed
<1>3. t = run.resume /\ action = "reconcile" => t \in ReconciledWriteStates
  <2>1. action = "reconcile" => run.state = "reconciling"
    BY <1>0, <1>1 DEF ActionFitsState, Dispatches
  <2> QED
    BY <2>1 DEF Review, WriteIsReconciled
<1>4. run.state \in {"awaiting_review", "confirming_review_plan"}
        => action = "poll_change_request"
  BY <1>0, <1>1, ActionOfState DEF ActionFitsState
<1>5. CASE t \in Targets(run.state, o)
  <2>1. t # "reconciling" /\ t # "confirming_review_plan"
    BY <1>0, <1>1, <1>5, IntoFixes
  <2>2. t = "analyzing_review" => r.pending # {}
    <3>1. SUFFICES ASSUME t = "analyzing_review" PROVE r.pending # {}
      OBVIOUS
    <3>2. o \in {"feedback", "feedback_overlap"} /\ action = "poll_change_request"
      BY <1>0, <1>1, <1>4, <1>5, <3>1, IntoAnalysis
    <3> QED
      BY <1>2, <3>2 DEF ReviewThreads, KeepsThreads, FilesThreads, MergesThreads,
         PlansThreads, AnswersThreads
  <2>3. t = "addressing_review" /\ r.planThreads # {}
          => <<"review_plan", r.plan>> \in approvals
    <3>1. SUFFICES ASSUME t = "addressing_review", r.planThreads # {}
                   PROVE  <<"review_plan", r.plan>> \in approvals
      OBVIOUS
    <3>2. run.state = "confirming_review_plan" /\ o # "feedback_overlap"
      BY <1>5, <3>1, IntoFixes
    <3>3. action = "poll_change_request"
      BY <1>4, <3>2
    <3>4. r.plan = run.plan /\ r.planThreads = run.planThreads
      BY <1>2, <3>2, <3>3 DEF ReviewThreads, KeepsThreads, FilesThreads, MergesThreads,
         PlansThreads, AnswersThreads
    <3> QED
      BY <3>1, <3>2, <3>4 DEF Review, FixesAreOnApprovedPlan
  <2> QED
    BY <1>1, <2>1, <2>2, <2>3
       DEF Review, WriteIsReconciled, OnlyReconciles, AnalysisHasThreads,
           FixesAreOnApprovedPlan
<1>6. CASE t \in ReconciledWriteStates
  BY <1>0, <1>1, <1>6
     DEF Review, WriteIsReconciled, OnlyReconciles, AnalysisHasThreads,
         FixesAreOnApprovedPlan
<1>7. CASE action = "address_review" /\ t = "analyzing_review" /\ run.pending # {}
  <2>1. r.pending # {}
    BY <1>2, <1>7 DEF ReviewThreads, KeepsThreads, FilesThreads, MergesThreads,
       PlansThreads, AnswersThreads
  <2> QED
    BY <1>1, <1>7, <2>1
       DEF Review, WriteIsReconciled, OnlyReconciles, AnalysisHasThreads,
           FixesAreOnApprovedPlan
<1> QED
  BY <1>2, <1>3, <1>5, <1>6, <1>7 DEF Landing

LEMMA NextOnPlan ==
  IInv /\ Review /\ [UninterruptedNext]_vars => Review'
<1> SUFFICES ASSUME IInv, Review, [UninterruptedNext]_vars PROVE Review'
  OBVIOUS
<1>0. TypeOK /\ Control /\ VerifiedIsGreen /\ [Next]_vars
  BY DEF IInv, UninterruptedNext, Next
<1>1. CASE CompleteAction
  BY <1>1, CompletionOnPlan
<1>2. CASE ~CompleteAction
  <2> USE DEF Review, WriteIsReconciled, OnlyReconciles, AnalysisHasThreads,
              FixesAreOnApprovedPlan
  <2>0. Untouched /\ (Stays \/ Stops \/ Resumes \/ Approves \/ Ends)
    BY <1>0, <1>2, StepShape
  <2>1. CASE Stays
    <3>1. run.state = "reconciling" /\ <<run.state, action'>> \in Dispatches
            => action' = "reconcile"
      BY DEF Dispatches
    <3> QED
      BY <2>0, <2>1, <3>1 DEF Stays, Untouched
  <2>2. CASE Stops
    BY <2>2 DEF Stops
  <2>3. CASE Resumes
    <3>1. UninterruptedNext
      BY <2>3 DEF Resumes, WaitStates, vars
    <3> QED
      BY <1>0, <2>3, <3>1, StaysWaiting DEF Resumes
  <2>4. CASE Approves
    <3>1. <<run.state, "approved", run'.state>> \in Transitions
      BY <2>4, TargetLine DEF Approves
    <3>2. \/ run'.state = "preparing_workspace"
          \/ run.state = PlanGate /\ run'.state = "confirming_review_plan"
      BY <3>1 DEF Transitions, PlanGate
    <3> QED
      BY <2>0, <2>4, <3>2 DEF Approves, Untouched
  <2>5. CASE Ends
    BY <2>5 DEF Ends, TerminalStates
  <2> QED
    BY <2>0, <2>1, <2>2, <2>3, <2>4, <2>5
<1> QED
  BY <1>1, <1>2

LEMMA ReviewIsInvariant == UninterruptedSpec => []Review
<1>1. Init => IInv /\ Review
  BY InitIInv DEF Init, NewRun, Review, WriteIsReconciled, OnlyReconciles,
     AnalysisHasThreads, FixesAreOnApprovedPlan
<1>2. IInv /\ [UninterruptedNext]_vars => IInv'
  BY NextIInv DEF UninterruptedNext, Next
<1> QED
  BY <1>1, <1>2, NextOnPlan, PTL DEF UninterruptedSpec

\* As long as nobody resumes the run, the plan that is confirmed and carried out was
\* approved, although polls between its approval and its execution can replace it.
THEOREM FixesAreOnPlan == UninterruptedSpec => []FixesAreOnApprovedPlan
<1>1. Review => FixesAreOnApprovedPlan
  BY DEF Review
<1> QED
  BY <1>1, ReviewIsInvariant, PTL

\* As long as nobody resumes the run, an analysis always has threads to analyse.
THEOREM AnalysesHaveThreads == UninterruptedSpec => []AnalysisHasThreads
<1>1. Review => AnalysisHasThreads
  BY DEF Review
<1> QED
  BY <1>1, ReviewIsInvariant, PTL
===============================================================================
