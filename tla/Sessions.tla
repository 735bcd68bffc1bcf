------------------------------- MODULE Sessions -------------------------------
(***************************************************************************)
(* One run and the processes that work on it at the same time: agent       *)
(* sessions (workers) under leases, and operators without one.  Every      *)
(* command is a process of its own that reads the database, computes, and  *)
(* commits; a step here is one statement or one transaction of             *)
(* internal/store, so other processes move between a command's reads and   *)
(* its commit, and a command may die anywhere between them.                *)
(*                                                                         *)
(* Lifecycle has the whole engine with atomic commands.  Here the evidence *)
(* is left out: an action may be completed with any outcome its state has, *)
(* and the run keeps only what the commands copy and the properties read.  *)
(***************************************************************************)
EXTENDS Workflow, FiniteSets

CONSTANTS
  Workers,       \* agent sessions, one command at a time each
  Operators,     \* people at the command line, one command at a time each
  Tokens,        \* lease tokens, random and so never made twice
  Actions,       \* action ids with their nonces, never made twice
  Briefs,        \* brief hashes
  Plans,         \* review-plan hashes
  Definitions,   \* workflow hashes; all stand for the table of Workflow
  Embedded,      \* the hash of the workflow built into the program
  Inventories,   \* the capability sets a host may announce
  TTLs,          \* the lease times a session may ask for, in ticks
  VersionBound,  \* bound: no commit beyond this version
  None

ASSUME SessionsNone ==
  None \notin Tokens \cup Actions \cup Briefs \cup Plans \cup States \cup ActionTypes
ASSUME SessionsEmbedded == Embedded \in Definitions
ASSUME SessionsTTLs == TTLs \subseteq Nat \ {0}
ASSUME SessionsBound == VersionBound \in Nat
ASSUME SessionsDisjoint == Workers \cap Operators = {}

VARIABLES
  run,       \* runs.snapshot
  version,   \* runs.version, also the number of the last event
  lease,     \* the leases row: its token and the ticks until it expires
  actions,   \* the actions table: state, type and lease_token
  approvals, \* the approvals table
  issued,    \* history: the tokens made so far
  pc,        \* where the command of a process stands
  copy,      \* the run it read, or the run it is going to write
  mark,      \* the version UpdateRun read
  job,       \* the row PendingAction returned
  held,      \* the lease token a worker has
  envelope   \* the action a worker was handed last

database == <<run, version, lease, actions, approvals, issued>>
local    == <<pc, copy, mark, job>>
memory   == <<held, envelope>>
vars     == <<database, local, memory>>

Processes == Workers \cup Operators

WaitKinds == {"none", "human", "external", "capability", "error"}

RunType ==
  [ state : States, resume : States \cup {None}, wait : WaitKinds,
    brief : Briefs \cup {None}, plan : Plans \cup {None},
    workspace : BOOLEAN, workflow : Definitions ]

\* The stages of a command, named for what it has done last.
Stages ==
  {"idle", "validated", "dispatching", "creating", "rebinding",
   "found", "computed", "approving", "previewing", "updating", "committing"}

LeaseType  == [token : Tokens \cup {None}, left : Nat]
ActionType == [ state : {"absent", "pending", "completed", "failed"},
                type  : ActionTypes \cup {None},
                token : Tokens \cup {None} ]

Pending == { a \in Actions : actions[a].state = "pending" }

\* The artifact a gate is about.
AtGate(r) == IF r.state = BriefGate THEN r.brief ELSE r.plan

\* Well-typed rows and memories, with one pending action at most.
StoredOK ==
  /\ run \in RunType
  /\ version \in Nat
  /\ lease \in LeaseType
  /\ actions \in [Actions -> ActionType]
  /\ approvals \subseteq Briefs \cup Plans
  /\ issued \subseteq Tokens
  /\ held \in [Workers -> Tokens \cup {None}]
  /\ envelope \in [Workers -> Actions \cup {None}]
  /\ \A a, b \in Pending : a = b

\* Well-typed commands, each with what its next step needs.
CarriedOK ==
  /\ pc \in [Processes -> Stages]
  /\ copy \in [Processes -> RunType]
  /\ mark \in [Processes -> Nat]
  /\ job \in [Processes -> Actions \cup {None}]
  /\ \A p \in Processes :
       /\ pc[p] \in {"rebinding", "found", "computed"} => job[p] # None
       /\ pc[p] = "approving" => AtGate(copy[p]) # None

TypeOK == StoredOK /\ CarriedOK

NoLease == [token |-> None, left |-> 0]

NewRun ==
  [ state |-> "discovering_context", resume |-> None, wait |-> "none",
    brief |-> None, plan |-> None, workspace |-> FALSE,
    workflow |-> Embedded ]

Init ==
  /\ run = NewRun
  /\ copy = [p \in Processes |-> NewRun]
  /\ version = 1
  /\ lease = NoLease
  /\ actions = [a \in Actions |->
                  [state |-> "absent", type |-> None, token |-> None]]
  /\ approvals = {}
  /\ issued = {}
  /\ pc = [p \in Processes |-> "idle"]
  /\ mark = [p \in Processes |-> 0]
  /\ job = [p \in Processes |-> None]
  /\ held = [w \in Workers |-> None]
  /\ envelope = [w \in Workers |-> None]

-------------------------------------------------------------------------------
(* How a command moves on.  A copy nobody will use any more is forgotten, which *)
(* only keeps the number of states down.                                        *)

\* The command of p ends, successfully or with an error.
Return(p) ==
  /\ pc' = [pc EXCEPT ![p] = "idle"]
  /\ copy' = [copy EXCEPT ![p] = NewRun]
  /\ mark' = [mark EXCEPT ![p] = 0]
  /\ job' = [job EXCEPT ![p] = None]

\* It goes on, holding the run r.
Carry(p, stage, r) ==
  /\ pc' = [pc EXCEPT ![p] = stage]
  /\ copy' = [copy EXCEPT ![p] = r]
  /\ UNCHANGED <<mark, job>>

\* The process is killed, or the answer does not reach its caller.
Dies(p) ==
  /\ pc[p] # "idle"
  /\ Return(p)
  /\ UNCHANGED <<database, memory>>

-------------------------------------------------------------------------------
(* Leases: each operation is one transaction. *)

\* The time test of every lease check: expires_at is still to come.
Live(token) == token # None /\ lease.token = token /\ lease.left > 0

Tick ==
  /\ lease.left > 0
  /\ lease' = [lease EXCEPT !.left = @ - 1]
  /\ UNCHANGED <<run, version, actions, approvals, issued, local, memory>>

\* Only an absent or expired lease can be had; the run is not looked at.
AcquireLease(w) ==
  /\ pc[w] = "idle"
  /\ lease.left = 0
  /\ \E token \in Tokens \ issued, ttl \in TTLs :
       /\ lease' = [token |-> token, left |-> ttl]
       /\ issued' = issued \cup {token}
       /\ held' = [held EXCEPT ![w] = token]
  /\ UNCHANGED <<run, version, actions, approvals, local, envelope>>

\* A renewal never shortens the time that is left.
RenewLease(w) ==
  /\ pc[w] = "idle"
  /\ Live(held[w])
  /\ \E ttl \in TTLs :
       lease' = [lease EXCEPT !.left = IF ttl < @ THEN @ ELSE ttl]
  /\ UNCHANGED <<run, version, actions, approvals, issued, local, memory>>

ReleaseLease(w) ==
  /\ pc[w] = "idle"
  /\ held[w] # None
  /\ lease.token = held[w]
  /\ lease' = NoLease
  /\ UNCHANGED <<run, version, actions, approvals, issued, local, memory>>

-------------------------------------------------------------------------------
(* Engine.Next: the lease, the run, the pending action, the write. *)

NextValidates(w) ==
  /\ pc[w] = "idle"
  /\ Live(held[w])
  /\ pc' = [pc EXCEPT ![w] = "validated"]
  /\ UNCHANGED <<database, memory, copy, mark, job>>

\* A state without an action is refused; missing capabilities make the run
\* blocked, to be written by UpdateRun.
NextReads(w) ==
  /\ pc[w] = "validated"
  /\ \/ /\ run.state \notin ActionStates
        /\ Return(w)
     \/ /\ run.state \in ActionStates
        /\ \E caps \in Inventories :
             IF Capable(run.state, caps)
               THEN Carry(w, "dispatching", run)
               ELSE Carry(w, "updating", [run EXCEPT !.resume = run.state,
                                                     !.state = "blocked",
                                                     !.wait = "capability"])
  /\ UNCHANGED <<run, version, lease, actions, approvals, issued, memory>>

NextLooks(w) ==
  /\ pc[w] = "dispatching"
  /\ \/ /\ Pending = {}
        /\ pc' = [pc EXCEPT ![w] = "creating"]
        /\ UNCHANGED job
     \/ \E a \in Pending :
          /\ pc' = [pc EXCEPT ![w] = "rebinding"]
          /\ job' = [job EXCEPT ![w] = a]
  /\ UNCHANGED <<database, memory, copy, mark>>

\* RebindPendingAction: the row is still pending; the lease is not looked at.
Rebind(a, token) ==
  /\ actions[a].state = "pending"
  /\ actions' = [actions EXCEPT ![a].token = token]

NextRebinds(w) ==
  /\ pc[w] = "rebinding"
  /\ \/ /\ Rebind(job[w], held[w])
        /\ envelope' = [envelope EXCEPT ![w] = job[w]]
     \/ /\ actions[job[w]].state # "pending"
        /\ UNCHANGED <<actions, envelope>>
  /\ UNCHANGED <<run, version, lease, approvals, issued, held>>
  /\ Return(w)

\* Seeded bug: there is no unique index.
InsertableAlways == TRUE

\* The partial unique index actions_one_pending lets a row in.
Insertable == Pending = {}

\* CreateAction: the action is the one of the state that was read.
NextCreates(w) ==
  /\ pc[w] = "creating"
  /\ \/ /\ Insertable
        /\ \E a \in Actions, type \in ActionTypes :
             /\ actions[a].state = "absent"
             /\ <<copy[w].state, type>> \in Dispatches
             /\ actions' = [actions EXCEPT ![a] = [state |-> "pending",
                                                   type  |-> type,
                                                   token |-> held[w]]]
             /\ envelope' = [envelope EXCEPT ![w] = a]
     \/ /\ ~Insertable
        /\ UNCHANGED <<actions, envelope>>
  /\ UNCHANGED <<run, version, lease, approvals, issued, held>>
  /\ Return(w)

-------------------------------------------------------------------------------
(* Engine.Complete and Engine.Fail: the pending action, the run, the commit. *)

CompleteFinds(w) ==
  /\ pc[w] = "idle"
  /\ envelope[w] \in Pending
  /\ pc' = [pc EXCEPT ![w] = "found"]
  /\ job' = [job EXCEPT ![w] = envelope[w]]
  /\ UNCHANGED <<database, memory, copy, mark>>

CompleteReads(w) ==
  /\ pc[w] = "found"
  /\ Carry(w, "computed", run)
  /\ UNCHANGED <<database, memory>>

\* What the evidence of an action changes in the run.
Evidenced(r, type, outcome) ==
  CASE type = "inspect_context" -> { [r EXCEPT !.brief = b] : b \in Briefs }
    [] type = "prepare_workspace" -> { [r EXCEPT !.workspace = TRUE] }
    [] type = "analyze_review" -> { [r EXCEPT !.plan = p] : p \in Plans }
    [] \/ type = "address_review"
       \/ type = "poll_change_request" /\ outcome = "feedback_overlap" ->
         { [r EXCEPT !.plan = None] }
    [] OTHER -> {r}

\* Where an outcome leads: the target of the table, but for a reconciliation
\* with a resume point and for a review followed by the next one.
Routes(r, type, outcome) ==
  IF type = "reconcile" /\ outcome = "complete" /\ r.resume # None
    THEN {r.resume}
    ELSE Targets(r.state, outcome) \cup
           (IF type = "address_review" /\ outcome = "complete"
              THEN {"analyzing_review"} ELSE {})

Arrive(r, target) ==
  [r EXCEPT !.state = target,
            !.wait  = CASE target \in GateStates \cup {"blocked"} -> "human"
                        [] target = "awaiting_review" -> "external"
                        [] OTHER -> "none"]

\* A completed reconciliation uses the resume point up.
Consumed(r, type, outcome) ==
  IF type = "reconcile" /\ outcome = "complete" THEN [r EXCEPT !.resume = None]
  ELSE r

\* The runs a completion may compute.
Completions(r, type) ==
  UNION { { Arrive(Consumed(q, type, outcome), target) :
              q \in Evidenced(r, type, outcome),
              target \in Routes(r, type, outcome) } :
          outcome \in AllowedOutcomes(r.state) }

\* The runs a failure or a drift of the requirements may compute.
Setbacks(r, type) ==
  { [r EXCEPT !.resume = r.state, !.state = "blocked", !.wait = "error"] }
  \cup (IF r.state \in RetryStates
          THEN { IF r.state \in ReconciledWriteStates
                   THEN [r EXCEPT !.resume = r.state, !.state = "reconciling",
                                  !.wait = "external"]
                   ELSE [r EXCEPT !.wait = "external"] }
          ELSE {})
  \cup (IF /\ type \in {"reconcile", "publish_change", "address_review"}
           /\ r.brief # None
          THEN { [r EXCEPT !.resume = r.state, !.state = "brief_stale",
                           !.wait = "human"] }
          ELSE {})

\* A run that ended or waits gives its lease up.
GivesUp(r) == r.state \in TerminalStates \/ r.wait # "none"

\* Seeded bug: commitAction does not look at the lease.
AcceptsWithoutLease(a, token) ==
  actions[a].state = "pending" /\ actions[a].token = token

\* commitAction takes a result in: the lease it names is live, its action is
\* still pending, and was handed out under that lease.
Accepts(a, token) ==
  Live(token) /\ actions[a].state = "pending" /\ actions[a].token = token

\* The version is read again inside the transaction, so the computed run is
\* written whatever was committed since it was read.  A refused result, or one
\* that was already taken, changes nothing.
CommitAction(a, final, r) ==
  /\ version < VersionBound
  /\ run' = r
  /\ version' = version + 1
  /\ actions' = [actions EXCEPT ![a].state = final]
  /\ lease' = IF GivesUp(r) THEN NoLease ELSE lease

CompleteCommits(w) ==
  /\ pc[w] = "computed"
  /\ LET a == job[w]
     IN \/ /\ Accepts(a, held[w])
           /\ \/ \E r \in Completions(copy[w], actions[a].type) :
                   CommitAction(a, "completed", r)
              \/ \E r \in Setbacks(copy[w], actions[a].type) :
                   CommitAction(a, "failed", r)
        \/ /\ ~Accepts(a, held[w])
           /\ UNCHANGED <<run, version, actions, lease>>
  /\ Return(w)
  /\ UNCHANGED <<approvals, issued, memory>>

-------------------------------------------------------------------------------
(* The operator's commands, up to the run they are going to write. *)

\* A pause stores the state it interrupts.
PauseReads(o) ==
  /\ pc[o] = "idle"
  /\ run.state \notin TerminalStates
  /\ Carry(o, "updating", [run EXCEPT !.resume = run.state, !.state = "paused",
                                      !.wait = "human"])
  /\ UNCHANGED <<database, memory>>

ResumeReads(o) ==
  /\ pc[o] = "idle"
  /\ run.state \in {"paused", "blocked"}
  /\ Carry(o, "updating",
           [run EXCEPT !.resume = IF @ = None THEN "discovering_context" ELSE @,
                       !.state = "reconciling", !.wait = "none"])
  /\ UNCHANGED <<database, memory>>

TerminalReads(o) ==
  /\ pc[o] = "idle"
  /\ run.state # "resolved"
  /\ \E target \in {"cancelled", "failed_permanent"} :
       Carry(o, "updating", [run EXCEPT !.state = target, !.wait = "none"])
  /\ UNCHANGED <<database, memory>>

\* cleanup: the workspace of an ended run was removed.
CleanupReads(o) ==
  /\ pc[o] = "idle"
  /\ run.state \in TerminalStates
  /\ run.workspace
  /\ Carry(o, "updating", [run EXCEPT !.workspace = FALSE])
  /\ UNCHANGED <<database, memory>>

\* migrate: the run, then the check that nothing is pending, then UpdateRun.
MigrateReads(o) ==
  /\ pc[o] = "idle"
  /\ \E def \in Definitions \ {run.workflow} :
       Carry(o, "previewing", [run EXCEPT !.workflow = def])
  /\ UNCHANGED <<database, memory>>

MigrateChecks(o) ==
  /\ pc[o] = "previewing"
  /\ \/ /\ Pending = {}
        /\ Carry(o, "updating", copy[o])
     \/ /\ Pending # {}
        /\ Return(o)
  /\ UNCHANGED <<database, memory>>

ApproveReads(o) ==
  /\ pc[o] = "idle"
  /\ run.state \in GateStates
  /\ AtGate(run) # None
  /\ Carry(o, "approving", run)
  /\ UNCHANGED <<database, memory>>

\* Seeded bug: the state is not read again.
ApprovableAlways(o) == TRUE

\* CommitApproval reads the state, and only the state, again: it must be the gate.
Approvable(o) == run.state = copy[o].state

\* It writes the run that Approve read.  The lease is left alone.
ApproveCommits(o) ==
  /\ pc[o] = "approving"
  /\ \/ /\ Approvable(o)
        /\ version < VersionBound
        /\ approvals' = approvals \cup {AtGate(copy[o])}
        /\ \E target \in Targets(copy[o].state, "approved") :
             run' = [copy[o] EXCEPT !.state = target, !.wait = "none"]
        /\ version' = version + 1
     \/ /\ ~Approvable(o)
        /\ UNCHANGED <<run, version, approvals>>
  /\ Return(o)
  /\ UNCHANGED <<lease, actions, issued, memory>>

-------------------------------------------------------------------------------
(* Store.UpdateRun: the version is read when the run to be written is known. *)

UpdateReads(p) ==
  /\ pc[p] = "updating"
  /\ pc' = [pc EXCEPT ![p] = "committing"]
  /\ mark' = [mark EXCEPT ![p] = version]
  /\ UNCHANGED <<database, memory, copy, job>>

\* A run that is paused, has ended or waits.
Stops(r) == r.state = "paused" \/ GivesUp(r)

\* Seeded bug: only an ended run loses its lease.
LeaseAfterEndOnly(r) == IF r.state \in TerminalStates THEN NoLease ELSE lease

\* A run that stops loses its lease.
LeaseAfter(r) == IF Stops(r) THEN NoLease ELSE lease

\* WHERE version=? : a commit since UpdateReads is a conflict, one before it is
\* not noticed.
UpdateCommits(p) ==
  /\ pc[p] = "committing"
  /\ \/ /\ mark[p] = version
        /\ version < VersionBound
        /\ run' = copy[p]
        /\ version' = version + 1
        /\ lease' = LeaseAfter(copy[p])
     \/ /\ mark[p] # version
        /\ UNCHANGED <<run, version, lease>>
  /\ Return(p)
  /\ UNCHANGED <<actions, approvals, issued, memory>>

-------------------------------------------------------------------------------
WorkerStep(w) ==
  \/ AcquireLease(w) \/ RenewLease(w) \/ ReleaseLease(w)
  \/ NextValidates(w) \/ NextReads(w) \/ NextLooks(w)
  \/ NextRebinds(w) \/ NextCreates(w)
  \/ CompleteFinds(w) \/ CompleteReads(w) \/ CompleteCommits(w)

OperatorStep(o) ==
  \/ PauseReads(o) \/ ResumeReads(o) \/ TerminalReads(o) \/ CleanupReads(o)
  \/ MigrateReads(o) \/ MigrateChecks(o)
  \/ ApproveReads(o) \/ ApproveCommits(o)

Next ==
  \/ Tick
  \/ \E w \in Workers : WorkerStep(w)
  \/ \E o \in Operators : OperatorStep(o)
  \/ \E p \in Processes : UpdateReads(p) \/ UpdateCommits(p) \/ Dies(p)

Spec == Init /\ [][Next]_vars

\* The same processes while nothing goes wrong around them: no command dies, and
\* a lease ends only where a commit ends it.
CalmNext ==
  \/ \E w \in Workers :
       \/ AcquireLease(w)
       \/ NextValidates(w) \/ NextReads(w) \/ NextLooks(w)
       \/ NextRebinds(w) \/ NextCreates(w)
       \/ CompleteFinds(w) \/ CompleteReads(w) \/ CompleteCommits(w)
  \/ \E o \in Operators : OperatorStep(o)
  \/ \E p \in Processes : UpdateReads(p) \/ UpdateCommits(p)

CalmSpec == Init /\ [][CalmNext]_vars

-------------------------------------------------------------------------------
(* Properties. *)

Finished(a) == actions[a].state \in {"completed", "failed"}

\* The promise of the leases (SPEC.md:165 "Only the holder of a live lease may
\* complete an action", SPEC.md:167 "An action completion is accepted at most
\* once"): however reads and commits of several sessions interleave, one token is
\* live at a time, none comes back, and a result counts once under the live one.
Promise == INSTANCE Ownership WITH
  owner   <- IF lease.left > 0 THEN lease.token ELSE None,
  spent   <- issued,
  counted <- [a \in Actions |-> IF Finished(a) THEN actions[a].token ELSE None]

OwnershipKept == Promise!Spec

\* Wherever the run has left the states that work, no result can arrive: the
\* token of the leases row is on no pending action.  Sessions that validated their
\* lease before the run left may still create or rebind actions.
NobodyWorksElsewhere ==
  run.state \notin ActionStates =>
    \A a \in Pending : lease.token = None \/ actions[a].token # lease.token

\* Tokens are made once: whatever names one names a token that was made.
TokensKnown ==
  /\ \A a \in Actions : actions[a].token \in issued \cup {None}
  /\ \A w \in Workers : held[w] \in issued \cup {None}
  /\ lease.token \in issued \cup {None}
  /\ lease.left > 0 => lease.token # None

\* No two sessions hold the same token.
HeldApart ==
  \A v, w \in Workers : held[v] = held[w] /\ held[v] # None => v = w

\* The run works or stops, and so does every run about to be written.
WorksOrStops ==
  /\ run.state \in ActionStates \/ Stops(run)
  /\ \A p \in Processes :
       /\ pc[p] \in {"previewing", "updating", "committing"} =>
            copy[p].state \in ActionStates \/ Stops(copy[p])
       /\ pc[p] = "approving" => copy[p].state \in GateStates

\* A session that is still busy with an agent next of before the run stopped holds
\* a dead token.
LateTokensAreDead ==
  run.state \notin ActionStates =>
    \A w \in Workers :
      pc[w] \in {"dispatching", "creating", "rebinding"} =>
        lease.token = None \/ lease.token # held[w]

\* What makes NobodyWorksElsewhere inductive.
Strengthening ==
  TokensKnown /\ HeldApart /\ WorksOrStops /\ LateTokensAreDead

\* commitAction writes the run Complete computed without asking for the version it
\* was computed from (control.go:451).  That is sound because whoever changes the
\* run meanwhile takes the lease away: a result that is taken is never stale.
ResultsAreNotStale ==
  [][ \A w \in Workers :
        (pc[w] = "computed" /\ pc'[w] = "idle" /\ job[w] \in Pending \ Pending')
          => copy[w] = run ]_vars

\* A result that would be taken has seen the present run.
ResultsSeeRun ==
  \A w \in Workers :
    /\ pc[w] = "computed" /\ job[w] \in Pending
    /\ held[w] # None /\ lease.token = held[w]
    /\ actions[job[w]].token = held[w]
    => copy[w] = run

\* All that a session is about to write with UpdateRun is a blocked run.
WorkersOnlyBlock ==
  \A w \in Workers :
    pc[w] \in {"updating", "committing"} =>
      copy[w].state = "blocked" /\ Stops(copy[w])

\* And an operator sets a run to work again only while it is stopped.
UpdatesFit ==
  /\ WorkersOnlyBlock
  /\ \A o \in Operators :
       pc[o] \in {"updating", "committing"} /\ ~Stops(copy[o])
         => run.state \in {"paused", "blocked"}

\* What makes ResultsAreNotStale inductive while nobody migrates the run.
Freshness ==
  /\ ResultsSeeRun
  /\ UpdatesFit
  /\ \A p \in Processes : pc[p] # "previewing"

\* CommitApproval writes the run that Approve read, and its test of the state
\* (control.go:149) cannot tell a gate from the same gate some changes later.  With
\* one operator that is enough: an approval that is committed is one of the present
\* run, for nobody else brings a run that left a gate back to it.
ApprovalsAreNotStale ==
  [][ \A o \in Operators :
        (pc[o] = "approving" /\ pc'[o] = "idle" /\ version' # version)
          => copy[o] = run ]_vars

\* What makes it inductive: whoever is about to approve has seen the present run, or
\* a session that had read the run before has blocked it since.
ApproversSeeRun ==
  /\ WorkersOnlyBlock
  /\ \A o \in Operators :
       pc[o] = "approving" => copy[o] = run \/ run.state = "blocked"

\* What moves the run, whoever else is at work.
Handed == IF Pending = {} THEN None
          ELSE actions[CHOOSE a \in Pending : TRUE].type

Mover == INSTANCE Commands WITH
  state  <- run.state,
  resume <- run.resume,
  brief  <- run.brief,
  plan   <- run.plan,
  action <- Handed

\* With one operator and nothing to migrate to, results and approvals are as good as
\* atomic, although no commit but UpdateRun's compares versions, and UpdateRun reads
\* the one it compares with after the run: every move along the table starts from the
\* present run, and late updates can only stop it.
CommandsKept == Mover!Spec

\* What the documents say and the code does not do (see the README).

\* cancelled is a terminal outcome (SPEC.md:211), and a cancelled run is released
\* for good (SPEC.md:559): no command brings an ended run back.
EndedForGood ==
  [][ run.state \in TerminalStates => run'.state \in TerminalStates ]_vars
===============================================================================
