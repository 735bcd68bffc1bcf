----------------------------- MODULE SessionsProofs -----------------------------
(***************************************************************************)
(* Leases and stale writes of Sessions for every number of sessions,       *)
(* operators, tokens and actions, every lease time and every bound.        *)
(***************************************************************************)
EXTENDS Sessions, TLAPS

-------------------------------------------------------------------------------
(* The table. *)

\* The states the commands name are states of the table.
LEMMA NamedStates ==
  /\ {"blocked", "paused", "reconciling", "brief_stale", "cancelled",
      "failed_permanent", "discovering_context"} \subseteq States
  /\ "discovering_context" \in ActionStates
  /\ "reconciling" \in ActionStates
BY DEF States, ActionStates, Dispatches, WaitStates, TerminalStates

\* Where the table leads is a state of the table.
LEMMA TargetIsState ==
  ASSUME NEW s, NEW o, NEW t \in Targets(s, o)
  PROVE  t \in States
<1>1. PICK u \in Transitions : t = u[3]
  BY DEF Targets
<1> QED
  BY <1>1 DEF Transitions, States, ActionStates, Dispatches, GateStates,
              WaitStates, TerminalStates, BriefGate, PlanGate

\* An approval leads to work.
LEMMA ApprovalLeadsToWork ==
  ASSUME NEW s, NEW t \in Targets(s, "approved")
  PROVE  t \in ActionStates
<1>1. PICK u \in Transitions : u[2] = "approved" /\ t = u[3]
  BY DEF Targets
<1> QED
  BY <1>1 DEF Transitions, ActionStates, Dispatches

\* Work, gates, waits and ends are different states.
LEMMA KindsAreDisjoint ==
  /\ ActionStates \cap GateStates = {}
  /\ ActionStates \cap WaitStates = {}
  /\ ActionStates \cap TerminalStates = {}
BY DEF ActionStates, Dispatches, GateStates, WaitStates, TerminalStates,
       BriefGate, PlanGate

-------------------------------------------------------------------------------
(* What the commands compute. *)

LEMMA NewRunTyped == NewRun \in RunType
BY SessionsEmbedded, NamedStates DEF NewRun, RunType, WaitKinds

\* The end of Complete: a run that works on or stops.
LEMMA ArriveTyped ==
  ASSUME NEW r \in RunType, NEW t \in States
  PROVE  /\ Arrive(r, t) \in RunType
         /\ Arrive(r, t).state = t
         /\ t \in ActionStates \/ Stops(Arrive(r, t))
<1>1. Arrive(r, t) \in RunType /\ Arrive(r, t).state = t
  BY DEF Arrive, RunType, WaitKinds
<1>2. t \in GateStates \cup {"blocked"} => Arrive(r, t).wait = "human"
  BY DEF Arrive, RunType, GateStates, BriefGate, PlanGate
<1> QED
  BY <1>1, <1>2 DEF States, WaitStates, Stops, GivesUp

\* Evidence keeps the state and the resume point.
LEMMA EvidencedTyped ==
  ASSUME NEW r \in RunType, NEW type, NEW outcome,
         NEW q \in Evidenced(r, type, outcome)
  PROVE  q \in RunType /\ q.state = r.state /\ q.resume = r.resume
<1>1. CASE type = "inspect_context"
  BY <1>1 DEF Evidenced, RunType
<1>2. CASE type = "prepare_workspace"
  BY <1>2 DEF Evidenced, RunType
<1>3. CASE type = "analyze_review"
  BY <1>3 DEF Evidenced, RunType
<1>4. CASE type \notin {"inspect_context", "prepare_workspace", "analyze_review"}
  <2>1. q = r \/ q = [r EXCEPT !.plan = None]
    BY <1>4 DEF Evidenced
  <2> QED
    BY <2>1 DEF RunType
<1> QED
  BY <1>1, <1>2, <1>3, <1>4

\* A completion computes a run that works or stops.
LEMMA CompletionTyped ==
  ASSUME NEW r \in RunType, NEW type, NEW q \in Completions(r, type)
  PROVE  q \in RunType /\ (q.state \in ActionStates \/ Stops(q))
<1>1. PICK outcome \in AllowedOutcomes(r.state) :
        \E e \in Evidenced(r, type, outcome), t \in Routes(r, type, outcome) :
          q = Arrive(Consumed(e, type, outcome), t)
  BY DEF Completions
<1>2. PICK e \in Evidenced(r, type, outcome), t \in Routes(r, type, outcome) :
        q = Arrive(Consumed(e, type, outcome), t)
  BY <1>1
<1>3. t \in States
  <2>1. r.resume # None => r.resume \in States
    BY DEF RunType
  <2>2. "analyzing_review" \in States
    BY DEF States, ActionStates, Dispatches
  <2> QED
    BY <2>1, <2>2, TargetIsState DEF Routes
<1>4. Consumed(e, type, outcome) \in RunType
  BY EvidencedTyped DEF Consumed, RunType
<1> QED
  BY <1>2, <1>3, <1>4, ArriveTyped

\* A failure or a drift computes one that gives the lease up.
LEMMA SetbackTyped ==
  ASSUME NEW r \in RunType, NEW type, NEW q \in Setbacks(r, type)
  PROVE  q \in RunType /\ GivesUp(q)
<1>1. \/ q = [r EXCEPT !.resume = r.state, !.state = "blocked", !.wait = "error"]
      \/ q = [r EXCEPT !.resume = r.state, !.state = "reconciling",
                       !.wait = "external"]
      \/ q = [r EXCEPT !.wait = "external"]
      \/ q = [r EXCEPT !.resume = r.state, !.state = "brief_stale",
                       !.wait = "human"]
  BY DEF Setbacks
<1>2. \A s \in {r.state, "blocked", "reconciling", "brief_stale"} : s \in States
  BY NamedStates DEF RunType
<1>3. CASE q = [r EXCEPT !.resume = r.state, !.state = "blocked", !.wait = "error"]
  BY <1>2, <1>3 DEF RunType, WaitKinds, GivesUp
<1>4. CASE q = [r EXCEPT !.resume = r.state, !.state = "reconciling",
                         !.wait = "external"]
  BY <1>2, <1>4 DEF RunType, WaitKinds, GivesUp
<1>5. CASE q = [r EXCEPT !.wait = "external"]
  BY <1>5 DEF RunType, WaitKinds, GivesUp
<1>6. CASE q = [r EXCEPT !.resume = r.state, !.state = "brief_stale",
                         !.wait = "human"]
  BY <1>2, <1>6 DEF RunType, WaitKinds, GivesUp
<1> QED
  BY <1>1, <1>3, <1>4, <1>5, <1>6

-------------------------------------------------------------------------------
(* Type correctness. *)

LEMMA InitTyped == Init => TypeOK
BY NewRunTyped DEF Init, TypeOK, StoredOK, CarriedOK, NoLease, LeaseType, ActionType,
                   Stages, Pending

LEMMA ReturnTyped ==
  ASSUME CarriedOK, NEW p \in Processes, Return(p)
  PROVE  CarriedOK'
BY NewRunTyped DEF CarriedOK, Return, Stages

LEMMA CarryTyped ==
  ASSUME CarriedOK, NEW p \in Processes, NEW stage \in Stages, NEW r \in RunType,
         Carry(p, stage, r), stage \notin {"rebinding", "found"},
         stage = "computed" => job[p] # None,
         stage = "approving" => AtGate(r) # None
  PROVE  CarriedOK'
BY DEF CarriedOK, Carry

\* A command that leaves the database alone.
LEMMA StoredKept ==
  ASSUME StoredOK, UNCHANGED <<database, memory>>
  PROVE  StoredOK'
BY DEF StoredOK, database, memory, Pending

\* A commit of an action's result.
LEMMA CommitActionTyped ==
  ASSUME StoredOK, NEW a \in Actions, NEW final \in {"completed", "failed"},
         NEW r \in RunType, CommitAction(a, final, r),
         UNCHANGED <<approvals, issued, memory>>
  PROVE  StoredOK' /\ Pending' = Pending \ {a}
<1>1. actions[a] \in ActionType
  BY DEF StoredOK
<1>2. actions' \in [Actions -> ActionType] /\ Pending' = Pending \ {a}
  BY <1>1 DEF StoredOK, CommitAction, ActionType, Pending
<1>3. run' \in RunType /\ version' \in Nat /\ lease' \in LeaseType
  BY DEF StoredOK, CommitAction, NoLease, LeaseType
<1> QED
  BY <1>2, <1>3 DEF StoredOK, memory

\* The lease operations.
LEMMA LeaseStepsTyped ==
  ASSUME TypeOK, NEW w \in Workers,
         AcquireLease(w) \/ RenewLease(w) \/ ReleaseLease(w) \/ Tick
  PROVE  TypeOK'
<1> USE DEF TypeOK
<1>1. lease' \in LeaseType
  <2>1. CASE AcquireLease(w)
    BY <2>1, SessionsTTLs DEF AcquireLease, LeaseType
  <2>2. CASE RenewLease(w)
    BY <2>2, SessionsTTLs DEF RenewLease, StoredOK, LeaseType
  <2>3. CASE ReleaseLease(w)
    BY <2>3 DEF ReleaseLease, NoLease, LeaseType
  <2>4. CASE Tick
    BY <2>4 DEF Tick, StoredOK, LeaseType
  <2> QED
    BY <2>1, <2>2, <2>3, <2>4
<1>2. issued' \subseteq Tokens /\ held' \in [Workers -> Tokens \cup {None}]
  BY DEF AcquireLease, RenewLease, ReleaseLease, Tick, StoredOK, memory
<1>3. UNCHANGED <<run, version, actions, approvals, local, envelope>>
  BY DEF AcquireLease, RenewLease, ReleaseLease, Tick, memory
<1> QED
  BY <1>1, <1>2, <1>3 DEF StoredOK, CarriedOK, local, Pending

\* A session that asks for an action.
LEMMA NextStepsTyped ==
  ASSUME TypeOK, NEW w \in Workers,
         \/ NextValidates(w) \/ NextReads(w) \/ NextLooks(w)
         \/ NextRebinds(w) \/ NextCreates(w)
  PROVE  TypeOK'
<1> USE DEF TypeOK, Processes
<1>1. CASE NextValidates(w)
  <2>1. CarriedOK'
    BY <1>1 DEF NextValidates, CarriedOK, Stages
  <2> QED
    BY <1>1, <2>1, StoredKept DEF NextValidates
<1>2. CASE NextReads(w)
  <2>1. CarriedOK'
    <3>1. CASE Return(w)
      BY <3>1, ReturnTyped
    <3>2. CASE Carry(w, "dispatching", run)
      BY <3>2, CarryTyped DEF StoredOK, Stages
    <3>3. CASE Carry(w, "updating", [run EXCEPT !.resume = run.state,
                                     !.state = "blocked", !.wait = "capability"])
      <4>1. [run EXCEPT !.resume = run.state, !.state = "blocked",
                        !.wait = "capability"] \in RunType
        BY NamedStates DEF StoredOK, RunType, WaitKinds
      <4> QED
        BY <3>3, <4>1, CarryTyped DEF Stages
    <3> QED
      BY <1>2, <3>1, <3>2, <3>3 DEF NextReads
  <2> QED
    BY <1>2, <2>1, StoredKept DEF NextReads, database
<1>3. CASE NextLooks(w)
  <2>1. CarriedOK'
    BY <1>3, SessionsNone DEF NextLooks, CarriedOK, Stages, Pending
  <2> QED
    BY <1>3, <2>1, StoredKept DEF NextLooks
<1>4. CASE NextRebinds(w)
  <2>1. CarriedOK'
    BY <1>4, ReturnTyped DEF NextRebinds
  <2>2. /\ actions' \in [Actions -> ActionType] /\ Pending' = Pending
        /\ envelope' \in [Workers -> Actions \cup {None}]
    <3>1. CASE Rebind(job[w], held[w]) /\ envelope' = [envelope EXCEPT ![w] = job[w]]
      <4> DEFINE rebound == [actions[job[w]] EXCEPT !.token = held[w]]
      <4>0. rebound \in ActionType \/ job[w] \notin Actions
        BY DEF StoredOK, ActionType
      <4>1. actions' \in [Actions -> ActionType]
        BY <3>1, <4>0 DEF Rebind, StoredOK
      <4>2. Pending' = Pending
        BY <3>1 DEF Rebind, StoredOK, Pending
      <4>3. envelope' \in [Workers -> Actions \cup {None}]
        BY <3>1 DEF StoredOK, CarriedOK
      <4> QED
        BY <4>1, <4>2, <4>3
    <3>2. CASE UNCHANGED <<actions, envelope>>
      BY <3>2 DEF StoredOK, Pending
    <3> QED
      BY <1>4, <3>1, <3>2 DEF NextRebinds
  <2> QED
    BY <1>4, <2>1, <2>2 DEF NextRebinds, StoredOK
<1>5. CASE NextCreates(w)
  <2>1. CarriedOK'
    BY <1>5, ReturnTyped DEF NextCreates
  <2>2. /\ actions' \in [Actions -> ActionType]
        /\ \A a, b \in Pending' : a = b
        /\ envelope' \in [Workers -> Actions \cup {None}]
    <3>1. CASE UNCHANGED <<actions, envelope>>
      BY <3>1 DEF StoredOK, Pending
    <3>2. CASE Insertable /\ ~UNCHANGED <<actions, envelope>>
      <4>1. PICK a \in Actions, type \in ActionTypes :
              /\ actions' = [actions EXCEPT ![a] = [state |-> "pending",
                                                    type  |-> type,
                                                    token |-> held[w]]]
              /\ envelope' = [envelope EXCEPT ![w] = a]
        BY <1>5, <3>2 DEF NextCreates
      <4>2. Pending' \subseteq {a}
        BY <3>2, <4>1 DEF Insertable, Pending, StoredOK
      <4> QED
        BY <4>1, <4>2 DEF StoredOK, ActionType
    <3> QED
      BY <1>5, <3>1, <3>2 DEF NextCreates
  <2> QED
    BY <1>5, <2>1, <2>2 DEF NextCreates, StoredOK
<1> QED
  BY <1>1, <1>2, <1>3, <1>4, <1>5

\* A session that brings a result.
LEMMA CompleteStepsTyped ==
  ASSUME TypeOK, NEW w \in Workers,
         CompleteFinds(w) \/ CompleteReads(w) \/ CompleteCommits(w)
  PROVE  TypeOK'
<1> USE DEF TypeOK, Processes
<1>1. CASE CompleteFinds(w)
  <2>1. CarriedOK'
    BY <1>1, SessionsNone DEF CompleteFinds, CarriedOK, Stages, Pending
  <2> QED
    BY <1>1, <2>1, StoredKept DEF CompleteFinds
<1>2. CASE CompleteReads(w)
  <2>1. CarriedOK'
    <3>1. job[w] # None
      BY <1>2 DEF CompleteReads, CarriedOK
    <3> QED
      BY <1>2, <3>1, CarryTyped DEF CompleteReads, StoredOK, Stages
  <2> QED
    BY <1>2, <2>1, StoredKept DEF CompleteReads
<1>3. CASE CompleteCommits(w)
  <2>1. CarriedOK'
    BY <1>3, ReturnTyped DEF CompleteCommits
  <2>2. CASE UNCHANGED <<run, version, actions, lease>>
    BY <1>3, <2>1, <2>2, StoredKept DEF CompleteCommits, database
  <2>3. ASSUME NEW final \in {"completed", "failed"}, NEW r \in RunType,
               CommitAction(job[w], final, r)
        PROVE  StoredOK'
    <3>1. job[w] \in Actions
      BY <1>3 DEF CompleteCommits, CarriedOK
    <3> QED
      BY <1>3, <2>3, <3>1, CommitActionTyped DEF CompleteCommits
  <2>4. copy[w] \in RunType
    BY DEF CarriedOK
  <2> QED
    BY <1>3, <2>1, <2>2, <2>3, <2>4, CompletionTyped, SetbackTyped
    DEF CompleteCommits
<1> QED
  BY <1>1, <1>2, <1>3

\* An operator's commands.
LEMMA OperatorStepTyped ==
  ASSUME TypeOK, NEW o \in Operators, OperatorStep(o)
  PROVE  TypeOK'
<1> USE DEF TypeOK, Processes
<1>1. ASSUME NEW stage \in {"previewing", "updating"}, NEW r \in RunType,
             Carry(o, stage, r), UNCHANGED <<database, memory>>
      PROVE  TypeOK'
  BY <1>1, CarryTyped, StoredKept DEF Stages
<1>2. CASE PauseReads(o)
  <2>1. [run EXCEPT !.resume = run.state, !.state = "paused", !.wait = "human"]
          \in RunType
    BY NamedStates DEF StoredOK, RunType, WaitKinds
  <2> QED
    BY <1>1, <1>2, <2>1 DEF PauseReads
<1>3. CASE ResumeReads(o)
  <2>1. [run EXCEPT !.resume = IF @ = None THEN "discovering_context" ELSE @,
                    !.state = "reconciling", !.wait = "none"] \in RunType
    BY NamedStates DEF StoredOK, RunType, WaitKinds
  <2> QED
    BY <1>1, <1>3, <2>1 DEF ResumeReads
<1>4. CASE TerminalReads(o)
  <2>1. \A target \in {"cancelled", "failed_permanent"} :
          [run EXCEPT !.state = target, !.wait = "none"] \in RunType
    BY NamedStates DEF StoredOK, RunType, WaitKinds
  <2> QED
    BY <1>1, <1>4, <2>1 DEF TerminalReads
<1>5. CASE CleanupReads(o)
  <2>1. [run EXCEPT !.workspace = FALSE] \in RunType
    BY DEF StoredOK, RunType
  <2> QED
    BY <1>1, <1>5, <2>1 DEF CleanupReads
<1>6. CASE MigrateReads(o)
  <2>1. \A def \in Definitions : [run EXCEPT !.workflow = def] \in RunType
    BY DEF StoredOK, RunType
  <2> QED
    BY <1>1, <1>6, <2>1 DEF MigrateReads
<1>7. CASE MigrateChecks(o)
  <2>1. CASE Return(o)
    BY <1>7, <2>1, ReturnTyped, StoredKept DEF MigrateChecks
  <2>2. CASE Carry(o, "updating", copy[o])
    BY <1>1, <1>7, <2>2 DEF MigrateChecks, CarriedOK
  <2> QED
    BY <1>7, <2>1, <2>2 DEF MigrateChecks
<1>8. CASE ApproveReads(o)
  BY <1>8, CarryTyped, StoredKept DEF ApproveReads, StoredOK, Stages
<1>9. CASE ApproveCommits(o)
  <2>1. CarriedOK'
    BY <1>9, ReturnTyped DEF ApproveCommits
  <2>2. run' \in RunType /\ version' \in Nat
    <3>1. \A target \in Targets(copy[o].state, "approved") :
            [copy[o] EXCEPT !.state = target, !.wait = "none"] \in RunType
      <4>1. copy[o] \in RunType
        BY DEF CarriedOK
      <4>2. \A target \in Targets(copy[o].state, "approved") : target \in States
        BY TargetIsState
      <4> QED
        BY <4>1, <4>2 DEF RunType, WaitKinds
    <3>2. \/ \E target \in Targets(copy[o].state, "approved") :
                /\ run' = [copy[o] EXCEPT !.state = target, !.wait = "none"]
                /\ version' = version + 1
          \/ UNCHANGED <<run, version>>
      BY <1>9 DEF ApproveCommits
    <3>3. version + 1 \in Nat
      BY DEF StoredOK
    <3> QED
      BY <3>1, <3>2, <3>3 DEF StoredOK
  <2>3. approvals' \subseteq Briefs \cup Plans
    <3>1. AtGate(copy[o]) \in Briefs \cup Plans
      BY <1>9 DEF ApproveCommits, CarriedOK, AtGate, RunType
    <3> QED
      BY <1>9, <3>1 DEF ApproveCommits, StoredOK
  <2> QED
    BY <1>9, <2>1, <2>2, <2>3 DEF ApproveCommits, StoredOK, memory, Pending
<1> QED
  BY <1>2, <1>3, <1>4, <1>5, <1>6, <1>7, <1>8, <1>9 DEF OperatorStep

\* UpdateRun, and the death of a command.
LEMMA UpdateStepsTyped ==
  ASSUME TypeOK, NEW p \in Processes,
         UpdateReads(p) \/ UpdateCommits(p) \/ Dies(p)
  PROVE  TypeOK'
<1> USE DEF TypeOK
<1>1. CASE UpdateReads(p)
  <2>1. CarriedOK'
    BY <1>1 DEF UpdateReads, CarriedOK, StoredOK, Stages
  <2> QED
    BY <1>1, <2>1, StoredKept DEF UpdateReads
<1>2. CASE UpdateCommits(p)
  <2>1. CarriedOK'
    BY <1>2, ReturnTyped DEF UpdateCommits
  <2>2. run' \in RunType /\ version' \in Nat /\ lease' \in LeaseType
    BY <1>2 DEF UpdateCommits, LeaseAfter, NoLease, LeaseType, StoredOK, CarriedOK
  <2> QED
    BY <1>2, <2>1, <2>2 DEF UpdateCommits, StoredOK, memory, Pending
<1>3. CASE Dies(p)
  BY <1>3, ReturnTyped, StoredKept DEF Dies
<1> QED
  BY <1>1, <1>2, <1>3

LEMMA StepTyped ==
  ASSUME TypeOK, [Next]_vars
  PROVE  TypeOK'
<1>1. CASE UNCHANGED vars
  BY <1>1, StoredKept DEF vars, local, TypeOK, CarriedOK
<1>2. CASE Tick
  BY <1>2 DEF Tick, TypeOK, StoredOK, CarriedOK, LeaseType, local, memory, Pending
<1>3. ASSUME NEW w \in Workers, WorkerStep(w)
      PROVE  TypeOK'
  BY <1>3, LeaseStepsTyped, NextStepsTyped, CompleteStepsTyped DEF WorkerStep
<1>4. ASSUME NEW o \in Operators, OperatorStep(o)
      PROVE  TypeOK'
  BY <1>4, OperatorStepTyped
<1>5. ASSUME NEW p \in Processes, UpdateReads(p) \/ UpdateCommits(p) \/ Dies(p)
      PROVE  TypeOK'
  BY <1>5, UpdateStepsTyped
<1> QED
  BY <1>1, <1>2, <1>3, <1>4, <1>5 DEF Next

\* Every reachable state is well typed, with one pending action at most: sessions
\* that both find nothing pending create one between them.
THEOREM TypeCorrect == Spec => []TypeOK
<1>1. Init => TypeOK
  BY InitTyped
<1>2. TypeOK /\ [Next]_vars => TypeOK'
  BY StepTyped
<1> QED
  BY <1>1, <1>2, PTL DEF Spec

-------------------------------------------------------------------------------
(* The steps that change rows, and the moves of a command. *)

\* The steps that write rows; all others only move a command.
LEMMA StepKinds ==
  ASSUME [Next]_vars
  PROVE  \/ UNCHANGED <<database, memory>>
         \/ Tick
         \/ \E w \in Workers :
              \/ AcquireLease(w) \/ RenewLease(w) \/ ReleaseLease(w)
              \/ NextRebinds(w) \/ NextCreates(w) \/ CompleteCommits(w)
         \/ \E o \in Operators : ApproveCommits(o)
         \/ \E p \in Processes : UpdateCommits(p)
<1>1. CASE UNCHANGED vars
  BY <1>1 DEF vars, database, memory
<1>2. ASSUME NEW w \in Workers,
             \/ NextValidates(w) \/ NextReads(w) \/ NextLooks(w)
             \/ CompleteFinds(w) \/ CompleteReads(w)
      PROVE  UNCHANGED <<database, memory>>
  BY <1>2 DEF NextValidates, NextReads, NextLooks, CompleteFinds, CompleteReads,
              database
<1>3. ASSUME NEW o \in Operators, OperatorStep(o), ~ApproveCommits(o)
      PROVE  UNCHANGED <<database, memory>>
  BY <1>3 DEF OperatorStep, PauseReads, ResumeReads, TerminalReads, CleanupReads,
              MigrateReads, MigrateChecks, ApproveReads
<1>4. ASSUME NEW p \in Processes, UpdateReads(p) \/ Dies(p)
      PROVE  UNCHANGED <<database, memory>>
  BY <1>4 DEF UpdateReads, Dies
<1> QED
  BY <1>1, <1>2, <1>3, <1>4 DEF Next, WorkerStep

\* The commands of the other processes stay where they are.
OthersStay(p) ==
  \A q \in Processes \ {p} :
    pc'[q] = pc[q] /\ copy'[q] = copy[q] /\ job'[q] = job[q]

LEMMA ReturnMoves ==
  ASSUME CarriedOK, NEW p \in Processes, Return(p)
  PROVE  pc'[p] = "idle" /\ OthersStay(p)
BY DEF CarriedOK, Return, OthersStay

LEMMA CarryMoves ==
  ASSUME CarriedOK, NEW p \in Processes, NEW stage, NEW r, Carry(p, stage, r)
  PROVE  /\ pc'[p] = stage /\ copy'[p] = r /\ job'[p] = job[p]
         /\ OthersStay(p)
BY DEF CarriedOK, Carry, OthersStay

\* What a rebinding and a new action do to the actions table.
LEMMA RebindRows ==
  ASSUME StoredOK, NEW w \in Workers, NextRebinds(w)
  PROVE  \A a \in Actions :
           \/ actions'[a] = actions[a]
           \/ /\ a = job[w]
              /\ actions[a].state = "pending" /\ actions'[a].state = "pending"
              /\ actions'[a].token = held[w] /\ actions'[a].type = actions[a].type
BY DEF NextRebinds, Rebind, StoredOK, ActionType

LEMMA CreateRows ==
  ASSUME StoredOK, NEW w \in Workers, NextCreates(w)
  PROVE  \A a \in Actions :
           \/ actions'[a] = actions[a]
           \/ /\ Pending = {}
              /\ actions[a].state = "absent" /\ actions'[a].state = "pending"
              /\ actions'[a].token = held[w] /\ actions'[a].type \in ActionTypes
<1>1. CASE UNCHANGED actions
  BY <1>1
<1>2. CASE ~UNCHANGED actions
  <2>1. PICK b \in Actions, type \in ActionTypes :
          /\ Insertable /\ actions[b].state = "absent"
          /\ actions' = [actions EXCEPT ![b] = [state |-> "pending", type  |-> type,
                                                token |-> held[w]]]
    BY <1>2 DEF NextCreates
  <2> QED
    BY <2>1 DEF Insertable, StoredOK
<1> QED
  BY <1>1, <1>2

-------------------------------------------------------------------------------
(* The leases keep their promise. *)

\* A token that is made is a token.
LEMMA TokensAreNotNone == None \notin Tokens
BY SessionsNone

LEMMA TokensKnownStep ==
  ASSUME TypeOK, TokensKnown, [Next]_vars
  PROVE  TokensKnown'
<1> USE DEF TypeOK, TokensKnown
<1>1. CASE UNCHANGED <<database, memory>>
  BY <1>1 DEF database, memory
<1>2. CASE Tick
  BY <1>2 DEF Tick, memory, StoredOK, LeaseType
<1>3. ASSUME NEW w \in Workers, AcquireLease(w)
      PROVE  TokensKnown'
  BY <1>3, TokensAreNotNone DEF AcquireLease, StoredOK, LeaseType
<1>4. ASSUME NEW w \in Workers, RenewLease(w)
      PROVE  TokensKnown'
  BY <1>4 DEF RenewLease, memory, StoredOK, LeaseType, Live
<1>5. ASSUME NEW w \in Workers, ReleaseLease(w)
      PROVE  TokensKnown'
  BY <1>5 DEF ReleaseLease, memory, NoLease
<1>6. ASSUME NEW w \in Workers, NextRebinds(w)
      PROVE  TokensKnown'
  <2>1. \A a \in Actions : actions'[a].token \in {actions[a].token, held[w]}
    BY <1>6, RebindRows
  <2> QED
    BY <1>6, <2>1 DEF NextRebinds
<1>7. ASSUME NEW w \in Workers, NextCreates(w)
      PROVE  TokensKnown'
  <2>1. \A a \in Actions : actions'[a].token \in {actions[a].token, held[w]}
    BY <1>7, CreateRows
  <2> QED
    BY <1>7, <2>1 DEF NextCreates
<1>8. ASSUME NEW w \in Workers, CompleteCommits(w)
      PROVE  TokensKnown'
  <2>1. /\ \A a \in Actions : actions'[a].token = actions[a].token
        /\ lease' \in {lease, NoLease}
    BY <1>8 DEF CompleteCommits, CommitAction, StoredOK, ActionType
  <2> QED
    BY <1>8, <2>1 DEF CompleteCommits, memory, NoLease
<1>9. ASSUME NEW o \in Operators, ApproveCommits(o)
      PROVE  TokensKnown'
  BY <1>9 DEF ApproveCommits, memory
<1>10. ASSUME NEW p \in Processes, UpdateCommits(p)
       PROVE  TokensKnown'
  BY <1>10 DEF UpdateCommits, LeaseAfter, NoLease, memory
<1> QED
  BY <1>1, <1>2, <1>3, <1>4, <1>5, <1>6, <1>7, <1>8, <1>9, <1>10, StepKinds

\* A row of an action that is not finished and stays so counts for nobody.
LEMMA NothingCounts ==
  ASSUME TypeOK, actions' \in [Actions -> ActionType],
         \A a \in Actions :
           \/ actions'[a] = actions[a]
           \/ ~Finished(a) /\ ~Finished(a)'
  PROVE  UNCHANGED [a \in Actions |-> IF Finished(a) THEN actions[a].token ELSE None]
BY DEF Finished

\* Every step is one of Ownership, or leaves its variables alone.
LEMMA OwnershipStep ==
  ASSUME TypeOK, TypeOK', TokensKnown, [Next]_vars
  PROVE  [Promise!Next]_(Promise!vars)
<1> DEFINE owner == IF lease.left > 0 THEN lease.token ELSE None
           counted == [a \in Actions |-> IF Finished(a) THEN actions[a].token ELSE None]
<1> USE DEF TypeOK, TokensKnown
<1>1. /\ lease.left \in Nat /\ lease'.left \in Nat
      /\ actions \in [Actions -> ActionType] /\ actions' \in [Actions -> ActionType]
  BY DEF StoredOK, LeaseType
<1>2. ASSUME UNCHANGED <<lease, issued, actions>>
      PROVE  UNCHANGED Promise!vars
  BY <1>2 DEF Promise!vars, Finished
<1>3. ASSUME lease' \in {lease, NoLease}, UNCHANGED issued, UNCHANGED counted
      PROVE  [Promise!Next]_(Promise!vars)
  BY <1>3 DEF NoLease, Promise!vars, Promise!Next, Promise!Lose
<1>4. CASE UNCHANGED <<database, memory>>
  BY <1>2, <1>4 DEF database
<1>5. CASE Tick
  <2>1. UNCHANGED counted /\ UNCHANGED issued
    BY <1>5 DEF Tick, Finished
  <2>2. owner' = owner \/ owner' = None
    BY <1>1, <1>5 DEF Tick, StoredOK, LeaseType
  <2> QED
    BY <2>1, <2>2 DEF Promise!vars, Promise!Next, Promise!Lose
<1>6. ASSUME NEW w \in Workers, AcquireLease(w)
      PROVE  [Promise!Next]_(Promise!vars)
  <2>1. PICK token \in Tokens \ issued, ttl \in TTLs :
          lease' = [token |-> token, left |-> ttl] /\ issued' = issued \cup {token}
    BY <1>6 DEF AcquireLease
  <2>2. owner = None /\ owner' = token
    BY <1>6, <2>1, SessionsTTLs DEF AcquireLease
  <2>3. UNCHANGED counted
    BY <1>6 DEF AcquireLease, Finished
  <2>4. Promise!Grant(token)
    BY <2>1, <2>2, <2>3 DEF Promise!Grant
  <2> QED
    BY <2>1, <2>4 DEF Promise!Next
<1>7. ASSUME NEW w \in Workers, RenewLease(w)
      PROVE  [Promise!Next]_(Promise!vars)
  <2>1. owner' = owner
    BY <1>1, <1>7, SessionsTTLs DEF RenewLease, Live, StoredOK, LeaseType
  <2>2. UNCHANGED counted /\ UNCHANGED issued
    BY <1>7 DEF RenewLease, Finished
  <2> QED
    BY <2>1, <2>2 DEF Promise!vars
<1>8. ASSUME NEW w \in Workers, ReleaseLease(w)
      PROVE  [Promise!Next]_(Promise!vars)
  <2>1. UNCHANGED counted
    BY <1>8 DEF ReleaseLease, Finished
  <2> QED
    BY <1>3, <1>8, <2>1 DEF ReleaseLease
<1>9. ASSUME NEW w \in Workers, NextRebinds(w)
      PROVE  [Promise!Next]_(Promise!vars)
  <2>1. \A a \in Actions :
          actions'[a] = actions[a] \/ (~Finished(a) /\ ~Finished(a)')
    BY <1>9, RebindRows DEF Finished
  <2>2. UNCHANGED counted
    BY <1>1, <2>1, NothingCounts
  <2> QED
    BY <1>3, <1>9, <2>2 DEF NextRebinds
<1>10. ASSUME NEW w \in Workers, NextCreates(w)
       PROVE  [Promise!Next]_(Promise!vars)
  <2>1. \A a \in Actions :
          actions'[a] = actions[a] \/ (~Finished(a) /\ ~Finished(a)')
    BY <1>10, CreateRows DEF Finished
  <2>2. UNCHANGED counted
    BY <1>1, <2>1, NothingCounts
  <2> QED
    BY <1>3, <1>10, <2>2 DEF NextCreates
<1>11. ASSUME NEW w \in Workers, CompleteCommits(w)
       PROVE  [Promise!Next]_(Promise!vars)
  <2>1. CASE UNCHANGED <<run, version, actions, lease>>
    BY <1>2, <1>11, <2>1 DEF CompleteCommits
  <2>2. ASSUME NEW a \in Actions, Accepts(a, held[w]),
               NEW final \in {"completed", "failed"}, NEW r,
               CommitAction(a, final, r)
        PROVE  [Promise!Next]_(Promise!vars)
    <3>1. owner = held[w] /\ owner # None
      BY <2>2 DEF Accepts, Live
    <3>2. actions' = [actions EXCEPT ![a].state = final]
      BY <2>2 DEF CommitAction
    <3>3. counted[a] = None
      BY <2>2 DEF Accepts, Finished
    <3>4. counted' = [counted EXCEPT ![a] = owner]
      <4>1. actions'[a].token = owner /\ Finished(a)'
        BY <1>1, <2>2, <3>1, <3>2 DEF Accepts, Finished, ActionType
      <4>2. \A b \in Actions \ {a} : actions'[b] = actions[b]
        BY <1>1, <3>2
      <4> QED
        BY <4>1, <4>2 DEF Finished
    <3>5. owner' \in {owner, None}
      BY <2>2 DEF CommitAction, NoLease
    <3>6. Promise!Count(a)
      BY <1>11, <3>1, <3>3, <3>4, <3>5 DEF Promise!Count, CompleteCommits
    <3> QED
      BY <3>6 DEF Promise!Next
  <2>3. job[w] \in Actions
    BY <1>11 DEF CompleteCommits, CarriedOK, Processes
  <2> QED
    BY <1>11, <2>1, <2>2, <2>3 DEF CompleteCommits
<1>12. ASSUME NEW o \in Operators, ApproveCommits(o)
       PROVE  [Promise!Next]_(Promise!vars)
  BY <1>2, <1>12 DEF ApproveCommits
<1>13. ASSUME NEW p \in Processes, UpdateCommits(p)
       PROVE  [Promise!Next]_(Promise!vars)
  <2>1. UNCHANGED counted /\ lease' \in {lease, NoLease}
    BY <1>13 DEF UpdateCommits, LeaseAfter, Finished
  <2> QED
    BY <1>3, <1>13, <2>1 DEF UpdateCommits
<1> QED
  BY <1>4, <1>5, <1>6, <1>7, <1>8, <1>9, <1>10, <1>11, <1>12, <1>13, StepKinds

\* The leases implement Ownership: one session at a time, a token at most once, and
\* the result of an action once, under the token that is live at that moment
\* (SPEC.md:165, SPEC.md:167).
THEOREM LeasesKeepPromise == Spec => OwnershipKept
<1>1. Init => TypeOK /\ TokensKnown
  BY InitTyped DEF Init, TokensKnown, NoLease
<1>2. Init => Promise!Init
  BY DEF Init, NoLease, Promise!Init, Finished
<1>3. TypeOK /\ TokensKnown /\ [Next]_vars => TypeOK' /\ TokensKnown'
  BY StepTyped, TokensKnownStep
<1>4. TypeOK /\ TypeOK' /\ TokensKnown /\ [Next]_vars => [Promise!Next]_(Promise!vars)
  BY OwnershipStep
<1> QED
  BY <1>1, <1>2, <1>3, <1>4, PTL DEF Spec, OwnershipKept, Promise!Spec

-------------------------------------------------------------------------------
(* Nobody works elsewhere. *)

LEMMA HeldApartStep ==
  ASSUME TypeOK, TokensKnown, HeldApart, [Next]_vars
  PROVE  HeldApart'
<1>1. CASE \E w \in Workers : AcquireLease(w)
  <2>1. PICK w \in Workers, token \in Tokens \ issued :
          held' = [held EXCEPT ![w] = token]
    BY <1>1 DEF AcquireLease
  <2>2. \A v \in Workers \ {w} : held'[v] = held[v] /\ held[v] # token
    BY <2>1, TokensAreNotNone DEF TypeOK, StoredOK, TokensKnown
  <2> QED
    BY <2>1, <2>2 DEF HeldApart, TypeOK, StoredOK
<1>2. CASE UNCHANGED held
  BY <1>2 DEF HeldApart
<1>3. UNCHANGED held \/ \E w \in Workers : AcquireLease(w)
  BY StepKinds DEF Tick, RenewLease, ReleaseLease, NextRebinds, NextCreates,
                   CompleteCommits, ApproveCommits, UpdateCommits, memory
<1> QED
  BY <1>1, <1>2, <1>3

\* What a completed, failed or drifted action writes: its run works or stops.
LEMMA CompleteCommitsRun ==
  ASSUME TypeOK, NEW w \in Workers, CompleteCommits(w)
  PROVE  \/ UNCHANGED <<run, version, actions, lease>>
         \/ /\ Accepts(job[w], held[w])
            /\ job[w] \in Pending /\ Pending' = {}
            /\ \A a \in Actions : actions'[a].token = actions[a].token
            /\ run'.state \in ActionStates \/ Stops(run')
            /\ lease' = IF GivesUp(run') THEN NoLease ELSE lease
<1> USE DEF TypeOK, Processes
<1>1. job[w] \in Actions /\ copy[w] \in RunType
  BY DEF CompleteCommits, CarriedOK
<1>2. ASSUME Accepts(job[w], held[w]), NEW final \in {"completed", "failed"},
             NEW r \in RunType, CommitAction(job[w], final, r),
             r.state \in ActionStates \/ Stops(r)
      PROVE  /\ job[w] \in Pending /\ Pending' = {}
             /\ \A a \in Actions : actions'[a].token = actions[a].token
             /\ run'.state \in ActionStates \/ Stops(run')
             /\ lease' = IF GivesUp(run') THEN NoLease ELSE lease
  <2>1. job[w] \in Pending
    BY <1>1, <1>2 DEF Accepts, Pending
  <2>2. Pending' = Pending \ {job[w]}
    BY <1>1, <1>2, CommitActionTyped DEF CompleteCommits
  <2>3. \A a \in Actions : actions'[a].token = actions[a].token
    BY <1>1, <1>2 DEF CommitAction, StoredOK, ActionType
  <2> QED
    BY <1>2, <2>1, <2>2, <2>3 DEF CommitAction, StoredOK
<1>3. \A r \in RunType : \A type :
        /\ \A q \in Completions(r, type) :
             q \in RunType /\ (q.state \in ActionStates \/ Stops(q))
        /\ \A q \in Setbacks(r, type) : q \in RunType /\ Stops(q)
  BY CompletionTyped, SetbackTyped DEF Stops
<1> QED
  BY <1>1, <1>2, <1>3 DEF CompleteCommits

\* An approval takes the run from a gate to work.
LEMMA ApproveCommitsRun ==
  ASSUME TypeOK, WorksOrStops, NEW o \in Operators, ApproveCommits(o)
  PROVE  \/ UNCHANGED run
         \/ run.state \in GateStates /\ run'.state \in ActionStates
<1>1. copy[o] \in RunType /\ copy[o].state \in GateStates
  BY DEF ApproveCommits, TypeOK, CarriedOK, WorksOrStops, Processes
<1>2. CASE UNCHANGED run
  BY <1>2
<1>3. ASSUME run.state = copy[o].state,
             NEW target \in Targets(copy[o].state, "approved"),
             run' = [copy[o] EXCEPT !.state = target, !.wait = "none"]
      PROVE  run.state \in GateStates /\ run'.state \in ActionStates
  BY <1>1, <1>3, ApprovalLeadsToWork DEF RunType
<1> QED
  BY <1>2, <1>3 DEF ApproveCommits, Approvable

\* What UpdateRun writes.
LEMMA UpdateCommitsRun ==
  ASSUME TypeOK, NEW p \in Processes, UpdateCommits(p)
  PROVE  \/ UNCHANGED <<run, lease>>
         \/ /\ pc[p] = "committing" /\ run' = copy[p]
            /\ lease' = IF Stops(copy[p]) THEN NoLease ELSE lease
BY DEF UpdateCommits, LeaseAfter

\* Terminal, paused and waiting runs stop.
LEMMA OperatorsRunsFit ==
  ASSUME TypeOK, WorksOrStops, NEW o \in Operators, OperatorStep(o)
  PROVE  /\ OthersStay(o)
         /\ pc'[o] \in {"previewing", "updating", "committing"} =>
              copy'[o].state \in ActionStates \/ Stops(copy'[o])
         /\ pc'[o] = "approving" => copy'[o].state \in GateStates
<1> USE DEF TypeOK, Processes
<1>1. run \in RunType
  BY DEF StoredOK
<1>10. ASSUME NEW stage \in {"previewing", "updating"}, NEW r,
              Carry(o, stage, r), r.state \in ActionStates \/ Stops(r)
       PROVE  /\ OthersStay(o)
              /\ copy'[o].state \in ActionStates \/ Stops(copy'[o])
              /\ pc'[o] # "approving"
  <2>1. pc'[o] = stage /\ copy'[o] = r /\ OthersStay(o)
    BY <1>10, CarryMoves
  <2> QED
    BY <1>10, <2>1
<1>2. CASE PauseReads(o)
  <2> DEFINE r == [run EXCEPT !.resume = run.state, !.state = "paused",
                              !.wait = "human"]
  <2>1. r.state = "paused"
    BY <1>1 DEF RunType
  <2>2. Carry(o, "updating", r)
    BY <1>2 DEF PauseReads
  <2> HIDE DEF r
  <2> QED
    BY <1>10, <2>1, <2>2 DEF Stops
<1>3. CASE ResumeReads(o)
  <2> DEFINE r == [run EXCEPT !.resume = IF @ = None THEN "discovering_context"
                                         ELSE @,
                              !.state = "reconciling", !.wait = "none"]
  <2>1. r.state = "reconciling"
    BY <1>1 DEF RunType
  <2>2. Carry(o, "updating", r)
    BY <1>3 DEF ResumeReads
  <2> HIDE DEF r
  <2> QED
    BY <1>10, <2>1, <2>2, NamedStates
<1>4. CASE TerminalReads(o)
  <2>1. PICK target \in {"cancelled", "failed_permanent"} :
          Carry(o, "updating", [run EXCEPT !.state = target, !.wait = "none"])
    BY <1>4 DEF TerminalReads
  <2> DEFINE r == [run EXCEPT !.state = target, !.wait = "none"]
  <2>2. r.state = target
    BY <1>1 DEF RunType
  <2>3. Carry(o, "updating", r)
    BY <2>1
  <2> HIDE DEF r
  <2> QED
    BY <1>10, <2>2, <2>3 DEF Stops, GivesUp, TerminalStates
<1>5. CASE CleanupReads(o)
  <2> DEFINE r == [run EXCEPT !.workspace = FALSE]
  <2>1. r.state \in TerminalStates
    BY <1>1, <1>5 DEF RunType, CleanupReads
  <2>2. Carry(o, "updating", r)
    BY <1>5 DEF CleanupReads
  <2> HIDE DEF r
  <2> QED
    BY <1>10, <2>1, <2>2 DEF Stops, GivesUp
<1>6. CASE MigrateReads(o)
  <2>1. PICK def \in Definitions :
          Carry(o, "previewing", [run EXCEPT !.workflow = def])
    BY <1>6 DEF MigrateReads
  <2> DEFINE r == [run EXCEPT !.workflow = def]
  <2>2. r.state = run.state /\ r.wait = run.wait
    BY <1>1 DEF RunType
  <2>3. Carry(o, "previewing", r)
    BY <2>1
  <2> HIDE DEF r
  <2>4. r.state \in ActionStates \/ Stops(r)
    BY <2>2 DEF WorksOrStops, Stops, GivesUp
  <2> QED
    BY <1>10, <2>3, <2>4
<1>7. CASE MigrateChecks(o)
  BY <1>7, CarryMoves, ReturnMoves DEF MigrateChecks, WorksOrStops
<1>8. CASE ApproveReads(o)
  BY <1>8, CarryMoves DEF ApproveReads
<1>9. CASE ApproveCommits(o)
  BY <1>9, ReturnMoves DEF ApproveCommits
<1> QED
  BY <1>2, <1>3, <1>4, <1>5, <1>6, <1>7, <1>8, <1>9 DEF OperatorStep

\* A session hands UpdateRun nothing but a blocked run.
LEMMA WorkersRunsFit ==
  ASSUME TypeOK, NEW w \in Workers, WorkerStep(w)
  PROVE  /\ OthersStay(w)
         /\ pc'[w] = "approving" =>
              (pc[w] = "approving" /\ copy'[w] = copy[w])
         /\ pc'[w] \in {"previewing", "updating", "committing"} =>
              \/ /\ pc'[w] = "updating"
                 /\ copy'[w].state = "blocked" /\ Stops(copy'[w])
              \/ pc'[w] = pc[w] /\ copy'[w] = copy[w]
<1> USE DEF TypeOK, Processes
<1>1. CASE AcquireLease(w) \/ RenewLease(w) \/ ReleaseLease(w)
  BY <1>1 DEF AcquireLease, RenewLease, ReleaseLease, local, OthersStay
<1>2. CASE NextValidates(w) \/ NextLooks(w) \/ CompleteFinds(w)
  BY <1>2 DEF NextValidates, NextLooks, CompleteFinds, OthersStay, CarriedOK
<1>3. CASE NextReads(w)
  <2>1. CASE Return(w)
    BY <2>1, ReturnMoves
  <2>2. CASE Carry(w, "dispatching", run)
    BY <2>2, CarryMoves
  <2> DEFINE r == [run EXCEPT !.resume = run.state, !.state = "blocked",
                              !.wait = "capability"]
  <2>3. CASE Carry(w, "updating", r)
    <3>1. r.state = "blocked" /\ Stops(r)
      BY DEF StoredOK, RunType, Stops, GivesUp
    <3> HIDE DEF r
    <3> QED
      BY <2>3, <3>1, CarryMoves
  <2> QED
    BY <1>3, <2>1, <2>2, <2>3 DEF NextReads
<1>4. CASE NextRebinds(w) \/ NextCreates(w) \/ CompleteCommits(w)
  BY <1>4, ReturnMoves DEF NextRebinds, NextCreates, CompleteCommits
<1>5. CASE CompleteReads(w)
  BY <1>5, CarryMoves DEF CompleteReads
<1> QED
  BY <1>1, <1>2, <1>3, <1>4, <1>5 DEF WorkerStep

LEMMA UpdatersMove ==
  ASSUME TypeOK, NEW p \in Processes, UpdateReads(p) \/ UpdateCommits(p) \/ Dies(p)
  PROVE  /\ OthersStay(p)
         /\ \/ pc'[p] = "idle"
            \/ pc[p] = "updating" /\ pc'[p] = "committing" /\ copy'[p] = copy[p]
<1>1. CASE UpdateReads(p)
  BY <1>1 DEF UpdateReads, OthersStay, TypeOK, CarriedOK
<1>2. CASE UpdateCommits(p) \/ Dies(p)
  BY <1>2, ReturnMoves DEF UpdateCommits, Dies, TypeOK
<1> QED
  BY <1>1, <1>2

\* Whoever writes a run writes one that works or stops.
LEMMA WorksOrStopsStep ==
  ASSUME TypeOK, WorksOrStops, [Next]_vars
  PROVE  WorksOrStops'
<1>1. run'.state \in ActionStates \/ Stops(run')
  <2>1. CASE UNCHANGED run
    BY <2>1 DEF WorksOrStops, Stops, GivesUp
  <2>2. ASSUME NEW w \in Workers, CompleteCommits(w)
        PROVE  run'.state \in ActionStates \/ Stops(run')
    BY <2>1, <2>2, CompleteCommitsRun
  <2>3. ASSUME NEW o \in Operators, ApproveCommits(o)
        PROVE  run'.state \in ActionStates \/ Stops(run')
    BY <2>1, <2>3, ApproveCommitsRun
  <2>4. ASSUME NEW p \in Processes, UpdateCommits(p)
        PROVE  run'.state \in ActionStates \/ Stops(run')
    BY <2>1, <2>4, UpdateCommitsRun DEF WorksOrStops
  <2>5. UNCHANGED run \/ (\E w \in Workers : CompleteCommits(w))
          \/ (\E o \in Operators : ApproveCommits(o))
          \/ (\E p \in Processes : UpdateCommits(p))
    BY StepKinds DEF database, Tick, AcquireLease, RenewLease, ReleaseLease,
                     NextRebinds, NextCreates
  <2> QED
    BY <2>1, <2>2, <2>3, <2>4, <2>5
<1>2. ASSUME NEW p \in Processes, OthersStay(p),
             /\ pc'[p] \in {"previewing", "updating", "committing"} =>
                  copy'[p].state \in ActionStates \/ Stops(copy'[p])
             /\ pc'[p] = "approving" => copy'[p].state \in GateStates
      PROVE  WorksOrStops'
  BY <1>1, <1>2 DEF OthersStay, WorksOrStops, Stops, GivesUp
<1>3. CASE UNCHANGED <<pc, copy>>
  BY <1>1, <1>3 DEF WorksOrStops, Stops, GivesUp
<1>4. CASE UNCHANGED vars \/ Tick
  BY <1>3, <1>4 DEF vars, local, Tick
<1>5. ASSUME NEW w \in Workers, WorkerStep(w)
      PROVE  WorksOrStops'
  BY <1>2, <1>5, WorkersRunsFit DEF WorksOrStops, Processes
<1>6. ASSUME NEW o \in Operators, OperatorStep(o)
      PROVE  WorksOrStops'
  BY <1>2, <1>6, OperatorsRunsFit DEF Processes
<1>7. ASSUME NEW p \in Processes, UpdateReads(p) \/ UpdateCommits(p) \/ Dies(p)
      PROVE  WorksOrStops'
  BY <1>2, <1>7, UpdatersMove DEF WorksOrStops
<1> QED
  BY <1>4, <1>5, <1>6, <1>7 DEF Next

\* How a step changes the run: not at all, into work, or by a commit that ends the
\* lease unless it worked on or completed the last pending action.
LEMMA RunChanges ==
  ASSUME TypeOK, WorksOrStops, [Next]_vars
  PROVE  \/ UNCHANGED run
         \/ run'.state \in ActionStates
         \/ lease'.token = None
         \/ \E w \in Workers :
              /\ CompleteCommits(w) /\ Live(held[w])
              /\ Pending' = {} /\ lease' = lease
<1>1. ASSUME NEW w \in Workers, CompleteCommits(w)
      PROVE  \/ UNCHANGED run
             \/ lease'.token = None
             \/ /\ CompleteCommits(w) /\ Live(held[w])
                /\ Pending' = {} /\ lease' = lease
  BY <1>1, CompleteCommitsRun DEF NoLease, Accepts
<1>2. ASSUME NEW p \in Processes, UpdateCommits(p)
      PROVE  UNCHANGED run \/ run'.state \in ActionStates \/ lease'.token = None
  BY <1>2, UpdateCommitsRun DEF WorksOrStops, NoLease
<1>3. ASSUME NEW o \in Operators, ApproveCommits(o)
      PROVE  UNCHANGED run \/ run'.state \in ActionStates
  BY <1>3, ApproveCommitsRun
<1>4. UNCHANGED run \/ (\E w \in Workers : CompleteCommits(w))
        \/ (\E o \in Operators : ApproveCommits(o))
        \/ (\E p \in Processes : UpdateCommits(p))
  BY StepKinds DEF database, Tick, AcquireLease, RenewLease, ReleaseLease,
                   NextRebinds, NextCreates
<1> QED
  BY <1>1, <1>2, <1>3, <1>4

\* How a step changes the token of the leases row.
LEMMA TokenChanges ==
  ASSUME TypeOK, [Next]_vars
  PROVE  \/ lease'.token = lease.token /\ UNCHANGED held
         \/ lease'.token = None /\ UNCHANGED held
         \/ /\ lease'.token \in Tokens \ issued
            /\ UNCHANGED <<run, actions, local>>
            /\ \E w \in Workers :
                 pc[w] = "idle" /\ \A v \in Workers \ {w} : held'[v] = held[v]
<1>1. ASSUME NEW w \in Workers, AcquireLease(w)
      PROVE  /\ lease'.token \in Tokens \ issued
             /\ UNCHANGED <<run, actions, local>>
             /\ pc[w] = "idle" /\ \A v \in Workers \ {w} : held'[v] = held[v]
  BY <1>1 DEF AcquireLease, TypeOK, StoredOK
<1>2. lease' \in {lease, NoLease} \/ lease'.token = lease.token
        \/ \E w \in Workers : AcquireLease(w)
  <2>1. ASSUME NEW w \in Workers, CompleteCommits(w)
        PROVE  lease' \in {lease, NoLease}
    BY <2>1, CompleteCommitsRun
  <2>2. ASSUME NEW p \in Processes, UpdateCommits(p)
        PROVE  lease' \in {lease, NoLease}
    BY <2>2, UpdateCommitsRun
  <2>3. CASE Tick \/ \E w \in Workers : RenewLease(w)
    BY <2>3 DEF Tick, RenewLease, TypeOK, StoredOK, LeaseType
  <2> QED
    BY <2>1, <2>2, <2>3, StepKinds DEF database, ReleaseLease, NextRebinds,
                                       NextCreates, ApproveCommits
<1>3. UNCHANGED held \/ \E w \in Workers : AcquireLease(w)
  BY StepKinds DEF Tick, RenewLease, ReleaseLease, NextRebinds, NextCreates,
                   CompleteCommits, ApproveCommits, UpdateCommits, memory
<1> QED
  BY <1>1, <1>2, <1>3 DEF NoLease

\* The sessions a step brings into the middle of agent next find the run at work.
LEMMA DispatchersMove ==
  ASSUME TypeOK, WorksOrStops, [Next]_vars, NEW w \in Workers,
         pc'[w] \in {"dispatching", "creating", "rebinding"}
  PROVE  \/ run.state \in ActionStates /\ UNCHANGED run
         \/ pc[w] \in {"dispatching", "creating", "rebinding"}
<1> USE DEF TypeOK, Processes
<1>1. ASSUME NEW p \in Processes, OthersStay(p), p # w
      PROVE  pc[w] \in {"dispatching", "creating", "rebinding"}
  BY <1>1 DEF OthersStay
<1>2. CASE UNCHANGED vars \/ Tick
  BY <1>2 DEF vars, local, Tick
<1>3. ASSUME NEW o \in Operators, OperatorStep(o)
      PROVE  pc[w] \in {"dispatching", "creating", "rebinding"}
  BY <1>1, <1>3, OperatorsRunsFit, SessionsDisjoint
<1>4. ASSUME NEW v \in Workers, WorkerStep(v), v # w
      PROVE  pc[w] \in {"dispatching", "creating", "rebinding"}
  BY <1>1, <1>4, WorkersRunsFit
<1>5. ASSUME NEW p \in Processes, UpdateReads(p) \/ UpdateCommits(p) \/ Dies(p)
      PROVE  pc[w] \in {"dispatching", "creating", "rebinding"}
  BY <1>1, <1>5, UpdatersMove
<1>6. CASE NextReads(w)
  BY <1>6, ReturnMoves, CarryMoves DEF NextReads
<1>7. CASE AcquireLease(w) \/ RenewLease(w) \/ ReleaseLease(w)
  BY <1>7 DEF AcquireLease, RenewLease, ReleaseLease, local
<1>8. CASE NextValidates(w) \/ NextLooks(w) \/ CompleteFinds(w)
  BY <1>8 DEF NextValidates, NextLooks, CompleteFinds, CarriedOK
<1>9. CASE NextRebinds(w) \/ NextCreates(w) \/ CompleteCommits(w)
  BY <1>9, ReturnMoves DEF NextRebinds, NextCreates, CompleteCommits
<1>10. CASE CompleteReads(w)
  BY <1>10, CarryMoves DEF CompleteReads
<1> QED
  BY <1>2, <1>3, <1>4, <1>5, <1>6, <1>7, <1>8, <1>9, <1>10 DEF Next, WorkerStep

\* Which actions are pending, and under which token.
LEMMA PendingChanges ==
  ASSUME TypeOK, [Next]_vars, NEW a \in Pending'
  PROVE  \/ a \in Pending /\ actions'[a].token = actions[a].token
         \/ \E w \in Workers :
              /\ pc[w] \in {"creating", "rebinding"}
              /\ actions'[a].token = held[w] /\ UNCHANGED lease
<1> USE DEF TypeOK
<1>1. a \in Actions /\ actions'[a].state = "pending"
  BY DEF Pending
<1>2. CASE UNCHANGED actions
  BY <1>1, <1>2 DEF Pending
<1>3. ASSUME NEW w \in Workers, NextRebinds(w)
      PROVE  \/ a \in Pending /\ actions'[a].token = actions[a].token
             \/ /\ pc[w] \in {"creating", "rebinding"}
                /\ actions'[a].token = held[w] /\ UNCHANGED lease
  BY <1>1, <1>3, RebindRows DEF NextRebinds, Pending
<1>4. ASSUME NEW w \in Workers, NextCreates(w)
      PROVE  \/ a \in Pending /\ actions'[a].token = actions[a].token
             \/ /\ pc[w] \in {"creating", "rebinding"}
                /\ actions'[a].token = held[w] /\ UNCHANGED lease
  BY <1>1, <1>4, CreateRows DEF NextCreates, Pending
<1>5. ASSUME NEW w \in Workers, CompleteCommits(w)
      PROVE  a \in Pending /\ actions'[a].token = actions[a].token
  BY <1>1, <1>2, <1>5, CompleteCommitsRun DEF Pending
<1>6. \/ UNCHANGED actions
      \/ \E w \in Workers : NextRebinds(w) \/ NextCreates(w) \/ CompleteCommits(w)
  BY StepKinds DEF database, Tick, AcquireLease, RenewLease, ReleaseLease,
                   ApproveCommits, UpdateCommits
<1> QED
  BY <1>2, <1>3, <1>4, <1>5, <1>6

\* Whoever leaves the working states takes the lease along.
LEMMA LateTokensStep ==
  ASSUME TypeOK, Strengthening, [Next]_vars
  PROVE  LateTokensAreDead'
<1> USE DEF Strengthening
<1>1. SUFFICES ASSUME run'.state \notin ActionStates, NEW w \in Workers,
                      pc'[w] \in {"dispatching", "creating", "rebinding"}
               PROVE  lease'.token = None \/ lease'.token # held'[w]
  BY DEF LateTokensAreDead
<1>2. pc[w] \in {"dispatching", "creating", "rebinding"}
  BY <1>1, DispatchersMove
<1>3. held[w] \in issued \cup {None}
  BY DEF TokensKnown
<1>4. CASE UNCHANGED run
  <2>1. lease.token = None \/ lease.token # held[w]
    BY <1>1, <1>2, <1>4 DEF LateTokensAreDead
  <2> QED
    BY <1>2, <1>3, <2>1, TokenChanges, TokensAreNotNone
<1>5. ASSUME NEW v \in Workers, CompleteCommits(v), Live(held[v]), lease' = lease
      PROVE  lease'.token # held'[w]
  <2>1. v # w /\ UNCHANGED held
    BY <1>2, <1>5 DEF CompleteCommits, memory
  <2> QED
    BY <1>5, <2>1 DEF Live, HeldApart
<1> QED
  BY <1>1, <1>4, <1>5, RunChanges

\* So no token of a pending action is the one of the lease there.
LEMMA NobodyStep ==
  ASSUME TypeOK, Strengthening, NobodyWorksElsewhere, [Next]_vars
  PROVE  NobodyWorksElsewhere'
<1> USE DEF Strengthening
<1>1. SUFFICES ASSUME run'.state \notin ActionStates, NEW a \in Pending'
               PROVE  lease'.token = None \/ actions'[a].token # lease'.token
  BY DEF NobodyWorksElsewhere
<1>2. CASE UNCHANGED run
  <2>1. CASE lease'.token = lease.token /\ UNCHANGED held
    <3>1. CASE a \in Pending /\ actions'[a].token = actions[a].token
      BY <1>1, <1>2, <2>1, <3>1 DEF NobodyWorksElsewhere
    <3>2. ASSUME NEW w \in Workers, pc[w] \in {"creating", "rebinding"},
                 actions'[a].token = held[w]
          PROVE  lease'.token = None \/ actions'[a].token # lease'.token
      BY <1>1, <1>2, <2>1, <3>2 DEF LateTokensAreDead
    <3> QED
      BY <3>1, <3>2, PendingChanges
  <2>2. CASE lease'.token \in Tokens \ issued /\ UNCHANGED actions
    <3>1. a \in Actions /\ actions[a].token \in issued \cup {None}
      BY DEF Pending, TokensKnown
    <3> QED
      BY <2>2, <3>1, TokensAreNotNone
  <2> QED
    BY <2>1, <2>2, TokenChanges
<1> QED
  BY <1>1, <1>2, RunChanges

LEMMA StrengtheningStep ==
  ASSUME TypeOK, Strengthening, [Next]_vars
  PROVE  Strengthening'
BY TokensKnownStep, HeldApartStep, WorksOrStopsStep, LateTokensStep DEF Strengthening

LEMMA InitStrengthening == Init => Strengthening /\ NobodyWorksElsewhere
<1>1. Init => TokensKnown /\ HeldApart
  BY DEF Init, TokensKnown, HeldApart, NoLease
<1>2. Init => WorksOrStops /\ LateTokensAreDead
  BY NamedStates DEF Init, NewRun, WorksOrStops, LateTokensAreDead
<1>3. Init => NobodyWorksElsewhere
  BY NamedStates DEF Init, NewRun, NobodyWorksElsewhere
<1> QED
  BY <1>1, <1>2, <1>3 DEF Strengthening

\* Tokens are made once and held by one session, runs work or stop, and a session
\* that is late with its agent next holds a dead token.
THEOREM StrengtheningHolds == Spec => []Strengthening
<1>1. Init => TypeOK /\ Strengthening
  BY InitTyped, InitStrengthening
<1>2. TypeOK /\ Strengthening /\ [Next]_vars => TypeOK' /\ Strengthening'
  BY StepTyped, StrengtheningStep
<1> QED
  BY <1>1, <1>2, PTL DEF Spec

\* Once the run is at a gate, blocked, paused or ended, no pending action carries the
\* token of the lease, whatever the sessions that were in the middle of agent next
\* still create or rebind (engine.go:182, engine.go:200).
THEOREM NoResultElsewhere == Spec => []NobodyWorksElsewhere
<1>1. Init => TypeOK /\ Strengthening /\ NobodyWorksElsewhere
  BY InitTyped, InitStrengthening
<1>2. TypeOK /\ Strengthening /\ NobodyWorksElsewhere /\ [Next]_vars
        => TypeOK' /\ Strengthening' /\ NobodyWorksElsewhere'
  BY StepTyped, StrengtheningStep, NobodyStep
<1> QED
  BY <1>1, <1>2, PTL DEF Spec

-------------------------------------------------------------------------------
(* Results are not stale, with one operator and no other workflow to move to.  *)

\* One operator, who has no workflow to migrate the run to.
LoneOperator ==
  /\ \A o, p \in Operators : o = p
  /\ Definitions = {Embedded}

NobodyPreviews == \A p \in Processes : pc[p] # "previewing"

\* Where an operator's command stands after its step.
LEMMA OperatorMoves ==
  ASSUME TypeOK, LoneOperator, NobodyPreviews, NEW o \in Operators, OperatorStep(o)
  PROVE  /\ pc'[o] # "previewing"
         /\ pc'[o] \in {"updating", "committing"} =>
              Stops(copy'[o]) \/ (run.state \in {"paused", "blocked"} /\ UNCHANGED run)
<1> USE DEF TypeOK, Processes
<1>1. run \in RunType
  BY DEF StoredOK
<1>2. CASE PauseReads(o)
  <2> DEFINE r == [run EXCEPT !.resume = run.state, !.state = "paused",
                              !.wait = "human"]
  <2>1. r.state = "paused"
    BY <1>1 DEF RunType
  <2>2. Carry(o, "updating", r)
    BY <1>2 DEF PauseReads
  <2> HIDE DEF r
  <2> QED
    BY <2>1, <2>2, CarryMoves DEF Stops
<1>3. CASE ResumeReads(o)
  BY <1>3, CarryMoves DEF ResumeReads, database
<1>4. CASE TerminalReads(o)
  <2>1. PICK target \in {"cancelled", "failed_permanent"} :
          Carry(o, "updating", [run EXCEPT !.state = target, !.wait = "none"])
    BY <1>4 DEF TerminalReads
  <2> DEFINE r == [run EXCEPT !.state = target, !.wait = "none"]
  <2>2. r.state = target
    BY <1>1 DEF RunType
  <2>3. Carry(o, "updating", r)
    BY <2>1
  <2> HIDE DEF r
  <2> QED
    BY <2>2, <2>3, CarryMoves DEF Stops, GivesUp, TerminalStates
<1>5. CASE CleanupReads(o)
  <2> DEFINE r == [run EXCEPT !.workspace = FALSE]
  <2>1. r.state \in TerminalStates
    BY <1>1, <1>5 DEF RunType, CleanupReads
  <2>2. Carry(o, "updating", r)
    BY <1>5 DEF CleanupReads
  <2> HIDE DEF r
  <2> QED
    BY <2>1, <2>2, CarryMoves DEF Stops, GivesUp
<1>6. CASE MigrateReads(o)
  BY <1>1, <1>6 DEF MigrateReads, LoneOperator, RunType
<1>7. CASE MigrateChecks(o)
  BY <1>7 DEF MigrateChecks, NobodyPreviews
<1>8. CASE ApproveReads(o)
  BY <1>8, CarryMoves DEF ApproveReads
<1>9. CASE ApproveCommits(o)
  BY <1>9, ReturnMoves DEF ApproveCommits
<1> QED
  BY <1>2, <1>3, <1>4, <1>5, <1>6, <1>7, <1>8, <1>9 DEF OperatorStep

LEMMA NobodyPreviewsStep ==
  ASSUME TypeOK, WorksOrStops, LoneOperator, NobodyPreviews, [Next]_vars
  PROVE  NobodyPreviews'
<1> USE DEF Processes
<1>1. CASE UNCHANGED vars \/ Tick
  BY <1>1 DEF vars, local, Tick, NobodyPreviews
<1>2. ASSUME NEW w \in Workers, WorkerStep(w)
      PROVE  NobodyPreviews'
  BY <1>2, WorkersRunsFit DEF NobodyPreviews, OthersStay
<1>3. ASSUME NEW o \in Operators, OperatorStep(o)
      PROVE  NobodyPreviews'
  BY <1>3, OperatorsRunsFit, OperatorMoves DEF NobodyPreviews, OthersStay
<1>4. ASSUME NEW p \in Processes, UpdateReads(p) \/ UpdateCommits(p) \/ Dies(p)
      PROVE  NobodyPreviews'
  BY <1>4, UpdatersMove DEF NobodyPreviews, OthersStay
<1> QED
  BY <1>1, <1>2, <1>3, <1>4 DEF Next

\* A run that does not work is not changed by a result.
LEMMA NoResultOutsideWork ==
  ASSUME TypeOK, NobodyWorksElsewhere, run.state \notin ActionStates,
         NEW w \in Workers, CompleteCommits(w)
  PROVE  UNCHANGED run
<1>1. CASE Accepts(job[w], held[w]) /\ job[w] \in Pending
  BY <1>1 DEF NobodyWorksElsewhere, Accepts, Live
<1> QED
  BY <1>1, CompleteCommitsRun

LEMMA WorkersOnlyBlockStep ==
  ASSUME TypeOK, WorkersOnlyBlock, WorksOrStops, [Next]_vars
  PROVE  WorkersOnlyBlock'
<1> USE DEF Processes
<1>1. CASE UNCHANGED vars \/ Tick
  BY <1>1 DEF vars, local, Tick, WorkersOnlyBlock, Stops, GivesUp
<1>2. ASSUME NEW w \in Workers, WorkerStep(w)
      PROVE  WorkersOnlyBlock'
  BY <1>2, WorkersRunsFit DEF WorkersOnlyBlock, OthersStay, Stops, GivesUp
<1>3. ASSUME NEW o \in Operators, OperatorStep(o)
      PROVE  WorkersOnlyBlock'
  BY <1>3, OperatorsRunsFit, SessionsDisjoint
  DEF WorkersOnlyBlock, OthersStay, Stops, GivesUp
<1>4. ASSUME NEW p \in Processes, UpdateReads(p) \/ UpdateCommits(p) \/ Dies(p)
      PROVE  WorkersOnlyBlock'
  BY <1>4, UpdatersMove DEF WorkersOnlyBlock, OthersStay, Stops, GivesUp
<1> QED
  BY <1>1, <1>2, <1>3, <1>4 DEF Next

LEMMA UpdatesFitStep ==
  ASSUME TypeOK, WorksOrStops, NobodyWorksElsewhere, LoneOperator, NobodyPreviews,
         UpdatesFit, [Next]_vars
  PROVE  UpdatesFit'
<1> USE DEF Processes
<1>1. WorkersOnlyBlock'
  BY WorkersOnlyBlockStep DEF UpdatesFit
<1>2. ASSUME NEW o \in Operators, pc'[o] \in {"updating", "committing"},
             ~Stops(copy'[o])
      PROVE  run'.state \in {"paused", "blocked"}
  <2>1. CASE UNCHANGED vars \/ Tick
    BY <1>2, <2>1 DEF vars, database, local, Tick, UpdatesFit, Stops, GivesUp
  <2>2. ASSUME NEW w \in Workers, WorkerStep(w)
        PROVE  run'.state \in {"paused", "blocked"}
    <3>1. pc'[o] = pc[o] /\ copy'[o] = copy[o]
      BY <2>2, WorkersRunsFit, SessionsDisjoint DEF OthersStay
    <3>2. run.state \in {"paused", "blocked"}
      BY <1>2, <3>1 DEF UpdatesFit
    <3>3. run.state \notin ActionStates
      BY <3>2 DEF ActionStates, Dispatches
    <3>4. UNCHANGED run
      BY <2>2, <3>3, NoResultOutsideWork
      DEF WorkerStep, AcquireLease, RenewLease, ReleaseLease, NextValidates, NextReads,
          NextLooks, NextRebinds, NextCreates, CompleteFinds, CompleteReads, database
    <3> QED
      BY <3>2, <3>4
  <2>3. ASSUME NEW p \in Operators, OperatorStep(p)
        PROVE  run'.state \in {"paused", "blocked"}
    BY <1>2, <2>3, OperatorMoves DEF LoneOperator
  <2>4. ASSUME NEW p \in Processes, UpdateReads(p) \/ Dies(p)
        PROVE  run'.state \in {"paused", "blocked"}
    <3>1. pc[o] \in {"updating", "committing"} /\ copy'[o] = copy[o]
      BY <1>2, <2>4, UpdatersMove DEF OthersStay
    <3> QED
      BY <1>2, <2>4, <3>1 DEF UpdateReads, Dies, database, UpdatesFit
  <2>5. ASSUME NEW p \in Processes, UpdateCommits(p)
        PROVE  run'.state \in {"paused", "blocked"}
    <3>1. p # o
      BY <1>2, <2>5, ReturnMoves DEF UpdateCommits, TypeOK
    <3>2. p \in Workers /\ copy[p].state = "blocked"
      BY <2>5, <3>1 DEF LoneOperator, UpdatesFit, WorkersOnlyBlock, UpdateCommits
    <3>3. pc[o] \in {"updating", "committing"} /\ copy'[o] = copy[o]
      BY <1>2, <2>5, <3>1, UpdatersMove DEF OthersStay
    <3>4. run.state \in {"paused", "blocked"}
      BY <1>2, <3>3 DEF UpdatesFit
    <3> QED
      BY <2>5, <3>2, <3>4, UpdateCommitsRun
  <2> QED
    BY <2>1, <2>2, <2>3, <2>4, <2>5 DEF Next
<1> QED
  BY <1>1, <1>2 DEF UpdatesFit

\* A session gets to the commit of a result by reading the run.
LEMMA ComputersMove ==
  ASSUME TypeOK, WorksOrStops, [Next]_vars, NEW w \in Workers, pc'[w] = "computed"
  PROVE  \/ copy'[w] = run'
         \/ pc[w] = "computed" /\ copy'[w] = copy[w] /\ job'[w] = job[w]
<1> USE DEF TypeOK, Processes
<1>1. ASSUME NEW p \in Processes, OthersStay(p), p # w
      PROVE  pc[w] = "computed" /\ copy'[w] = copy[w] /\ job'[w] = job[w]
  BY <1>1 DEF OthersStay
<1>2. CASE UNCHANGED vars \/ Tick
  BY <1>2 DEF vars, local, Tick
<1>3. ASSUME NEW o \in Operators, OperatorStep(o)
      PROVE  pc[w] = "computed" /\ copy'[w] = copy[w] /\ job'[w] = job[w]
  BY <1>1, <1>3, OperatorsRunsFit, SessionsDisjoint
<1>4. ASSUME NEW v \in Workers, WorkerStep(v), v # w
      PROVE  pc[w] = "computed" /\ copy'[w] = copy[w] /\ job'[w] = job[w]
  BY <1>1, <1>4, WorkersRunsFit
<1>5. ASSUME NEW p \in Processes, UpdateReads(p) \/ UpdateCommits(p) \/ Dies(p)
      PROVE  pc[w] = "computed" /\ copy'[w] = copy[w] /\ job'[w] = job[w]
  BY <1>1, <1>5, UpdatersMove
<1>6. CASE NextReads(w)
  BY <1>6, ReturnMoves, CarryMoves DEF NextReads
<1>7. CASE AcquireLease(w) \/ RenewLease(w) \/ ReleaseLease(w)
  BY <1>7 DEF AcquireLease, RenewLease, ReleaseLease, local
<1>8. CASE NextValidates(w) \/ NextLooks(w) \/ CompleteFinds(w)
  BY <1>8 DEF NextValidates, NextLooks, CompleteFinds, CarriedOK
<1>9. CASE NextRebinds(w) \/ NextCreates(w) \/ CompleteCommits(w)
  BY <1>9, ReturnMoves DEF NextRebinds, NextCreates, CompleteCommits
<1>10. CASE CompleteReads(w)
  BY <1>10, CarryMoves DEF CompleteReads, database
<1> QED
  BY <1>2, <1>3, <1>4, <1>5, <1>6, <1>7, <1>8, <1>9, <1>10 DEF Next, WorkerStep

LEMMA ResultsSeeRunStep ==
  ASSUME TypeOK, Strengthening, NobodyWorksElsewhere, UpdatesFit, ResultsSeeRun,
         [Next]_vars
  PROVE  ResultsSeeRun'
<1> USE DEF Strengthening, Processes
<1>1. SUFFICES ASSUME NEW w \in Workers, pc'[w] = "computed", job'[w] \in Pending',
                      held'[w] # None, lease'.token = held'[w],
                      actions'[job'[w]].token = held'[w],
                      copy'[w] # run'
               PROVE  FALSE
  BY DEF ResultsSeeRun
<1>2. pc[w] = "computed" /\ copy'[w] = copy[w] /\ job'[w] = job[w]
  BY <1>1, ComputersMove
<1>3. held[w] \in issued \cup {None} /\ lease.token \in issued \cup {None}
  BY DEF TokensKnown
<1>4. held'[w] = held[w] /\ lease.token = held[w]
  BY <1>1, <1>2, <1>3, TokenChanges
<1>5. job[w] \in Pending /\ actions[job[w]].token = held[w]
  <2>1. ASSUME NEW v \in Workers, pc[v] \in {"creating", "rebinding"},
               held[v] = held[w]
        PROVE  FALSE
    BY <1>1, <1>2, <1>4, <2>1 DEF HeldApart
  <2> QED
    BY <1>1, <1>2, <1>4, <2>1, PendingChanges
<1>6. copy[w] = run
  BY <1>1, <1>2, <1>4, <1>5 DEF ResultsSeeRun
<1>7. run.state \in ActionStates
  BY <1>1, <1>4, <1>5 DEF NobodyWorksElsewhere
<1>8. run' # run
  BY <1>1, <1>2, <1>6
<1>9. ASSUME NEW v \in Workers, CompleteCommits(v)
      PROVE  FALSE
  <2>1. lease.token = held[v]
    BY <1>8, <1>9, CompleteCommitsRun DEF Accepts, Live
  <2>2. v = w
    BY <1>1, <1>4, <2>1 DEF HeldApart
  <2>3. pc'[v] = "idle"
    BY <1>9, ReturnMoves DEF CompleteCommits, TypeOK
  <2> QED
    BY <1>1, <2>2, <2>3
<1>10. ASSUME NEW o \in Operators, ApproveCommits(o)
       PROVE  FALSE
  BY <1>7, <1>8, <1>10, ApproveCommitsRun, KindsAreDisjoint
<1>11. ASSUME NEW p \in Processes, UpdateCommits(p)
       PROVE  FALSE
  <2>1. pc[p] = "committing" /\ ~Stops(copy[p])
    BY <1>1, <1>4, <1>8, <1>11, UpdateCommitsRun DEF NoLease
  <2>2. run.state \in {"paused", "blocked"}
    BY <2>1 DEF UpdatesFit, WorkersOnlyBlock
  <2> QED
    BY <1>7, <2>2, KindsAreDisjoint DEF WaitStates
<1>12. UNCHANGED run \/ (\E v \in Workers : CompleteCommits(v))
         \/ (\E o \in Operators : ApproveCommits(o))
         \/ (\E p \in Processes : UpdateCommits(p))
  BY StepKinds DEF database, Tick, AcquireLease, RenewLease, ReleaseLease,
                   NextRebinds, NextCreates
<1> QED
  BY <1>8, <1>9, <1>10, <1>11, <1>12

LEMMA FreshnessStep ==
  ASSUME LoneOperator, TypeOK, Strengthening, NobodyWorksElsewhere, Freshness,
         [Next]_vars
  PROVE  Freshness'
BY ResultsSeeRunStep, UpdatesFitStep, NobodyPreviewsStep
DEF Freshness, NobodyPreviews, Strengthening

\* A result that is taken comes from the session that computed it, which has seen
\* the run.
LEMMA TakenResult ==
  ASSUME TypeOK, WorksOrStops, ResultsSeeRun, [Next]_vars, NEW w \in Workers,
         pc[w] = "computed", pc'[w] = "idle", job[w] \in Pending \ Pending'
  PROVE  copy[w] = run
<1> USE DEF Processes
<1>1. ASSUME NEW v \in Workers, CompleteCommits(v)
      PROVE  v = w
  <2>1. v = w \/ pc'[w] = pc[w]
    BY <1>1, ReturnMoves DEF CompleteCommits, OthersStay, TypeOK
  <2> QED
    BY <2>1
<1>2. \E v \in Workers : CompleteCommits(v)
  <2>1. ASSUME NEW a \in Pending \ Pending', ~\E v \in Workers : CompleteCommits(v)
        PROVE  FALSE
    <3>1. a \in Actions /\ actions[a].state = "pending"
            /\ actions'[a].state # "pending"
      BY <2>1 DEF Pending
    <3>2. actions' # actions
      BY <3>1
    <3>3. \E v \in Workers : NextRebinds(v) \/ NextCreates(v)
      BY <2>1, <3>2, StepKinds DEF database, Tick, AcquireLease, RenewLease,
                                   ReleaseLease, ApproveCommits, UpdateCommits
    <3> QED
      BY <3>1, <3>3, RebindRows, CreateRows DEF TypeOK
  <2> QED
    BY <2>1
<1>3. CompleteCommits(w)
  BY <1>1, <1>2
<1>4. Accepts(job[w], held[w])
  BY <1>3, CompleteCommitsRun DEF Pending
<1> QED
  BY <1>4 DEF ResultsSeeRun, Accepts, Live

LEMMA InitFreshness == Init => Freshness
BY DEF Init, Freshness, ResultsSeeRun, UpdatesFit, WorkersOnlyBlock, Processes

\* With one operator who does not migrate, a result that would be taken has seen the
\* present run, and no update about to be written sets a stopped run to work behind
\* the operator's back.
THEOREM FreshnessHolds ==
  ASSUME LoneOperator
  PROVE  Spec => []Freshness
<1> DEFINE I == TypeOK /\ Strengthening /\ NobodyWorksElsewhere /\ Freshness
<1>1. Init => I
  BY InitTyped, InitStrengthening, InitFreshness
<1>2. I /\ [Next]_vars => I'
  BY StepTyped, StrengtheningStep, NobodyStep, FreshnessStep
<1> QED
  BY <1>1, <1>2, PTL DEF Spec

\* With one operator and nothing to migrate to, commitAction never writes a run that
\* was computed from an older one, although it does not compare versions
\* (control.go:451): any commit that could come in between ends the lease, or finds
\* the run where no result can be taken.
THEOREM ResultsAreFresh ==
  ASSUME LoneOperator
  PROVE  Spec => ResultsAreNotStale
<1> DEFINE I == TypeOK /\ Strengthening /\ NobodyWorksElsewhere /\ Freshness
<1>1. Init => I
  BY InitTyped, InitStrengthening, InitFreshness
<1>2. I /\ [Next]_vars => I'
  BY StepTyped, StrengtheningStep, NobodyStep, FreshnessStep
<1>3. I /\ [Next]_vars =>
        \A w \in Workers :
          (pc[w] = "computed" /\ pc'[w] = "idle" /\ job[w] \in Pending \ Pending')
            => copy[w] = run
  BY TakenResult DEF Strengthening, Freshness
<1> QED
  BY <1>1, <1>2, <1>3, PTL DEF Spec, ResultsAreNotStale

-------------------------------------------------------------------------------
(* Approvals are not stale, with one operator.                                 *)

\* There is one operator at most, who may migrate.
OneOperator == \A o, p \in Operators : o = p

\* While somebody approves, nobody but a session that blocks the run changes it.
LEMMA ApproversSeeRunStep ==
  ASSUME TypeOK, WorksOrStops, NobodyWorksElsewhere, OneOperator, ApproversSeeRun,
         [Next]_vars
  PROVE  ApproversSeeRun'
<1> USE DEF TypeOK, Processes
<1>1. WorkersOnlyBlock'
  BY WorkersOnlyBlockStep DEF ApproversSeeRun
<1>2. ASSUME NEW o \in Operators, pc'[o] = "approving"
      PROVE  copy'[o] = run' \/ run'.state = "blocked"
  <2>1. CASE ApproveReads(o)
    BY <2>1, CarryMoves DEF ApproveReads, database
  <2>2. ASSUME ~ApproveReads(o)
        PROVE  pc[o] = "approving" /\ copy'[o] = copy[o]
    <3>1. CASE UNCHANGED vars \/ Tick
      BY <1>2, <3>1 DEF vars, local, Tick
    <3>2. ASSUME NEW w \in Workers, WorkerStep(w)
          PROVE  pc[o] = "approving" /\ copy'[o] = copy[o]
      BY <1>2, <3>2, WorkersRunsFit, SessionsDisjoint DEF OthersStay
    <3>3. ASSUME NEW p \in Operators, OperatorStep(p)
          PROVE  pc[o] = "approving" /\ copy'[o] = copy[o]
      <4>1. p = o
        BY DEF OneOperator
      <4>2. ASSUME NEW stage, NEW r, Carry(o, stage, r), stage # "approving"
            PROVE  FALSE
        BY <1>2, <4>2, CarryMoves
      <4>3. ~Return(o)
        BY <1>2, ReturnMoves
      <4>4. ~PauseReads(o) /\ ~ResumeReads(o) /\ ~TerminalReads(o)
        BY <4>2 DEF PauseReads, ResumeReads, TerminalReads
      <4>5. ~CleanupReads(o) /\ ~MigrateReads(o) /\ ~MigrateChecks(o)
        BY <4>2, <4>3 DEF CleanupReads, MigrateReads, MigrateChecks
      <4> QED
        BY <2>2, <3>3, <4>1, <4>3, <4>4, <4>5 DEF OperatorStep, ApproveCommits
    <3>4. ASSUME NEW p \in Processes, UpdateReads(p) \/ UpdateCommits(p) \/ Dies(p)
          PROVE  pc[o] = "approving" /\ copy'[o] = copy[o]
      BY <1>2, <3>4, UpdatersMove DEF OthersStay
    <3> QED
      BY <3>1, <3>2, <3>3, <3>4 DEF Next
  <2>3. ASSUME pc[o] = "approving", copy'[o] = copy[o], ~UNCHANGED run
        PROVE  run'.state = "blocked"
    <3>1. copy[o].state \in GateStates /\ (copy[o] = run \/ run.state = "blocked")
      BY <2>3 DEF WorksOrStops, ApproversSeeRun
    <3>2. run.state \notin ActionStates
      BY <3>1, KindsAreDisjoint DEF ActionStates, Dispatches
    <3>3. ASSUME NEW w \in Workers, CompleteCommits(w) PROVE FALSE
      BY <2>3, <3>2, <3>3, NoResultOutsideWork
    <3>4. ASSUME NEW p \in Operators, ApproveCommits(p) PROVE FALSE
      <4>1. p = o
        BY DEF OneOperator
      <4> QED
        BY <1>2, <3>4, <4>1, ReturnMoves DEF ApproveCommits
    <3>5. ASSUME NEW p \in Processes, UpdateCommits(p) PROVE run'.state = "blocked"
      <4>1. pc[p] = "committing" /\ run' = copy[p]
        BY <2>3, <3>5, UpdateCommitsRun
      <4>2. p \in Workers
        BY <2>3, <4>1 DEF OneOperator
      <4> QED
        BY <4>1, <4>2 DEF ApproversSeeRun, WorkersOnlyBlock
    <3>6. \/ \E w \in Workers : CompleteCommits(w)
          \/ \E p \in Operators : ApproveCommits(p)
          \/ \E p \in Processes : UpdateCommits(p)
      BY <2>3, StepKinds DEF database, Tick, AcquireLease, RenewLease, ReleaseLease,
                             NextRebinds, NextCreates
    <3> QED
      BY <3>3, <3>4, <3>5, <3>6
  <2>4. CASE pc[o] = "approving" /\ copy'[o] = copy[o]
    BY <2>3, <2>4 DEF ApproversSeeRun
  <2> QED
    BY <2>1, <2>2, <2>4
<1> QED
  BY <1>1, <1>2 DEF ApproversSeeRun

LEMMA InitApproversSeeRun == Init => ApproversSeeRun
BY DEF Init, ApproversSeeRun, WorkersOnlyBlock, Processes

\* With one operator, whoever is about to approve has seen the present run, unless a
\* session has blocked it.
THEOREM ApproversAreCurrent ==
  ASSUME OneOperator
  PROVE  Spec => []ApproversSeeRun
<1> DEFINE I == TypeOK /\ Strengthening /\ NobodyWorksElsewhere /\ ApproversSeeRun
<1>1. Init => I
  BY InitTyped, InitStrengthening, InitApproversSeeRun
<1>2. I /\ [Next]_vars => I'
  BY StepTyped, StrengtheningStep, NobodyStep, ApproversSeeRunStep DEF Strengthening
<1> QED
  BY <1>1, <1>2, PTL DEF Spec

\* With one operator, an approval that CommitApproval takes in is one of the present
\* run: comparing the state alone is enough.
THEOREM ApprovalsAreFresh ==
  ASSUME OneOperator
  PROVE  Spec => ApprovalsAreNotStale
<1> DEFINE I == TypeOK /\ Strengthening /\ NobodyWorksElsewhere /\ ApproversSeeRun
<1>1. Init => I
  BY InitTyped, InitStrengthening, InitApproversSeeRun
<1>2. I /\ [Next]_vars => I'
  BY StepTyped, StrengtheningStep, NobodyStep, ApproversSeeRunStep DEF Strengthening
<1>3. I /\ [Next]_vars =>
        \A o \in Operators :
          (pc[o] = "approving" /\ pc'[o] = "idle" /\ version' # version)
            => copy[o] = run
  <2> SUFFICES ASSUME I, [Next]_vars, NEW o \in Operators,
                      pc[o] = "approving", pc'[o] = "idle", version' # version
               PROVE  copy[o] = run
    OBVIOUS
  <2>1. \/ \E w \in Workers : CompleteCommits(w)
        \/ \E p \in Operators : ApproveCommits(p)
        \/ \E p \in Processes : UpdateCommits(p)
    BY StepKinds DEF database, Tick, AcquireLease, RenewLease, ReleaseLease,
                     NextRebinds, NextCreates
  <2>2. ASSUME NEW w \in Workers, CompleteCommits(w) PROVE FALSE
    BY <2>2, ReturnMoves, SessionsDisjoint
    DEF CompleteCommits, OthersStay, TypeOK, Processes
  <2>3. ASSUME NEW p \in Processes, UpdateCommits(p) PROVE FALSE
    <3>1. p # o
      BY <2>3 DEF UpdateCommits
    <3> QED
      BY <2>3, <3>1, UpdatersMove DEF OthersStay, Processes
  <2>4. ApproveCommits(o)
    BY <2>1, <2>2, <2>3 DEF OneOperator
  <2>5. run.state = copy[o].state /\ copy[o].state \in GateStates
    BY <2>4 DEF ApproveCommits, Approvable, Strengthening, WorksOrStops, Processes
  <2>6. run.state # "blocked"
    BY <2>5 DEF GateStates, BriefGate, PlanGate
  <2> QED
    BY <2>6 DEF ApproversSeeRun
<1> QED
  BY <1>1, <1>2, <1>3, PTL DEF Spec, ApprovalsAreNotStale
===============================================================================
