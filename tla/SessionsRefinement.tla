--------------------------- MODULE SessionsRefinement ---------------------------
(***************************************************************************)
(* Sessions implements Commands, with one operator who has nothing to      *)
(* migrate to: every move of the run along the table starts from the       *)
(* present run.                                                            *)
(***************************************************************************)
EXTENDS SessionsProofs

-------------------------------------------------------------------------------
(* The pending action. *)

\* Every pending action has a type.
PendingIsTyped == \A a \in Pending : actions[a].type \in ActionTypes

\* The pending action, of which there is one, is the one that is handed out.
LEMMA HandedIsPending ==
  ASSUME TypeOK, NEW a \in Pending
  PROVE  Handed = actions[a].type
<1>1. (CHOOSE b \in Pending : TRUE) \in Pending
  OBVIOUS
<1> QED
  BY <1>1 DEF Handed, TypeOK, StoredOK

\* Without one, nothing is.
LEMMA NothingHanded == Pending = {} => Handed = None
BY DEF Handed

\* A rebinding keeps the action, a creation adds one where there was none.
LEMMA HandedStays ==
  ASSUME TypeOK, NEW w \in Workers, NextRebinds(w)
  PROVE  /\ Pending' = Pending /\ Handed' = Handed
         /\ \A a \in Pending : actions'[a].type = actions[a].type
<1>1. Pending' = Pending /\ \A a \in Pending : actions'[a].type = actions[a].type
  BY RebindRows DEF TypeOK, Pending
<1>2. CASE Pending = {}
  BY <1>1, <1>2 DEF Handed
<1>3. CASE Pending # {}
  <2>1. (CHOOSE b \in Pending : TRUE) \in Pending
    BY <1>3
  <2> QED
    BY <1>1, <2>1 DEF Handed
<1> QED
  BY <1>1, <1>2, <1>3

\* A creation hands a typed action out, or changes nothing.
LEMMA HandedIsNew ==
  ASSUME TypeOK, TypeOK', NEW w \in Workers, NextCreates(w)
  PROVE  /\ Handed' = Handed \/ (Handed = None /\ Handed' \in ActionTypes)
         /\ \A a \in Pending' :
              \/ a \in Pending /\ actions'[a] = actions[a]
              \/ actions'[a].type \in ActionTypes
<1>1. \A a \in Pending' :
        \/ a \in Pending /\ actions'[a] = actions[a]
        \/ Pending = {} /\ actions'[a].type \in ActionTypes
  BY CreateRows DEF TypeOK, Pending
<1>2. CASE UNCHANGED actions
  BY <1>1, <1>2 DEF Handed, Pending
<1>3. CASE ~UNCHANGED actions
  <2>1. Pending = {}
    BY <1>3 DEF NextCreates, Insertable
  <2>2. PICK a \in Pending' : TRUE
    <3>1. PICK a \in Actions, type \in ActionTypes :
            actions' = [actions EXCEPT ![a] = [state |-> "pending", type |-> type,
                                               token |-> held[w]]]
      BY <1>3 DEF NextCreates
    <3>2. actions'[a].state = "pending"
      BY <3>1 DEF TypeOK, StoredOK
    <3> QED
      BY <3>2 DEF Pending
  <2>3. Handed' = actions'[a].type
    <3>1. (CHOOSE b \in Pending' : TRUE) = a
      BY <2>2 DEF TypeOK, StoredOK
    <3> QED
      BY <2>2, <3>1 DEF Handed
  <2> QED
    BY <1>1, <2>1, <2>2, <2>3, NothingHanded
<1> QED
  BY <1>2, <1>3

\* Actions are made with a type, and keep it.
LEMMA PendingIsTypedStep ==
  ASSUME TypeOK, TypeOK', PendingIsTyped, [Next]_vars
  PROVE  PendingIsTyped'
<1>1. ASSUME UNCHANGED actions PROVE PendingIsTyped'
  BY <1>1 DEF PendingIsTyped, Pending
<1>2. ASSUME NEW w \in Workers, NextRebinds(w) \/ NextCreates(w)
      PROVE  PendingIsTyped'
  BY <1>2, HandedStays, HandedIsNew DEF PendingIsTyped
<1>3. ASSUME NEW w \in Workers, CompleteCommits(w)
      PROVE  PendingIsTyped'
  BY <1>1, <1>3, CompleteCommitsRun DEF PendingIsTyped
<1> QED
  BY <1>1, <1>2, <1>3, StepKinds DEF database, Tick, AcquireLease, RenewLease,
     ReleaseLease, ApproveCommits, UpdateCommits

-------------------------------------------------------------------------------
(* What the operator is about to write. *)

\* An operator stops the run, or has read it stopped or resolved, and since then a
\* session has blocked it at most.
Fits(r, state) ==
  \/ r.state \in {"paused"} \cup (TerminalStates \ {"resolved"})
  \/ r.state = "reconciling" /\ state \in {"paused", "blocked"}
  \/ r.state = "resolved" /\ state \in {"resolved", "blocked"}

OperatorsWrite ==
  \A o \in Operators : pc[o] \in {"updating", "committing"} => Fits(copy[o], run.state)

\* What an operator has just computed fits the run it was computed from.
LEMMA OperatorsRead ==
  ASSUME TypeOK, LoneOperator, NobodyPreviews, NEW o \in Operators, OperatorStep(o),
         pc'[o] \in {"updating", "committing"}
  PROVE  Fits(copy'[o], run'.state)
<1> USE DEF TypeOK, Processes
<1>1. run \in RunType
  BY DEF StoredOK
<1>2. ASSUME NEW stage, NEW r, Carry(o, stage, r), run' = run, Fits(r, run.state)
      PROVE  Fits(copy'[o], run'.state)
  BY <1>2, CarryMoves DEF Fits
<1>3. CASE PauseReads(o)
  <2> DEFINE r == [run EXCEPT !.resume = run.state, !.state = "paused",
                              !.wait = "human"]
  <2>1. Fits(r, run.state)
    BY <1>1 DEF RunType, Fits
  <2>2. Carry(o, "updating", r) /\ run' = run
    BY <1>3 DEF PauseReads, database
  <2> QED
    BY <1>2, <2>1, <2>2
<1>4. CASE ResumeReads(o)
  <2> DEFINE r == [run EXCEPT
             !.resume = IF @ = None THEN "discovering_context" ELSE @,
             !.state = "reconciling", !.wait = "none"]
  <2>1. Fits(r, run.state)
    BY <1>1, <1>4 DEF RunType, Fits, ResumeReads
  <2>2. Carry(o, "updating", r) /\ run' = run
    BY <1>4 DEF ResumeReads, database
  <2> QED
    BY <1>2, <2>1, <2>2
<1>5. CASE TerminalReads(o)
  <2>1. PICK target \in {"cancelled", "failed_permanent"} :
          Carry(o, "updating", [run EXCEPT !.state = target, !.wait = "none"])
    BY <1>5 DEF TerminalReads
  <2> DEFINE r == [run EXCEPT !.state = target, !.wait = "none"]
  <2>2. Fits(r, run.state)
    BY <1>1 DEF RunType, Fits, TerminalStates
  <2> QED
    BY <1>2, <1>5, <2>1, <2>2 DEF TerminalReads, database
<1>6. CASE CleanupReads(o)
  <2> DEFINE r == [run EXCEPT !.workspace = FALSE]
  <2>1. Fits(r, run.state)
    BY <1>1, <1>6 DEF RunType, Fits, CleanupReads, TerminalStates
  <2>2. Carry(o, "updating", r) /\ run' = run
    BY <1>6 DEF CleanupReads, database
  <2> QED
    BY <1>2, <2>1, <2>2
<1>7. ~MigrateReads(o)
  BY <1>1 DEF MigrateReads, LoneOperator, RunType
<1>8. ~MigrateChecks(o)
  BY DEF MigrateChecks, NobodyPreviews
<1>9. ~ApproveReads(o)
  BY CarryMoves DEF ApproveReads
<1>10. ~ApproveCommits(o)
  BY ReturnMoves DEF ApproveCommits
<1> QED
  BY <1>3, <1>4, <1>5, <1>6, <1>7, <1>8, <1>9, <1>10 DEF OperatorStep

\* It goes on to fit: while it is to be written, only sessions change the run, and
\* where it could stop fitting they only block it.
LEMMA OperatorsWriteStep ==
  ASSUME TypeOK, WorksOrStops, NobodyWorksElsewhere, LoneOperator, NobodyPreviews,
         WorkersOnlyBlock, OperatorsWrite, [Next]_vars
  PROVE  OperatorsWrite'
<1> USE DEF TypeOK, Processes
<1> SUFFICES ASSUME NEW o \in Operators, pc'[o] \in {"updating", "committing"}
             PROVE  Fits(copy'[o], run'.state)
  BY DEF OperatorsWrite
<1>1. ASSUME NEW p \in Operators, OperatorStep(p)
      PROVE  Fits(copy'[o], run'.state)
  BY <1>1, OperatorsRead DEF LoneOperator
<1>2. ASSUME pc[o] \in {"updating", "committing"}, copy'[o] = copy[o],
             run' = run \/ run'.state = "blocked"
      PROVE  Fits(copy'[o], run'.state)
  <2>1. Fits(copy[o], run.state)
    BY <1>2 DEF OperatorsWrite
  <2> QED
    BY <1>2, <2>1 DEF Fits
<1>3. CASE UNCHANGED vars \/ Tick
  BY <1>2, <1>3 DEF vars, database, local, Tick
<1>4. ASSUME NEW w \in Workers, WorkerStep(w)
      PROVE  Fits(copy'[o], run'.state)
  <2>1. pc'[o] = pc[o] /\ copy'[o] = copy[o]
    BY <1>4, WorkersRunsFit, SessionsDisjoint DEF OthersStay
  <2>2. CASE ~CompleteCommits(w)
    <3>1. run' = run
      BY <1>4, <2>2
      DEF WorkerStep, AcquireLease, RenewLease, ReleaseLease, NextValidates, NextReads,
          NextLooks, NextRebinds, NextCreates, CompleteFinds, CompleteReads, database
    <3> QED
      BY <1>2, <2>1, <3>1
  <2>3. CASE CompleteCommits(w)
    <3>1. CASE run.state \in ActionStates
      <4>1. copy'[o].state \in {"paused"} \cup (TerminalStates \ {"resolved"})
        BY <2>1, <3>1 DEF OperatorsWrite, Fits, ActionStates, Dispatches
      <4> QED
        BY <4>1 DEF Fits
    <3>2. CASE run.state \notin ActionStates
      BY <1>2, <2>1, <2>3, <3>2, NoResultOutsideWork
    <3> QED
      BY <3>1, <3>2
  <2> QED
    BY <2>2, <2>3
<1>5. ASSUME NEW p \in Processes, UpdateReads(p) \/ Dies(p)
      PROVE  Fits(copy'[o], run'.state)
  <2>1. pc[o] \in {"updating", "committing"} /\ copy'[o] = copy[o]
    BY <1>5, UpdatersMove DEF OthersStay
  <2> QED
    BY <1>2, <1>5, <2>1 DEF UpdateReads, Dies, database
<1>6. ASSUME NEW p \in Processes, UpdateCommits(p)
      PROVE  Fits(copy'[o], run'.state)
  <2>1. p # o
    BY <1>6, ReturnMoves DEF UpdateCommits
  <2>2. pc[o] \in {"updating", "committing"} /\ copy'[o] = copy[o]
    BY <1>6, <2>1, UpdatersMove DEF OthersStay
  <2>3. p \in Workers /\ copy[p].state = "blocked"
    BY <1>6, <2>1 DEF LoneOperator, WorkersOnlyBlock, UpdateCommits
  <2> QED
    BY <1>2, <1>6, <2>2, <2>3, UpdateCommitsRun
<1> QED
  BY <1>1, <1>3, <1>4, <1>5, <1>6 DEF Next

-------------------------------------------------------------------------------
(* The moves. *)

\* The table, line by line.
LEMMA TargetLine ==
  ASSUME NEW s, NEW o, NEW t \in Targets(s, o)
  PROVE  <<s, o, t>> \in Transitions
BY DEF Targets, Transitions

\* An outcome that a state allows has a line.
LEMMA OutcomeLine ==
  ASSUME NEW s, NEW o \in AllowedOutcomes(s)
  PROVE  \E line \in Transitions : line[1] = s /\ line[2] = o
BY DEF AllowedOutcomes

\* A completion of the present run is a move along a line.
LEMMA CompletionMoves ==
  ASSUME run \in RunType, NEW type \in ActionTypes, run.state \in ActionStates,
         Handed = type, Handed' = None, run' \in Completions(run, type),
         approvals' = approvals
  PROVE  Mover!Complete
<1>1. PICK o \in AllowedOutcomes(run.state) :
        \E e \in Evidenced(run, type, o), t \in Routes(run, type, o) :
          run' = Arrive(Consumed(e, type, o), t)
  BY DEF Completions
<1>2. PICK e \in Evidenced(run, type, o), t \in Routes(run, type, o) :
        run' = Arrive(Consumed(e, type, o), t)
  BY <1>1
<1>3. /\ e \in RunType /\ e.resume = run.resume
      /\ e.brief = run.brief \/ (type = "inspect_context" /\ e.brief \in Briefs)
      /\ \/ e.plan = run.plan
         \/ type = "analyze_review" /\ e.plan \in Plans
         \/ type \in {"poll_change_request", "address_review"} /\ e.plan = None
  <2>1. e \in RunType /\ e.resume = run.resume
    BY <1>2, EvidencedTyped
  <2>2. CASE type = "inspect_context"
    BY <1>2, <2>1, <2>2 DEF Evidenced, RunType
  <2>3. CASE type = "prepare_workspace"
    BY <1>2, <2>1, <2>3 DEF Evidenced, RunType
  <2>4. CASE type = "analyze_review"
    BY <1>2, <2>1, <2>4 DEF Evidenced, RunType
  <2>5. CASE type \in {"poll_change_request", "address_review"}
    <3>1. e = run \/ e = [run EXCEPT !.plan = None]
      BY <1>2, <2>5 DEF Evidenced
    <3> QED
      BY <2>1, <2>5, <3>1 DEF RunType
  <2>6. CASE type \notin {"inspect_context", "prepare_workspace", "analyze_review",
                         "poll_change_request", "address_review"}
    <3>1. e = run
      BY <1>2, <2>6 DEF Evidenced
    <3> QED
      BY <2>1, <3>1
  <2> QED
    BY <2>2, <2>3, <2>4, <2>5, <2>6, <2>1
<1>4. /\ run'.state = t /\ run'.brief = e.brief /\ run'.plan = e.plan
      /\ run'.resume = IF type = "reconcile" /\ o = "complete" THEN None ELSE run.resume
  BY <1>2, <1>3 DEF Arrive, Consumed, RunType
<1>5. PICK line \in Transitions : line[1] = run.state /\ Mover!Leads(line)
  <2>1. CASE t \in Targets(run.state, o) /\ run'.resume = run.resume
    <3>1. Mover!Leads(<<run.state, o, t>>)
      BY <1>4, <2>1 DEF Mover!Leads
    <3> QED
      BY <2>1, <3>1, TargetLine
  <2>2. CASE ~(t \in Targets(run.state, o) /\ run'.resume = run.resume)
    <3>1. PICK line \in Transitions : line[1] = run.state /\ line[2] = o
      BY OutcomeLine
    <3>2. Mover!Leads(line)
      BY <1>2, <1>4, <2>2, <3>1 DEF Routes, Mover!Leads
    <3> QED
      BY <3>1, <3>2
  <2> QED
    BY <2>1, <2>2
<1>6. type # None
  BY SessionsNone
<1>7. Mover!Complete
  BY <1>3, <1>4, <1>5, <1>6 DEF Mover!Complete
<1> QED
  BY <1>7

\* A failure or a drift is one of those of the present run.
LEMMA SetbackMoves ==
  ASSUME run \in RunType, NEW type \in ActionTypes, run.state \in ActionStates,
         Handed = type, Handed' = None, run' \in Setbacks(run, type),
         approvals' = approvals
  PROVE  Mover!Fail
<1>1. type # None
  BY SessionsNone
<1>2. \/ run' = [run EXCEPT !.resume = run.state, !.state = "blocked", !.wait = "error"]
      \/ /\ run.state \in ReconciledWriteStates
         /\ run' = [run EXCEPT !.resume = run.state, !.state = "reconciling",
                              !.wait = "external"]
      \/ run' = [run EXCEPT !.wait = "external"]
      \/ run' = [run EXCEPT !.resume = run.state, !.state = "brief_stale",
                           !.wait = "human"]
  BY DEF Setbacks
<1> QED
  BY <1>1, <1>2 DEF Mover!Fail, RunType

\* A result that is taken was computed from the present run, which works.
LEMMA ResultMoves ==
  ASSUME TypeOK, TypeOK', PendingIsTyped, NobodyWorksElsewhere, ResultsSeeRun,
         NEW w \in Workers, CompleteCommits(w)
  PROVE  [Mover!Next]_(Mover!vars)
<1> USE DEF TypeOK, Processes
<1>1. CASE ~Accepts(job[w], held[w])
  <2>1. UNCHANGED <<run, actions, approvals>>
    BY <1>1 DEF CompleteCommits
  <2> QED
    BY <2>1 DEF Mover!vars, Handed, Pending
<1>2. CASE Accepts(job[w], held[w])
  <2> DEFINE a == job[w]
  <2>1. a \in Pending /\ pc[w] = "computed" /\ approvals' = approvals
    BY <1>2 DEF CompleteCommits, Accepts, Pending, CarriedOK
  <2>2. run.state \in ActionStates /\ copy[w] = run
    BY <1>2, <2>1 DEF NobodyWorksElsewhere, ResultsSeeRun, Accepts, Live
  <2>3. Handed = actions[a].type /\ actions[a].type \in ActionTypes
    BY <2>1, HandedIsPending DEF PendingIsTyped
  <2>4. run' \in Completions(run, actions[a].type) \/ run' \in Setbacks(run, actions[a].type)
    BY <1>2, <2>2 DEF CompleteCommits, CommitAction
  <2>5. Handed' = None
    <3>1. Pending' = {} \/ UNCHANGED actions
      BY CompleteCommitsRun
    <3>2. ~UNCHANGED actions
      <4>1. PICK final \in {"completed", "failed"} :
              actions' = [actions EXCEPT ![a].state = final]
        BY <1>2 DEF CompleteCommits, CommitAction
      <4>2. actions'[a].state = final /\ actions[a].state = "pending"
        BY <2>1, <4>1 DEF StoredOK, Pending
      <4> QED
        BY <4>2
    <3> QED
      BY <3>1, <3>2 DEF Handed
  <2>6. run \in RunType
    BY DEF StoredOK
  <2>7. Mover!Fail \/ Mover!Complete
    BY <2>1, <2>2, <2>3, <2>4, <2>5, <2>6, CompletionMoves, SetbackMoves
  <2> QED
    BY <2>7 DEF Mover!Next
<1> QED
  BY <1>1, <1>2

\* An approval that is taken is one of the present run.
LEMMA ApprovalMoves ==
  ASSUME TypeOK, WorksOrStops, ApproversSeeRun, NEW o \in Operators, ApproveCommits(o)
  PROVE  [Mover!Next]_(Mover!vars)
<1> USE DEF TypeOK, Processes
<1>0. Handed' = Handed
  <2>1. UNCHANGED actions
    BY DEF ApproveCommits
  <2> QED
    BY <2>1 DEF Handed, Pending
<1>1. CASE ~Approvable(o)
  BY <1>0, <1>1 DEF ApproveCommits, Mover!vars
<1>2. CASE Approvable(o)
  <2>1. pc[o] = "approving" /\ run.state = copy[o].state /\ run.state \in GateStates
    BY <1>2 DEF ApproveCommits, Approvable, WorksOrStops
  <2>2. copy[o] = run
    BY <2>1 DEF ApproversSeeRun, GateStates, BriefGate, PlanGate
  <2>3. PICK target \in Targets(run.state, "approved") :
          run' = [run EXCEPT !.state = target, !.wait = "none"]
    BY <1>2, <2>2 DEF ApproveCommits
  <2>4. /\ run'.state = target /\ run'.resume = run.resume
        /\ run'.brief = run.brief /\ run'.plan = run.plan
    BY <2>3 DEF StoredOK, RunType
  <2>5. approvals' = approvals \cup {AtGate(run)} /\ AtGate(run) # None
    BY <1>2, <2>1, <2>2 DEF ApproveCommits, CarriedOK
  <2>6. Mover!Artifact = AtGate(run)
    BY DEF Mover!Artifact, AtGate
  <2>7. Mover!Approve
    BY <1>0, <2>1, <2>3, <2>4, <2>5, <2>6, TargetLine DEF Mover!Approve
  <2> QED
    BY <2>7 DEF Mover!Next
<1> QED
  BY <1>1, <1>2

\* An update stops the run, lets a stopped one reconcile, or cleans up.
LEMMA UpdateMoves ==
  ASSUME TypeOK, WorkersOnlyBlock, OperatorsWrite, NEW p \in Processes, UpdateCommits(p)
  PROVE  [Mover!Next]_(Mover!vars)
<1> USE DEF TypeOK, Processes
<1>0. Handed' = Handed /\ approvals' = approvals
  <2>1. UNCHANGED <<actions, approvals>>
    BY DEF UpdateCommits
  <2> QED
    BY <2>1 DEF Handed, Pending
<1>1. CASE UNCHANGED run
  BY <1>0, <1>1 DEF Mover!vars
<1>2. CASE ~UNCHANGED run
  <2>1. pc[p] = "committing" /\ run' = copy[p] /\ copy[p] \in RunType
    BY <1>2, UpdateCommitsRun DEF CarriedOK
  <2>2. Mover!Reread
    BY <1>0, <2>1 DEF Mover!Reread, RunType
  <2>3. CASE p \in Workers
    <3>1. Mover!Stop
      BY <2>1, <2>2, <2>3 DEF WorkersOnlyBlock, Mover!Stop
    <3> QED
      BY <3>1 DEF Mover!Next
  <2>4. CASE p \in Operators
    <3>1. Fits(run', run.state)
      BY <2>1, <2>4 DEF OperatorsWrite
    <3>2. Mover!Stop \/ Mover!Resume \/ Mover!Cleanup
      BY <2>2, <3>1 DEF Fits, Mover!Stop, Mover!Resume, Mover!Cleanup
    <3> QED
      BY <3>2 DEF Mover!Next
  <2> QED
    BY <2>3, <2>4
<1> QED
  BY <1>1, <1>2

\* A step of the handing out of actions.
LEMMA HandMoves ==
  ASSUME TypeOK, TypeOK', NEW w \in Workers, NextRebinds(w) \/ NextCreates(w)
  PROVE  [Mover!Next]_(Mover!vars)
<1>1. UNCHANGED <<run, approvals>>
  BY DEF NextRebinds, NextCreates
<1>2. Handed' = Handed \/ (Handed = None /\ Handed' \in ActionTypes)
  BY HandedStays, HandedIsNew
<1>3. CASE Handed' = Handed
  BY <1>1, <1>3 DEF Mover!vars
<1>4. CASE Handed = None /\ Handed' \in ActionTypes
  <2>1. Mover!Hand
    BY <1>1, <1>4 DEF Mover!Hand
  <2> QED
    BY <2>1 DEF Mover!Next
<1> QED
  BY <1>2, <1>3, <1>4

\* Every step is a move or leaves the run, its action and the approvals alone.
LEMMA MoverStep ==
  ASSUME TypeOK, TypeOK', Strengthening, NobodyWorksElsewhere, Freshness,
         ApproversSeeRun, PendingIsTyped, OperatorsWrite, [Next]_vars
  PROVE  [Mover!Next]_(Mover!vars)
<1> USE DEF Strengthening, Freshness
<1>1. ASSUME UNCHANGED <<run, actions, approvals>>
      PROVE  [Mover!Next]_(Mover!vars)
  BY <1>1 DEF Mover!vars, Handed, Pending
<1>2. ASSUME NEW w \in Workers, NextRebinds(w) \/ NextCreates(w) \/ CompleteCommits(w)
      PROVE  [Mover!Next]_(Mover!vars)
  BY <1>2, HandMoves, ResultMoves
<1>3. ASSUME NEW o \in Operators, ApproveCommits(o)
      PROVE  [Mover!Next]_(Mover!vars)
  BY <1>3, ApprovalMoves
<1>4. ASSUME NEW p \in Processes, UpdateCommits(p)
      PROVE  [Mover!Next]_(Mover!vars)
  BY <1>4, UpdateMoves DEF UpdatesFit
<1> QED
  BY <1>1, <1>2, <1>3, <1>4, StepKinds
     DEF database, Tick, AcquireLease, RenewLease, ReleaseLease

\* With one operator and nothing to migrate to, the run moves as if commands were
\* atomic but for those that stop it (SPEC.md:164): no result and no approval moves a
\* run that others have changed, although only UpdateRun compares versions.
THEOREM SessionsKeepCommands ==
  ASSUME LoneOperator
  PROVE  Spec => CommandsKept
<1> DEFINE I == /\ TypeOK /\ Strengthening /\ NobodyWorksElsewhere /\ Freshness
                /\ ApproversSeeRun /\ PendingIsTyped /\ OperatorsWrite
<1>1. Init => I
  BY InitTyped, InitStrengthening, InitFreshness, InitApproversSeeRun
     DEF Init, PendingIsTyped, Pending, OperatorsWrite, Processes
<1>2. I /\ [Next]_vars => I'
  <2> SUFFICES ASSUME I, [Next]_vars PROVE I'
    OBVIOUS
  <2>1. TypeOK' /\ Strengthening' /\ NobodyWorksElsewhere' /\ Freshness'
    BY StepTyped, StrengtheningStep, NobodyStep, FreshnessStep
  <2>2. ApproversSeeRun'
    BY ApproversSeeRunStep DEF LoneOperator, OneOperator, Strengthening
  <2>3. PendingIsTyped'
    BY <2>1, PendingIsTypedStep
  <2>4. OperatorsWrite'
    BY OperatorsWriteStep DEF Strengthening, Freshness, UpdatesFit, NobodyPreviews
  <2> QED
    BY <2>1, <2>2, <2>3, <2>4
<1>3. Init => Mover!Init
  BY DEF Init, NewRun, Mover!Init, Handed, Pending
<1>4. I /\ I' /\ [Next]_vars => [Mover!Next]_(Mover!vars)
  BY MoverStep
<1> QED
  BY <1>1, <1>2, <1>3, <1>4, PTL DEF Spec, CommandsKept, Mover!Spec
===============================================================================
