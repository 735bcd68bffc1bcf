-------------------------------- MODULE Progress --------------------------------
(***************************************************************************)
(* Where the engine lets an agent get that does its part: a Lifecycle      *)
(* whose requirements stay as they are (no drift, no scope change), whose  *)
(* operator approves and may stop the run but never resumes it, and whose  *)
(* agent meets with finitely many setbacks: failures, lost leases, and     *)
(* results that lead back.                                                 *)
(***************************************************************************)
EXTENDS Lifecycle

CONSTANT SetbackBound \* bound: the number of setbacks

ASSUME SetbackAssumption == SetbackBound \in Nat

VARIABLE setbacks

\* What a good result of each state leads to, beside the state reconciliation
\* goes back to and the next analysis.
Onward ==
  { <<t[1], t[3]>> : t \in { u \in Transitions :
      \/ u[2] \in {"complete", "passed", "no_change", "no_action"}
      \/ u[1] \in {"awaiting_review", "confirming_review_plan"} } }
  \cup {<<"addressing_review", "analyzing_review">>}

GoodResult ==
  /\ CompleteAction
  /\ \/ <<run.state, run'.state>> \in Onward
     \/ run.state = "reconciling" /\ run'.state = run.resume

PoorResult ==
  /\ CompleteAction
  /\ <<run.state, run'.state>> \notin Onward
  /\ run'.state # "brief_stale"

\* The validators accept no result at all, so the agent reports a failure.
GivesUp == ~ENABLED CompleteAction /\ FailBlocks("validation")

\* The loop of the agent: take the lease, ask for the next action, work, complete.
AgentLoop ==
  \/ AcquireLease
  \/ WakePasses
  \/ \E caps \in Inventories : NextRebinds(caps) \/ NextCreates(caps)
  \/ GoodResult
  \/ GivesUp

Setback ==
  /\ setbacks < SetbackBound
  /\ setbacks' = setbacks + 1
  /\ \/ LeaseEnds
     \/ PoorResult
     \/ \E class \in FailureClasses : FailRetries(class) \/ FailBlocks(class)

OperatorStops == Pause \/ \E target \in TerminalStates : Terminal(target)

SteadyNext ==
  \/ AgentLoop /\ UNCHANGED setbacks
  \/ Approval /\ UNCHANGED setbacks
  \/ OperatorStops /\ UNCHANGED setbacks
  \/ Setback

\* The agent goes on with its loop, and the operator approves in the end.
FairSpec ==
  /\ Init /\ setbacks = 0
  /\ [][SteadyNext]_<<vars, setbacks>>
  /\ WF_vars(AgentLoop)
  /\ WF_vars(Approval)

-------------------------------------------------------------------------------
(* Properties. *)

Stopped == run.state \in WaitStates \cup TerminalStates

Settled == run.state = "awaiting_review" \/ Stopped

\* Nobody waits for anybody for ever: a run comes to wait for its reviewers or for
\* the operator, again and again, through lost leases, rebound actions, failures,
\* their reconciliations, and feedback that overtakes the approved plan.
AlwaysSettles == []<>Settled

\* An actionable comment is taken up: the thread that polling has filed is answered,
\* unless the analysis finds that nothing is to be done, or the run stops.
CommentsAreAnswered ==
  \A t \in Threads :
    t \in run.pending ~>
      \/ t \in answered
      \/ run.state = "awaiting_review" /\ t \in run.planThreads
      \/ Stopped
===============================================================================
