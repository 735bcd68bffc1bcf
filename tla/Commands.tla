-------------------------------- MODULE Commands --------------------------------
(***************************************************************************)
(* What moves a run, whoever else is at work: a result moves the present   *)
(* run along the table, an approval is one of the artifact the present run *)
(* is at a gate for, and everything else stops the run, or lets a run that *)
(* is stopped reconcile.  Only a command that stops the run, or goes on    *)
(* with a stopped one, may put back what it read before others wrote.      *)
(*                                                                         *)
(* The table is a parameter.                                               *)
(***************************************************************************)
CONSTANTS
  States, ActionStates, ActionTypes, GateStates, TerminalStates,
  ReconciledWriteStates, BriefGate,
  Transitions, \* the lines of the table: state, outcome, target
  Briefs, Plans, None

VARIABLES
  state, resume, brief, plan, \* of the run
  action,                     \* the type of the pending action
  approvals                   \* the artifacts that were approved

vars == <<state, resume, brief, plan, action, approvals>>

Init ==
  /\ state = "discovering_context"
  /\ resume = None /\ brief = None /\ plan = None
  /\ action = None
  /\ approvals = {}

\* An action is handed out, one at a time.
Hand ==
  /\ action = None
  /\ action' \in ActionTypes
  /\ UNCHANGED <<state, resume, brief, plan, approvals>>

\* Where a line leads: to its target, but for a reconciliation with a resume point
\* and for a review that is followed by the next one.
Leads(line) ==
  \/ state' = line[3] /\ resume' = resume
  \/ /\ action = "reconcile" /\ line[2] = "complete"
     /\ resume # None /\ state' = resume /\ resume' = None
  \/ /\ action = "address_review" /\ line[2] = "complete"
     /\ state' = "analyzing_review" /\ resume' = resume

\* A result counts where the run works, and moves it along a line of the state it is
\* in.  The artifacts change by their own actions only.
Complete ==
  /\ action # None /\ action' = None
  /\ state \in ActionStates
  /\ \E line \in Transitions : state = line[1] /\ Leads(line)
  /\ brief' = brief \/ (action = "inspect_context" /\ brief' \in Briefs)
  /\ \/ plan' = plan
     \/ action = "analyze_review" /\ plan' \in Plans
     \/ action \in {"poll_change_request", "address_review"} /\ plan' = None
  /\ UNCHANGED approvals

\* A failure keeps the state for the next attempt or as the resume point, and only a
\* remote write has to be reconciled.
Fail ==
  /\ action # None
  /\ state \in ActionStates
  /\ action' = None
  /\ \/ UNCHANGED <<state, resume>>
     \/ state' \in {"blocked", "brief_stale"} /\ resume' = state
     \/ state \in ReconciledWriteStates /\ state' = "reconciling" /\ resume' = state
  /\ UNCHANGED <<brief, plan, approvals>>

Artifact == IF state = BriefGate THEN brief ELSE plan

Approve ==
  /\ state \in GateStates /\ Artifact # None
  /\ approvals' = approvals \cup {Artifact}
  /\ <<state, "approved", state'>> \in Transitions
  /\ UNCHANGED <<resume, brief, plan, action>>

\* Some run that was read.
Reread ==
  /\ resume' \in States \cup {None}
  /\ brief' \in Briefs \cup {None}
  /\ plan' \in Plans \cup {None}
  /\ UNCHANGED <<action, approvals>>

Stop ==
  /\ state' \in {"paused", "blocked"} \cup (TerminalStates \ {"resolved"})
  /\ Reread

Resume ==
  /\ state \in {"paused", "blocked"}
  /\ state' = "reconciling"
  /\ Reread

\* A resolved run is written again as it was, over a session's block at most.
Cleanup ==
  /\ state \in {"resolved", "blocked"}
  /\ state' = "resolved"
  /\ Reread

Next ==
  \/ Hand
  \/ Complete
  \/ Fail
  \/ Approve
  \/ Stop
  \/ Resume
  \/ Cleanup

Spec == Init /\ [][Next]_vars
===============================================================================
