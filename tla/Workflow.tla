------------------------------- MODULE Workflow -------------------------------
(***************************************************************************)
(* The canonical workflow tracked-change: the table the engine interprets. *)
(* Nothing here has state; every operator is a column of                   *)
(* internal/assets/tracked-change.yaml or an enumeration of                *)
(* internal/domain/types.go.                                               *)
(***************************************************************************)
EXTENDS Naturals

\* Run.State.Terminal().
TerminalStates == {"resolved", "cancelled", "superseded", "failed_permanent"}

\* The states with an "action:" line, and the action each one dispatches.
Dispatches ==
  { <<"reconciling", "reconcile">>,
    <<"discovering_context", "inspect_context">>,
    <<"brief_stale", "inspect_context">>,
    <<"preparing_workspace", "prepare_workspace">>,
    <<"implementing", "implement_change">>,
    <<"verifying", "verify_change">>,
    <<"finalizing", "finalize_change">>,
    <<"publishing", "publish_change">>,
    <<"awaiting_review", "poll_change_request">>,
    <<"analyzing_review", "analyze_review">>,
    <<"confirming_review_plan", "poll_change_request">>,
    <<"addressing_review", "address_review">>,
    <<"merged_pending_resolution", "resolve_work_item">> }

ActionStates == { d[1] : d \in Dispatches }
ActionTypes  == { d[2] : d \in Dispatches }

\* The states with a "gate:" line: they wait for an approval.
BriefGate   == "awaiting_brief_approval"
PlanGate    == "awaiting_review_plan_approval"
GateStates  == {BriefGate, PlanGate}

\* The states with a "wait:" line.
WaitStates  == {"blocked", "paused"}

States == ActionStates \cup GateStates \cup WaitStates \cup TerminalStates

\* The "on:" lines: state, outcome, target.
Transitions ==
  { <<"reconciling", "complete", "discovering_context">>,
    <<"reconciling", "changed", "discovering_context">>,
    <<"reconciling", "blocked", "blocked">>,
    <<"discovering_context", "complete", "awaiting_brief_approval">>,
    <<"discovering_context", "needs_input", "blocked">>,
    <<"brief_stale", "complete", "awaiting_brief_approval">>,
    <<"brief_stale", "needs_input", "blocked">>,
    <<"preparing_workspace", "complete", "implementing">>,
    <<"preparing_workspace", "blocked", "blocked">>,
    <<"implementing", "complete", "verifying">>,
    <<"implementing", "scope_changed", "brief_stale">>,
    <<"implementing", "blocked", "blocked">>,
    <<"verifying", "passed", "finalizing">>,
    <<"verifying", "failed_fixable", "implementing">>,
    <<"verifying", "blocked", "blocked">>,
    <<"finalizing", "complete", "publishing">>,
    <<"finalizing", "needs_changes", "implementing">>,
    <<"finalizing", "blocked", "blocked">>,
    <<"publishing", "complete", "awaiting_review">>,
    <<"publishing", "blocked", "blocked">>,
    <<"awaiting_brief_approval", "approved", "preparing_workspace">>,
    <<"awaiting_brief_approval", "changed", "discovering_context">>,
    <<"awaiting_review_plan_approval", "approved", "confirming_review_plan">>,
    <<"awaiting_review_plan_approval", "changed", "analyzing_review">>,
    <<"blocked", "resume", "discovering_context">>,
    <<"paused", "resume", "discovering_context">>,
    <<"awaiting_review", "no_change", "awaiting_review">>,
    <<"awaiting_review", "feedback", "analyzing_review">>,
    <<"awaiting_review", "merged", "merged_pending_resolution">>,
    <<"awaiting_review", "closed", "blocked">>,
    <<"analyzing_review", "complete", "awaiting_review_plan_approval">>,
    <<"analyzing_review", "no_action", "awaiting_review">>,
    <<"analyzing_review", "blocked", "blocked">>,
    <<"confirming_review_plan", "no_change", "addressing_review">>,
    <<"confirming_review_plan", "feedback_independent", "addressing_review">>,
    <<"confirming_review_plan", "feedback_overlap", "analyzing_review">>,
    <<"confirming_review_plan", "merged", "merged_pending_resolution">>,
    <<"confirming_review_plan", "closed", "blocked">>,
    <<"addressing_review", "complete", "awaiting_review">>,
    <<"addressing_review", "scope_changed", "brief_stale">>,
    <<"addressing_review", "blocked", "blocked">>,
    <<"merged_pending_resolution", "complete", "resolved">>,
    <<"merged_pending_resolution", "blocked", "blocked">> }

Outcomes == { t[2] : t \in Transitions }

\* AllowedOutcomes of an action handed out in a state.
AllowedOutcomes(s) == { t[2] : t \in { u \in Transitions : u[1] = s } }

\* Seeded bugs, for the runs to notice: a target past a human gate.
TargetsWithoutBriefGate(s, o) ==
  IF s = "discovering_context" /\ o = "complete"
    THEN {"preparing_workspace"}
    ELSE { t[3] : t \in { u \in Transitions : u[1] = s /\ u[2] = o } }
TargetsWithoutPlanGate(s, o) ==
  IF s = "analyzing_review" /\ o = "complete"
    THEN {"confirming_review_plan"}
    ELSE { t[3] : t \in { u \in Transitions : u[1] = s /\ u[2] = o } }

\* The targets the table gives for an outcome in a state: none or one.
Targets(s, o) == { t[3] : t \in { u \in Transitions : u[1] = s /\ u[2] = o } }

\* required_capabilities of each state; the others require none.
RequiredCaps(s) ==
  CASE s = "reconciling" ->
         {"tracker.read", "requirements.read", "change_request.poll"}
    [] s \in {"discovering_context", "brief_stale"} ->
         {"tracker.read", "requirements.read"}
    [] s = "preparing_workspace" -> {"vcs.branch"}
    [] s = "finalizing" -> {"vcs.commit"}
    [] s = "publishing" ->
         {"change_request.open", "tracker.transition", "tracker.comment"}
    [] s \in {"awaiting_review", "confirming_review_plan"} ->
         {"change_request.poll"}
    [] s = "addressing_review" ->
         {"tracker.read", "requirements.read", "change_request.reply"}
    [] s = "merged_pending_resolution" ->
         {"change_request.poll", "tracker.transition"}
    [] OTHER -> {}

WorkspaceModes == {"workspace.worktree", "workspace.clone"}

\* missingCapabilities, and the extra test of Next for prepare_workspace.
Capable(s, caps) ==
  /\ RequiredCaps(s) \subseteq caps
  /\ s = "preparing_workspace" => WorkspaceModes \cap caps # {}

\* retry_policy of each state.  A policy of class write_reconcile_first sends
\* the run through reconciliation before the write is tried again.
SafeReadStates ==
  {"discovering_context", "brief_stale", "awaiting_review",
   "confirming_review_plan"}
ReconciledWriteStates == {"publishing", "merged_pending_resolution"}
RetryStates == SafeReadStates \cup ReconciledWriteStates

MaxAttempts(s) == IF s \in SafeReadStates THEN 5 ELSE 3
===============================================================================
