------------------------------ MODULE Definitions ------------------------------
(***************************************************************************)
(* What internal/workflow accepts as a workflow definition: the checks a   *)
(* file has to pass before "workrun migrate" puts it in the place of the   *)
(* canonical table of module Workflow.  There is no state here.            *)
(*                                                                         *)
(* A definition is a record:                                               *)
(*   initial  a state name                                                 *)
(*   states   from state names to [action, gate, wait, terminal, retry,    *)
(*            on], where on is a set of pairs of an outcome and a target   *)
(*   retries  from policy names to [class, attempts, first, maximum]       *)
(*   wakes    from policy names to sequences of intervals                  *)
(* with durations in seconds and "" for what is left out.  The wording of  *)
(* names, the protocol line and the lists of capabilities are left out.    *)
(***************************************************************************)
EXTENDS Integers, Sequences, FiniteSets, Workflow

\* What every file is read into: the outcomes of a state are the keys of a map.
IsDefinition(d) ==
  /\ IsFiniteSet(DOMAIN d.states)
  /\ \A s \in DOMAIN d.states :
       /\ d.states[s].on \subseteq STRING \X STRING
       /\ \A p, q \in d.states[s].on : p[1] = q[1] => p = q

Day == 24 * 60 * 60

(* The tables of what a definition may use. *)

AllowedWaits  == {"blocked", "paused"}
AllowedGates  ==
  { "approve_brief", "approve_review_plan", "approve_terminal",
    "approve_architecture", "approve_migration" }
AllowedRetryClasses == {"read_transient_safe", "write_reconcile_first"}

\* allowedOutcomes: those of the canonical table.
AllowedOn(action) ==
  UNION { AllowedOutcomes(d[1]) : d \in { e \in Dispatches : e[2] = action } }

-------------------------------------------------------------------------------
(* Validate. *)

RetryValid(p) ==
  /\ p.class \in AllowedRetryClasses
  /\ p.attempts \in 1..20
  /\ 0 < p.first /\ p.first <= p.maximum /\ p.maximum <= Day

WakeValid(intervals) ==
  /\ Len(intervals) \in 1..16
  /\ \A i \in 1..Len(intervals) :
       /\ intervals[i] > (IF i = 1 THEN 0 ELSE intervals[i - 1])
       /\ intervals[i] <= Day

OutcomesOf(state) == { p[1] : p \in state.on }

\* Exactly one of action, gate, wait and terminal.
OneMode(state) ==
  Cardinality({ m \in {"action", "gate", "wait"} : state[m] # "" }
                \cup (IF state.terminal THEN {"terminal"} ELSE {})) = 1

StateValid(d, state) ==
  /\ OneMode(state)
  /\ state.action # "" =>
       /\ state.action \in ActionTypes
       /\ OutcomesOf(state) \subseteq AllowedOn(state.action)
  /\ state.gate # "" => state.gate \in AllowedGates
  /\ state.wait # "" => state.wait \in AllowedWaits
  /\ (state.on = {}) = state.terminal
  /\ state.retry # "" => state.action # "" /\ state.retry \in DOMAIN d.retries
  /\ \A p \in state.on : p[2] \in DOMAIN d.states

At(d, action) == { s \in DOMAIN d.states : d.states[s].action = action }
Gates(d, gate) == { s \in DOMAIN d.states : d.states[s].gate = gate }

Valid(d) ==
  /\ d.initial \in DOMAIN d.states
  /\ \A n \in DOMAIN d.retries : RetryValid(d.retries[n])
  /\ \A n \in DOMAIN d.wakes : WakeValid(d.wakes[n])
  /\ \A s \in DOMAIN d.states : StateValid(d, d.states[s])
  /\ Cardinality(Gates(d, "approve_brief")) = 1
  /\ Cardinality(Gates(d, "approve_review_plan")) = 1
  /\ "resolved" \in DOMAIN d.states /\ d.states["resolved"].terminal

-------------------------------------------------------------------------------
(* validateSafetyFlow. *)

\* requireTarget, for every state of a set: the outcome leads into the targets.
Leads(d, from, outcome, targets) ==
  \A s \in from : \E t \in targets : <<outcome, t>> \in d.states[s].on

\* The actions that exactly one state dispatches.
UniqueActions ==
  { "prepare_workspace", "implement_change", "verify_change",
    "finalize_change", "publish_change", "analyze_review", "address_review",
    "resolve_work_item" }

\* Seeded bug: one inspection that enters the brief approval is enough.
InspectionsEnterApprovalOnce(d) ==
  \E s \in At(d, "inspect_context") : Leads(d, {s}, "complete", Gates(d, "approve_brief"))

InspectionsEnterApproval(d) ==
  /\ At(d, "inspect_context") # {}
  /\ Leads(d, At(d, "inspect_context"), "complete", Gates(d, "approve_brief"))

SafeFlow(d) ==
  LET polls == At(d, "poll_change_request")
  IN  /\ InspectionsEnterApproval(d)
      /\ \A a \in UniqueActions : Cardinality(At(d, a)) = 1
      /\ Leads(d, Gates(d, "approve_brief"), "approved", At(d, "prepare_workspace"))
      /\ Leads(d, At(d, "prepare_workspace"), "complete", At(d, "implement_change"))
      /\ Leads(d, At(d, "implement_change"), "complete", At(d, "verify_change"))
      /\ Leads(d, At(d, "verify_change"), "passed", At(d, "finalize_change"))
      /\ Leads(d, At(d, "finalize_change"), "complete", At(d, "publish_change"))
      /\ Leads(d, At(d, "publish_change"), "complete", polls)
      /\ Leads(d, At(d, "analyze_review"), "complete", Gates(d, "approve_review_plan"))
      /\ Leads(d, Gates(d, "approve_review_plan"), "approved", polls)
      /\ Leads(d, At(d, "address_review"), "complete", polls)
      /\ Leads(d, At(d, "resolve_work_item"), "complete", {"resolved"})
      /\ Leads(d, polls, "merged", At(d, "resolve_work_item"))

Accepted(d) == Valid(d) /\ SafeFlow(d)
===============================================================================
