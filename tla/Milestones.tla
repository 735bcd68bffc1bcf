------------------------------- MODULE Milestones -------------------------------
(***************************************************************************)
(* What a run promises to those who only look at its milestones, without   *)
(* states, actions, leases or resume points: a brief is approved, a head   *)
(* is checked, a checked head comes under review, a merge is seen, the     *)
(* item is resolved.  Each rests on the one before, whatever interrupts    *)
(* the run between them, and nothing happens after the end.                *)
(***************************************************************************)
CONSTANTS Briefs, Heads, ChangeRequests, None

VARIABLES
  approved,  \* the briefs that were approved
  checked,   \* the heads whose checks passed
  head,      \* the head the run works on
  request,   \* its change request
  reviewing, \* is it under review, or kept to go on there
  merged,    \* was a merge seen
  outcome    \* "open", "resolved", or "abandoned"

vars == <<approved, checked, head, request, reviewing, merged, outcome>>

Init ==
  /\ approved = {} /\ checked = {}
  /\ head = None /\ request = None
  /\ reviewing = FALSE /\ merged = FALSE
  /\ outcome = "open"

\* A head comes under review with a change request, after its checks passed and a
\* brief was approved.  A review may be left at any time.
MayEnter ==
  /\ reviewing' \in BOOLEAN
  /\ reviewing' /\ ~reviewing =>
       approved # {} /\ head' \in checked' /\ request' # None
MayLeave == reviewing' \in {reviewing, FALSE}

\* A change request is not forgotten.
Record ==
  /\ head' \in Heads \cup {None}
  /\ request' \in ChangeRequests \cup {None}
  /\ request # None => request' # None

Approve(brief) ==
  /\ outcome = "open"
  /\ approved' = approved \cup {brief}
  /\ UNCHANGED <<checked, head, request, reviewing, merged, outcome>>

Work ==
  /\ outcome = "open"
  /\ Record /\ MayEnter
  /\ UNCHANGED <<approved, checked, merged, outcome>>

\* Only work on an approved brief is checked; the head that was is the run's.
Check ==
  /\ outcome = "open"
  /\ approved # {}
  /\ Record /\ MayEnter
  /\ head' # None
  /\ checked' = checked \cup {head'}
  /\ UNCHANGED <<approved, merged, outcome>>

\* A merge is seen where a change request is under review.
Merge ==
  /\ outcome = "open"
  /\ reviewing /\ request # None
  /\ merged' = TRUE
  /\ MayLeave
  /\ UNCHANGED <<approved, checked, head, request, outcome>>

\* The item is resolved after that, while the merge is what is under review.
Resolve ==
  /\ outcome = "open"
  /\ reviewing /\ merged /\ request # None
  /\ outcome' = "resolved"
  /\ MayLeave
  /\ UNCHANGED <<approved, checked, head, request, merged>>

Abandon ==
  /\ outcome # "resolved"
  /\ outcome' = "abandoned"
  /\ MayLeave
  /\ UNCHANGED <<approved, checked, head, request, merged>>

Next ==
  \/ \E brief \in Briefs : Approve(brief)
  \/ Work
  \/ Check
  \/ Merge
  \/ Resolve
  \/ Abandon

Spec == Init /\ [][Next]_vars
===============================================================================
