------------------------------- MODULE MCProgress -------------------------------
(* An instance of Progress for TLC. *)
EXTENDS Progress

CONSTANTS c1, c2, m, t1, t2

\* Two comments on two threads, and the merge.
MCEventType ==
  [ e \in Events |-> IF e = m THEN "merged" ELSE "actionable_comment" ]
MCThreadOf == [ e \in Events |-> IF e = c2 THEN t2 ELSE t1 ]

\* One host, with every capability.
MCInventories ==
  { UNION { RequiredCaps(s) : s \in States } \cup {"workspace.clone"} }
===============================================================================
