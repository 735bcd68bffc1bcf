------------------------------ MODULE MCSessions ------------------------------
(* Instances of Sessions for TLC. *)
EXTENDS Sessions, TLC

CONSTANTS w1, w2, o1, o2, t1, t2, t3, a1, a2, a3

\* Hosts that offer every capability, and with the empty set hosts that offer
\* none.
AllCaps == UNION { RequiredCaps(s) : s \in States } \cup WorkspaceModes
FullHost == {AllCaps}
AnyHost == {AllCaps, {}}

\* The members of each set are interchangeable.  Sound for safety properties.
Symmetry ==
  Permutations(Workers) \cup Permutations(Operators)
    \cup Permutations(Tokens) \cup Permutations(Actions)
    \cup Permutations(Briefs)
===============================================================================
