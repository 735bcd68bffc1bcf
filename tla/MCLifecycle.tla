------------------------------ MODULE MCLifecycle ------------------------------
EXTENDS Lifecycle, TLC

CONSTANTS c1, c2, m, x, t1, t2

\* Two comments on two threads, the merge, and the decline.
MCEventType ==
  [ e \in Events |-> CASE e \in {c1, c2} -> "actionable_comment"
                       [] e = m -> "merged"
                       [] OTHER -> "declined" ]
MCThreadOf == [ e \in Events |-> IF e = c2 THEN t2 ELSE t1 ]

AllCaps == UNION { RequiredCaps(s) : s \in States } \cup {"workspace.clone"}

\* A complete host, and one whose change-request connection is gone.
MCInventories == {AllCaps, AllCaps \ {"change_request.poll"}}

\* The commits are interchangeable, and so are the two comments together with their
\* threads.  Sound for safety properties.
Symmetry ==
  Permutations(Heads)
    \cup { c1 :> c2 @@ c2 :> c1 @@ t1 :> t2 @@ t2 :> t1 }
===============================================================================
