------------------------------ MODULE MCRegistry ------------------------------
(* The instances of Registry for TLC. *)
EXTENDS Registry, TLC

\* The members of each set are interchangeable.  Sound for safety properties.
Symmetry ==
  Permutations(Clients) \cup Permutations(Trusted \ Proposals)
    \cup Permutations(Proposals \ Trusted) \cup Permutations(Repositories)
    \cup Permutations(Runs)
===============================================================================
