-------------------------------- MODULE Feedback --------------------------------
(***************************************************************************)
(* What the review promises about the threads of its comments: a comment   *)
(* that was reported is never reported again, so its thread is kept by the *)
(* run, waiting or in the plan in force, until it is answered.  Only a     *)
(* report that the change request has ended lets comments go.              *)
(***************************************************************************)
CONSTANTS
  Threads, \* review threads
  Ends     \* events that end a change request

VARIABLES
  reported, \* the threads of the comments reported so far
  waiting,  \* the threads of the next batch
  planned,  \* the threads of the plan in force
  answered, \* the threads that were answered
  ended     \* the ends that were reported

vars == <<reported, waiting, planned, answered, ended>>

Init ==
  /\ reported = {} /\ waiting = {} /\ planned = {} /\ answered = {}
  /\ ended = {}

\* New comments wait for the next batch.
File(threads) ==
  /\ reported' = reported \cup threads
  /\ waiting' = waiting \cup threads
  /\ UNCHANGED <<planned, answered, ended>>

\* They overlap with the plan, whose threads wait again with them.
Overlap(threads) ==
  /\ reported' = reported \cup threads
  /\ waiting' = waiting \cup planned \cup threads
  /\ planned' = {}
  /\ UNCHANGED <<answered, ended>>

\* The batch is planned as a whole, and never over a plan in force.
Plan ==
  /\ waiting # {} /\ planned = {}
  /\ planned' = waiting
  /\ waiting' = {}
  /\ UNCHANGED <<reported, answered, ended>>

\* A plan is carried out as a whole.
Answer ==
  /\ planned # {}
  /\ answered' = answered \cup planned
  /\ planned' = {}
  /\ UNCHANGED <<reported, waiting, ended>>

\* The change request ended, and what was reported with that is let go.
End(threads) ==
  /\ ended' \in (SUBSET Ends) \ {ended}
  /\ ended \subseteq ended'
  /\ reported' = reported \cup threads
  /\ UNCHANGED <<waiting, planned, answered>>

Next ==
  \/ \E threads \in SUBSET Threads : File(threads) \/ Overlap(threads) \/ End(threads)
  \/ Plan
  \/ Answer

Spec == Init /\ [][Next]_vars
===============================================================================
