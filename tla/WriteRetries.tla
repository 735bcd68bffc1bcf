------------------------------ MODULE WriteRetries ------------------------------
(***************************************************************************)
(* A Lifecycle whose history also counts the failures in a row of one      *)
(* remote write (publishing, resolving): the failed attempts since the run *)
(* last did something other than that write and its reconciliation.        *)
(***************************************************************************)
EXTENDS Lifecycle

VARIABLE failures

RInit == Init /\ failures = 0

RNext ==
  /\ UninterruptedNext
  /\ failures' = IF run'.retry > run.retry /\ run.state \in ReconciledWriteStates
                   THEN failures + 1
                   ELSE IF run'.state \in ReconciledWriteStates \cup {"reconciling"}
                     THEN failures ELSE 0

RSpec == RInit /\ [][RNext]_<<vars, failures>>

\* A write is attempted at most max_attempts times (tracked-change.yaml:13):
\* after that many failures the run is blocked instead.
WriteAttemptsBounded ==
  run.state \in ReconciledWriteStates \cup {"reconciling"}
    => failures < MaxAttempts("publishing")
===============================================================================
