----------------------------- MODULE MCWriteRetries -----------------------------
EXTENDS WriteRetries

CONSTANT m

MCEventType == [ e \in Events |-> "merged" ]
MCThreadOf == [ e \in Events |-> CHOOSE t \in Threads : TRUE ]

\* One host, with every capability.
MCInventories ==
  { UNION { RequiredCaps(s) : s \in States } \cup {"workspace.worktree"} }
===============================================================================
