------------------------------- MODULE Ownership -------------------------------
(***************************************************************************)
(* What the leases of internal/store promise, without the database: one    *)
(* session at a time owns the run, a session that lost it never owns it    *)
(* again under the same token, and the result of an action counts once,    *)
(* brought by the session that owns the run at that moment.                *)
(***************************************************************************)
CONSTANTS Tokens, Actions, None

VARIABLES
  owner,   \* the token that owns the run, or None
  spent,   \* the tokens that have owned it
  counted  \* for each action, the token whose result counted, or None

vars == <<owner, spent, counted>>

Init ==
  /\ owner = None
  /\ spent = {}
  /\ counted = [a \in Actions |-> None]

Grant(token) ==
  /\ owner = None
  /\ token \notin spent
  /\ owner' = token
  /\ spent' = spent \cup {token}
  /\ UNCHANGED counted

\* The lease is given back, or its time is over.
Lose ==
  /\ owner' = None
  /\ UNCHANGED <<spent, counted>>

\* A result counts; the owner may lose the run by it.
Count(a) ==
  /\ owner # None
  /\ counted[a] = None
  /\ counted' = [counted EXCEPT ![a] = owner]
  /\ owner' \in {owner, None}
  /\ UNCHANGED spent

Next ==
  \/ \E token \in Tokens : Grant(token)
  \/ Lose
  \/ \E a \in Actions : Count(a)

Spec == Init /\ [][Next]_vars
===============================================================================
