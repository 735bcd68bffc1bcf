------------------------------- MODULE Recursion -------------------------------
(***************************************************************************)
(* Induction and recursion over the natural numbers, stated with sets and  *)
(* functions instead of operators: what the recursive functions of Timing  *)
(* and Definitions compute is proved with these lemmas.                    *)
(***************************************************************************)
EXTENDS Integers, WellFoundedInduction, TLAPS

\* A set of natural numbers that is not empty has a least member.
LEMMA LeastNatural ==
  ASSUME NEW T \in SUBSET Nat, T # {}
  PROVE  \E m \in T : \A k \in T : m <= k
<1> DEFINE R == OpToRel(<, Nat)
<1>1. IsWellFoundedOn(R, Nat)
  BY NatLessThanWellFounded, Zenon
<1>2. PICK m \in T : \A k \in T : <<k, m>> \notin R
  BY <1>1, WFMin, Zenon
<1>3. \A k \in T : ~(k < m)
  BY <1>2 DEF OpToRel
<1> QED
  BY <1>3

\* A set that holds 0, and with every number the next one, holds them all.
LEMMA Induction ==
  ASSUME NEW T, 0 \in T, \A n \in Nat : n \in T => n + 1 \in T
  PROVE  Nat \subseteq T
<1> SUFFICES ASSUME Nat \ T # {} PROVE FALSE
  OBVIOUS
<1>1. PICK m \in Nat \ T : \A k \in Nat \ T : m <= k
  BY LeastNatural
<1>2. m - 1 \in Nat /\ m - 1 \in T
  BY <1>1
<1> QED
  BY <1>1, <1>2

\* The beginnings of an iteration, of n steps.
Begun(S, first, step, n) ==
  { g \in [0..n -> S] :
      g[0] = first /\ \A i \in 0..n : i < n => g[i + 1] = step[g[i]] }

\* Every beginning can be continued.
LEMMA BeginsAtAll ==
  ASSUME NEW S, NEW first \in S, NEW step \in [S -> S], NEW n \in Nat
  PROVE  Begun(S, first, step, n) # {}
<1> DEFINE T == { k \in Nat : Begun(S, first, step, k) # {} }
<1>1. 0 \in T
  <2>1. [i \in 0..0 |-> first] \in Begun(S, first, step, 0)
    BY DEF Begun
  <2> QED
    BY <2>1
<1>2. ASSUME NEW k \in Nat, k \in T PROVE k + 1 \in T
  <2>1. PICK g : g \in Begun(S, first, step, k)
    BY <1>2
  <2> DEFINE h == [i \in 0..(k + 1) |-> IF i = k + 1 THEN step[g[k]] ELSE g[i]]
  <2>2. h \in [0..(k + 1) -> S]
    BY <2>1 DEF Begun
  <2>3. h[0] = first /\ \A i \in 0..(k + 1) : i < k + 1 => h[i + 1] = step[h[i]]
    BY <2>1 DEF Begun
  <2>4. h \in Begun(S, first, step, k + 1)
    BY <2>2, <2>3 DEF Begun
  <2> QED
    BY <2>4
<1> HIDE DEF T
<1>3. Nat \subseteq T
  BY <1>1, <1>2, Induction
<1> QED
  BY <1>3 DEF T

\* There is only one beginning, however far it goes.
LEMMA BeginningsAgree ==
  ASSUME NEW S, NEW first, NEW step,
         NEW m \in Nat, NEW n \in Nat, m <= n,
         NEW g \in Begun(S, first, step, m), NEW h \in Begun(S, first, step, n)
  PROVE  h[m] = g[m]
<1> DEFINE T == { k \in Nat : k <= m => h[k] = g[k] }
<1>1. 0 \in T
  BY DEF Begun
<1>2. ASSUME NEW k \in Nat, k \in T PROVE k + 1 \in T
  <2>1. ASSUME k + 1 <= m PROVE h[k + 1] = g[k + 1]
    <3>1. h[k] = g[k] /\ k \in 0..m /\ k \in 0..n /\ k < m /\ k < n
      BY <1>2, <2>1
    <3> QED
      BY <3>1 DEF Begun
  <2> QED
    BY <2>1
<1> HIDE DEF T
<1>3. Nat \subseteq T
  BY <1>1, <1>2, Induction
<1> QED
  BY <1>3 DEF T

\* What a step makes of a first value, over and over again.
Iterated(S, first, step) ==
  [ n \in Nat |-> (CHOOSE g : g \in Begun(S, first, step, n))[n] ]

\* The iteration solves the equation by which TLA+ defines a recursive function, when
\* each value is computed from the one before.
LEMMA Iteration ==
  ASSUME NEW S, NEW first \in S, NEW step \in [S -> S]
  PROVE  /\ Iterated(S, first, step) \in [Nat -> S]
         /\ Iterated(S, first, step)[0] = first
         /\ \A n \in Nat : Iterated(S, first, step)[n + 1]
                             = step[Iterated(S, first, step)[n]]
<1> DEFINE B(n) == Begun(S, first, step, n)
           f == Iterated(S, first, step)
<1>1. \A n \in Nat : (CHOOSE g : g \in B(n)) \in B(n)
  BY BeginsAtAll, Zenon
<1>2. \A n \in Nat : \A g \in B(n) : f[n] = g[n]
  <2> TAKE n \in Nat
  <2> TAKE g \in B(n)
  <2>1. f[n] = (CHOOSE c : c \in B(n))[n]
    BY DEF Iterated
  <2>2. (CHOOSE c : c \in B(n)) \in B(n)
    BY <1>1
  <2> HIDE DEF f
  <2>3. (CHOOSE c : c \in B(n))[n] = g[n]
    BY <2>2, BeginningsAgree
  <2> QED
    BY <2>1, <2>3
<1>3. f \in [Nat -> S]
  <2>1. ASSUME NEW n \in Nat PROVE (CHOOSE g : g \in B(n))[n] \in S
    <3>1. PICK g \in B(n) : g = CHOOSE c : c \in B(n)
      BY <1>1
    <3>2. g[n] \in S
      BY DEF Begun
    <3> QED
      BY <3>1, <3>2, Zenon
  <2> QED
    BY <2>1 DEF Iterated
<1> HIDE DEF f
<1>4. f[0] = first
  <2>1. PICK g : g \in B(0)
    BY <1>1
  <2> QED
    BY <1>2, <2>1 DEF Begun
<1>5. ASSUME NEW n \in Nat PROVE f[n + 1] = step[f[n]]
  <2>1. PICK g : g \in B(n + 1)
    BY <1>1
  <2>2. PICK h : h \in B(n)
    BY <1>1
  <2>3. g[n] = h[n] /\ f[n] = h[n] /\ f[n + 1] = g[n + 1]
    BY <1>2, <2>1, <2>2, BeginningsAgree
  <2>4. g[n + 1] = step[g[n]]
    BY <2>1 DEF Begun
  <2> QED
    BY <2>3, <2>4
<1> QED
  BY <1>3, <1>4, <1>5 DEF f
===============================================================================
