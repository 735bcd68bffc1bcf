---------------------------- MODULE AlgorithmsProofs ----------------------------
(***************************************************************************)
(* What the pure parts of the program compute, for every input: each       *)
(* invariant of module Algorithms is a fact about the operators of Timing  *)
(* or Definitions, and the one step that takes an input adds nothing to    *)
(* it.  Recursive functions are reasoned about with the lemmas of module   *)
(* Recursion.                                                              *)
(***************************************************************************)
EXTENDS Algorithms, Recursion, FiniteSetTheorems

-------------------------------------------------------------------------------
(* The input. *)

\* The input is one of those that a step takes.
Taken ==
  \/ input = [kind |-> "none"]
  \/ \E p \in Policies : input = [kind |-> "retry", policy |-> p]
  \/ \E now \in Moments, attempt \in 0..Len(ReviewIntervals), hours \in Hours :
       input = [kind |-> "wake", now |-> now, attempt |-> attempt, hours |-> hours]
  \/ \E early, late \in Times :
       input = [kind |-> "times", early |-> early, late |-> late]
  \/ \E d \in Candidates : input = [kind |-> "definition", definition |-> d]

\* No input comes from anywhere else.
THEOREM InputIsTaken == Spec => []Taken
<1>1. Init => Taken
  BY DEF Init, Taken
<1>2. Taken /\ [Next]_input => Taken'
  <2> SUFFICES ASSUME Taken, [Next]_input PROVE Taken'
    OBVIOUS
  <2>1. CASE TakesPolicy
    BY <2>1 DEF TakesPolicy, Taken
  <2>2. CASE TakesMoment
    BY <2>2 DEF TakesMoment, Taken
  <2>3. CASE TakesTimes
    BY <2>3 DEF TakesTimes, Taken
  <2>4. CASE TakesDefinition
    BY <2>4 DEF TakesDefinition, Taken
  <2>5. CASE UNCHANGED input
    BY <2>5 DEF Taken
  <2> QED
    BY <2>1, <2>2, <2>3, <2>4, <2>5 DEF Next
<1> QED
  BY <1>1, <1>2, PTL DEF Spec

-------------------------------------------------------------------------------
(* The delay of a retry. *)

\* The doubled delays are natural numbers, each twice the one before.
LEMMA Doubling ==
  ASSUME NEW first \in Nat
  PROVE  /\ DoubledTimes(first, 0) = first
         /\ \A n \in Nat : /\ DoubledTimes(first, n) \in Nat
                           /\ DoubledTimes(first, n + 1) = 2 * DoubledTimes(first, n)
<1> DEFINE N == Nat
           start == first
           step == [x \in N |-> 2 * x]
           g == Iterated(N, start, step)
           Is(f) == f = [k \in Nat |-> IF k = 0 THEN first ELSE 2 * f[k - 1]]
           after == CHOOSE f : Is(f)
<1>1. start \in N /\ step \in [N -> N] /\ \A x \in N : step[x] = 2 * x
  OBVIOUS
<1> HIDE DEF N, start, step
<1>2. g \in [Nat -> N] /\ g[0] = start /\ \A n \in Nat : g[n + 1] = step[g[n]]
  BY <1>1, Iteration
<1> HIDE DEF g
<1>3. g \in [Nat -> Nat] /\ g[0] = first /\ \A n \in Nat : g[n + 1] = 2 * g[n]
  BY <1>1, <1>2 DEF N, start
<1>4. Is(g)
  BY <1>3
<1>5. Is(after)
  BY <1>4
<1> HIDE DEF after
<1>6. after[0] = first /\ \A n \in Nat : after[n + 1] = 2 * after[n]
  BY <1>5
<1> DEFINE T == { n \in Nat : after[n] \in Nat }
<1>7. 0 \in T /\ \A n \in Nat : n \in T => n + 1 \in T
  BY <1>6
<1> HIDE DEF T
<1>8. Nat \subseteq T
  BY <1>7, Induction
<1>9. \A n \in Nat : DoubledTimes(first, n) = after[n]
  BY DEF DoubledTimes, after
<1> QED
  BY <1>6, <1>8, <1>9 DEF T

\* The delays of the program: the loop of Fail.
LEMMA RetryDelays ==
  ASSUME NEW first \in Nat, NEW maximum \in Nat
  PROVE  /\ RetryDelay(first, maximum, 1) = first
         /\ \A n \in Nat \ {0} :
              RetryDelay(first, maximum, n + 1)
                = Doubled(RetryDelay(first, maximum, n), maximum)
<1> DEFINE N == Nat
           start == first
           step == [x \in N |-> Doubled(x, maximum)]
           g == Iterated(N, start, step)
           Is(f) == f = [n \in Nat |-> IF n = 0 THEN first
                                       ELSE Doubled(f[n - 1], maximum)]
           after == CHOOSE f : Is(f)
<1>1. start \in N /\ step \in [N -> N] /\ \A x \in N : step[x] = Doubled(x, maximum)
  BY DEF Doubled
<1> HIDE DEF N, start, step
<1>2. g \in [Nat -> N] /\ g[0] = start /\ \A n \in Nat : g[n + 1] = step[g[n]]
  BY <1>1, Iteration
<1> HIDE DEF g
<1>3. g \in [Nat -> Nat] /\ g[0] = first
      /\ \A n \in Nat : g[n + 1] = Doubled(g[n], maximum)
  BY <1>1, <1>2 DEF N, start
<1>4. Is(g)
  BY <1>3
<1>5. Is(after)
  BY <1>4
<1> HIDE DEF after
<1>6. after[0] = first /\ \A n \in Nat : after[n + 1] = Doubled(after[n], maximum)
  BY <1>5
<1>7. \A n \in Nat \ {0} : RetryDelay(first, maximum, n) = after[n - 1]
  BY DEF RetryDelay, after
<1>8. ASSUME NEW n \in Nat \ {0}
      PROVE  RetryDelay(first, maximum, n + 1)
               = Doubled(RetryDelay(first, maximum, n), maximum)
  <2>1. n - 1 \in Nat /\ (n - 1) + 1 = n /\ (n + 1) - 1 = n /\ n + 1 \in Nat \ {0}
    OBVIOUS
  <2> QED
    BY <1>6, <1>7, <2>1
<1> QED
  BY <1>6, <1>7, <1>8

\* The delay after failure number n + 1 is the first one doubled n times, cut off.
LEMMA DelayClips ==
  ASSUME NEW first \in Nat, NEW maximum \in Nat, first <= maximum
  PROVE  \A n \in Nat : RetryDelay(first, maximum, n + 1)
                          = Least(DoubledTimes(first, n), maximum)
<1> DEFINE T == { n \in Nat : RetryDelay(first, maximum, n + 1)
                                = Least(DoubledTimes(first, n), maximum) }
<1>1. 0 \in T
  BY RetryDelays, Doubling DEF Least
<1>2. ASSUME NEW n \in Nat, n \in T PROVE n + 1 \in T
  <2> DEFINE d == DoubledTimes(first, n)
  <2>1. d \in Nat /\ DoubledTimes(first, n + 1) = 2 * d
    BY Doubling
  <2>2. RetryDelay(first, maximum, (n + 1) + 1)
          = Doubled(RetryDelay(first, maximum, n + 1), maximum)
    <3>1. n + 1 \in Nat \ {0}
      OBVIOUS
    <3> QED
      BY <3>1, RetryDelays
  <2>3. RetryDelay(first, maximum, n + 1) = Least(d, maximum)
    BY <1>2
  <2> HIDE DEF d
  <2>4. Doubled(Least(d, maximum), maximum) = Least(2 * d, maximum)
    BY <2>1 DEF Doubled, Least
  <2> QED
    BY <2>1, <2>2, <2>3, <2>4
<1> HIDE DEF T
<1>3. Nat \subseteq T
  BY <1>1, <1>2, Induction
<1> QED
  BY <1>3 DEF T

\* For every policy that Validate accepts, of whatever length, the delay doubles and
\* stays at the maximum.
THEOREM DelaysClip == Spec => []DelayIsClippedDoubling
<1>1. Taken => DelayIsClippedDoubling
  <2> SUFFICES ASSUME Taken, input.kind = "retry", RetryValid(input.policy),
                      NEW n \in 1 .. input.policy.attempts
               PROVE  RetryDelay(input.policy.first, input.policy.maximum, n)
                        = Least(DoubledTimes(input.policy.first, n - 1),
                                input.policy.maximum)
    BY DEF DelayIsClippedDoubling
  <2>1. input.policy \in Policies
    BY DEF Taken
  <2> DEFINE first == input.policy.first
             maximum == input.policy.maximum
  <2>2. first \in Nat /\ maximum \in Nat /\ first <= maximum
    BY <2>1, PoliciesAssumption DEF RetryValid
  <2>3. n - 1 \in Nat /\ (n - 1) + 1 = n
    BY <2>1, PoliciesAssumption
  <2> HIDE DEF first, maximum
  <2>4. RetryDelay(first, maximum, (n - 1) + 1) = Least(DoubledTimes(first, n - 1), maximum)
    BY <2>2, <2>3, DelayClips
  <2> QED
    BY <2>3, <2>4 DEF first, maximum
<1> QED
  BY <1>1, InputIsTaken, PTL
-------------------------------------------------------------------------------
(* The next poll of a review. *)

\* A day and a tick of it are the quotient and the remainder of a time.
LEMMA DayAndTick ==
  ASSUME NEW q \in Nat, NEW r \in 0 .. TicksPerDay - 1
  PROVE  LET t == TicksPerDay * q + r
         IN  /\ t \in Nat
             /\ DayOf(t) = q % 7 /\ TickOf(t) = r /\ StartOfDay(t) = TicksPerDay * q
<1> DEFINE t == TicksPerDay * q + r
<1>1. t \in Nat /\ t \div TicksPerDay = q /\ t % TicksPerDay = r
  BY TicksAssumption
<1>2. TicksPerDay * q \in Nat
  BY TicksAssumption
<1> QED
  BY <1>1, <1>2 DEF DayOf, TickOf, StartOfDay

\* Every time is a tick of a day.
LEMMA TimeSplits ==
  ASSUME NEW t \in Nat
  PROVE  \E q \in Nat : \E r \in 0 .. TicksPerDay - 1 : t = TicksPerDay * q + r
<1> DEFINE q == t \div TicksPerDay
           r == t % TicksPerDay
<1>1. q \in Nat /\ r \in 0 .. TicksPerDay - 1 /\ t = TicksPerDay * q + r
  BY TicksAssumption
<1> QED
  BY <1>1

\* The times of a stretch of a day are in that day.
LEMMA SameDay ==
  ASSUME NEW q \in Nat, NEW low \in 0 .. TicksPerDay, NEW high \in 0 .. TicksPerDay,
         NEW u \in Nat, TicksPerDay * q + low <= u, u < TicksPerDay * q + high
  PROVE  DayOf(u) = q % 7 /\ TickOf(u) \in low .. high - 1
<1> DEFINE r == u - TicksPerDay * q
<1>1. TicksPerDay * q \in Nat
  BY TicksAssumption
<1>2. r \in low .. high - 1 /\ r \in 0 .. TicksPerDay - 1 /\ u = TicksPerDay * q + r
  BY <1>1, TicksAssumption
<1> QED
  BY <1>2, DayAndTick

\* The work times from a time on.
WorkFrom(t, start, end) == { u \in Nat : t <= u /\ WithinHours(u, start, end) }

\* There is a work time after every time: the start of some Monday's hours.
LEMMA WorkComes ==
  ASSUME NEW t \in Nat, NEW start \in Int, NEW end \in Int, Configurable(start, end)
  PROVE  WorkFrom(t, start, end) # {}
<1> DEFINE q == 7 * (t + 1)
           u == TicksPerDay * q + start
<1>1. q \in Nat /\ q % 7 = 0 /\ start \in 0 .. TicksPerDay - 1
  BY TicksAssumption DEF Configurable
<1>2. u \in Nat /\ DayOf(u) = 0 /\ TickOf(u) = start
  BY <1>1, DayAndTick
<1>3. t <= u
  <2>1. q <= TicksPerDay * q
    BY TicksAssumption
  <2>2. TicksPerDay * q \in Nat
    BY TicksAssumption
  <2> QED
    BY <1>1, <2>1, <2>2
<1>4. WithinHours(u, start, end)
  BY <1>2 DEF WithinHours, Weekend, Configurable
<1> QED
  BY <1>2, <1>3, <1>4 DEF WorkFrom

\* The loop looks later each time, and passes over no work time.
LEMMA CandidatePassesNothing ==
  ASSUME NEW t \in Nat, NEW start \in Int, NEW end \in Int, Configurable(start, end),
         ~WithinHours(t, start, end)
  PROVE  LET next == NextCandidate(t, start)
         IN  /\ next \in Nat /\ t < next
             /\ \A u \in Nat : t <= u /\ u < next => ~WithinHours(u, start, end)
<1>1. PICK q \in Nat, r \in 0 .. TicksPerDay - 1 : t = TicksPerDay * q + r
  BY TimeSplits
<1> DEFINE Q == TicksPerDay * q
<1>2. DayOf(t) = q % 7 /\ TickOf(t) = r /\ StartOfDay(t) = Q
  BY <1>1, DayAndTick
<1>3. Q \in Nat /\ TicksPerDay \in Nat /\ TicksPerDay * (q + 1) = Q + TicksPerDay
  BY TicksAssumption
<1>4. start \in 0 .. TicksPerDay /\ start < TicksPerDay /\ end \in Nat /\ start < end
  BY TicksAssumption DEF Configurable
<1>5. CASE ~Weekend(t) /\ r < start
  <2>1. NextCandidate(t, start) = Q + start
    BY <1>2, <1>5 DEF NextCandidate
  <2>2. ASSUME NEW u \in Nat, t <= u, u < Q + start
        PROVE  ~WithinHours(u, start, end)
    <3>1. TickOf(u) \in r .. start - 1
      <4>1. /\ r \in 0 .. TicksPerDay
            /\ TicksPerDay * q + r <= u /\ u < TicksPerDay * q + start
        BY <1>1, <1>3, <2>2
      <4> QED
        BY <1>4, <4>1, SameDay
    <3> QED
      BY <3>1, <1>4 DEF WithinHours
  <2> QED
    BY <1>1, <1>3, <1>4, <1>5, <2>1, <2>2
<1>6. CASE Weekend(t) \/ start <= r
  <2>1. NextCandidate(t, start) = Q + TicksPerDay + start
    BY <1>2, <1>4, <1>6 DEF NextCandidate
  <2>2. ASSUME NEW u \in Nat, t <= u, u < Q + TicksPerDay
        PROVE  ~WithinHours(u, start, end)
    <3>1. DayOf(u) = q % 7 /\ TickOf(u) \in r .. TicksPerDay - 1
      <4>1. /\ r \in 0 .. TicksPerDay /\ TicksPerDay \in 0 .. TicksPerDay
            /\ TicksPerDay * q + r <= u /\ u < TicksPerDay * q + TicksPerDay
        BY <1>1, <1>3, <2>2
      <4> QED
        BY <4>1, SameDay
    <3>2. CASE Weekend(t)
      BY <1>2, <3>1, <3>2 DEF Weekend, WithinHours
    <3>3. CASE ~Weekend(t)
      <4>1. end <= r
        BY <1>2, <1>4, <1>6, <3>3 DEF WithinHours
      <4> QED
        BY <1>4, <3>1, <4>1 DEF WithinHours
    <3> QED
      BY <3>2, <3>3
  <2>3. ASSUME NEW u \in Nat, Q + TicksPerDay <= u, u < Q + TicksPerDay + start
        PROVE  ~WithinHours(u, start, end)
    <3>1. TickOf(u) \in 0 .. start - 1
      <4>1. q + 1 \in Nat /\ TicksPerDay * (q + 1) + 0 <= u
            /\ u < TicksPerDay * (q + 1) + start /\ 0 \in 0 .. TicksPerDay
        BY <1>3, <1>4, <2>3
      <4> QED
        BY <1>4, <4>1, SameDay
    <3> QED
      BY <1>4, <3>1 DEF WithinHours
  <2>4. Q + TicksPerDay + start \in Nat /\ t < Q + TicksPerDay + start
    BY <1>1, <1>3, <1>4
  <2> HIDE DEF Q
  <2> QED
    BY <1>3, <1>4, <2>1, <2>2, <2>3, <2>4
<1> QED
  BY <1>2, <1>4, <1>5, <1>6

\* The first work time from a time on.
FirstWork(t, start, end) ==
  CHOOSE u \in WorkFrom(t, start, end) : \A w \in WorkFrom(t, start, end) : u <= w

\* There is one, and it is the least.
LEMMA FirstWorkExists ==
  ASSUME NEW t \in Nat, NEW start \in Int, NEW end \in Int, Configurable(start, end)
  PROVE  LET first == FirstWork(t, start, end)
         IN  /\ first \in Nat /\ t <= first /\ WithinHours(first, start, end)
             /\ \A u \in Nat : t <= u /\ u < first => ~WithinHours(u, start, end)
<1> DEFINE W == WorkFrom(t, start, end)
           Is(u) == u \in W /\ \A w \in W : u <= w
<1>1. W \in SUBSET Nat /\ W # {}
  BY WorkComes DEF WorkFrom
<1> HIDE DEF W
<1>2. \E u : Is(u)
  BY <1>1, LeastNatural
<1>3. FirstWork(t, start, end) = CHOOSE u : Is(u)
  BY DEF FirstWork, W
<1>4. Is(FirstWork(t, start, end))
  BY <1>2, <1>3
<1> QED
  BY <1>1, <1>4 DEF W, WorkFrom

\* It is this time, if that is one, and otherwise that from the next candidate on.
LEMMA FirstWorkStep ==
  ASSUME NEW t \in Nat, NEW start \in Int, NEW end \in Int, Configurable(start, end)
  PROVE  FirstWork(t, start, end)
           = IF WithinHours(t, start, end) THEN t
             ELSE FirstWork(NextCandidate(t, start), start, end)
<1>1. CASE WithinHours(t, start, end)
  <2> DEFINE first == FirstWork(t, start, end)
  <2>1. /\ first \in Nat /\ t <= first
        /\ \A u \in Nat : t <= u /\ u < first => ~WithinHours(u, start, end)
    BY FirstWorkExists
  <2> HIDE DEF first
  <2>2. first = t
    BY <1>1, <2>1
  <2> QED
    BY <1>1, <2>2 DEF first
<1>2. CASE ~WithinHours(t, start, end)
  <2> DEFINE next == NextCandidate(t, start)
  <2>1. /\ next \in Nat /\ t < next
        /\ \A u \in Nat : t <= u /\ u < next => ~WithinHours(u, start, end)
    BY <1>2, CandidatePassesNothing
  <2> HIDE DEF next
  <2>2. WorkFrom(t, start, end) = WorkFrom(next, start, end)
    BY <2>1 DEF WorkFrom
  <2> QED
    BY <1>2, <2>2 DEF FirstWork, next
<1> QED
  BY <1>1, <1>2

\* What the loop computes is the first work time.
LEMMA LoopFindsFirstWork ==
  ASSUME NEW now \in Nat, NEW attempt, Interval(attempt) \in Nat,
         NEW start \in Int, NEW end \in Int, Configurable(start, end)
  PROVE  ReviewWake(now, attempt, start, end)
           = FirstWork(now + Interval(attempt), start, end)
<1> DEFINE Is(f) ==
             f = [t \in Nat |-> IF WithinHours(t, start, end) THEN t
                                ELSE f[NextCandidate(t, start)]]
           wake == CHOOSE f : Is(f)
           first == [t \in Nat |-> FirstWork(t, start, end)]
<1>1. ASSUME NEW t \in Nat
      PROVE  first[t] = IF WithinHours(t, start, end) THEN t
                        ELSE first[NextCandidate(t, start)]
  <2>1. CASE WithinHours(t, start, end)
    BY <2>1, FirstWorkStep
  <2>2. CASE ~WithinHours(t, start, end)
    <3>1. NextCandidate(t, start) \in Nat
      BY <2>2, CandidatePassesNothing
    <3> QED
      BY <2>2, <3>1, FirstWorkStep
  <2> QED
    BY <2>1, <2>2
<1>2. Is(first)
  BY <1>1
<1>3. Is(wake)
  BY <1>2
<1> HIDE DEF wake
<1> DEFINE Wrong == { t \in Nat : wake[t] # FirstWork(t, start, end) }
           Distances == { FirstWork(t, start, end) - t : t \in Wrong }
<1>4. Wrong = {}
  <2> SUFFICES ASSUME Wrong # {} PROVE FALSE
    OBVIOUS
  <2>1. Distances \in SUBSET Nat /\ Distances # {}
    BY FirstWorkExists
  <2>2. PICK n \in Distances : \A k \in Distances : n <= k
    BY <2>1, LeastNatural
  <2>3. PICK t \in Wrong : n = FirstWork(t, start, end) - t
    BY <2>2
  <2>4. t \in Nat /\ wake[t] # FirstWork(t, start, end)
    BY <2>3
  <2>5. wake[t] = IF WithinHours(t, start, end) THEN t ELSE wake[NextCandidate(t, start)]
    BY <1>3, <2>4
  <2>6. ~WithinHours(t, start, end)
    BY <2>4, <2>5, FirstWorkStep
  <2> DEFINE next == NextCandidate(t, start)
  <2>7. next \in Nat /\ t < next
    BY <2>4, <2>6, CandidatePassesNothing
  <2>8. FirstWork(next, start, end) = FirstWork(t, start, end)
    BY <2>4, <2>6, FirstWorkStep
  <2>9. wake[next] = wake[t]
    BY <2>5, <2>6
  <2> HIDE DEF next
  <2>10. next \in Wrong
    BY <2>4, <2>7, <2>8, <2>9
  <2>11. n <= FirstWork(next, start, end) - next
    BY <2>2, <2>10
  <2>12. FirstWork(t, start, end) \in Nat
    BY <2>4, FirstWorkExists
  <2> QED
    BY <2>3, <2>4, <2>7, <2>8, <2>11, <2>12
<1>5. ReviewWake(now, attempt, start, end) = wake[now + Interval(attempt)]
  BY DEF ReviewWake, wake
<1> QED
  BY <1>4, <1>5

\* Whatever the intervals and whatever hours the user configures, the search for the
\* next poll ends, at the first work time that is an interval away.
THEOREM WakesInTime == Spec => []WakesAtFirstWorkTime
<1>1. Taken => WakesAtFirstWorkTime
  <2> SUFFICES ASSUME Taken, input.kind = "wake",
                      Configurable(input.hours[1], input.hours[2])
               PROVE  LET start == input.hours[1]
                          end   == input.hours[2]
                          from  == input.now + Interval(input.attempt)
                          wake  == ReviewWake(input.now, input.attempt, start, end)
                      IN  /\ wake >= from /\ WithinHours(wake, start, end)
                          /\ \A t \in from .. wake - 1 : ~WithinHours(t, start, end)
    BY DEF WakesAtFirstWorkTime
  <2>1. /\ input.now \in Moments /\ input.attempt \in 0..Len(ReviewIntervals)
        /\ input.hours \in Hours
    BY DEF Taken
  <2> DEFINE now == input.now
             attempt == input.attempt
             start == input.hours[1]
             end == input.hours[2]
  <2>2. now \in Nat /\ start \in Int /\ end \in Int
    BY <2>1, MomentsAssumption, HoursAssumption
  <2>3. Interval(attempt) \in Nat
    BY <2>1, IntervalsAssumption DEF Interval
  <2> HIDE DEF now, attempt, start, end
  <2> DEFINE from == now + Interval(attempt)
             wake == ReviewWake(now, attempt, start, end)
  <2>4. from \in Nat
    BY <2>2, <2>3
  <2>5. Configurable(start, end)
    BY DEF start, end
  <2>6. wake = FirstWork(from, start, end)
    BY <2>2, <2>3, <2>5, LoopFindsFirstWork
  <2> HIDE DEF wake, from
  <2>7. /\ wake \in Nat /\ from <= wake /\ WithinHours(wake, start, end)
        /\ \A t \in Nat : from <= t /\ t < wake => ~WithinHours(t, start, end)
    BY <2>2, <2>4, <2>5, <2>6, FirstWorkExists
  <2>8. /\ wake >= from /\ WithinHours(wake, start, end)
        /\ \A t \in from .. wake - 1 : ~WithinHours(t, start, end)
    BY <2>4, <2>7
  <2> QED
    BY <2>8 DEF wake, from, now, attempt, start, end
<1> QED
  BY <1>1, InputIsTaken, PTL

-------------------------------------------------------------------------------
(* Times as text. *)

\* What is left of the digits are digits.
LEMMA TrimmedDigits ==
  ASSUME NEW digits \in Seq(0..9)
  PROVE  Trimmed(digits) \in Seq(0..9)
<1> DEFINE T == { n \in 0..Len(digits) : \A k \in n + 1 .. Len(digits) : digits[k] = 0 }
           Is(n) == /\ n = 0 \/ digits[n] # 0
                    /\ \A k \in n + 1 .. Len(digits) : digits[k] = 0
           last == CHOOSE n \in 0..Len(digits) : Is(n)
<1>1. Len(digits) \in T /\ T \in SUBSET Nat
  OBVIOUS
<1>2. PICK n \in T : \A k \in T : n <= k
  BY <1>1, LeastNatural
<1>3. n \in 0..Len(digits) /\ \A k \in n + 1 .. Len(digits) : digits[k] = 0
  BY <1>2
<1>4. ASSUME n # 0, digits[n] = 0 PROVE FALSE
  <2>1. n - 1 \in 0..Len(digits)
    BY <1>3, <1>4
  <2>2. \A k \in (n - 1) + 1 .. Len(digits) : digits[k] = 0
    BY <1>3, <1>4
  <2>3. n - 1 \in T
    BY <2>1, <2>2
  <2> HIDE DEF T
  <2>4. n <= n - 1
    BY <1>2, <2>3
  <2> QED
    BY <1>3, <2>4
<1>5. \E m \in 0..Len(digits) : Is(m)
  BY <1>3, <1>4
<1>6. last \in 0..Len(digits)
  BY <1>5
<1>7. Trimmed(digits) = SubSeq(digits, 1, last)
  BY DEF Trimmed
<1> HIDE DEF last
<1> QED
  BY <1>6, <1>7

\* The text of a time begins with its second.
LEMMA StampBegins ==
  ASSUME NEW t, t.second \in Nat, t.digits \in Seq(0..9)
  PROVE  Stamp(t) \in Seq(Int) /\ Len(Stamp(t)) >= 1 /\ Stamp(t)[1] = t.second
<1> DEFINE fraction == Trimmed(t.digits)
           middle == IF fraction = <<>> THEN <<>> ELSE <<Point>> \o fraction
<1>1. fraction \in Seq(Int)
  BY TrimmedDigits
<1>2. Point \in Int /\ Zulu \in Int
  BY DEF Point, Zulu
<1> HIDE DEF fraction
<1>3. middle \in Seq(Int)
  BY <1>1, <1>2
<1>4. Stamp(t) = <<t.second>> \o middle \o <<Zulu>>
  BY DEF Stamp, fraction
<1> HIDE DEF middle
<1> QED
  BY <1>2, <1>3, <1>4

\* Texts are in the order of their first characters, when these are different.
LEMMA FirstCharacterDecides ==
  ASSUME NEW s \in Seq(Int), NEW t \in Seq(Int), Len(s) >= 1, Len(t) >= 1
  PROVE  /\ s[1] < t[1] => StampAtMost(s, t)
         /\ s[1] > t[1] => ~StampAtMost(s, t)
<1>1. ASSUME s[1] < t[1] PROVE StampAtMost(s, t)
  <2>1. SubSeq(s, 1, 1 - 1) = SubSeq(t, 1, 1 - 1)
    OBVIOUS
  <2> QED
    BY <1>1, <2>1 DEF StampAtMost
<1>2. ASSUME s[1] > t[1], StampAtMost(s, t) PROVE FALSE
  <2>1. PICK i \in 1..Len(s) :
          i <= Len(t) /\ s[i] < t[i] /\ SubSeq(s, 1, i - 1) = SubSeq(t, 1, i - 1)
    BY <1>2 DEF StampAtMost
  <2>2. i # 1
    BY <1>2, <2>1
  <2>3. SubSeq(s, 1, i - 1)[1] = s[1] /\ SubSeq(t, 1, i - 1)[1] = t[1]
    BY <2>1, <2>2
  <2> QED
    BY <1>2, <2>1, <2>3
<1> QED
  BY <1>1, <1>2

\* However many digits a fraction has, a wake of an earlier second is listed as due and
\* one of a later second is not, and so it is with the payloads that are purged.
THEOREM TextOrderHolds == Spec => []TextOrderIsRightToTheSecond
<1>1. Taken => TextOrderIsRightToTheSecond
  <2> SUFFICES ASSUME Taken, input.kind = "times"
               PROVE  LET e == input.early
                          l == input.late
                      IN  /\ e = l \/ e.second < l.second =>
                               ListedAsDue(e, l) /\ Purged(TRUE, e, l)
                          /\ e.second > l.second =>
                               ~ListedAsDue(e, l) /\ ~Purged(TRUE, e, l)
    BY DEF TextOrderIsRightToTheSecond
  <2> DEFINE e == input.early
             l == input.late
  <2>1. e \in Times /\ l \in Times
    BY DEF Taken
  <2> HIDE DEF e, l
  <2>2. /\ e.second \in Nat /\ e.digits \in Seq(0..9)
        /\ l.second \in Nat /\ l.digits \in Seq(0..9)
    BY <2>1, TimesAssumption
  <2>3. /\ Stamp(e) \in Seq(Int) /\ Len(Stamp(e)) >= 1 /\ Stamp(e)[1] = e.second
        /\ Stamp(l) \in Seq(Int) /\ Len(Stamp(l)) >= 1 /\ Stamp(l)[1] = l.second
    BY <2>2, StampBegins
  <2>4. /\ e = l \/ e.second < l.second => StampAtMost(Stamp(e), Stamp(l))
        /\ e.second > l.second => ~StampAtMost(Stamp(e), Stamp(l))
    <3>1. e = l => StampAtMost(Stamp(e), Stamp(l))
      BY DEF StampAtMost
    <3> QED
      BY <2>3, <3>1, FirstCharacterDecides
  <2> QED
    BY <2>4 DEF ListedAsDue, Purged, e, l
<1> QED
  BY <1>1, InputIsTaken, PTL

-------------------------------------------------------------------------------
(* The flows of an accepted definition. *)

\* The states of a definition.
Names(d) == DOMAIN d.states

\* What good outcomes reach from some states in a number of steps.
After(d, from, without) ==
  CHOOSE f : f = [n \in Nat |-> IF n = 0 THEN from ELSE Advance(d, f[n - 1], without)]

\* What is reached is what is reached after as many steps as there are states.
LEMMA ReachedInSteps ==
  ASSUME NEW d, NEW from \in SUBSET Names(d), NEW without
  PROVE  LET after == After(d, from, without)
         IN  /\ after[0] = from
             /\ \A n \in Nat : after[n + 1] = Advance(d, after[n], without)
             /\ \A n \in Nat : after[n] \subseteq Names(d)
             /\ Reached(d, from, without) = after[Cardinality(Names(d))]
<1> DEFINE S == SUBSET Names(d)
           step == [X \in S |-> Advance(d, X, without)]
           g == Iterated(S, from, step)
           Is(f) == f = [n \in Nat |-> IF n = 0 THEN from
                                       ELSE Advance(d, f[n - 1], without)]
           after == After(d, from, without)
<1>1. from \in S /\ step \in [S -> S] /\ \A X \in S : step[X] = Advance(d, X, without)
  BY DEF Advance, GoodTargets, Names
<1> HIDE DEF S, step
<1>2. g \in [Nat -> S] /\ g[0] = from /\ \A n \in Nat : g[n + 1] = step[g[n]]
  BY <1>1, Iteration
<1> HIDE DEF g
<1>3. \A n \in Nat : g[n + 1] = Advance(d, g[n], without)
  BY <1>1, <1>2
<1>4. Is(g)
  BY <1>2, <1>3
<1>5. Is(after)
  BY <1>4 DEF After
<1>6. Reached(d, from, without) = after[Cardinality(Names(d))]
  BY DEF Reached, Names, After
<1> HIDE DEF after
<1>7. after[0] = from /\ \A n \in Nat : after[n + 1] = Advance(d, after[n], without)
  BY <1>5
<1> DEFINE T == { n \in Nat : after[n] \in S }
<1>8. 0 \in T
  BY <1>1, <1>7
<1>9. ASSUME NEW n \in Nat, n \in T PROVE n + 1 \in T
  <2>1. after[n + 1] = Advance(d, after[n], without) /\ after[n] \in S
    BY <1>7, <1>9
  <2>2. Advance(d, after[n], without) \in S
    BY <2>1, <1>1
  <2> QED
    BY <2>1, <2>2
<1> HIDE DEF T
<1>10. Nat \subseteq T
  BY <1>8, <1>9, Induction
<1> QED
  BY <1>6, <1>7, <1>10 DEF S, T, after

\* A set of states that good outcomes do not leave holds everything that is reached.
LEMMA ReachedWithin ==
  ASSUME NEW d, IsFiniteSet(Names(d)), NEW without, NEW C \in SUBSET Names(d),
         GoodTargets(d, C) \subseteq C \cup without
  PROVE  Reached(d, C, without) \subseteq C
<1> DEFINE after == After(d, C, without)
<1>1. /\ after[0] = C
      /\ \A n \in Nat : after[n + 1] = Advance(d, after[n], without)
      /\ Reached(d, C, without) = after[Cardinality(Names(d))]
  BY ReachedInSteps
<1> HIDE DEF after
<1> DEFINE T == { n \in Nat : after[n] \subseteq C }
<1>2. 0 \in T
  BY <1>1
<1>3. ASSUME NEW n \in Nat, n \in T PROVE n + 1 \in T
  <2>1. after[n] \subseteq C
    BY <1>3
  <2>2. GoodTargets(d, after[n]) \subseteq GoodTargets(d, C)
    BY <2>1 DEF GoodTargets
  <2>3. Advance(d, after[n], without) \subseteq C
    BY <2>1, <2>2 DEF Advance
  <2> QED
    BY <1>1, <2>3
<1> HIDE DEF T
<1>4. Nat \subseteq T
  BY <1>2, <1>3, Induction
<1>5. Cardinality(Names(d)) \in Nat
  BY FS_CardinalityType
<1> QED
  BY <1>1, <1>4, <1>5 DEF T

\* With one mode, a state that dispatches an action is no gate.
LEMMA ActionIsNoGate ==
  ASSUME NEW state, OneMode(state)
  PROVE  state.action = "" \/ state.gate = ""
<1> DEFINE texts == { m \in {"action", "gate", "wait"} : state[m] # "" }
           modes == texts \cup (IF state.terminal THEN {"terminal"} ELSE {})
<1> SUFFICES ASSUME state.action # "", state.gate # "" PROVE FALSE
  OBVIOUS
<1>1. IsFiniteSet({"action", "gate", "wait"}) /\ texts \subseteq {"action", "gate", "wait"}
  <2> DEFINE A == {"action"}
             G == {"gate"}
             W == {"wait"}
  <2>1. IsFiniteSet(A) /\ IsFiniteSet(G) /\ IsFiniteSet(W)
    BY FS_Singleton
  <2>2. {"action", "gate", "wait"} = (A \cup G) \cup W
    OBVIOUS
  <2> HIDE DEF A, G, W
  <2>3. IsFiniteSet((A \cup G) \cup W)
    BY <2>1, FS_Union
  <2> QED
    BY <2>2, <2>3
<1>2. IsFiniteSet(texts)
  BY <1>1, FS_Subset
<1>3. IsFiniteSet(modes)
  BY <1>2, FS_EmptySet, FS_AddElement
<1>4. Cardinality(modes) = 1
  BY DEF OneMode
<1>5. "action" \in modes /\ "gate" \in modes
  OBVIOUS
<1> HIDE DEF modes
<1>6. PICK m : modes = {m}
  BY <1>3, <1>4, FS_Singleton
<1>7. m = "action" /\ m = "gate"
  BY <1>5, <1>6
<1> QED
  BY <1>7

\* As many steps as there are states are enough: no further step adds a state.
LEMMA ReachedIsClosed ==
  ASSUME NEW d, IsFiniteSet(Names(d)), NEW s \in Names(d), NEW without
  PROVE  /\ s \in Reached(d, {s}, without)
         /\ Reached(d, {s}, without) \subseteq Names(d)
         /\ GoodTargets(d, Reached(d, {s}, without)) \ without
              \subseteq Reached(d, {s}, without)
<1> DEFINE after == After(d, {s}, without)
           all == Cardinality(Names(d))
<1>1. /\ after[0] = {s}
      /\ \A n \in Nat : after[n + 1] = Advance(d, after[n], without)
      /\ \A n \in Nat : after[n] \subseteq Names(d)
      /\ Reached(d, {s}, without) = after[all]
  <2>1. {s} \in SUBSET Names(d)
    OBVIOUS
  <2> QED
    BY <2>1, ReachedInSteps
<1> HIDE DEF after
<1>2. all \in Nat
  BY FS_CardinalityType
<1>3. \A n \in Nat : /\ IsFiniteSet(after[n])
                     /\ Cardinality(after[n]) \in Nat
                     /\ Cardinality(after[n]) <= all
  BY <1>1, FS_Subset, FS_CardinalityType
<1> HIDE DEF all
<1> DEFINE T ==
             { n \in Nat : /\ s \in after[n]
                           /\ n < Cardinality(after[n]) \/ after[n + 1] = after[n] }
<1>4. 0 \in T
  <2>1. Cardinality({s}) = 1
    BY FS_Singleton
  <2> QED
    BY <1>1, <2>1
<1>5. ASSUME NEW n \in Nat, n \in T PROVE n + 1 \in T
  <2> DEFINE X == after[n]
             Y == after[n + 1]
  <2>1. Y = Advance(d, X, without) /\ after[(n + 1) + 1] = Advance(d, Y, without)
    BY <1>1
  <2>2. X \subseteq Y
    BY <2>1 DEF Advance
  <2>3. s \in Y
    BY <1>5, <2>2
  <2>4. CASE Y = X
    <3>1. after[(n + 1) + 1] = after[n + 1]
      BY <2>1, <2>4
    <3> QED
      BY <2>3, <3>1
  <2>5. CASE Y # X
    <3>1. n < Cardinality(X)
      BY <1>5, <2>5
    <3>2. /\ IsFiniteSet(Y) /\ Cardinality(X) \in Nat /\ Cardinality(Y) \in Nat
      BY <1>3
    <3> HIDE DEF X, Y
    <3>3. Cardinality(X) < Cardinality(Y)
      BY <2>2, <2>5, <3>2, FS_Subset
    <3>4. n + 1 < Cardinality(Y)
      BY <3>1, <3>2, <3>3
    <3> QED
      BY <2>3, <3>4 DEF Y
  <2> QED
    BY <2>4, <2>5
<1> HIDE DEF T
<1>6. Nat \subseteq T
  BY <1>4, <1>5, Induction
<1>7. s \in after[all] /\ after[all + 1] = after[all]
  BY <1>2, <1>3, <1>6 DEF T
<1>8. Advance(d, after[all], without) = after[all]
  BY <1>1, <1>2, <1>7
<1>9. GoodTargets(d, after[all]) \ without \subseteq after[all]
  BY <1>8 DEF Advance
<1> QED
  BY <1>1, <1>2, <1>7, <1>9

\* Where a good outcome of an accepted definition leads, it leads only there.
LEMMA OnlyGoodTarget ==
  ASSUME NEW d, IsDefinition(d), NEW s \in Names(d), NEW t, NEW u,
         NEW outcome, <<outcome, t>> \in d.states[s].on, <<outcome, u>> \in d.states[s].on
  PROVE  t = u
  BY DEF IsDefinition, Names

\* The states of an action whose good outcome leads into some targets: nothing but
\* themselves is reached without these.
LEMMA FlowsThrough ==
  ASSUME NEW d, IsDefinition(d), Valid(d), NEW action, NEW targets,
         action \notin {"", "verify_change", "poll_change_request"},
         Leads(d, At(d, action), "complete", targets)
  PROVE  Reached(d, At(d, action), targets) \subseteq At(d, action)
<1>1. IsFiniteSet(Names(d)) /\ At(d, action) \in SUBSET Names(d)
  BY DEF IsDefinition, Names, At
<1>2. ASSUME NEW s \in At(d, action) PROVE Good(d.states[s]) = "complete"
  <2>1. s \in DOMAIN d.states /\ d.states[s].action = action
    BY DEF At
  <2>2. d.states[s].gate = ""
    BY <2>1, ActionIsNoGate DEF Valid, StateValid
  <2> QED
    BY <2>1, <2>2 DEF Good
<1>3. GoodTargets(d, At(d, action)) \subseteq targets
  <2> SUFFICES ASSUME NEW t \in GoodTargets(d, At(d, action)) PROVE t \in targets
    OBVIOUS
  <2>1. PICK s \in At(d, action) : <<"complete", t>> \in d.states[s].on
    BY <1>2 DEF GoodTargets
  <2>2. PICK u \in targets : <<"complete", u>> \in d.states[s].on
    BY DEF Leads
  <2>3. t = u
    BY <1>1, <2>1, <2>2, OnlyGoodTarget
  <2> QED
    BY <2>2, <2>3
<1> QED
  BY <1>1, <1>3, ReachedWithin

\* A good outcome that leads from every state of a set leads on from a state that is
\* reached.
LEMMA GoesOn ==
  ASSUME NEW d, IsFiniteSet(Names(d)), NEW first \in Names(d), NEW from \in SUBSET Names(d),
         NEW outcome, NEW targets \in SUBSET Names(d), Leads(d, from, outcome, targets),
         \A x \in from : Good(d.states[x]) = outcome,
         from \cap Reached(d, {first}, {}) # {}
  PROVE  targets \cap Reached(d, {first}, {}) # {}
<1> DEFINE reached == Reached(d, {first}, {})
<1>1. GoodTargets(d, reached) \subseteq reached
  BY ReachedIsClosed
<1> HIDE DEF reached
<1>2. PICK x \in from : x \in reached
  BY DEF reached
<1>3. PICK t \in targets : <<outcome, t>> \in d.states[x].on
  BY DEF Leads
<1>4. t \in GoodTargets(d, reached)
  BY <1>2, <1>3 DEF GoodTargets, Names
<1> QED
  BY <1>1, <1>4 DEF reached

\* The good outcomes of the states of an action, and of the states of a gate.
LEMMA GoodOutcomes ==
  ASSUME NEW d, Valid(d), NEW s \in Names(d)
  PROVE  /\ d.states[s].gate # "" => Good(d.states[s]) = "approved"
         /\ d.states[s].action = "verify_change" => Good(d.states[s]) = "passed"
         /\ d.states[s].action = "poll_change_request" => Good(d.states[s]) = "merged"
         /\ d.states[s].action \notin {"", "verify_change", "poll_change_request"}
              => Good(d.states[s]) = "complete"
<1>1. d.states[s].action = "" \/ d.states[s].gate = ""
  BY ActionIsNoGate DEF Valid, StateValid, Names
<1> QED
  BY <1>1 DEF Good

\* From an inspection, and from the fixes of a review, good outcomes lead to the end.
LEMMA FlowsEnd ==
  ASSUME NEW d, IsDefinition(d), Accepted(d),
         NEW s \in At(d, "inspect_context") \cup At(d, "address_review")
  PROVE  "resolved" \in Reached(d, {s}, {})
<1> DEFINE Met(set) == set \cap Reached(d, {s}, {}) # {}
<1>1. IsFiniteSet(Names(d)) /\ s \in Names(d) /\ "resolved" \in Names(d)
  BY DEF IsDefinition, Names, At, Accepted, Valid
<1>2. Valid(d) /\ SafeFlow(d)
  BY DEF Accepted
<1>3. \A a : At(d, a) \in SUBSET Names(d) /\ Gates(d, a) \in SUBSET Names(d)
  BY DEF At, Gates, Names
<1>4. /\ \A x \in Gates(d, "approve_brief") : Good(d.states[x]) = "approved"
      /\ \A x \in At(d, "verify_change") : Good(d.states[x]) = "passed"
      /\ \A x \in At(d, "poll_change_request") : Good(d.states[x]) = "merged"
  BY <1>2, GoodOutcomes DEF At, Gates, Names
<1>5. \A a \in { "inspect_context", "prepare_workspace", "implement_change",
                 "finalize_change", "publish_change", "address_review",
                 "resolve_work_item" } :
        \A x \in At(d, a) : Good(d.states[x]) = "complete"
  BY <1>2, GoodOutcomes DEF At, Names
<1>6. s \in Reached(d, {s}, {})
  BY <1>1, ReachedIsClosed
<1>7. ASSUME Met(At(d, "poll_change_request")) PROVE "resolved" \in Reached(d, {s}, {})
  <2>1. Met(At(d, "resolve_work_item"))
    BY <1>1, <1>2, <1>3, <1>4, <1>7, GoesOn DEF SafeFlow
  <2>2. Met({"resolved"})
    <3>1. {"resolved"} \in SUBSET Names(d)
      BY <1>1
    <3> QED
      BY <1>1, <1>2, <1>3, <1>5, <2>1, <3>1, GoesOn DEF SafeFlow
  <2> QED
    BY <2>2
<1>8. CASE s \in At(d, "address_review")
  <2>1. Met(At(d, "address_review"))
    BY <1>6, <1>8
  <2>2. Met(At(d, "poll_change_request"))
    BY <1>1, <1>2, <1>3, <1>5, <2>1, GoesOn DEF SafeFlow
  <2> QED
    BY <1>7, <2>2
<1>9. CASE s \in At(d, "inspect_context")
  <2>1. Met(At(d, "inspect_context"))
    BY <1>6, <1>9
  <2>2. Met(Gates(d, "approve_brief"))
    BY <1>1, <1>2, <1>3, <1>5, <2>1, GoesOn DEF SafeFlow, InspectionsEnterApproval
  <2>3. Met(At(d, "prepare_workspace"))
    BY <1>1, <1>2, <1>3, <1>4, <2>2, GoesOn DEF SafeFlow
  <2>4. Met(At(d, "implement_change"))
    BY <1>1, <1>2, <1>3, <1>5, <2>3, GoesOn DEF SafeFlow
  <2>5. Met(At(d, "verify_change"))
    BY <1>1, <1>2, <1>3, <1>5, <2>4, GoesOn DEF SafeFlow
  <2>6. Met(At(d, "finalize_change"))
    BY <1>1, <1>2, <1>3, <1>4, <2>5, GoesOn DEF SafeFlow
  <2>7. Met(At(d, "publish_change"))
    BY <1>1, <1>2, <1>3, <1>5, <2>6, GoesOn DEF SafeFlow
  <2>8. Met(At(d, "poll_change_request"))
    BY <1>1, <1>2, <1>3, <1>5, <2>7, GoesOn DEF SafeFlow
  <2> QED
    BY <1>7, <2>8
<1> QED
  BY <1>8, <1>9

\* Of every definition file, however many states it has, that the program accepts:
\* work that goes well does not get past an approval or a verification, and it ends.
THEOREM FlowsAreGuarded == Spec => []AcceptedFlowsAreGuarded
<1>1. ASSUME NEW d, IsDefinition(d), Accepted(d) PROVE Guarded(d)
  <2>1. Valid(d) /\ SafeFlow(d)
    BY <1>1 DEF Accepted
  <2>2. Reached(d, At(d, "inspect_context"), Gates(d, "approve_brief"))
          \subseteq At(d, "inspect_context")
    BY <1>1, <2>1, FlowsThrough DEF SafeFlow, InspectionsEnterApproval
  <2>3. Reached(d, At(d, "implement_change"), At(d, "verify_change"))
          \subseteq At(d, "implement_change")
    BY <1>1, <2>1, FlowsThrough DEF SafeFlow
  <2>4. Reached(d, At(d, "analyze_review"), Gates(d, "approve_review_plan"))
          \subseteq At(d, "analyze_review")
    BY <1>1, <2>1, FlowsThrough DEF SafeFlow
  <2>5. /\ At(d, "inspect_context") \cap At(d, "implement_change") = {}
        /\ At(d, "implement_change") \cap At(d, "publish_change") = {}
        /\ At(d, "analyze_review") \cap At(d, "address_review") = {}
    BY DEF At
  <2>6. \A s \in At(d, "inspect_context") \cup At(d, "address_review") :
          "resolved" \in Reached(d, {s}, {})
    BY <1>1, FlowsEnd
  <2> QED
    BY <2>2, <2>3, <2>4, <2>5, <2>6 DEF Guarded
<1>2. Taken => AcceptedFlowsAreGuarded
  <2> SUFFICES ASSUME Taken, input.kind = "definition", Accepted(input.definition)
               PROVE  Guarded(input.definition)
    BY DEF AcceptedFlowsAreGuarded
  <2>1. input.definition \in Candidates
    BY DEF Taken
  <2> QED
    BY <1>1, <2>1, CandidatesAssumption
<1> QED
  BY <1>2, InputIsTaken, PTL
===============================================================================
