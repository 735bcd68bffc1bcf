-------------------------------- MODULE Timing --------------------------------
(***************************************************************************)
(* The arithmetic of time: the delay of a retry, the next poll of a        *)
(* review within work hours, and the times that the store compares as      *)
(* text.  There is no state here.                                          *)
(*                                                                         *)
(* A time of the work-hours calculation is a number of ticks since some    *)
(* Monday 0:00 in the user's zone, without changes of the offset.          *)
(***************************************************************************)
EXTENDS Integers, Sequences

CONSTANTS
  TicksPerDay,    \* 1440 in the program, whose tick is a minute
  ReviewIntervals \* <<10, 30, 120>> minutes

ASSUME TicksAssumption == TicksPerDay \in Nat \ {0}
ASSUME IntervalsAssumption == ReviewIntervals \in Seq(Nat) \ {<<>>}

-------------------------------------------------------------------------------
(* Engine.Fail: the retry delay. *)

\* Seeded bug: the maximum is compared before the delay is doubled.
DoubledLate(delay, maximum) == IF delay >= maximum THEN maximum ELSE 2 * delay

\* One round of the loop; once the maximum is reached it stays.
Doubled(delay, maximum) == IF 2 * delay >= maximum THEN maximum ELSE 2 * delay

\* The delay before the retry that follows failure number attempt.
RetryDelay(initial, maximum, attempt) ==
  LET after[n \in Nat] ==
        IF n = 0 THEN initial ELSE Doubled(after[n - 1], maximum)
  IN  after[attempt - 1]

-------------------------------------------------------------------------------
(* Engine.nextReviewWake. *)

DayOf(t)    == (t \div TicksPerDay) % 7
TickOf(t)   == t % TicksPerDay
Weekend(t)  == DayOf(t) \in {5, 6}
StartOfDay(t) == t - TickOf(t)

\* ConfigureWorkHours: what the engine takes for work hours.
Configurable(start, end) == 0 <= start /\ end <= TicksPerDay /\ start < end

\* The polls wait longer and longer, up to the last interval.
Interval(attempt) ==
  ReviewIntervals[IF attempt >= Len(ReviewIntervals)
                    THEN Len(ReviewIntervals) ELSE attempt + 1]

WithinHours(t, start, end) ==
  ~Weekend(t) /\ TickOf(t) >= start /\ TickOf(t) < end

\* Seeded bug: an early morning is not waited out, but skipped with its day.
NextCandidateDayOnly(t, start) == StartOfDay(t) + TicksPerDay + start

\* Where the loop looks next: the start of the same day's hours, or the next day's.
NextCandidate(t, start) ==
  IF ~Weekend(t) /\ TickOf(t) < start
    THEN StartOfDay(t) + start
    ELSE StartOfDay(t) + TicksPerDay + start

\* The loop, from the time the interval has passed.
ReviewWake(now, attempt, start, end) ==
  LET wake[t \in Nat] ==
        IF WithinHours(t, start, end) THEN t ELSE wake[NextCandidate(t, start)]
  IN  wake[now + Interval(attempt)]

-------------------------------------------------------------------------------
(* Times as text: formatTime writes RFC3339Nano, whose fraction has no        *)
(* trailing zeros and is left out, with its point, when it is zero.  SQLite   *)
(* compares such texts character by character.  A time is a pair of seconds   *)
(* and the digits of its fraction; all seconds have the same width.           *)

\* The characters in the order of their codes: the point, the digits, the Z.
Point == -1
Zulu  == 10

\* The digits without the trailing zeros.
Trimmed(digits) ==
  LET last == CHOOSE n \in 0..Len(digits) :
                /\ n = 0 \/ digits[n] # 0
                /\ \A k \in n + 1 .. Len(digits) : digits[k] = 0
  IN  SubSeq(digits, 1, last)

Stamp(t) ==
  LET fraction == Trimmed(t.digits)
  IN  <<t.second>> \o (IF fraction = <<>> THEN <<>> ELSE <<Point>> \o fraction)
        \o <<Zulu>>

\* Seeded bug: the strict comparison.
StampLess(s, t) ==
  \E i \in 1..Len(s) :
    /\ i <= Len(t) /\ s[i] < t[i]
    /\ SubSeq(s, 1, i - 1) = SubSeq(t, 1, i - 1)

\* s <= t for the text; no stamp is the beginning of another one.
StampAtMost(s, t) ==
  \/ s = t
  \/ \E i \in 1..Len(s) :
       /\ i <= Len(t) /\ s[i] < t[i]
       /\ SubSeq(s, 1, i - 1) = SubSeq(t, 1, i - 1)

\* ListRuns with dueOnly: the schedules row is listed.
ListedAsDue(due, now) == StampAtMost(Stamp(due), Stamp(now))

\* PurgeExpiredPayloads empties the payloads of a run that has ended and was
\* last written at this time; cutoff is now less the retention.
Purged(terminal, updated, cutoff) ==
  terminal /\ StampAtMost(Stamp(updated), Stamp(cutoff))
===============================================================================
