------------------------------- MODULE Algorithms -------------------------------
(***************************************************************************)
(* The pure parts of the program against reference definitions: one step   *)
(* takes one input of a kind, and the invariants compare what Timing and   *)
(* Definitions compute for it with what it should be.                      *)
(***************************************************************************)
EXTENDS Timing, Definitions

CONSTANTS
  Policies,  \* retry policies, as a definition file may state them
  Moments,   \* when a poll ends, in ticks
  Hours,     \* work hours, as the user may configure them
  Times,     \* times as the program writes them
  Candidates \* definition files

ASSUME PoliciesAssumption ==
  \A p \in Policies : p.attempts \in Int /\ p.first \in Int /\ p.maximum \in Int
ASSUME MomentsAssumption == Moments \subseteq Nat
ASSUME HoursAssumption == Hours \subseteq Int \X Int
ASSUME TimesAssumption ==
  \A t \in Times : t.second \in Nat /\ t.digits \in Seq(0..9)
ASSUME CandidatesAssumption == \A d \in Candidates : IsDefinition(d)

VARIABLE input

Init == input = [kind |-> "none"]

TakesPolicy ==
  \E p \in Policies : input' = [kind |-> "retry", policy |-> p]

TakesMoment ==
  \E now \in Moments, attempt \in 0..Len(ReviewIntervals), hours \in Hours :
    input' = [kind |-> "wake", now |-> now, attempt |-> attempt, hours |-> hours]

TakesTimes ==
  \E early, late \in Times :
    input' = [kind |-> "times", early |-> early, late |-> late]

TakesDefinition ==
  \E d \in Candidates : input' = [kind |-> "definition", definition |-> d]

Next ==
  /\ input = [kind |-> "none"]
  /\ TakesPolicy \/ TakesMoment \/ TakesTimes \/ TakesDefinition

Spec == Init /\ [][Next]_input

-------------------------------------------------------------------------------
(* Engine.Fail, with the policies that Validate accepts. *)

Least(a, b) == IF a <= b THEN a ELSE b

\* A delay doubled n times.
DoubledTimes(first, n) ==
  LET after[k \in Nat] == IF k = 0 THEN first ELSE 2 * after[k - 1]
  IN  after[n]

\* Under every accepted retry policy the delay is the first one, doubled for each
\* failure and cut off at the maximum.
DelayIsClippedDoubling ==
  input.kind = "retry" /\ RetryValid(input.policy) =>
    \A n \in 1 .. input.policy.attempts :
      RetryDelay(input.policy.first, input.policy.maximum, n)
        = Least(DoubledTimes(input.policy.first, n - 1), input.policy.maximum)

(* Engine.nextReviewWake. *)

\* For hours that ConfigureWorkHours takes, the review is polled at the first
\* work time that is at least the interval away: no work time is passed over,
\* and none of a weekend or a night is taken.
WakesAtFirstWorkTime ==
  input.kind = "wake" /\ Configurable(input.hours[1], input.hours[2]) =>
    LET start == input.hours[1]
        end   == input.hours[2]
        from  == input.now + Interval(input.attempt)
        wake  == ReviewWake(input.now, input.attempt, start, end)
    IN  /\ wake >= from /\ WithinHours(wake, start, end)
        /\ \A t \in from .. wake - 1 : ~WithinHours(t, start, end)

(* Times compared as text, by ListRuns and by PurgeExpiredPayloads. *)

\* A wake is listed as due, and the payloads of an ended run are purged, when the
\* moment is exactly now or in an earlier second, and never when it is in a later
\* one: the text, whose fractions have no fixed width, is only wrong within a
\* second.
TextOrderIsRightToTheSecond ==
  input.kind = "times" =>
    LET e == input.early
        l == input.late
    IN  /\ e = l \/ e.second < l.second =>
             ListedAsDue(e, l) /\ Purged(TRUE, e, l)
        /\ e.second > l.second =>
             ~ListedAsDue(e, l) /\ ~Purged(TRUE, e, l)

(* Definition.Validate. *)

\* The outcome with which a state says that its work went well.
Good(state) ==
  CASE state.gate # "" -> "approved"
    [] state.action = "verify_change" -> "passed"
    [] state.action = "poll_change_request" -> "merged"
    [] OTHER -> "complete"

\* Where good outcomes lead from a set of states.
GoodTargets(d, set) ==
  { t \in DOMAIN d.states : \E s \in set : <<Good(d.states[s]), t>> \in d.states[s].on }

Advance(d, set, without) == set \cup (GoodTargets(d, set) \ without)

\* The states that good outcomes reach from some states, not entering others.
Reached(d, from, without) ==
  LET after[n \in Nat] ==
        IF n = 0 THEN from ELSE Advance(d, after[n - 1], without)
  IN  after[Cardinality(DOMAIN d.states)]

\* Work that goes well cannot get from an inspection to code without the approval
\* of the brief, nor from code to a publication without a check that passed, nor
\* from an analysis to the fixes without the approval of the plan, and it can end.
Guarded(d) ==
  LET inspections == At(d, "inspect_context")
      coding == At(d, "implement_change")
      fixing == At(d, "address_review")
  IN  /\ Reached(d, inspections, Gates(d, "approve_brief")) \cap coding = {}
      /\ Reached(d, coding, At(d, "verify_change")) \cap At(d, "publish_change") = {}
      /\ Reached(d, At(d, "analyze_review"), Gates(d, "approve_review_plan"))
           \cap fixing = {}
      /\ \A s \in inspections \cup fixing : "resolved" \in Reached(d, {s}, {})

\* Every definition file that the program accepts has guarded flows.
AcceptedFlowsAreGuarded ==
  input.kind = "definition" /\ Accepted(input.definition)
    => Guarded(input.definition)
===============================================================================
