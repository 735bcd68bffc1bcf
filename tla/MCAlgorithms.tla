----------------------------- MODULE MCAlgorithms -----------------------------
(* The inputs that TLC takes. *)
EXTENDS Algorithms, TLC

\* A tick of ten minutes: the intervals are 10, 30 and 120 minutes.
MCIntervals == <<1, 3, 12>>

MCPolicies ==
  [ class : {"read_transient_safe", "never"}, attempts : {0, 1, 5, 20, 21},
    first : {0, 1, 2, 5, 7}, maximum : {1, 5, 7, 60, Day, Day + 1} ]

\* A week of ticks; ordinary hours, a whole day, and hours of one tick at either end
\* of the day.
MCMoments == 0 .. 7 * TicksPerDay - 1
MCHours ==
  { <<54, 108>>, <<0, TicksPerDay>>, <<0, 1>>,
    <<TicksPerDay - 1, TicksPerDay>>, <<108, 54>> }

\* Three seconds, and fractions of two digits.
MCTimes == [ second : 0..2, digits : [ 1..2 -> {0, 1, 9} ] ]

\* The canonical definition, and definitions one or two edits away from it.
Canonical ==
  [ initial |-> "discovering_context",
    states |->
      [ s \in States |->
          [ action |-> IF s \in ActionStates
                         THEN CHOOSE a \in ActionTypes : <<s, a>> \in Dispatches ELSE "",
            gate |-> CASE s = BriefGate -> "approve_brief"
                       [] s = PlanGate -> "approve_review_plan"
                       [] OTHER -> "",
            wait |-> IF s \in WaitStates THEN s ELSE "",
            terminal |-> s \in TerminalStates,
            retry |-> CASE s \in SafeReadStates -> "safe_read"
                        [] s \in ReconciledWriteStates -> "reconciled_write"
                        [] OTHER -> "",
            on |-> { <<t[2], t[3]>> : t \in { u \in Transitions : u[1] = s } } ] ],
    retries |->
      [ safe_read |-> [ class |-> "read_transient_safe", attempts |-> 5, first |-> 10,
                        maximum |-> 300 ],
        reconciled_write |-> [ class |-> "write_reconcile_first", attempts |-> 3,
                               first |-> 10, maximum |-> 120 ] ],
    wakes |-> [ review |-> <<600, 1800, 7200>> ] ]

\* One more state: an inspection of any kind of outcome, a second gate, a second
\* implementation.
Added(on) == [ action |-> "inspect_context", gate |-> "", wait |-> "",
               terminal |-> FALSE, retry |-> "safe_read", on |-> on ]
Additions ==
  { Added({<<"complete", BriefGate>>}), Added({<<"complete", "preparing_workspace">>}),
    Added({<<"needs_input", "blocked">>}), Added({<<"never", "blocked">>}),
    [ Added({<<"approved", "implementing">>}) EXCEPT !.action = "", !.retry = "",
                                                     !.gate = "approve_brief" ],
    [ Added({<<"approved", "implementing">>}) EXCEPT !.action = "", !.retry = "",
                                                     !.gate = "approve_architecture" ],
    [ Added({<<"complete", "publishing">>}) EXCEPT !.action = "implement_change" ] }

\* A definition in which one state is this one; @@ makes TLC keep a table of it.
WithState(d, s, state) == [ d EXCEPT !.states = (s :> state) @@ @ ]

Extended == {Canonical} \cup { WithState(Canonical, "added", a) : a \in Additions }

\* One outcome of a state led elsewhere, or left out.
Redirected(d, s, p, targets) ==
  WithState(d, s, [ d.states[s] EXCEPT !.on = (@ \ {p}) \cup { <<p[1], t>> : t \in targets } ])

\* Every outcome of every canonical state led to every state.
Places ==
  UNION { { <<d, s, p>> : p \in d.states[s].on } :
            d \in Extended, s \in States }
Edited ==
  { Redirected(place[1], place[2], place[3], targets) :
      place \in Places, targets \in {{}} \cup { {t} : t \in States \cup {"added"} } }

Rearranged ==
  { [ Canonical EXCEPT !.initial = s ] : s \in States }
  \cup { WithState(Canonical, s, [ Canonical.states[s] EXCEPT !.terminal = ~@ ]) :
            s \in States }
  \cup { WithState(Canonical, s, [ Canonical.states[s] EXCEPT !.retry = r ]) :
            s \in States, r \in {"", "safe_read", "unknown"} }
  \cup { [ Canonical EXCEPT !.wakes.review = w ] :
            w \in { <<>>, <<10, 10>>, <<0, 5>>, <<Day>>, <<Day + 1>> } }

MCCandidates == Extended \cup Edited \cup Rearranged

\* The canonical definition is accepted.
ASSUME CanonicalAccepted == Accepted(Canonical)
===============================================================================
