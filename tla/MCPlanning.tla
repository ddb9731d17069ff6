----------------------------- MODULE MCPlanning -----------------------------
(***************************************************************************)
(* Small cases of Planning for TLC: a bucket and a step are two units of   *)
(* time, and the wall clock has eight to the day.                          *)
(***************************************************************************)
EXTENDS Planning

State(a, q, r) == [availability |-> a, interruptibility |-> q, requestability |-> q, reschedulability |-> r]
Free == State(0, 0, 0)
Middle == State(1, 2, 1)
Closed == State(3, 3, 3)

Ranges(S) == {r \in [start : S, end : S] : r.start < r.end}

-----------------------------------------------------------------------------
(* Given rows                                                              *)

Row(r, state, generated, expires) ==
    [start |-> r.start, end |-> r.end, state |-> state, generated |-> generated, expires |-> expires]
Good(r) == Row(r, Free, 0, 9)
Rows(S) == {Row(r, s, 0, 9) : r \in Ranges(S), s \in {Free, State(1, 0, 2), State(0, 3, 0)}}

MCGiven ==
    [asks |-> TRUE, duration |-> 3, deadline |-> 12, clock |-> 1, last |-> 2, settings |-> None,
     rows |-> {Good([start |-> 1, end |-> 12])}, accepted |-> {}, busy |-> {},
     source |-> [managed |-> TRUE, committed |-> TRUE, observed |-> 1, from |-> 0, to |-> 12]]

\* Three rows that touch, overlap, contradict each other or leave a gap.
RowCases ==
    {[MCGiven EXCEPT !.rows = rs, !.duration = d, !.last = 1] :
        rs \in UNION {kSubset(k, Rows({1, 4, 6, 9})) : k \in 1 .. 3}, d \in {2, 3}}
\* Confirmed meetings and busy times that nest, overlap or touch.
RangeCases ==
    {[MCGiven EXCEPT !.accepted = a] : a \in kSubset(3, Ranges({2, 4, 5, 7, 8}))} \cup
    {[MCGiven EXCEPT !.busy = {[start |-> r.start, end |-> r.end, status |-> IF r.start = f THEN "free" ELSE "busy"] : r \in b}] :
        f \in {0, 4}, b \in UNION {kSubset(k, Ranges({2, 4, 5, 8})) : k \in 1 .. 4}}
\* Clocks, deadlines and the age and the extent of what is known.
TimeCases ==
    {[MCGiven EXCEPT !.last = c + 2, !.clock = c, !.deadline = d, !.duration = l,
                     !.source.managed = m, !.source.committed = m,
                     !.source.observed = o, !.source.from = f, !.source.to = 12 - f,
                     !.rows = {Row([start |-> s, end |-> 7], Free, g, e), Good([start |-> 7, end |-> 11])}] :
        c \in {1, 2}, d \in {9, 10}, l \in {2, 3}, m \in BOOLEAN, o \in {0, 2}, f \in {0, 2},
        s \in {1, 2}, g \in {1, 2}, e \in {3, 9}}

-----------------------------------------------------------------------------
(* Rows of the engine                                                      *)

Wall(n) == [day |-> (n \div 8) % 2, minute |-> n % 8]
Zones ==
    LET shifted(f(_)) == [t \in 0 .. 9 |-> Wall(f(t))]
        even(t) == t
        fold(t) == IF t < 5 THEN t + 3 ELSE t
        gap(t) == IF t < 5 THEN t ELSE t + 3
    IN  {shifted(even), shifted(fold), shifted(gap)}

MCSettings ==
    [zone |-> [t \in 0 .. 9 |-> Wall(t)], windows |-> {[day |-> d, from |-> 0, to |-> 8] : d \in {0, 1}},
     default |-> Free, rules |-> <<>>, events |-> {}, overrides |-> {}, from |-> 1, to |-> 8,
     source |-> [managed |-> FALSE, observed |-> 0, from |-> 0, to |-> 0]]
MCEngine ==
    [asks |-> FALSE, duration |-> 3, deadline |-> 9, clock |-> 0, last |-> 0, settings |-> MCSettings,
     rows |-> {}, accepted |-> {}, busy |-> {[start |-> 6, end |-> 7, status |-> "busy"]},
     source |-> [managed |-> TRUE, committed |-> TRUE, observed |-> 0, from |-> 0, to |-> 8]]

\* Working hours of two days that meet at midnight, before and after the clock changes.
HourCases ==
    {[MCEngine EXCEPT !.asks = TRUE, !.last = 2, !.settings.zone = z,
                      !.settings.windows = {[day |-> 0, from |-> a, to |-> b], [day |-> 1, from |-> 0, to |-> c]}] :
        z \in Zones, a \in {0, 3}, b \in {5, 7, 8}, c \in {1, 4}}
\* Rules of every rank, equal priorities and disabled ones, on two events that overlap.
Rule(type, of, p, enabled, s) == [type |-> type, of |-> of, priority |-> p, enabled |-> enabled, state |-> s]
Rules == {Rule("organization", "any", 1, TRUE, Free), Rule("calendar", "work", 1, TRUE, Middle),
          Rule("event", "busy", 1, TRUE, Free), Rule("event", "busy", 1, TRUE, Closed),
          Rule("event", "free", 0, TRUE, Middle), Rule("event", "busy", 2, FALSE, Free)}
RuleCases ==
    {[MCEngine EXCEPT !.asks = TRUE, !.settings.rules = rules, !.settings.default = d,
                      !.settings.events = {[start |-> 1, end |-> 4, calendar |-> "work", status |-> "busy"],
                                           [start |-> 3, end |-> 7, calendar |-> c, status |-> s]}] :
        rules \in UNION {[1 .. n -> Rules] : n \in 1 .. 3}, d \in {Free, Middle},
        c \in {"work", "home"}, s \in {"free", "tentative"}}
\* Two overrides, of any age, that overlap, end and expire in any order.
Override(id, s, e, x, c, state) ==
    [id |-> id, start |-> s, end |-> e, expires |-> x, created |-> c, state |-> state]
OverrideCases ==
    {[MCEngine EXCEPT !.asks = a, !.duration = 2, !.last = IF a THEN 3 ELSE 6,
                      !.settings.overrides = {Override(1, r, e, x, c, Free), Override(2, s, 8, y, 0, Closed)},
                      !.settings.events = {[start |-> 2, end |-> 6, calendar |-> "work", status |-> "busy"]},
                      !.settings.source = [managed |-> m, observed |-> 0, from |-> 2, to |-> 8]] :
        a \in BOOLEAN, r \in {1, 4}, e \in {5, 8}, s \in {1, 4}, x \in 1 .. 3, y \in {1, 2, 5}, c \in {-1, 0},
        m \in BOOLEAN}

MCCases == RowCases \cup RangeCases \cup TimeCases \cup HourCases \cup RuleCases \cup OverrideCases
=============================================================================
