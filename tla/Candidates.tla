----------------------------- MODULE Candidates -----------------------------
(***************************************************************************)
(* Which meetings a new request is offered.                                *)
(*                                                                         *)
(* The handler notes the time, reads the target's published rows, the      *)
(* confirmed meetings of both people and the requester's own calendar, and *)
(* ranks the starts at which the meeting fits.  The code does this with    *)
(* sweeps over sorted end points, merged ranges and binary searches; what  *)
(* a confirmation will ask of the chosen meeting later is written as plain *)
(* loops over the same data.  The properties say that the two agree.       *)
(*                                                                         *)
(* Meetings and busy times do not change while they are read (Requests and *)
(* Publication are about that), but the clock goes on, and Planning says   *)
(* where the rows come from.  Times are integers; the states of rows are   *)
(* those of Projections.                                                   *)
(***************************************************************************)
EXTENDS Integers, Sequences, FiniteSets, FiniteSetsExt, SequencesExt, Ordering

CONSTANTS
    Step,           \* starts are multiples of it
    MaxOffers,      \* how many starts are offered
    SourceMaxAge,   \* how long a calendar synchronized from the provider counts
    EvidenceLimit   \* busy intervals beyond it are never counted as free time

ASSUME CandidatesAssumption ==
    {Step, MaxOffers, SourceMaxAge} \subseteq Nat \ {0} /\ EvidenceLimit \in Nat

VARIABLES
    case,       \* the request, the confirmed meetings and the requester's calendar
    clock,      \* the time
    rows,       \* the target's published rows
    now,        \* the time the handler works with
    got,        \* what it has read: rows, reserved ranges, the requester's calendar
    offers,     \* the starts offered, best first; <<>> is the asynchronous answer
    pc          \* "idle", "rows", "reservations", "calendar", "plan", "offered" or "refused"

handler == <<now, got, offers, pc>>

-----------------------------------------------------------------------------
(* Ranges                                                                  *)

Overlap(r, s) == r.start < s.end /\ s.start < r.end
Meeting(start) == [start |-> start, end |-> start + case.duration]

Earlier(r, s) == r.start < s.start \/ (r.start = s.start /\ r.end < s.end)
Sorted(ranges) ==
    LET spans == {[start |-> r.start, end |-> r.end] : r \in ranges}
    IN  InOrder(spans, {p \in spans \X spans : Earlier(p[1], p[2])})

\* Mutant of MergeInto: a nested range ends the one around it.
MergeIntoNested(merged, r) ==
    IF merged = <<>> \/ Last(merged).end < r.start THEN Append(merged, r)
    ELSE Append(Front(merged), [Last(merged) EXCEPT !.end = r.end])

\* A range that overlaps or touches the last one is joined to it, also when nested.
MergeInto(merged, r) ==
    IF merged = <<>> \/ Last(merged).end < r.start THEN Append(merged, r)
    ELSE Append(Front(merged), [Last(merged) EXCEPT !.end = Max({@, r.end})])

Merged(ranges) == FoldLeft(MergeInto, <<>>, Sorted(ranges))

\* sort.Search: the first range that ends after t, by halving.
FirstEndingAfter(ranges, t) ==
    LET n == Len(ranges)
        search[p \in (1 .. n + 1) \X (1 .. n + 1)] ==
            LET m == (p[1] + p[2]) \div 2
            IN  IF p[1] >= p[2] THEN p[1]
                ELSE IF ranges[m].end > t THEN search[<<p[1], m>>] ELSE search[<<m + 1, p[2]>>]
    IN  search[<<1, n + 1>>]

Hit(ranges, r) ==
    LET i == FirstEndingAfter(ranges, r.start)
    IN  i <= Len(ranges) /\ ranges[i].start < r.end

-----------------------------------------------------------------------------
(* The requester's calendar                                                *)

Committed(source, t) == source.committed /\ source.observed <= t /\ t < source.observed + SourceMaxAge

\* NewCandidateAvailability, of what LoadRequesterCalendar reads: one interval more
\* than the limit at most.
Unavailable == [valid |-> FALSE, managed |-> FALSE, busy |-> <<>>]
NewCandidateAvailability(source, intervals) ==
    IF Cardinality(intervals) > EvidenceLimit \/ (source.managed /\ ~Committed(source, clock))
    THEN Unavailable
    ELSE [valid |-> TRUE, managed |-> source.managed,
          busy |-> IF source.managed THEN Merged({i \in intervals : i.status # "free"}) ELSE <<>>]

ValidAt(calendar, t) ==
    /\ calendar.valid
    /\ calendar.managed => case.source.observed <= t /\ t < case.source.observed + SourceMaxAge

Allows(calendar, r) ==
    calendar.managed =>
        /\ case.source.from <= r.start /\ r.end <= case.source.to
        /\ ~Hit(calendar.busy, r)

-----------------------------------------------------------------------------
(* The target's rows                                                       *)

\* By availability and reschedulability, the most open first.
Quality(row) ==
    <<100, 40, -100, 0>>[row.state.availability + 1] + <<30, 10, -20, -100>>[row.state.reschedulability + 1] + 20

\* Mutant of Unusable: time that is free is offered, requests welcome or not.
UnusableIfBusy(row, t) ==
    \/ row.state.availability > 1
    \/ row.expires <= t \/ row.generated > t

\* Not open to requests, neither available nor limited, or no longer or not yet true.
Unusable(row, t) ==
    \/ row.state.requestability > 0 \/ row.state.availability > 1
    \/ row.expires <= t \/ row.generated > t

\* The end points are swept in order.  `blocked` counts the unusable rows around a
\* point and `active` the others by quality; a span is appended when only others are.
SweepStep(values, times, sweep, i) ==
    LET at == times[i]
        opens(S) == Cardinality({r \in S : r.start = at})
        ends(S) == Cardinality({r \in S : r.end = at})
        unusable == {r \in values : Unusable(r, now)}
        usable == values \ unusable
        blocked == sweep.blocked + opens(unusable) - ends(unusable)
        active == [q \in DOMAIN sweep.active |->
                      sweep.active[q] + opens({r \in usable : Quality(r) = q})
                                      - ends({r \in usable : Quality(r) = q})]
        present == {q \in DOMAIN active : active[q] > 0}
        spans == sweep.spans
        next == [blocked |-> blocked, active |-> active, spans |-> spans]
    IN  IF i = Len(times) \/ blocked > 0 \/ present = {} THEN next
        ELSE IF spans # <<>> /\ Last(spans).end = at /\ Last(spans).score = Min(present)
        THEN [next EXCEPT !.spans = Append(Front(@), [Last(@) EXCEPT !.end = times[i + 1]])]
        ELSE [next EXCEPT !.spans =
                 Append(@, [start |-> at, end |-> times[i + 1], score |-> Min(present)])]

CandidateSpans(values) ==
    LET points == {r.start : r \in values} \cup {r.end : r \in values}
        times == InOrder(points, {p \in points \X points : p[1] < p[2]})
        nothing == [blocked |-> 0, active |-> [q \in {Quality(r) : r \in values} |-> 0], spans |-> <<>>]
        step(sweep, i) == SweepStep(values, times, sweep, i)
    IN  FoldLeft(step, nothing, [i \in 1 .. Len(times) |-> i]).spans

-----------------------------------------------------------------------------
(* Ranking                                                                 *)

CeilStep(t) == IF t % Step = 0 THEN t ELSE (t \div Step + 1) * Step

\* Spans that touch are one run, whatever their scores.
Runs(spans) ==
    {run \in (1 .. Len(spans)) \X (1 .. Len(spans)) :
        /\ run[1] <= run[2]
        /\ \A i \in run[1] .. run[2] - 1 : spans[i].end = spans[i + 1].start
        /\ run[1] = 1 \/ spans[run[1] - 1].end # spans[run[1]].start
        /\ run[2] = Len(spans) \/ spans[run[2]].end # spans[run[2] + 1].start}

FragmentPenalty(run, r) ==
    LET fragment(gap) == IF 0 < gap /\ gap < Step THEN -20 ELSE 0
    IN  fragment(r.start - run.start) + fragment(run.end - r.end)

FirstStart(runStart) ==
    IF CeilStep(runStart) > now THEN CeilStep(runStart)
    ELSE IF CeilStep(now) > now THEN CeilStep(now) ELSE CeilStep(now) + Step

\* The starts within a run, with their scores: the least of the spans covered.
Scored(spans, run, reserved, calendar) ==
    LET whole == [start |-> spans[run[1]].start, end |-> spans[run[2]].end]
        first == FirstStart(whole.start)
        last == Min({whole.end, case.deadline}) - case.duration
        starts == {t \in first .. last : t % Step = 0}
        score(r) == Min({spans[i].score : i \in {i \in run[1] .. run[2] : Overlap(spans[i], r)}})
    IN  {[start |-> t, score |-> score(Meeting(t)) + FragmentPenalty(whole, Meeting(t))] :
            t \in {t \in starts : Allows(calendar, Meeting(t)) /\ ~Hit(reserved, Meeting(t))}}

Better(c, d) == c.score > d.score \/ (c.score = d.score /\ c.start < d.start)

\* Mutant of Best: of equal ones the later comes first.
BestLatest(candidates) ==
    InOrder(candidates, {p \in candidates \X candidates :
        p[1].score > p[2].score \/ (p[1].score = p[2].score /\ p[1].start > p[2].start)})

Best(candidates) == InOrder(candidates, {p \in candidates \X candidates : Better(p[1], p[2])})

\* Only the best so far are retained.
Retain(best, c) ==
    LET sorted == Best(Range(best) \cup {c})
    IN  SubSeq(sorted, 1, Min({MaxOffers, Len(sorted)}))

GenerateCandidates(values, reserved, calendar) ==
    LET spans == CandidateSpans(values)
        all == UNION {Scored(spans, run, reserved, calendar) : run \in Runs(spans)}
        inTurn == InOrder(all, {p \in all \X all : p[1].start < p[2].start})
        best == FoldLeft(Retain, <<>>, inTurn)
    IN  [i \in DOMAIN best |-> best[i].start]

-----------------------------------------------------------------------------
(* The handler                                                             *)

Nothing == [rows |-> {}, reserved |-> <<>>, calendar |-> Unavailable]

InitHandler ==
    /\ now = clock
    /\ got = Nothing
    /\ offers = <<>>
    /\ pc = "idle"

\* createRequest: the time is noted before anything is read.
Receive ==
    /\ pc = "idle" /\ case.asks
    /\ now' = clock
    /\ pc' = IF clock < case.deadline THEN "rows" ELSE "refused"
    /\ UNCHANGED <<case, clock, rows, got, offers>>

\* projections.List, which leaves out what has expired.
ReadRows ==
    /\ pc = "rows"
    /\ got' = [got EXCEPT !.rows = {r \in rows :
                  r.expires > clock /\ Overlap(r, [start |-> now, end |-> case.deadline])}]
    /\ pc' = "reservations"
    /\ UNCHANGED <<case, clock, rows, now, offers>>

\* LoadConfirmedRanges: the meetings of both people, one snapshot.
ReadReservations ==
    /\ pc = "reservations"
    /\ got' = [got EXCEPT !.reserved = Merged(case.accepted)]
    /\ pc' = "calendar"
    /\ UNCHANGED <<case, clock, rows, now, offers>>

\* LoadRequesterCalendar, another snapshot.
ReadCalendar ==
    /\ pc = "calendar"
    /\ LET calendar == NewCandidateAvailability(case.source, case.busy)
       IN  /\ got' = [got EXCEPT !.calendar = calendar]
           /\ pc' = IF ValidAt(calendar, clock) THEN "plan" ELSE "refused"
    /\ UNCHANGED <<case, clock, rows, now, offers>>

\* The calendar must be valid at the handler's time and still at the clock's.
Plan ==
    /\ pc = "plan"
    /\ IF ValidAt(got.calendar, now) /\ ValidAt(got.calendar, clock)
       THEN /\ offers' = GenerateCandidates(got.rows, got.reserved, got.calendar)
            /\ pc' = "offered"
       ELSE pc' = "refused" /\ UNCHANGED offers
    /\ UNCHANGED <<case, clock, rows, now, got>>

-----------------------------------------------------------------------------
(* What a confirmation asks                                                *)

\* ValidateMeetingAvailability: the rows it touches are usable and cover it.
Covered(values, m, t) ==
    LET touched == {r \in values : Overlap(r, m)}
        cover(to, r) == IF r.start > to THEN to ELSE Max({to, r.end})
    IN  /\ \A r \in touched : ~Unusable(r, t)
        /\ FoldLeft(cover, m.start, Sorted(touched)) >= m.end

\* ConflictsWithMeeting
Unreserved(m) == \A r \in case.accepted : ~Overlap(r, m)

\* ValidateBusyIntervals
NotBusy(m, t) ==
    case.source.managed =>
        /\ Committed(case.source, t)
        /\ case.source.from <= m.start /\ m.end <= case.source.to
        /\ Cardinality(case.busy) <= EvidenceLimit
        /\ \A i \in case.busy : i.status # "free" => ~Overlap(i, m)

\* ConfirmableMeeting
InTime(m, t) == t < m.start /\ m.end <= case.deadline

Confirmable(values, m, t) == InTime(m, t) /\ Covered(values, m, t) /\ Unreserved(m) /\ NotBusy(m, t)

-----------------------------------------------------------------------------
(* Properties                                                              *)

Offered == {offers[i] : i \in DOMAIN offers}
Expired(m, t) ==
    \/ \E r \in got.rows : Overlap(r, m) /\ r.expires <= t
    \/ case.source.managed /\ t >= case.source.observed + SourceMaxAge

\* A meeting that is offered can be confirmed, until it begins or what was known when it
\* was offered expires, however often the rows are rebuilt meanwhile: the merged ranges,
\* the searches and the sweep let through nothing that the confirmation's loops refuse
\* (generateCandidates, ValidateMeetingAvailability, ValidateBusyIntervals).
OfferedIsConfirmable ==
    \A t \in Offered :
        LET m == Meeting(t) IN clock < t => Expired(m, clock) \/ Confirmable(rows, m, clock)

\* The quality of every instant of a meeting, and the unbroken time around it.
QualityAt(x) == Min({Quality(r) : r \in {r \in got.rows : r.start <= x /\ x < r.end}})
Open(x) == Covered(got.rows, [start |-> x, end |-> x + 1], now)
Around(m) ==
    LET times == UNION {{r.start, r.end} : r \in got.rows}
    IN  [start |-> Min({s \in times : s <= m.start /\ \A x \in s .. m.start : Open(x)}),
         end |-> Max({e \in times : e >= m.end /\ \A x \in m.start .. e - 1 : Open(x)})]
Score(t) ==
    LET m == Meeting(t)
    IN  Min({QualityAt(x) : x \in m.start .. m.end - 1}) + FragmentPenalty(Around(m), m)

\* The offers are the best of all starts a confirmation would accept, and the answer is
\* asynchronous only when there is none: nothing is lost where rows of different quality
\* touch, at the deadline, or next to a busy time (generateCandidates).
BestAreOffered ==
    pc = "offered" =>
        LET fit == {t \in 0 .. case.deadline : t % Step = 0 /\ Confirmable(got.rows, Meeting(t), now)}
            better(t, u) == Score(t) > Score(u) \/ (Score(t) = Score(u) /\ t < u)
        IN  /\ Cardinality(Offered) = Min({MaxOffers, Cardinality(fit)})
            /\ \A i \in DOMAIN offers :
                   /\ offers[i] \in fit
                   /\ Cardinality({t \in fit : better(t, offers[i])}) = i - 1
=============================================================================
