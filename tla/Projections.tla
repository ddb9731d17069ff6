---------------------------- MODULE Projections ----------------------------
(***************************************************************************)
(* What a user's calendar looks like to others: the rows computed from     *)
(* working hours, rules, private events and manual overrides, one for each *)
(* bucket of time, and the view a reader is given of them.                 *)
(*                                                                         *)
(* Publication models how rows are stored and gated, and only names the    *)
(* inputs they come from; this is the computation.  Settings and events    *)
(* stand still (a change of them hides the rows, says Publication), but    *)
(* overrides, rows and calendars expire while the clock goes on.           *)
(*                                                                         *)
(* Times are integers.  A state has four dimensions, each a place in the   *)
(* order of the code from 0, the most open, to 3, the most closed.         *)
(* Planning says how the clock goes on and who reads the rows.             *)
(***************************************************************************)
EXTENDS Integers, Sequences, FiniteSets, FiniteSetsExt, SequencesExt, Ordering

CONSTANTS
    BucketSize,
    ProjectionTTL,  \* how long a row counts
    SourceMaxAge,   \* how long a calendar synchronized from the provider counts
    None

Dimensions == {"availability", "interruptibility", "requestability", "reschedulability"}
OpenState == [d \in Dimensions |-> 0]
ClosedState == [d \in Dimensions |-> 3]

VARIABLES
    settings,   \* what the engine computes from: policy, overrides, events, calendar
    clock,      \* the time
    rows        \* the rows published last

-----------------------------------------------------------------------------
(* What is accepted as settings                                            *)

Overlap(r, s) == r.start < s.end /\ s.start < r.end

States == [Dimensions -> 0 .. 3]

ValidWindow(w) == {w.from, w.to} \subseteq Nat /\ w.from < w.to

ValidRule(rule) ==
    /\ rule.priority \in Nat
    /\ rule.type \in {"organization", "calendar", "event"}
    /\ rule.type = "event" => rule.of \in {"busy", "free"}
    /\ rule.state \in States

\* The windows of a day keep clear of each other.
ValidPolicy(policy) ==
    /\ policy.default \in States
    /\ \A w \in policy.windows :
           /\ ValidWindow(w)
           /\ \A v \in policy.windows \ {w} : v.day = w.day => v.to <= w.from \/ w.to <= v.from
    /\ policy.rules \in Seq(Range(policy.rules))
    /\ \A i \in DOMAIN policy.rules : ValidRule(policy.rules[i])

ValidOverride(o) ==
    /\ {o.id, o.start, o.end, o.created, o.expires} \subseteq Int
    /\ o.start < o.end /\ o.created < o.expires /\ o.state \in States

FloorBucket(t) == (t \div BucketSize) * BucketSize
CeilBucket(t) == IF FloorBucket(t) = t THEN t ELSE FloorBucket(t) + BucketSize

\* What the engine is run with: finitely much, each override once, and a wall clock that
\* is known over the whole window.
ValidSettings(s) ==
    /\ ValidPolicy(s)
    /\ IsFiniteSet(s.overrides) /\ \A o \in s.overrides : ValidOverride(o)
    /\ \A o, p \in s.overrides : o.id = p.id => o = p
    /\ IsFiniteSet(s.events) /\ \A e \in s.events : {e.start, e.end} \subseteq Int
    /\ {s.from, s.to, s.source.observed, s.source.from, s.source.to} \subseteq Int
    /\ s.source.managed \in BOOLEAN
    /\ \A x \in FloorBucket(s.from) .. CeilBucket(s.to) - 1 : s.zone[x].minute \in Nat

-----------------------------------------------------------------------------
(* The engine                                                              *)


\* Every instant of the bucket is inside some window on the wall clock of the zone,
\* whatever the wall clock says at the bucket's end.
InsideWorkingHours(bucket) ==
    \A t \in bucket.start .. bucket.end - 1 :
        LET wall == settings.zone[t]
        IN  \E w \in settings.windows : w.day = wall.day /\ w.from <= wall.minute /\ wall.minute < w.to

RuleRank(rule, event) ==
    CASE rule.type = "organization" -> 1
      [] rule.type = "calendar" /\ rule.of = event.calendar -> 2
      [] rule.type = "event" /\ rule.of = event.status -> 3
      [] OTHER -> 0

FallbackState(event) == IF event.status = "free" THEN OpenState ELSE ClosedState

\* The rules in their order: a rule replaces one of a lower rank, or of the same rank and
\* no higher priority.
StateForEvent(event) ==
    LET better(best, rule) ==
            LET rank == RuleRank(rule, event)
            IN  IF /\ rule.enabled /\ rank > 0
                   /\ rank > best.rank \/ (rank = best.rank /\ rule.priority >= best.priority)
                THEN [state |-> rule.state, rank |-> rank, priority |-> rule.priority]
                ELSE best
    IN  FoldLeft(better, [state |-> FallbackState(event), rank |-> -1, priority |-> -1], settings.rules).state

Restrictive(a, b) == [d \in Dimensions |-> Max({a[d], b[d]})]

BaseState(bucket) ==
    IF InsideWorkingHours(bucket)
    THEN FoldSet(LAMBDA e, state : Restrictive(state, StateForEvent(e)), settings.default,
                 {e \in settings.events : Overlap(e, bucket)})
    ELSE ClosedState

Older(a, b) == a.created < b.created \/ (a.created = b.created /\ a.id < b.id)

\* ListActiveOverrides, oldest first.
ActiveOverrides(t) ==
    LET active == {o \in settings.overrides : o.end > t /\ o.expires > t}
    IN  InOrder(active, {p \in active \X active : Older(p[1], p[2])})

\* Mutant of Participates: the override that is replaced by a newer one lets the row live.
ParticipatesAlone(row, o) == [row EXCEPT !.state = o.state]

\* An override decides the state, and the row expires with any that took part.
Participates(row, o) ==
    [row EXCEPT !.state = o.state, !.expires = Min({@, o.expires})]

ResponseBucket(state) == IF state.requestability <= 1 THEN "within_window" ELSE "unknown"

Generate(t) ==
    LET buckets == {b \in FloorBucket(settings.from) .. CeilBucket(settings.to) - 1 : b % BucketSize = 0}
        base(b) == [start |-> b, end |-> b + BucketSize, generated |-> t, expires |-> t + ProjectionTTL,
                    state |-> BaseState([start |-> b, end |-> b + BucketSize])]
        apply(row, o) == IF Overlap(o, row) THEN Participates(row, o) ELSE row
    IN  {FoldLeft(apply, base(b), ActiveOverrides(t)) : b \in buckets}

\* BoundToSource: nothing beyond the window of the calendar, nor beyond its age.
BoundToSource(values) ==
    IF ~settings.source.managed THEN values
    ELSE {[r EXCEPT !.expires = Min({@, settings.source.observed + SourceMaxAge})] :
             r \in {r \in values : settings.source.from <= r.start /\ r.end <= settings.source.to}}

-----------------------------------------------------------------------------
(* The view                                                                *)

\* Projection.list, from the handler's window.
List(t) == BoundToSource({r \in rows : r.expires > t /\ Overlap(r, [start |-> settings.from, end |-> settings.to])})

Segment(row) ==
    [start |-> row.start, end |-> row.end, state |-> row.state, response |-> ResponseBucket(row.state)]

\* Mutant of Joins: segments of one state are joined over a gap.
JoinsOverGap(segment, next) ==
    segment.state = next.state /\ segment.response = next.response

Joins(segment, next) ==
    /\ segment.end = next.start
    /\ segment.state = next.state /\ segment.response = next.response

\* NewView: rows that follow each other in one state are one segment.
NewView(values) ==
    LET ordered == InOrder(values, {p \in values \X values : p[1].start < p[2].start})
        add(segments, row) ==
            LET next == Segment(row)
            IN  IF segments # <<>> /\ Joins(Last(segments), next)
                THEN Append(Front(segments), [Last(segments) EXCEPT !.end = next.end])
                ELSE Append(segments, next)
    IN  FoldLeft(add, <<>>, ordered)

-----------------------------------------------------------------------------

\* Rebuild, while the calendar it is computed from is fresh.
Rebuild ==
    /\ settings # None
    /\ settings.source.managed => clock < settings.source.observed + SourceMaxAge
    /\ rows' = BoundToSource(Generate(clock))
    /\ UNCHANGED <<settings, clock>>

-----------------------------------------------------------------------------
(* Properties                                                              *)

\* What the settings say of a bucket at a time: the newest override in force, else
\* closed outside working hours, else the most closed of the default and of what the
\* foremost rule makes of each event.
Foremost(event) ==
    LET apply == {i \in DOMAIN settings.rules : settings.rules[i].enabled /\ RuleRank(settings.rules[i], event) > 0}
        before(i, j) ==
            LET ri == RuleRank(settings.rules[i], event)
                rj == RuleRank(settings.rules[j], event)
                pi == settings.rules[i].priority
                pj == settings.rules[j].priority
            IN  ri < rj \/ (ri = rj /\ (pi < pj \/ (pi = pj /\ i < j)))
    IN  IF apply = {} THEN FallbackState(event)
        ELSE settings.rules[CHOOSE j \in apply : \A i \in apply \ {j} : before(i, j)].state

Meaning(bucket, t) ==
    LET inForce == {o \in settings.overrides : o.expires > t /\ Overlap(o, bucket)}
        newer(o, p) == p.created < o.created \/ (p.created = o.created /\ p.id < o.id)
        states == {settings.default} \cup {Foremost(e) : e \in {e \in settings.events : Overlap(e, bucket)}}
    IN  IF inForce # {} THEN (CHOOSE o \in inForce : \A p \in inForce \ {o} : newer(o, p)).state
        ELSE IF \E x \in bucket.start .. bucket.end - 1 :
                    \A w \in settings.windows :
                        w.day # settings.zone[x].day \/ settings.zone[x].minute \notin w.from .. w.to - 1
             THEN ClosedState
             ELSE [d \in Dimensions |-> Max({s[d] : s \in states})]

\* A row that has neither expired nor begun says what the settings say at this time, not
\* only when it was computed: no override it rests on is over, and the calendar it rests
\* on is not too old (Engine.Generate, stateForEvent, BoundToSource).
RowsStayTrue ==
    settings # None => \A r \in rows : r.start >= clock /\ clock < r.expires =>
        /\ r.state = Meaning(r, clock)
        /\ settings.source.managed => clock < settings.source.observed + SourceMaxAge

\* The view shows at every instant what the row there says, shows nothing where no row
\* counts, and where one segment ends and another begins there is a change to show
\* (NewView, canMerge): how a stretch of time is cut into rows or events stays unseen.
ViewShowsRows ==
    settings # None =>
    LET view == NewView(List(clock))
        listed == {r \in rows : r.expires > clock}
        at(S, x) == {s \in S : s.start <= x /\ x < s.end}
    IN  /\ \A x \in FloorBucket(settings.from) .. CeilBucket(settings.to) - 1 :
               {s.state : s \in at(Range(view), x)} = {r.state : r \in at(listed, x)}
        /\ \A i \in 1 .. Len(view) - 1 :
               /\ view[i].end <= view[i + 1].start
               /\ view[i].end = view[i + 1].start => view[i].state # view[i + 1].state
=============================================================================
