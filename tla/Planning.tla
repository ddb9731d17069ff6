------------------------------ MODULE Planning ------------------------------
(***************************************************************************)
(* A target whose rows are rebuilt from time to time (Projections), and a  *)
(* handler that plans a meeting from them (Candidates), on one clock.      *)
(*                                                                         *)
(* Where a case has no settings its rows are given instead: rows of any    *)
(* shape, which the planner must cope with as the engine's.                *)
(***************************************************************************)
EXTENDS Candidates

CONSTANTS
    Cases,          \* requests, with the settings or the rows of their target
    ProjectionTTL,  \* how long a row counts
    None

ASSUME PlanningAssumption == ProjectionTTL \in Nat \ {0}

VARIABLE settings   \* the target's settings and events, or None

vars == <<case, settings, clock, rows, handler>>

P == INSTANCE Projections WITH BucketSize <- Step

\* ScheduleProjection.Validate.  The engine's rows never overlap, and NewView refuses rows
\* that do; given ones may, if they expire together.
GivenRows(values) ==
    /\ IsFiniteSet(values)
    /\ values \subseteq [start : Int, end : Int, generated : Int, expires : Int, state : P!States]
    /\ \A r \in values : r.start < r.end /\ \A s \in values : Overlap(r, s) => r.expires = s.expires

\* A request of some length, ranges that end after they start, settings that Validate lets
\* in, and an engine that has not run yet.
ASSUME CasesAssumption ==
    \A c \in Cases :
        LET areRanges(S) == IsFiniteSet(S) /\ \A r \in S : {r.start, r.end} \subseteq Int /\ r.start < r.end
        IN  /\ c.clock \in Nat /\ c.duration \in Nat \ {0} /\ c.deadline \in Int
            /\ areRanges(c.accepted) /\ areRanges(c.busy)
            /\ {c.source.observed, c.source.from, c.source.to} \subseteq Int
            /\ {c.source.managed, c.source.committed} \subseteq BOOLEAN
            /\ c.settings = None => GivenRows(c.rows)
            /\ c.settings # None => P!ValidSettings(c.settings) /\ c.rows = {}

-----------------------------------------------------------------------------

Init ==
    /\ case \in Cases
    /\ settings = case.settings
    /\ rows = case.rows
    /\ clock = case.clock
    /\ InitHandler

Rebuild == P!Rebuild /\ UNCHANGED <<case, handler>>

Tick ==
    /\ clock < case.last
    /\ clock' = clock + 1
    /\ UNCHANGED <<case, settings, rows, handler>>

Next ==
    \/ Receive /\ UNCHANGED settings
    \/ ReadRows /\ UNCHANGED settings
    \/ ReadReservations /\ UNCHANGED settings
    \/ ReadCalendar /\ UNCHANGED settings
    \/ Plan /\ UNCHANGED settings
    \/ Rebuild
    \/ Tick

Spec == Init /\ [][Next]_vars

-----------------------------------------------------------------------------
(* Properties                                                              *)

RowsStayTrue == P!RowsStayTrue
ViewShowsRows == P!ViewShowsRows

\* Where a meeting is offered, the target's settings themselves say that requests are
\* welcome, at the time it is offered, not only the rows: it lies in working hours, and
\* over no event that closes the time, or an override in force opens it; and the requester
\* has nothing there (Rebuilder, generateCandidates, Allows).
OffersKeepClear ==
    pc = "offered" /\ settings # None =>
        \A t \in Offered :
            /\ \A b \in {P!FloorBucket(x) : x \in t .. t + case.duration - 1} :
                   LET state == P!Meaning([start |-> b, end |-> b + Step], now)
                   IN  state.requestability = 0 /\ state.availability <= 1
            /\ \A i \in case.busy : case.source.managed /\ i.status # "free" => ~Overlap(i, Meeting(t))
=============================================================================
