---------------------------- MODULE Reservations ----------------------------
(***************************************************************************)
(* What the coordination service promises about people's time, apart from *)
(* how requests are stored, negotiated and answered.  A slot is one        *)
(* meeting between people.  It is booked at most once, at a future time    *)
(* that is free for everyone in it; while booked it may move, whole and in *)
(* one step, as long as it has not started; it is released only before it  *)
(* starts, and finished only once it has ended.  Released and finished     *)
(* slots never come back.                                                  *)
(*                                                                         *)
(* Slack is how far the clock of whoever serves a command may lag behind   *)
(* the leading clock, which is the one the ledger shows.                   *)
(***************************************************************************)
EXTENDS Integers

CONSTANTS
    Slot,     \* the meetings there may be
    Person,
    Instant,  \* the times the clock, starts and ends take
    Slack

VARIABLES
    clock,    \* the leading clock
    ledger    \* [Slot -> Entry]

ledgerVars == <<clock, ledger>>

Unbooked == [state |-> "unbooked", people |-> {}, start |-> 0, end |-> 0]

Entry == [state : {"unbooked", "booked", "released", "finished"}, people : SUBSET Person,
          start : Instant, end : Instant]

Booked(x) == ledger[x].state = "booked"

\* The interval is free of every other booked slot of these people.
FreeFor(x, people, start, end) ==
    \A y \in Slot \ {x} :
        (Booked(y) /\ ledger[y].people \cap people # {}) =>
            ~(start < ledger[y].end /\ ledger[y].start < end)

\* A time some server still reads as the future.
Future(t) == t + Slack > clock

Book(x, people, start, end) ==
    /\ ledger[x] = Unbooked
    /\ Future(start) /\ start < end
    /\ FreeFor(x, people, start, end)
    /\ ledger' = [ledger EXCEPT ![x] = [state |-> "booked", people |-> people,
                                        start |-> start, end |-> end]]
    /\ UNCHANGED clock

Move(x, start, end) ==
    /\ Booked(x)
    /\ Future(ledger[x].start) /\ Future(start)
    /\ end - start = ledger[x].end - ledger[x].start
    /\ FreeFor(x, ledger[x].people, start, end)
    /\ ledger' = [ledger EXCEPT ![x].start = start, ![x].end = end]
    /\ UNCHANGED clock

Release(x) ==
    /\ Booked(x)
    /\ Future(ledger[x].start)
    /\ ledger' = [ledger EXCEPT ![x].state = "released"]
    /\ UNCHANGED clock

Finish(x) ==
    /\ Booked(x)
    /\ ledger[x].end <= clock
    /\ ledger' = [ledger EXCEPT ![x].state = "finished"]
    /\ UNCHANGED clock

ClockMoves(t) == t > clock /\ clock' = t /\ UNCHANGED ledger

LedgerInit == clock = 0 /\ ledger = [x \in Slot |-> Unbooked]

LedgerNext ==
    \/ \E t \in Instant : ClockMoves(t)
    \/ \E x \in Slot, start, end \in Instant :
          \/ \E people \in SUBSET Person : Book(x, people, start, end)
          \/ Move(x, start, end)
    \/ \E x \in Slot : Release(x) \/ Finish(x)

LedgerSpec == LedgerInit /\ [][LedgerNext]_ledgerVars

-----------------------------------------------------------------------------
LedgerTypeOK == clock \in Instant /\ ledger \in [Slot -> Entry]

\* Nobody is in two booked slots at once.
NobodyTwice ==
    \A x, y \in Slot :
        (x # y /\ Booked(x) /\ Booked(y) /\ ledger[x].people \cap ledger[y].people # {}) =>
            (ledger[x].end <= ledger[y].start \/ ledger[y].end <= ledger[x].start)

\* Nor was anybody, but for less than the slack: finished slots count too.
NobodyEverTwice ==
    \A x, y \in Slot :
        (/\ x # y /\ {ledger[x].state, ledger[y].state} \subseteq {"booked", "finished"}
         /\ ledger[x].people \cap ledger[y].people # {}) =>
            \/ ledger[x].end <= ledger[y].start \/ ledger[x].end < ledger[y].start + Slack
            \/ ledger[y].end <= ledger[x].start \/ ledger[y].end < ledger[x].start + Slack
=============================================================================
