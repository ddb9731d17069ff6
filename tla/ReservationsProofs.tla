------------------------- MODULE ReservationsProofs -------------------------
(***************************************************************************)
(* Proofs about the reservation ledger: what its rules guarantee people,   *)
(* whatever implements them.  Times are integers and the slack is not      *)
(* negative; nothing else is asked of the constants.                       *)
(***************************************************************************)
EXTENDS Reservations, TLAPS

\* Times are integers, the first of them zero.
LedgerTimes == Instant \subseteq Int /\ 0 \in Instant /\ Slack \in Nat

-----------------------------------------------------------------------------
\* A step of the ledger touches one slot, or the clock alone.
OnlySlot(x) == \A y \in Slot \ {x} : ledger'[y] = ledger[y]

\* The other slot of an interval that is free for these people is before or after it.
LEMMA FreeIsDisjoint ==
    ASSUME LedgerTimes, LedgerTypeOK, NEW x \in Slot, NEW y \in Slot \ {x}, NEW people,
           NEW start \in Instant, NEW end \in Instant, FreeFor(x, people, start, end),
           Booked(y), ledger[y].people \cap people # {}
    PROVE  end <= ledger[y].start \/ ledger[y].end <= start
<1>1. ledger[y].start \in Int /\ ledger[y].end \in Int /\ start \in Int /\ end \in Int
  BY DEF LedgerTimes, LedgerTypeOK, Entry
<1>2. ~(start < ledger[y].end /\ ledger[y].start < end)
  BY DEF FreeFor
<1> QED BY <1>1, <1>2

-----------------------------------------------------------------------------
(* The steps, seen from the one slot they write.                           *)

\* What a step may make of slot x: a fresh booking, a move, or an end.
BookedBy(x) ==
    /\ OnlySlot(x) /\ clock' = clock
    /\ Booked(x)' /\ Future(ledger'[x].start)
    /\ FreeFor(x, ledger'[x].people, ledger'[x].start, ledger'[x].end)

ReleasedBy(x) == OnlySlot(x) /\ clock' = clock /\ ledger'[x].state = "released"

FinishedBy(x) ==
    /\ OnlySlot(x) /\ clock' = clock /\ Booked(x) /\ ledger[x].end <= clock
    /\ ledger'[x].state = "finished" /\ ledger'[x].people = ledger[x].people
    /\ ledger'[x].start = ledger[x].start /\ ledger'[x].end = ledger[x].end

Passed == clock' \in Instant /\ clock' >= clock /\ ledger' = ledger

\* Each step of the ledger is one of those, and keeps its shape.
LEMMA LedgerStepCases ==
    ASSUME LedgerTimes, LedgerTypeOK, [LedgerNext]_ledgerVars
    PROVE  /\ LedgerTypeOK'
           /\ Passed \/ \E x \in Slot : BookedBy(x) \/ ReleasedBy(x) \/ FinishedBy(x)
<1>1. clock \in Int
  BY DEF LedgerTimes, LedgerTypeOK
<1>2. ASSUME NEW t \in Instant, ClockMoves(t) PROVE LedgerTypeOK' /\ Passed
  <2>1. t \in Int
    BY DEF LedgerTimes
  <2> QED BY <1>1, <1>2, <2>1 DEF ClockMoves, Passed, LedgerTypeOK
<1>3. ASSUME NEW x \in Slot, NEW start \in Instant, NEW end \in Instant,
             NEW people \in SUBSET Person, Book(x, people, start, end)
      PROVE  LedgerTypeOK' /\ BookedBy(x)
  <2>1. PICK e \in Entry : /\ e = [state |-> "booked", people |-> people, start |-> start, end |-> end]
                           /\ ledger' = [ledger EXCEPT ![x] = e]
    BY <1>3 DEF Book, Entry
  <2>2. ledger'[x] = e /\ OnlySlot(x) /\ LedgerTypeOK'
    BY <1>3, <2>1 DEF LedgerTypeOK, OnlySlot, Book
  <2> QED BY <1>3, <2>1, <2>2 DEF Book, BookedBy, Booked
<1>4. ASSUME NEW x \in Slot, NEW start \in Instant, NEW end \in Instant, Move(x, start, end)
      PROVE  LedgerTypeOK' /\ BookedBy(x)
  <2>1. PICK e, half : /\ half = [ledger[x] EXCEPT !.start = start]
                       /\ e = [half EXCEPT !.end = end]
    OBVIOUS
  <2>2. ledger[x] \in Entry /\ x \in DOMAIN ledger
    BY DEF LedgerTypeOK
  <2>3. half \in Entry /\ half.state = ledger[x].state /\ half.people = ledger[x].people /\ half.start = start
    BY <2>1, <2>2 DEF Entry
  <2>4. e \in Entry /\ e.state = "booked" /\ e.people = ledger[x].people /\ e.start = start /\ e.end = end
    BY <1>4, <2>1, <2>3 DEF Entry, Move, Booked
  <2>5. ledger' = [ledger EXCEPT ![x] = e]
    <3>1. PICK step : step = [ledger EXCEPT ![x] = half]
      OBVIOUS
    <3>2. step[x] = half /\ DOMAIN step = DOMAIN ledger
      BY <2>2, <3>1
    <3>3. ledger' = [step EXCEPT ![x] = e]
      BY <1>4, <2>1, <3>1, <3>2 DEF Move
    <3> QED BY <3>1, <3>3
  <2>6. ledger'[x] = e /\ OnlySlot(x) /\ LedgerTypeOK'
    BY <1>4, <2>4, <2>5 DEF LedgerTypeOK, OnlySlot, Move
  <2> QED BY <1>4, <2>4, <2>6 DEF Move, BookedBy, Booked
<1>5. ASSUME NEW x \in Slot, Release(x) PROVE LedgerTypeOK' /\ ReleasedBy(x)
  BY <1>5 DEF Release, LedgerTypeOK, Entry, ReleasedBy, OnlySlot
<1>6. ASSUME NEW x \in Slot, Finish(x) PROVE LedgerTypeOK' /\ FinishedBy(x)
  BY <1>6 DEF Finish, LedgerTypeOK, Entry, FinishedBy, OnlySlot
<1>7. CASE UNCHANGED ledgerVars
  BY <1>1, <1>7 DEF ledgerVars, LedgerTypeOK, Passed
<1> QED BY <1>2, <1>3, <1>4, <1>5, <1>6, <1>7 DEF LedgerNext

-----------------------------------------------------------------------------
\* Every entry has its declared shape.
THEOREM LedgerKeepsShape == LedgerTimes => (LedgerSpec => []LedgerTypeOK)
<1> SUFFICES ASSUME LedgerTimes PROVE LedgerSpec => []LedgerTypeOK
  OBVIOUS
<1>1. LedgerInit => LedgerTypeOK
  BY DEF LedgerInit, LedgerTypeOK, LedgerTimes, Unbooked, Entry
<1>2. LedgerTypeOK /\ [LedgerNext]_ledgerVars => LedgerTypeOK'
  BY LedgerStepCases
<1> QED BY <1>1, <1>2, PTL DEF LedgerSpec

-----------------------------------------------------------------------------
(* What two slots that share a person keep from each other.                *)

Share(x, y) == ledger[x].people \cap ledger[y].people # {}

Before(x, y) == ledger[x].end <= ledger[y].start

\* An end that the clock had not passed by more than the slack.
Nearly(x, y) == Before(x, y) \/ ledger[x].end < ledger[y].start + Slack

BookedApart(x, y) == (Booked(x) /\ Booked(y) /\ Share(x, y)) => Before(x, y) \/ Before(y, x)

Taken(x) == ledger[x].state \in {"booked", "finished"}

TakenApart(x, y) == (Taken(x) /\ Taken(y) /\ Share(x, y)) => Nearly(x, y) \/ Nearly(y, x)

Ended(x) == ledger[x].state = "finished" => ledger[x].end <= clock

\* The inductive invariant: booked slots are apart, so that finishing one of
\* them changes nothing, and a finished slot has ended, so that one booked
\* after it starts no earlier than a slow clock allows.
LedgerSound ==
    /\ \A x \in Slot : Ended(x)
    /\ \A x \in Slot : \A y \in Slot \ {x} : BookedApart(x, y) /\ TakenApart(x, y)

\* What is free of y is apart from y, whoever asks first.
LEMMA BookingKeepsApart ==
    ASSUME LedgerTimes, LedgerTypeOK, LedgerTypeOK', LedgerSound, NEW x \in Slot, BookedBy(x),
           NEW y \in Slot \ {x}
    PROVE  /\ BookedApart(x, y)' /\ BookedApart(y, x)'
           /\ TakenApart(x, y)' /\ TakenApart(y, x)'
<1>1. ledger'[y] = ledger[y] /\ clock' = clock
  BY DEF BookedBy, OnlySlot
<1>2. /\ ledger'[x].start \in Instant /\ ledger'[x].end \in Instant
      /\ ledger[y].start \in Int /\ ledger[y].end \in Int /\ clock \in Int /\ Slack \in Int
      /\ ledger'[x].start \in Int /\ ledger'[x].end \in Int
  <2>1. ledger[y] \in Entry /\ ledger'[x] \in Entry /\ clock \in Instant
    BY DEF LedgerTypeOK
  <2>2. ledger'[x].start \in Instant /\ ledger'[x].end \in Instant
    BY <2>1 DEF Entry
  <2>3. ledger[y].start \in Instant /\ ledger[y].end \in Instant
    BY <2>1 DEF Entry
  <2>4. Slack \in Int /\ \A t \in Instant : t \in Int
    BY DEF LedgerTimes
  <2> QED BY <2>1, <2>2, <2>3, <2>4, Zenon
<1>3. ASSUME Booked(y), ledger[y].people \cap ledger'[x].people # {}
      PROVE  ledger'[x].end <= ledger[y].start \/ ledger[y].end <= ledger'[x].start
  <2>1. PICK people, start, end : people = ledger'[x].people /\ start = ledger'[x].start /\ end = ledger'[x].end
    OBVIOUS
  <2>2. FreeFor(x, people, start, end) /\ start \in Instant /\ end \in Instant
    BY <1>2, <2>1 DEF BookedBy
  <2> QED BY <1>3, <2>1, <2>2, FreeIsDisjoint
<1>4. ASSUME ledger[y].state = "finished" PROVE ledger[y].end < ledger'[x].start + Slack
  <2>1. ledger[y].end <= clock
    BY <1>4 DEF LedgerSound, Ended
  <2>2. clock < ledger'[x].start + Slack
    BY <1>2 DEF BookedBy, Future
  <2> QED BY <1>2, <2>1, <2>2
<1>5. BookedApart(x, y)' /\ BookedApart(y, x)'
  BY <1>1, <1>3 DEF BookedApart, Booked, Share, Before
<1>6. TakenApart(x, y)' /\ TakenApart(y, x)'
  BY <1>1, <1>3, <1>4 DEF TakenApart, Taken, Booked, Share, Before, Nearly
<1> QED BY <1>5, <1>6

\* Ending a slot, or the clock, brings nobody's slots together.
LEMMA EndingKeepsApart ==
    ASSUME LedgerSound, NEW x \in Slot, NEW y \in Slot \ {x},
           NEW z \in Slot, ReleasedBy(z) \/ FinishedBy(z)
    PROVE  BookedApart(x, y)' /\ TakenApart(x, y)'
<1>1. CASE z \notin {x, y}
  BY <1>1 DEF ReleasedBy, FinishedBy, OnlySlot, LedgerSound, BookedApart, TakenApart, Booked,
              Taken, Share, Before, Nearly
<1>2. CASE z \in {x, y} /\ ReleasedBy(z)
  <2>1. ~Booked(z)' /\ ~Taken(z)'
    BY <1>2 DEF ReleasedBy, Booked, Taken
  <2> QED BY <1>2, <2>1 DEF BookedApart, TakenApart
<1>3. CASE z \in {x, y} /\ FinishedBy(z)
  <2>1. /\ \A w \in {x, y} : /\ ledger'[w].people = ledger[w].people
                             /\ ledger'[w].start = ledger[w].start /\ ledger'[w].end = ledger[w].end
                             /\ Taken(w)' => Taken(w)
        /\ ~Booked(z)'
    BY <1>3 DEF FinishedBy, OnlySlot, Taken, Booked
  <2>2. BookedApart(x, y)'
    BY <1>3, <2>1 DEF BookedApart
  <2>3. TakenApart(x, y)'
    BY <2>1 DEF LedgerSound, TakenApart, Share, Before, Nearly
  <2> QED BY <2>2, <2>3
<1> QED BY <1>1, <1>2, <1>3

LEMMA StepKeepsLedgerSound ==
    ASSUME LedgerTimes, LedgerTypeOK, LedgerSound, [LedgerNext]_ledgerVars
    PROVE  LedgerSound'
<1>1. LedgerTypeOK'
  BY LedgerStepCases
<1>2. CASE Passed
  <2>1. clock \in Int /\ clock' \in Int /\ \A x \in Slot : ledger[x].end \in Int
    BY <1>2 DEF LedgerTimes, LedgerTypeOK, Passed, Entry
  <2>2. ASSUME NEW x \in Slot PROVE Ended(x)'
    BY <1>2, <2>1 DEF Passed, LedgerSound, Ended
  <2>3. ASSUME NEW x \in Slot, NEW y \in Slot \ {x} PROVE BookedApart(x, y)' /\ TakenApart(x, y)'
    BY <1>2 DEF Passed, LedgerSound, BookedApart, TakenApart, Booked, Taken, Share, Before, Nearly
  <2> QED BY <2>2, <2>3 DEF LedgerSound
<1>3. ASSUME NEW z \in Slot, BookedBy(z) PROVE LedgerSound'
  <2>1. ASSUME NEW x \in Slot PROVE Ended(x)'
    BY <1>3 DEF BookedBy, OnlySlot, LedgerSound, Ended, Booked
  <2>2. ASSUME NEW x \in Slot, NEW y \in Slot \ {x} PROVE BookedApart(x, y)' /\ TakenApart(x, y)'
    <3>1. CASE z = x
      BY <1>1, <1>3, <3>1, BookingKeepsApart
    <3>2. CASE z = y
      <4>1. x \in Slot \ {z}
        BY <3>2
      <4>2. BookedApart(x, z)' /\ TakenApart(x, z)'
        BY <1>1, <1>3, <4>1, BookingKeepsApart
      <4> QED BY <3>2, <4>2
    <3>3. CASE z # x /\ z # y
      BY <1>3, <3>3 DEF BookedBy, OnlySlot, LedgerSound, BookedApart, TakenApart, Booked,
                        Taken, Share, Before, Nearly
    <3> QED BY <3>1, <3>2, <3>3
  <2> QED BY <2>1, <2>2 DEF LedgerSound
<1>4. ASSUME NEW z \in Slot, ReleasedBy(z) \/ FinishedBy(z) PROVE LedgerSound'
  <2>1. ASSUME NEW x \in Slot PROVE Ended(x)'
    BY <1>4 DEF ReleasedBy, FinishedBy, OnlySlot, LedgerSound, Ended
  <2>2. ASSUME NEW x \in Slot, NEW y \in Slot \ {x} PROVE BookedApart(x, y)' /\ TakenApart(x, y)'
    BY <1>4, EndingKeepsApart
  <2> QED BY <2>1, <2>2 DEF LedgerSound
<1> QED BY <1>2, <1>3, <1>4, LedgerStepCases

LEMMA LedgerStaysSound == LedgerTimes => (LedgerSpec => [](LedgerTypeOK /\ LedgerSound))
<1> SUFFICES ASSUME LedgerTimes PROVE LedgerSpec => [](LedgerTypeOK /\ LedgerSound)
  OBVIOUS
<1>1. LedgerInit => LedgerSound
  BY DEF LedgerInit, LedgerSound, Unbooked, Ended, BookedApart, TakenApart, Booked, Taken
<1>2. LedgerTypeOK /\ LedgerSound /\ [LedgerNext]_ledgerVars => LedgerSound'
  BY StepKeepsLedgerSound
<1>3. LedgerSpec => []LedgerTypeOK
  BY LedgerKeepsShape
<1> QED BY <1>1, <1>2, <1>3, PTL DEF LedgerSpec

\* Whoever keeps the ledger's rules books nobody twice.
THEOREM NobodyIsTwice == LedgerTimes => (LedgerSpec => []NobodyTwice)
<1> SUFFICES ASSUME LedgerTimes PROVE LedgerSpec => []NobodyTwice
  OBVIOUS
<1>1. LedgerSound => NobodyTwice
  BY DEF LedgerSound, NobodyTwice, BookedApart, Share, Before
<1>2. LedgerSpec => [](LedgerTypeOK /\ LedgerSound)
  BY LedgerStaysSound
<1> QED BY <1>1, <1>2, PTL

\* Nor does a finished slot run into a later one, but for the slack: what a
\* team may tell people from the ledger's rules alone.
THEOREM NobodyWasTwice == LedgerTimes => (LedgerSpec => []NobodyEverTwice)
<1> SUFFICES ASSUME LedgerTimes PROVE LedgerSpec => []NobodyEverTwice
  OBVIOUS
<1>1. LedgerSound => NobodyEverTwice
  <2> SUFFICES ASSUME LedgerSound, NEW x \in Slot, NEW y \in Slot, x # y,
                      {ledger[x].state, ledger[y].state} \subseteq {"booked", "finished"},
                      ledger[x].people \cap ledger[y].people # {}
               PROVE  Nearly(x, y) \/ Nearly(y, x)
    BY DEF NobodyEverTwice, Nearly, Before
  <2>1. Taken(x) /\ Taken(y) /\ Share(x, y)
    BY DEF Taken, Share
  <2> QED BY <2>1 DEF LedgerSound, TakenApart
<1>2. LedgerSpec => [](LedgerTypeOK /\ LedgerSound)
  BY LedgerStaysSound
<1> QED BY <1>1, <1>2, PTL

=============================================================================
