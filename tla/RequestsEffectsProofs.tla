----------------------- MODULE RequestsEffectsProofs ------------------------
(***************************************************************************)
(* Proofs about what a step of Requests leaves behind.                     *)
(*                                                                         *)
(* The time that requests hold: what a step does to a meeting (book it,    *)
(* move it, release it, finish it, or leave it), when it may, and that     *)
(* this is all the reservation ledger allows.                              *)
(*                                                                         *)
(* The notifications and audit events: that they tell the same story as    *)
(* the documents, and what follows for the ids they take, for retried      *)
(* commands and for who agreed to what.                                    *)
(***************************************************************************)
EXTENDS RequestsProofs

-----------------------------------------------------------------------------
(* What a step may do to the meeting of r, served at clock reading t.      *)

SameMeeting(r) ==
    /\ Live(r) /\ req'[r].target = req[r].target
    /\ req'[r].accepted = req[r].accepted
    /\ MeetingStart(r)' = MeetingStart(r) /\ MeetingEnd(r)' = MeetingEnd(r)

\* The document gets a time that is in the future, and that the calendars and
\* the reservations of both people leave free.
TakesFreeTime(r, t) ==
    /\ Live(r) /\ req'[r].target = req[r].target
    /\ req'[r].status = "accepted" /\ req'[r].accepted # None
    /\ MeetingStart(r)' > t
    /\ MeetingStart(r)'..(MeetingEnd(r)' - 1)
          \subseteq open[<<Requester[r], "requester">>] \cap open[<<req[r].target, "target">>]
    /\ \A q \in Request \ {r} :
          (Reserves(q) /\ Principals(q, req[q]) \cap Principals(r, req[r]) # {}) =>
              ~Overlap(MeetingStart(r)', MeetingEnd(r)', MeetingStart(q), MeetingEnd(q))

StaysUnbooked(r) ==
    /\ Live(r) => req[r].accepted = None
    /\ req'[r].accepted = None /\ req'[r].status \notin {"accepted", "completed"}

KeepsMeeting(r) == SameMeeting(r) /\ req[r].status = "accepted" /\ req'[r].status = "accepted"

BooksMeeting(r, t) == req[r].accepted = None /\ TakesFreeTime(r, t)

MovesMeeting(r, t) ==
    /\ req[r].status = "accepted" /\ MeetingStart(r) > t
    /\ req'[r].duration = req[r].duration
    /\ TakesFreeTime(r, t)

ReleasesMeeting(r, t) ==
    /\ SameMeeting(r) /\ req[r].status = "accepted" /\ req'[r].status = "cancelled"
    /\ MeetingStart(r) > t

FinishesMeeting(r, t) ==
    /\ SameMeeting(r) /\ req[r].status = "accepted" /\ req'[r].status = "completed"
    /\ MeetingEnd(r) <= t

MeetingChange(r, t) ==
    \/ StaysUnbooked(r)
    \/ KeepsMeeting(r)
    \/ BooksMeeting(r, t)
    \/ MovesMeeting(r, t)
    \/ ReleasesMeeting(r, t)
    \/ FinishesMeeting(r, t)

-----------------------------------------------------------------------------
(* Lemmas on documents.                                                    *)

\* The slot check leaves the time free in both calendars and of every
\* reservation of either person.
LEMMA SlotCheckFrees ==
    ASSUME NEW r \in Request, NEW d, NEW id, MeetingSlotFree(r, d, id)
    PROVE  /\ Instants(d, id) \subseteq open[<<Requester[r], "requester">>] \cap open[<<d.target, "target">>]
           /\ \A q \in Request \ {r} :
                (Reserves(q) /\ Principals(q, req[q]) \cap Principals(r, d) # {}) =>
                    ~Overlap(StartOf(d, id), EndOf(d, id), MeetingStart(q), MeetingEnd(q))
<1>1. ASSUME NEW q \in Request \ {r}, Reserves(q), Principals(q, req[q]) \cap Principals(r, d) # {}
      PROVE  ~Overlap(StartOf(d, id), EndOf(d, id), MeetingStart(q), MeetingEnd(q))
  <2>1. PICK u \in Principals(r, d) : u \in Principals(q, req[q])
    BY <1>1
  <2>2. q \in AsRequester(u) \cup AsTarget(u)
    BY <1>1, <2>1 DEF Principals, AsRequester, AsTarget
  <2> QED BY <2>1, <2>2 DEF MeetingSlotFree, MeetingStart, MeetingEnd
<1> QED BY <1>1 DEF MeetingSlotFree

\* The meeting of a document that holds one is typed, and takes some time.
LEMMA MeetingOfSound ==
    ASSUME NEW r \in Request, NEW d, IsDoc(d), SoundDoc(r, d), d.accepted # None
    PROVE  /\ StartOf(d, d.accepted) \in Time /\ EndOf(d, d.accepted) \in Time
           /\ StartOf(d, d.accepted) < EndOf(d, d.accepted)
           /\ EndOf(d, d.accepted) = StartOf(d, d.accepted) + d.duration
           /\ d.duration \in Nat
           /\ d.status \in {"accepted", "cancelled", "completed"}
<1>1. MeetingEvidence(d, d.accepted) /\ EndOf(d, d.accepted) <= d.deadline
  BY DEF SoundDoc
<1>2. /\ StartOf(d, d.accepted) \in Time /\ d.duration \in Nat \ {0} /\ d.deadline \in Time
      /\ EndOf(d, d.accepted) = StartOf(d, d.accepted) + d.duration
  BY <1>1, MeetingTyped
<1>3. d.status \in {"accepted", "cancelled", "completed"}
  BY DEF SoundDoc, IsDoc, Status
<1> HIDE DEF StartOf
<1> QED BY <1>1, <1>2, <1>3, BoundsAssumption DEF Time

\* The same, of the state.
LEMMA MeetingTimes ==
    ASSUME TypeOK, DocumentsSound, NEW r \in Request, Live(r), req[r].accepted # None
    PROVE  /\ MeetingStart(r) \in Time /\ MeetingEnd(r) \in Time
           /\ MeetingStart(r) \in Int /\ MeetingEnd(r) \in Int
           /\ MeetingStart(r) < MeetingEnd(r)
           /\ MeetingEnd(r) = MeetingStart(r) + req[r].duration
           /\ req[r].duration \in Nat
           /\ req[r].status \in {"accepted", "cancelled", "completed"}
<1>1. IsDoc(req[r]) /\ SoundDoc(r, req[r])
  BY DEF TypeOK, DocumentsSound, Live
<1> QED BY <1>1, MeetingOfSound DEF MeetingStart, MeetingEnd, Time

\* A document that holds a meeting, before and after a step that keeps its
\* terms, its acceptance and its options, holds the same one.
LEMMA TermsKeepMeeting ==
    ASSUME NEW r \in Request, Live(r), SameTerms(req[r], req'[r]),
           req'[r].accepted = req[r].accepted,
           req'[r].options[req[r].accepted] = req[r].options[req[r].accepted]
    PROVE  SameMeeting(r)
BY DEF SameTerms, SameMeeting, MeetingStart, MeetingEnd, StartOf, EndOf

\* A document that accepts a time that was checked takes free time.
LEMMA CheckedTimeIsFree ==
    ASSUME NEW r \in Request, NEW t, NEW id, Live(r), SameTerms(req[r], req'[r]),
           req'[r].status = "accepted", req'[r].accepted = id, id # None,
           req'[r].options = req[r].options,
           MeetingSlotFree(r, req[r], id), StartOf(req[r], id) > t
    PROVE  TakesFreeTime(r, t)
<1>1. MeetingStart(r)' = StartOf(req[r], id) /\ MeetingEnd(r)' = EndOf(req[r], id)
  BY DEF SameTerms, MeetingStart, MeetingEnd, StartOf, EndOf
<1>2. Instants(req[r], id) = MeetingStart(r)'..(MeetingEnd(r)' - 1)
  BY <1>1 DEF Instants
<1>3. MeetingStart(r)'..(MeetingEnd(r)' - 1)
          \subseteq open[<<Requester[r], "requester">>] \cap open[<<req[r].target, "target">>]
  BY <1>2, SlotCheckFrees
<1>4. ASSUME NEW q \in Request \ {r}, Reserves(q), Principals(q, req[q]) \cap Principals(r, req[r]) # {}
      PROVE  ~Overlap(MeetingStart(r)', MeetingEnd(r)', MeetingStart(q), MeetingEnd(q))
  <2>1. ~Overlap(StartOf(req[r], id), EndOf(req[r], id), MeetingStart(q), MeetingEnd(q))
    BY <1>4, SlotCheckFrees
  <2> QED BY <1>1, <2>1
<1>5. MeetingStart(r)' > t
  BY <1>1
<1>6. req'[r].target = req[r].target
  BY DEF SameTerms
<1> QED BY <1>3, <1>4, <1>5, <1>6 DEF TakesFreeTime

-----------------------------------------------------------------------------
(* The transactions, one by one.                                           *)

LEMMA NegotiationChange ==
    ASSUME TypeOK, DocumentsSound, NEW r \in Request, NEW t \in Reading, NEW u \in User,
           NegotiateTransaction(r, u, t)
    PROVE  OnlyWrites(r) /\ StaysUnbooked(r) /\ UNCHANGED <<now, open>>
<1> DEFINE d == req[r]
           e == req'[r]
<1>1. ASSUME NEW s \in Time, ProposeMeeting(r, u, t, s)
      PROVE  OnlyWrites(r) /\ StaysUnbooked(r) /\ UNCHANGED <<now, open>>
  <2>1. OnlyWrites(r) /\ Offered(d, e, OfferId(u, s), s) /\ UNCHANGED <<now, open>>
    BY <1>1, ProposeWrites, ReadingTyped DEF Records
  <2>2. d.status = "suggested" /\ d.accepted = None
    BY <1>1 DEF ProposeMeeting
  <2> QED BY <2>1, <2>2 DEF Offered, StaysUnbooked
<1>2. ASSUME NEW status \in {"async", "declined", "cancelled"}, Resolve(r, u, t, status)
      PROVE  OnlyWrites(r) /\ StaysUnbooked(r) /\ UNCHANGED <<now, open>>
  <2>1. OnlyWrites(r) /\ Closed(d, e, status) /\ UNCHANGED <<now, open>>
    BY <1>2, ResolveWrites, ReadingTyped DEF Records
  <2>2. d.accepted = None
    BY <1>2 DEF Resolve
  <2> QED BY <2>1, <2>2 DEF Closed, StaysUnbooked
<1>3. ASSUME NEW v \in User, NEW starts \in SUBSET Time, Handoff(r, u, t, v, starts)
      PROVE  OnlyWrites(r) /\ StaysUnbooked(r) /\ UNCHANGED <<now, open>>
  <2>1. OnlyWrites(r) /\ HandedOff(d, e, u, v, starts) /\ UNCHANGED <<now, open>>
    BY <1>3, HandoffWrites, ReadingTyped DEF Records
  <2>2. d.status = "suggested" /\ d.accepted = None
    BY <1>3 DEF Handoff
  <2> QED BY <2>1, <2>2 DEF HandedOff, StaysUnbooked
<1> QED BY <1>1, <1>2, <1>3 DEF NegotiateTransaction

\* A confirmation books a future time, a completion waits for the end and a
\* cancellation comes before the start.
LEMMA MeetingTransactionChange ==
    ASSUME TypeOK, DocumentsSound, NEW r \in Request, NEW t \in Reading, NEW u \in User,
           NEW id \in StoredIds(r), MeetingTransaction(r, u, t, id)
    PROVE  OnlyWrites(r) /\ MeetingChange(r, t) /\ UNCHANGED <<now, open>>
<1> DEFINE d == req[r]
           e == req'[r]
<1>1. CASE ConfirmMeeting(r, u, t, id)
  <2>1. Live(r) /\ IsDoc(d) /\ OnlyWrites(r) /\ Confirmed(d, e, id) /\ UNCHANGED <<now, open>>
    BY <1>1, ConfirmWrites, ReadingTyped DEF Records
  <2>2. /\ SoundDoc(r, d) /\ d.status = "suggested"
        /\ MeetingEvidence(d, id) /\ StartOf(d, id) > t /\ MeetingSlotFree(r, d, id)
    BY <1>1 DEF ConfirmMeeting, ConfirmableMeeting, DocumentsSound, Live
  <2>3. id # None /\ d.accepted = None
    BY <2>1, <2>2, MeetingTyped DEF SoundDoc
  <2>4. TakesFreeTime(r, t)
    BY <2>1, <2>2, <2>3, CheckedTimeIsFree DEF Confirmed
  <2> QED BY <2>1, <2>3, <2>4 DEF BooksMeeting, MeetingChange
<1>2. CASE Complete(r, u, t, id)
  <2>1. Live(r) /\ OnlyWrites(r) /\ Closed(d, e, "completed") /\ UNCHANGED <<now, open>>
    BY <1>2, CompleteWrites, ReadingTyped DEF Records
  <2>2. d.status = "accepted" /\ MeetingEnd(r) <= t
    BY <1>2 DEF Complete, Completable, MeetingEnd
  <2>3. SameMeeting(r)
    BY <2>1, TermsKeepMeeting DEF Closed
  <2> QED BY <2>1, <2>2, <2>3 DEF Closed, FinishesMeeting, MeetingChange
<1>3. CASE CancelConfirmed(r, u, t, id)
  <2>1. Live(r) /\ OnlyWrites(r) /\ Closed(d, e, "cancelled") /\ UNCHANGED <<now, open>>
    BY <1>3, CancelWrites, ReadingTyped DEF Records
  <2>2. d.status = "accepted" /\ MeetingStart(r) > t
    BY <1>3 DEF CancelConfirmed, Cancellable, MeetingStart
  <2>3. SameMeeting(r)
    BY <2>1, TermsKeepMeeting DEF Closed
  <2> QED BY <2>1, <2>2, <2>3 DEF Closed, ReleasesMeeting, MeetingChange
<1> QED BY <1>1, <1>2, <1>3 DEF MeetingTransaction

\* A proposal to move a meeting leaves it where it is until it is accepted,
\* which must come before the start.
LEMMA RescheduleChange ==
    ASSUME TypeOK, DocumentsSound, NEW r \in Request, NEW t \in Reading, NEW u \in User,
           NEW p \in ProposalId, NEW id \in StoredIds(r), RescheduleTransaction(r, u, t, id, p)
    PROVE  OnlyWrites(r) /\ MeetingChange(r, t) /\ UNCHANGED <<now, open>>
<1> DEFINE d == req[r]
           e == req'[r]
<1>1. ASSUME NEW s \in Time, ReschedulePropose(r, u, t, p, id, s)
      PROVE  OnlyWrites(r) /\ MeetingChange(r, t) /\ UNCHANGED <<now, open>>
  <2>1. Live(r) /\ OnlyWrites(r) /\ Proposed(d, e, u, p, id, s) /\ UNCHANGED <<now, open>>
    BY <1>1, RescheduleProposeWrites, ReadingTyped DEF Records
  <2>2. /\ d.status = "accepted" /\ p \notin Ids(d)
        /\ d.accepted \in Ids(d)
    BY <1>1 DEF ReschedulePropose, Cancellable, MeetingEvidence
  <2>3. e.options[d.accepted] = d.options[d.accepted]
    BY <2>1, <2>2 DEF Proposed, WithMeeting, Ids
  <2>4. SameMeeting(r)
    BY <2>1, <2>3, TermsKeepMeeting DEF Proposed
  <2> QED BY <2>1, <2>2, <2>4 DEF Proposed, KeepsMeeting, MeetingChange
<1>2. CASE RescheduleAccept(r, u, t, p, id)
  <2>1. Live(r) /\ IsDoc(d) /\ OnlyWrites(r) /\ Answered(d, e, p, "accepted") /\ UNCHANGED <<now, open>>
    BY <1>2, RescheduleAcceptWrites, ReadingTyped DEF Records
  <2>2. /\ d.status = "accepted" /\ MeetingStart(r) > t
        /\ MeetingEvidence(d, p) /\ StartOf(d, p) > t /\ MeetingSlotFree(r, d, p)
    BY <1>2 DEF RescheduleAccept, Answerable, Cancellable, ConfirmableMeeting, MeetingStart
  <2>3. p # None
    BY <2>1, <2>2, MeetingTyped
  <2>4. TakesFreeTime(r, t)
    BY <2>1, <2>2, <2>3, CheckedTimeIsFree DEF Answered
  <2> QED BY <2>1, <2>2, <2>4 DEF Answered, SameTerms, MovesMeeting, MeetingChange
<1>3. ASSUME NEW action \in {"decline", "withdraw"}, RescheduleRefuse(r, u, t, p, id, action)
      PROVE  OnlyWrites(r) /\ MeetingChange(r, t) /\ UNCHANGED <<now, open>>
  <2>1. /\ Live(r) /\ OnlyWrites(r) /\ Answered(d, e, d.accepted, Terminal(action))
        /\ UNCHANGED <<now, open>>
    BY <1>3, RescheduleRefuseWrites, ReadingTyped DEF Records
  <2>2. d.status = "accepted"
    BY <1>3 DEF RescheduleRefuse, Answerable
  <2>3. SameMeeting(r)
    BY <2>1, TermsKeepMeeting DEF Answered
  <2> QED BY <2>1, <2>2, <2>3 DEF Answered, KeepsMeeting, MeetingChange
<1> QED BY <1>1, <1>2, <1>3 DEF RescheduleTransaction

\* Every step leaves all meetings alone or changes one, in one of these ways.
LEMMA MeetingCases ==
    ASSUME TypeOK, DocumentsSound, [Next]_vars
    PROVE  \/ Idle
           \/ \E r \in Request, t \in Reading :
                 OnlyWrites(r) /\ MeetingChange(r, t) /\ UNCHANGED <<now, open>>
<1>1. ASSUME NEW r \in Request, NEW t \in Reading, NEW target \in User, NEW duration \in Durations,
             NEW deadline \in Deadlines, NEW starts \in SUBSET Time,
             Create(r, t, target, duration, deadline, starts)
      PROVE  OnlyWrites(r) /\ MeetingChange(r, t) /\ UNCHANGED <<now, open>>
  <2>1. ~Live(r) /\ OnlyWrites(r) /\ Opened(req'[r], target, starts) /\ UNCHANGED <<now, open>>
    BY <1>1, CreateWrites, ReadingTyped DEF Records
  <2> QED BY <2>1 DEF Opened, StaysUnbooked, MeetingChange
<1> QED BY <1>1, NegotiationChange, MeetingTransactionChange, RescheduleChange, StepCases
        DEF MeetingChange

-----------------------------------------------------------------------------
(* What follows for one step.                                              *)

\* The documents a step does not write hold what they held.
LEMMA OthersUnchanged ==
    ASSUME NEW r \in Request, OnlyWrites(r), NEW q \in Request \ {r}
    PROVE  /\ Live(q)' <=> Live(q)
           /\ Live(q) => /\ req'[q] = req[q]
                         /\ MeetingStart(q)' = MeetingStart(q)
                         /\ MeetingEnd(q)' = MeetingEnd(q)
BY DEF OnlyWrites, Live, MeetingStart, MeetingEnd

LEMMA IdleUnchanged ==
    ASSUME Idle, NEW q \in Request
    PROVE  /\ Live(q)' <=> Live(q)
           /\ req'[q] = req[q]
           /\ MeetingStart(q)' = MeetingStart(q)
           /\ MeetingEnd(q)' = MeetingEnd(q)
BY DEF Idle, Live, MeetingStart, MeetingEnd

LEMMA WrittenIsLive ==
    ASSUME NEW r \in Request, OnlyWrites(r)
    PROVE  Live(r)'
BY DEF OnlyWrites, Live

\* No step books or moves a meeting into a time that a calendar shows busy.
THEOREM BookedTimesAreFree == Spec => BookedOnlyWhenFree
<1>1. TypeOK /\ DocumentsSound /\ [Next]_vars => BooksFreeTime
  <2> SUFFICES ASSUME TypeOK, DocumentsSound, [Next]_vars,
                      NEW q \in Request, Reserves(q)', Reserves(q) => req'[q].accepted # req[q].accepted
               PROVE  MeetingStart(q)'..(MeetingEnd(q)' - 1)
                          \subseteq open[<<Requester[q], "requester">>]
                                     \cap open[<<req'[q].target, "target">>]
    BY DEF BooksFreeTime
  <2>1. CASE Idle
    BY <2>1, IdleUnchanged DEF Reserves
  <2>2. ASSUME NEW r \in Request, NEW t \in Reading, OnlyWrites(r), MeetingChange(r, t)
        PROVE  MeetingStart(q)'..(MeetingEnd(q)' - 1)
                   \subseteq open[<<Requester[q], "requester">>]
                              \cap open[<<req'[q].target, "target">>]
    <3>1. q = r
      BY <2>2, OthersUnchanged DEF Reserves
    <3>2. BooksMeeting(r, t) \/ MovesMeeting(r, t)
      BY <2>2, <3>1 DEF MeetingChange, StaysUnbooked, KeepsMeeting, ReleasesMeeting, FinishesMeeting,
                        SameMeeting, Reserves
    <3>3. TakesFreeTime(r, t)
      BY <3>2 DEF BooksMeeting, MovesMeeting
    <3> QED BY <3>1, <3>3 DEF TakesFreeTime
  <2> QED BY <2>1, <2>2, MeetingCases
<1> QED BY <1>1, TypeCorrect, DocumentsStaySound, PTL DEF Spec, BookedOnlyWhenFree

\* No step cancels or moves a meeting that has started by every clock.
THEOREM StartedMeetingsStay == Spec => StartedMeetingIsFixed
<1>1. TypeOK /\ DocumentsSound /\ [Next]_vars => KeepsStarted
  <2> SUFFICES ASSUME TypeOK, DocumentsSound, [Next]_vars,
                      NEW q \in Request, Reserves(q), MeetingStart(q) + Skew <= now
               PROVE  /\ Held(q)'
                      /\ req'[q].accepted = req[q].accepted
                      /\ MeetingStart(q)' = MeetingStart(q) /\ MeetingEnd(q)' = MeetingEnd(q)
    BY DEF KeepsStarted
  <2>1. CASE Idle
    BY <2>1, IdleUnchanged DEF Held, Reserves
  <2>2. ASSUME NEW r \in Request, NEW t \in Reading, OnlyWrites(r), MeetingChange(r, t)
        PROVE  /\ Held(q)'
               /\ req'[q].accepted = req[q].accepted
               /\ MeetingStart(q)' = MeetingStart(q) /\ MeetingEnd(q)' = MeetingEnd(q)
    <3>1. CASE q # r
      BY <2>2, <3>1, OthersUnchanged DEF Held, Reserves
    <3>2. CASE q = r
      <4>1. Live(r) /\ req[r].status = "accepted" /\ req[r].accepted # None
        BY <3>2 DEF Reserves, DocumentsSound, SoundDoc, Live
      <4>2. ~(MeetingStart(r) > t)
        BY <3>2, <4>1, MeetingTimes, ReadingTyped
      <4>3. KeepsMeeting(r) \/ FinishesMeeting(r, t)
        BY <2>2, <4>1, <4>2 DEF MeetingChange, StaysUnbooked, BooksMeeting, MovesMeeting, ReleasesMeeting
      <4>4. Live(r)'
        BY <2>2, WrittenIsLive
      <4> QED BY <3>2, <4>3, <4>4 DEF KeepsMeeting, FinishesMeeting, SameMeeting, Held
    <3> QED BY <3>1, <3>2
  <2> QED BY <2>1, <2>2, MeetingCases
<1> QED BY <1>1, TypeCorrect, DocumentsStaySound, PTL DEF Spec, StartedMeetingIsFixed

-----------------------------------------------------------------------------
(* Held meetings, the completed ones included, are apart.                  *)

Apart(q, r) ==
    \/ ~Overlap(MeetingStart(q), MeetingEnd(q), MeetingStart(r), MeetingEnd(r))
    \/ MeetingEnd(q) < MeetingStart(r) + Skew
    \/ MeetingEnd(r) < MeetingStart(q) + Skew

\* The document a step writes comes to be apart from any other: it was, and
\* has not moved, or its time was checked against the confirmed ones and is
\* in the future, when the completed ones are over.
LEMMA WrittenIsApart ==
    ASSUME TypeOK, DocumentsSound, HistoryDisjoint, NEW r \in Request, NEW t \in Reading,
           OnlyWrites(r), MeetingChange(r, t), DocumentsSound', TypeOK',
           NEW q \in Request \ {r}, Held(q)', Held(r)', Share(r, q)'
    PROVE  Apart(r, q)'
<1>1. /\ Held(q) /\ req'[q] = req[q]
      /\ MeetingStart(q)' = MeetingStart(q) /\ MeetingEnd(q)' = MeetingEnd(q)
  BY OthersUnchanged DEF Held
<1>2. CASE SameMeeting(r) /\ Held(r)
  <2>1. Share(r, q)
    BY <1>1, <1>2 DEF SameMeeting, Share, Principals
  <2>2. Apart(r, q)
    BY <1>1, <1>2, <2>1 DEF HistoryDisjoint, Apart
  <2> QED BY <1>1, <1>2, <2>2 DEF SameMeeting, Apart
<1>3. CASE TakesFreeTime(r, t)
  <2>1. Principals(r, req'[r]) = Principals(r, req[r])
    BY <1>3 DEF TakesFreeTime, Principals
  <2>2. Principals(q, req[q]) \cap Principals(r, req[r]) # {}
    BY <1>1, <2>1 DEF Share
  <2>3. CASE Reserves(q)
    <3>1. ~Overlap(MeetingStart(r)', MeetingEnd(r)', MeetingStart(q), MeetingEnd(q))
      BY <1>3, <2>2, <2>3 DEF TakesFreeTime
    <3> QED BY <1>1, <3>1 DEF Apart
  <2>4. CASE ~Reserves(q)
    <3>1. Live(q) /\ req[q].status = "completed"
      BY <1>1, <2>4 DEF Held, Reserves
    <3>2. MeetingEnd(q) <= now /\ req[q].accepted # None
      BY <3>1 DEF DocumentsSound, SoundDoc, Live
    <3>3. MeetingEnd(q) \in Int
      BY <3>1, <3>2, MeetingTimes
    <3>4. now <= t + Skew /\ now \in Int /\ t \in Int /\ Skew \in Int
      BY ReadingTyped
    <3>5. MeetingStart(r)' \in Int
      <4>1. Live(r)' /\ req'[r].accepted # None
        BY <1>3, WrittenIsLive DEF TakesFreeTime
      <4>2. IsDoc(req'[r]) /\ SoundDoc(r, req'[r])
        BY <4>1 DEF DocumentsSound, TypeOK, Live
      <4>3. StartOf(req'[r], req'[r].accepted) \in Time
        BY <4>1, <4>2, MeetingOfSound
      <4> QED BY <4>3 DEF MeetingStart, StartOf, Time
    <3>6. MeetingStart(r)' > t
      BY <1>3 DEF TakesFreeTime
    <3>7. MeetingEnd(q)' < MeetingStart(r)' + Skew
      BY <1>1, <3>2, <3>3, <3>4, <3>5, <3>6
    <3> QED BY <3>7 DEF Apart
  <2> QED BY <2>3, <2>4
<1>4. \/ SameMeeting(r) /\ Held(r)
      \/ TakesFreeTime(r, t)
  BY DEF MeetingChange, StaysUnbooked, KeepsMeeting, BooksMeeting, MovesMeeting, ReleasesMeeting,
         FinishesMeeting, SameMeeting, Held
<1> QED BY <1>2, <1>3, <1>4

\* Nobody was ever in two meetings at once, but for less than the servers'
\* clocks disagree.
THEOREM HistoryStaysDisjoint == Spec => []HistoryDisjoint
<1>1. Init => HistoryDisjoint
  BY DEF Init, HistoryDisjoint, Held, Live
<1>2. TypeOK /\ DocumentsSound /\ HistoryDisjoint /\ [Next]_vars => HistoryDisjoint'
  <2> SUFFICES ASSUME TypeOK, DocumentsSound, HistoryDisjoint, [Next]_vars,
                      NEW p \in Request, NEW q \in Request, p # q, Held(p)', Held(q)', Share(p, q)'
               PROVE  Apart(p, q)'
    BY DEF HistoryDisjoint, Apart
  <2>1. TypeOK' /\ DocumentsSound'
    BY TypeCorrectStep, StepKeepsSound
  <2>2. CASE Idle
    <3>1. Held(p) /\ Held(q) /\ Share(p, q)
      BY <2>2, IdleUnchanged DEF Held, Share
    <3>2. Apart(p, q)
      BY <3>1 DEF HistoryDisjoint, Apart
    <3> QED BY <2>2, <3>2, IdleUnchanged DEF Apart
  <2>3. ASSUME NEW r \in Request, NEW t \in Reading, OnlyWrites(r), MeetingChange(r, t)
        PROVE  Apart(p, q)'
    <3>1. CASE p = r
      BY <2>1, <2>3, <3>1, WrittenIsApart
    <3>2. CASE q = r
      <4>1. Share(q, p)'
        BY DEF Share
      <4>2. Apart(q, p)'
        BY <2>1, <2>3, <3>2, <4>1, WrittenIsApart
      <4> QED BY <4>2 DEF Apart, Overlap
    <3>3. CASE p # r /\ q # r
      <4>1. Held(p) /\ Held(q) /\ Share(p, q)
        BY <2>3, <3>3, OthersUnchanged DEF Held, Share
      <4>2. Apart(p, q)
        BY <4>1 DEF HistoryDisjoint, Apart
      <4> QED BY <2>3, <3>3, <4>1, <4>2, OthersUnchanged DEF Apart, Held
    <3> QED BY <3>1, <3>2, <3>3
  <2> QED BY <2>2, <2>3, MeetingCases
<1> QED BY <1>1, <1>2, TypeCorrect, DocumentsStaySound, PTL DEF Spec

-----------------------------------------------------------------------------
(* The requests implement the reservation ledger.                          *)

Entries == [r \in Request |-> LedgerEntry(r)]

\* The entry of a sound document that holds a meeting.
LEMMA EntryOfMeeting ==
    ASSUME NEW r \in Request, Live(r), req[r].accepted # None
    PROVE  LedgerEntry(r) = [state |-> LedgerState(req[r]), people |-> Principals(r, req[r]),
                             start |-> MeetingStart(r), end |-> MeetingEnd(r)]
BY DEF LedgerEntry

LEMMA EntryOfMeetingAfter ==
    ASSUME NEW r \in Request, Live(r)', req'[r].accepted # None
    PROVE  LedgerEntry(r)' = [state |-> LedgerState(req'[r]), people |-> Principals(r, req'[r]),
                              start |-> MeetingStart(r)', end |-> MeetingEnd(r)']
BY DEF LedgerEntry

LEMMA EntryUnbooked ==
    ASSUME NEW r \in Request, Live(r) => req[r].accepted = None
    PROVE  LedgerEntry(r) = Ledger!Unbooked
BY DEF LedgerEntry, Ledger!Unbooked

\* Only confirmed requests are booked in the ledger.
LEMMA BookedReserves ==
    ASSUME TypeOK, DocumentsSound, NEW r \in Request, LedgerEntry(r).state = "booked"
    PROVE  /\ Reserves(r) /\ req[r].accepted # None
           /\ LedgerEntry(r).people = Principals(r, req[r])
           /\ LedgerEntry(r).start = MeetingStart(r) /\ LedgerEntry(r).end = MeetingEnd(r)
<1>1. Live(r) /\ req[r].accepted # None
  BY DEF LedgerEntry
<1>2. LedgerEntry(r) = [state |-> LedgerState(req[r]), people |-> Principals(r, req[r]),
                        start |-> MeetingStart(r), end |-> MeetingEnd(r)]
  BY <1>1, EntryOfMeeting
<1>3. LedgerState(req[r]) = "booked"
  BY <1>2
<1>4. req[r].status \in {"accepted", "cancelled", "completed"}
  BY <1>1, MeetingTimes
<1>5. req[r].status = "accepted"
  BY <1>3, <1>4 DEF LedgerState
<1> QED BY <1>1, <1>2, <1>5 DEF Reserves

LEMMA OtherEntries ==
    ASSUME NEW r \in Request, OnlyWrites(r), NEW q \in Request \ {r}
    PROVE  LedgerEntry(q)' = LedgerEntry(q)
<1>1. /\ Live(q)' <=> Live(q)
      /\ Live(q) => /\ req'[q] = req[q]
                    /\ MeetingStart(q)' = MeetingStart(q)
                    /\ MeetingEnd(q)' = MeetingEnd(q)
  BY OthersUnchanged
<1>2. CASE ~Live(q)
  BY <1>1, <1>2 DEF LedgerEntry
<1>3. CASE Live(q)
  BY <1>1, <1>3 DEF LedgerEntry
<1> QED BY <1>2, <1>3

LEMMA EntriesWritten ==
    ASSUME NEW r \in Request, OnlyWrites(r)
    PROVE  Entries' = [Entries EXCEPT ![r] = LedgerEntry(r)']
<1>1. \A q \in Request \ {r} : LedgerEntry(q)' = LedgerEntry(q)
  BY OtherEntries
<1> QED BY <1>1 DEF Entries

\* The time taken is free of every other booked entry of the same people, and
\* still in the future for some server.
LEMMA TakenIsFreeInLedger ==
    ASSUME TypeOK, DocumentsSound, TypeOK', DocumentsSound', NEW r \in Request, NEW t \in Reading,
           OnlyWrites(r), TakesFreeTime(r, t)
    PROVE  /\ Ledger!FreeFor(r, Principals(r, req[r]), MeetingStart(r)', MeetingEnd(r)')
           /\ Ledger!Future(MeetingStart(r)')
           /\ MeetingStart(r)' \in Time /\ MeetingEnd(r)' \in Time
           /\ MeetingStart(r)' < MeetingEnd(r)'
           /\ MeetingEnd(r)' = MeetingStart(r)' + req'[r].duration
           /\ LedgerEntry(r)' = [state |-> "booked", people |-> Principals(r, req[r]),
                                 start |-> MeetingStart(r)', end |-> MeetingEnd(r)']
<1>1. Live(r)' /\ req'[r].accepted # None /\ req'[r].status = "accepted" /\ MeetingStart(r)' > t
  BY WrittenIsLive DEF TakesFreeTime
<1>2. IsDoc(req'[r]) /\ SoundDoc(r, req'[r])
  BY <1>1 DEF TypeOK, DocumentsSound, Live
<1>3. /\ MeetingStart(r)' \in Time /\ MeetingEnd(r)' \in Time
      /\ MeetingStart(r)' < MeetingEnd(r)'
      /\ MeetingEnd(r)' = MeetingStart(r)' + req'[r].duration
  BY <1>1, <1>2, MeetingOfSound DEF MeetingStart, MeetingEnd, StartOf, EndOf
<1>4. Principals(r, req'[r]) = Principals(r, req[r])
  BY DEF TakesFreeTime, Principals
<1>5. LedgerEntry(r)' = [state |-> "booked", people |-> Principals(r, req[r]),
                         start |-> MeetingStart(r)', end |-> MeetingEnd(r)']
  BY <1>1, <1>4, EntryOfMeetingAfter DEF LedgerState
<1>6. MeetingStart(r)' + Skew > now
  BY <1>1, <1>3, ReadingTyped DEF Time
<1>7. ASSUME NEW q \in Request \ {r}, LedgerEntry(q).state = "booked",
             LedgerEntry(q).people \cap Principals(r, req[r]) # {}
      PROVE  ~(MeetingStart(r)' < LedgerEntry(q).end /\ LedgerEntry(q).start < MeetingEnd(r)')
  <2>1. /\ Reserves(q) /\ LedgerEntry(q).people = Principals(q, req[q])
        /\ LedgerEntry(q).start = MeetingStart(q) /\ LedgerEntry(q).end = MeetingEnd(q)
    BY <1>7, BookedReserves
  <2>2. ~Overlap(MeetingStart(r)', MeetingEnd(r)', MeetingStart(q), MeetingEnd(q))
    BY <1>7, <2>1 DEF TakesFreeTime
  <2> QED BY <2>1, <2>2 DEF Overlap
<1>8. Ledger!FreeFor(r, Principals(r, req[r]), MeetingStart(r)', MeetingEnd(r)')
  BY <1>7 DEF Ledger!FreeFor, Ledger!Booked
<1>9. Ledger!Future(MeetingStart(r)')
  BY <1>6 DEF Ledger!Future
<1> QED BY <1>3, <1>5, <1>8, <1>9


\* A meeting that stays where it is keeps its entry, but for the state.
LEMMA SameMeetingEntry ==
    ASSUME TypeOK, DocumentsSound, NEW r \in Request, OnlyWrites(r),
           SameMeeting(r), req[r].status = "accepted"
    PROVE  /\ LedgerEntry(r) = [state |-> "booked", people |-> Principals(r, req[r]),
                                start |-> MeetingStart(r), end |-> MeetingEnd(r)]
           /\ LedgerEntry(r)' = [LedgerEntry(r) EXCEPT !.state = LedgerState(req'[r])]
           /\ MeetingStart(r) \in Time /\ MeetingEnd(r) \in Time
<1>1. Live(r) /\ Live(r)' /\ req[r].accepted # None /\ req'[r].accepted # None
  BY WrittenIsLive DEF SameMeeting, DocumentsSound, SoundDoc, Live
<1>2. LedgerEntry(r) = [state |-> "booked", people |-> Principals(r, req[r]),
                        start |-> MeetingStart(r), end |-> MeetingEnd(r)]
  BY <1>1, EntryOfMeeting DEF LedgerState
<1>3. Principals(r, req'[r]) = Principals(r, req[r])
  BY DEF SameMeeting, Principals
<1>4. LedgerEntry(r)' = [state |-> LedgerState(req'[r]), people |-> Principals(r, req[r]),
                         start |-> MeetingStart(r), end |-> MeetingEnd(r)]
  BY <1>1, <1>3, EntryOfMeetingAfter DEF SameMeeting
<1>5. LedgerEntry(r)' = [LedgerEntry(r) EXCEPT !.state = LedgerState(req'[r])]
  BY <1>2, <1>4
<1> QED BY <1>1, <1>2, <1>5, MeetingTimes

\* Two fields of one entry change together.
LEMMA MoveOneEntry ==
    ASSUME NEW f, NEW r \in DOMAIN f, NEW start, NEW end
    PROVE  [f EXCEPT ![r].start = start, ![r].end = end] =
           [f EXCEPT ![r] = [f[r] EXCEPT !.start = start, !.end = end]]
OBVIOUS

\* A change of one meeting is the ledger's action of that name, or nothing.
LEMMA ChangeIsLedgerStep ==
    ASSUME TypeOK, DocumentsSound, TypeOK', DocumentsSound', NEW r \in Request, NEW t \in Reading,
           OnlyWrites(r), MeetingChange(r, t), UNCHANGED now
    PROVE  Ledger!LedgerNext \/ UNCHANGED <<now, Entries>>
<1> DEFINE start == MeetingStart(r)'
           end == MeetingEnd(r)'
           people == Principals(r, req[r])
<1>1. Entries' = [Entries EXCEPT ![r] = LedgerEntry(r)'] /\ Entries[r] = LedgerEntry(r)
  BY EntriesWritten DEF Entries
<1>2. t \in Int /\ now \in Int /\ Skew \in Int /\ t <= now /\ now <= t + Skew
  BY ReadingTyped
<1>3. ASSUME LedgerEntry(r)' = LedgerEntry(r) PROVE UNCHANGED <<now, Entries>>
  BY <1>1, <1>3 DEF Entries
<1>4. CASE StaysUnbooked(r)
  <2>1. LedgerEntry(r) = Ledger!Unbooked
    BY <1>4, EntryUnbooked DEF StaysUnbooked
  <2>2. LedgerEntry(r)' = Ledger!Unbooked
    BY <1>4 DEF StaysUnbooked, LedgerEntry, Ledger!Unbooked
  <2> QED BY <1>3, <2>1, <2>2
<1>5. CASE KeepsMeeting(r)
  <2>1. LedgerEntry(r)' = LedgerEntry(r)
    BY <1>5, SameMeetingEntry DEF KeepsMeeting, LedgerState
  <2> QED BY <1>3, <2>1
<1>6. CASE ReleasesMeeting(r, t)
  <2>1. /\ LedgerEntry(r).state = "booked" /\ LedgerEntry(r).start = MeetingStart(r)
        /\ LedgerEntry(r)' = [LedgerEntry(r) EXCEPT !.state = "released"]
        /\ MeetingStart(r) \in Int
    BY <1>6, SameMeetingEntry DEF ReleasesMeeting, LedgerState, Time
  <2>2. LedgerEntry(r).start + Skew > now
    BY <1>2, <1>6, <2>1 DEF ReleasesMeeting
  <2>3. Entries' = [Entries EXCEPT ![r].state = "released"]
    BY <1>1, <2>1
  <2>4. Ledger!Release(r)
    BY <1>1, <2>1, <2>2, <2>3 DEF Ledger!Release, Ledger!Booked, Ledger!Future, Entries
  <2> QED BY <2>4 DEF Ledger!LedgerNext
<1>7. CASE FinishesMeeting(r, t)
  <2>1. /\ LedgerEntry(r).state = "booked" /\ LedgerEntry(r).end = MeetingEnd(r)
        /\ LedgerEntry(r)' = [LedgerEntry(r) EXCEPT !.state = "finished"]
        /\ MeetingEnd(r) \in Int
    BY <1>7, SameMeetingEntry DEF FinishesMeeting, LedgerState, Time
  <2>2. LedgerEntry(r).end <= now
    BY <1>2, <1>7, <2>1 DEF FinishesMeeting
  <2>3. Entries' = [Entries EXCEPT ![r].state = "finished"]
    BY <1>1, <2>1
  <2>4. Ledger!Finish(r)
    BY <1>1, <2>1, <2>2, <2>3 DEF Ledger!Finish, Ledger!Booked, Entries
  <2> QED BY <2>4 DEF Ledger!LedgerNext
<1>8. CASE BooksMeeting(r, t)
  <2>1. LedgerEntry(r) = Ledger!Unbooked
    BY <1>8, EntryUnbooked DEF BooksMeeting
  <2>2. /\ Ledger!FreeFor(r, people, start, end) /\ Ledger!Future(start)
        /\ start \in Time /\ end \in Time /\ start < end
        /\ LedgerEntry(r)' = [state |-> "booked", people |-> people, start |-> start, end |-> end]
    BY <1>8, TakenIsFreeInLedger DEF BooksMeeting
  <2>3. people \in SUBSET User
    <3>1. IsDoc(req[r])
      BY <1>8 DEF BooksMeeting, TakesFreeTime, TypeOK, Live
    <3> QED BY <3>1, RequesterAssumption DEF Principals, IsDoc
  <2> HIDE DEF start, end, people
  <2>4. Ledger!Book(r, people, start, end)
    BY <1>1, <2>1, <2>2 DEF Ledger!Book, Entries
  <2> QED BY <2>2, <2>3, <2>4 DEF Ledger!LedgerNext
<1>9. CASE MovesMeeting(r, t)
  <2>1. Live(r) /\ req[r].status = "accepted" /\ req[r].accepted # None
    BY <1>9 DEF MovesMeeting, TakesFreeTime, DocumentsSound, SoundDoc, Live
  <2>2. LedgerEntry(r) = [state |-> "booked", people |-> people,
                          start |-> MeetingStart(r), end |-> MeetingEnd(r)]
    BY <2>1, EntryOfMeeting DEF LedgerState
  <2>3. /\ Ledger!FreeFor(r, people, start, end) /\ Ledger!Future(start)
        /\ start \in Time /\ end \in Time /\ end = start + req'[r].duration
        /\ LedgerEntry(r)' = [state |-> "booked", people |-> people, start |-> start, end |-> end]
    BY <1>9, TakenIsFreeInLedger DEF MovesMeeting
  <2>4. /\ MeetingStart(r) \in Int /\ req[r].duration \in Int
        /\ MeetingEnd(r) = MeetingStart(r) + req[r].duration
    BY <2>1, MeetingTimes
  <2>5. MeetingStart(r) > t /\ req'[r].duration = req[r].duration
    BY <1>9 DEF MovesMeeting
  <2> HIDE DEF start, end, people
  <2>6. MeetingStart(r) + Skew > now
    BY <1>2, <2>4, <2>5
  <2>7. end - start = MeetingEnd(r) - MeetingStart(r)
    BY <2>3, <2>4, <2>5 DEF Time
  <2>8. LedgerEntry(r)' = [LedgerEntry(r) EXCEPT !.start = start, !.end = end]
    <3> DEFINE entry == LedgerEntry(r)
               y == [entry EXCEPT !.start = start]
               z == [y EXCEPT !.end = end]
    <3>1. entry = [state |-> "booked", people |-> people,
                   start |-> MeetingStart(r), end |-> MeetingEnd(r)]
      BY <2>2
    <3> HIDE DEF entry
    <3>2. y = [state |-> "booked", people |-> people, start |-> start, end |-> MeetingEnd(r)]
      BY <3>1
    <3>3. [entry EXCEPT !.start = start, !.end = end] = z
      OBVIOUS
    <3> HIDE DEF y
    <3>4. z = [state |-> "booked", people |-> people, start |-> start, end |-> end]
      BY <3>2
    <3>5. LedgerEntry(r)' = [entry EXCEPT !.start = start, !.end = end]
      BY <2>3, <3>3, <3>4
    <3> QED BY <3>5 DEF entry
  <2>9. Entries' = [Entries EXCEPT ![r].start = start, ![r].end = end]
    <3>1. Entries' = [Entries EXCEPT ![r] = [Entries[r] EXCEPT !.start = start, !.end = end]]
      BY <1>1, <2>8
    <3>2. r \in DOMAIN Entries
      BY DEF Entries
    <3> QED BY <3>1, <3>2, MoveOneEntry
  <2>10. Ledger!Move(r, start, end)
    BY <1>1, <2>2, <2>3, <2>6, <2>7, <2>9 DEF Ledger!Move, Ledger!Booked, Ledger!Future, Entries
  <2> QED BY <2>3, <2>10 DEF Ledger!LedgerNext
<1> QED BY <1>4, <1>5, <1>6, <1>7, <1>8, <1>9 DEF MeetingChange

\* Requests, their commands and the environment implement the reservation
\* ledger: each command is one of its actions, whole, or leaves it alone.
THEOREM RequestsImplementLedger == Spec => ImplementsLedger
<1>1. Init => Ledger!LedgerInit
  BY DEF Init, Ledger!LedgerInit, Ledger!Unbooked, LedgerEntry, Live
<1>2. TypeOK /\ DocumentsSound /\ [Next]_vars => [Ledger!LedgerNext]_(Ledger!ledgerVars)
  <2> SUFFICES ASSUME TypeOK, DocumentsSound, [Next]_vars
               PROVE  Ledger!LedgerNext \/ UNCHANGED <<now, Entries>>
    BY DEF Ledger!ledgerVars, Entries
  <2>1. TypeOK' /\ DocumentsSound'
    BY TypeCorrectStep, StepKeepsSound
  <2>2. CASE Idle
    <3>1. \A q \in Request : LedgerEntry(q)' = LedgerEntry(q)
      BY <2>2 DEF Idle, LedgerEntry, Live, MeetingStart, MeetingEnd, Principals
    <3>2. Entries' = Entries
      BY <3>1 DEF Entries
    <3>3. now \in Int /\ now' \in Time /\ now' \in Int /\ now <= now'
      BY <2>1, <2>2 DEF TypeOK, Time, Idle
    <3>4. CASE now' = now
      BY <3>2, <3>4
    <3>5. CASE now' # now
      <4>1. Ledger!ClockMoves(now')
        BY <3>2, <3>3, <3>5 DEF Ledger!ClockMoves, Entries
      <4> QED BY <3>3, <4>1 DEF Ledger!LedgerNext
    <3> QED BY <3>4, <3>5
  <2>3. ASSUME NEW r \in Request, NEW t \in Reading, OnlyWrites(r), MeetingChange(r, t), UNCHANGED now
        PROVE  Ledger!LedgerNext \/ UNCHANGED <<now, Entries>>
    BY <2>1, <2>3, ChangeIsLedgerStep
  <2> QED BY <2>2, <2>3, MeetingCases
<1> QED BY <1>1, <1>2, TypeCorrect, DocumentsStaySound, PTL DEF Spec, ImplementsLedger, Ledger!LedgerSpec

-----------------------------------------------------------------------------
(* The effects a document may have left stay behind it: each transaction   *)
(* keeps them sound, and adds one that is.                                 *)

\* Every effect that the document before may have left, the one after may.
KeepsEffects(d, e) ==
    \A kind \in EffectKind, key \in OptionId \cup {None} :
        SoundEffect(d, kind, key) => SoundEffect(e, kind, key)

\* They stay behind a document that keeps its people and its options, does not
\* go back in status, and does not reopen a proposal.
LEMMA EffectsCarry ==
    ASSUME NEW d, NEW e, e.target = d.target, e.from = d.from, Ids(d) \subseteq Ids(e),
           \A status \in {"suggested", "accepted"} : e.status = status => d.status \in {"suggested", status},
           (ProposalPending(e) /\ e.proposal.id \in Ids(d)) =>
               (ProposalPending(d) /\ d.proposal.id = e.proposal.id)
    PROVE  KeepsEffects(d, e)
<1> SUFFICES ASSUME NEW kind \in EffectKind, NEW key, SoundEffect(d, kind, key)
             PROVE  SoundEffect(e, kind, key)
  BY DEF KeepsEffects
<1>1. d.status # "suggested" => e.status # "suggested"
  OBVIOUS
<1>2. d.status \notin {"suggested", "accepted"} => e.status \notin {"suggested", "accepted"}
  OBVIOUS
<1>3. CASE kind = "create"
  BY <1>3 DEF SoundEffect
<1>4. CASE kind = "offer"
  BY <1>4 DEF SoundEffect
<1>5. CASE kind \in {"confirm", "resolve"}
  BY <1>1, <1>5 DEF SoundEffect
<1>6. CASE kind \in {"complete", "cancel"}
  BY <1>2, <1>6 DEF SoundEffect
<1>7. CASE kind = "handoff"
  BY <1>7 DEF SoundEffect
<1>8. CASE kind = "propose"
  BY <1>1, <1>8 DEF SoundEffect
<1>9. CASE kind \in {"accept", "decline", "withdraw"}
  <2>1. /\ d.status # "suggested" /\ key \in Ids(d)
        /\ ~(ProposalPending(d) /\ d.proposal.id = key)
    BY <1>9 DEF SoundEffect
  <2>2. /\ e.status # "suggested" /\ key \in Ids(e)
        /\ ~(ProposalPending(e) /\ e.proposal.id = key)
    BY <1>1, <2>1
  <2> QED BY <1>9, <2>2 DEF SoundEffect
<1> QED BY <1>3, <1>4, <1>5, <1>6, <1>7, <1>8, <1>9 DEF EffectKind

LEMMA OfferedEffects ==
    ASSUME NEW d, NEW e, IsDoc(d), NEW s \in Time, Offered(d, e, OfferId(d.target, s), s)
    PROVE  KeepsEffects(d, e) /\ SoundEffect(e, "offer", OfferId(d.target, s))
<1>1. Ids(e) = Ids(d) \cup {OfferId(d.target, s)}
  BY DEF Offered, WithMeeting, Ids
<1>2. KeepsEffects(d, e)
  BY <1>1, EffectsCarry DEF Offered, SameTerms, ProposalPending
<1>3. /\ OfferId(d.target, s) \in ServerOptionId /\ OfferId(d.target, s).src = "offer"
      /\ OfferId(d.target, s).who = d.target
  BY DEF OfferId, ServerOptionId, IsDoc
<1> QED BY <1>1, <1>2, <1>3 DEF SoundEffect, Offered, SameTerms

LEMMA ConfirmedEffects ==
    ASSUME NEW d, NEW e, d.status = "suggested", NEW id, Confirmed(d, e, id)
    PROVE  KeepsEffects(d, e) /\ SoundEffect(e, "confirm", None)
<1>1. Ids(e) = Ids(d)
  BY DEF Confirmed, Ids
<1> QED BY <1>1 DEF KeepsEffects, SoundEffect, EffectKind, Confirmed, SameTerms

LEMMA ResolvedEffects ==
    ASSUME NEW d, NEW e, d.status = "suggested", NEW status \in {"async", "declined", "cancelled"},
           Closed(d, e, status)
    PROVE  KeepsEffects(d, e) /\ SoundEffect(e, "resolve", None)
<1>1. Ids(e) = Ids(d)
  BY DEF Closed, Ids
<1> QED BY <1>1 DEF KeepsEffects, SoundEffect, EffectKind, Closed, SameTerms

LEMMA EndedEffects ==
    ASSUME NEW d, NEW e, d.status = "accepted", NEW status \in {"completed", "cancelled"},
           Closed(d, e, status), NEW kind \in {"complete", "cancel"}
    PROVE  KeepsEffects(d, e) /\ SoundEffect(e, kind, None)
<1>1. Ids(e) = Ids(d)
  BY DEF Closed, Ids
<1>2. KeepsEffects(d, e)
  BY <1>1, EffectsCarry DEF Closed, SameTerms, ProposalPending
<1> QED BY <1>2 DEF SoundEffect, Closed

LEMMA HandedOffEffects ==
    ASSUME NEW d, NEW e, IsDoc(d), d.status = "suggested", d.from = None,
           NEW v \in User \ {d.target}, NEW starts, HandedOff(d, e, d.target, v, starts)
    PROVE  KeepsEffects(d, e) /\ SoundEffect(e, "handoff", None)
<1>1. d.target \in User /\ d.target # None
  BY NoneAssumption DEF IsDoc
<1>2. ASSUME NEW key, SoundEffect(d, "offer", key) PROVE SoundEffect(e, "offer", key)
  <2>1. key \in ServerOptionId /\ key.src = "offer" /\ key.who \in {d.target, None}
    BY <1>2 DEF SoundEffect
  <2>2. key.who = d.target
    BY <2>1, NoneAssumption DEF ServerOptionId
  <2> QED BY <2>1, <2>2 DEF SoundEffect, HandedOff
<1>3. ASSUME NEW kind \in EffectKind \ {"offer"}, NEW key, SoundEffect(d, kind, key)
      PROVE  SoundEffect(e, kind, key)
  BY <1>3 DEF SoundEffect, EffectKind, HandedOff
<1> QED BY <1>1, <1>2, <1>3 DEF KeepsEffects, SoundEffect, HandedOff

LEMMA ProposedEffects ==
    ASSUME NEW d, NEW e, d.status = "accepted", NEW p, p \notin Ids(d),
           NEW u, NEW expected, NEW s, Proposed(d, e, u, p, expected, s)
    PROVE  KeepsEffects(d, e) /\ SoundEffect(e, "propose", p)
<1>1. Ids(e) = Ids(d) \cup {p} /\ e.proposal.id = p
  BY DEF Proposed, WithMeeting, Ids
<1>2. KeepsEffects(d, e)
  BY <1>1, EffectsCarry DEF Proposed, SameTerms
<1> QED BY <1>1, <1>2 DEF SoundEffect, Proposed

LEMMA AnsweredEffects ==
    ASSUME NEW d, NEW e, IsDoc(d), d.status = "accepted", d.proposal # None, d.proposal.id \in Ids(d),
           NEW accepted, NEW status \in {"accepted", "declined", "withdrawn"},
           Answered(d, e, accepted, status),
           NEW kind \in {"accept", "decline", "withdraw"}
    PROVE  KeepsEffects(d, e) /\ SoundEffect(e, kind, d.proposal.id)
<1>1. Ids(e) = Ids(d)
  BY DEF Answered, Ids
<1>2. ~ProposalPending(e)
  BY DEF Answered, ProposalPending, IsDoc, Proposal
<1>3. KeepsEffects(d, e)
  BY <1>1, <1>2, EffectsCarry DEF Answered, SameTerms
<1> QED BY <1>1, <1>2, <1>3 DEF SoundEffect, Answered

-----------------------------------------------------------------------------
(* What a document records stays witnessed: nothing is forgotten, and each *)
(* transaction leaves the witness of what it records.                      *)

Kept == note \subseteq note' /\ audit \subseteq audit'

\* What the witnesses of a document are about; the people, the options it was
\* created or handed off with, and the meeting apart from the proposal.
WitnessedPeople(r, d) ==
    /\ [to |-> CreationTarget(d), id |-> Effect("create", r, None)] \in note
    /\ d.from # None =>
          /\ Happened("handoff", r, None, d.from)
          /\ [to |-> d.target, id |-> Effect("handoff", r, None)] \in note

WitnessedOffers(r, d) ==
    \A id \in Ids(d) \cap ServerOptionId : id.src = "offer" => Happened("offer", r, id, id.who)

WitnessedStatus(r, d) ==
    /\ d.status \in {"async", "declined"} => Happened("resolve", r, None, d.target)
    /\ (d.status = "cancelled" /\ d.accepted = None) => Happened("resolve", r, None, Requester[r])
    /\ d.status = "completed" => \E u \in Principals(r, d) : Happened("complete", r, None, u)
    /\ (d.status = "cancelled" /\ d.accepted # None) =>
          \E u \in Principals(r, d) : Happened("cancel", r, None, u)

WitnessedMeeting(r, d) ==
    d.accepted # None => IF d.accepted \in ProposalId
                         THEN \E u \in Principals(r, d) :
                                 /\ Happened("propose", r, d.accepted, u)
                                 /\ Happened("accept", r, d.accepted, Other(r, d, u))
                         ELSE Happened("confirm", r, None, IF ProposedBy(d.accepted) = None
                                                           THEN d.target ELSE Requester[r])

WitnessedProposal(r, d) ==
    d.proposal # None =>
        LET p == d.proposal
        IN  /\ Happened("propose", r, p.id, p.proposer)
            /\ p.status = "accepted" => Happened("accept", r, p.id, Other(r, d, p.proposer))
            /\ p.status = "declined" => Happened("decline", r, p.id, Other(r, d, p.proposer))
            /\ p.status = "withdrawn" => Happened("withdraw", r, p.id, p.proposer)

LEMMA WitnessedParts ==
    ASSUME NEW r, NEW d
    PROVE  Witnessed(r, d) <=> /\ WitnessedPeople(r, d) /\ WitnessedOffers(r, d)
                               /\ WitnessedStatus(r, d) /\ WitnessedMeeting(r, d)
                               /\ WitnessedProposal(r, d)
BY DEF Witnessed, WitnessedPeople, WitnessedOffers, WitnessedStatus, WitnessedMeeting, WitnessedProposal

\* The same, of the state after a step.
LEMMA WitnessedPartsAfter ==
    ASSUME NEW r, NEW d
    PROVE  Witnessed(r, d)' <=> /\ WitnessedPeople(r, d)' /\ WitnessedOffers(r, d)'
                                /\ WitnessedStatus(r, d)' /\ WitnessedMeeting(r, d)'
                                /\ WitnessedProposal(r, d)'
BY DEF Witnessed, WitnessedPeople, WitnessedOffers, WitnessedStatus, WitnessedMeeting, WitnessedProposal

LEMMA HappenedStays ==
    ASSUME Kept, NEW kind, NEW r, NEW key, NEW u, Happened(kind, r, key, u)
    PROVE  Happened(kind, r, key, u)'
BY DEF Kept, Happened

\* Each part of what is witnessed stays so while the document keeps what the
\* part is about.
LEMMA PeopleStayWitnessed ==
    ASSUME Kept, NEW r, NEW d, NEW e, e.target = d.target, e.from = d.from, WitnessedPeople(r, d)
    PROVE  WitnessedPeople(r, e)'
<1>1. CreationTarget(e) = CreationTarget(d)
  BY DEF CreationTarget
<1> QED BY <1>1, HappenedStays DEF WitnessedPeople, Kept

LEMMA OffersStayWitnessed ==
    ASSUME Kept, NEW r, NEW d, NEW e, Ids(e) \cap ServerOptionId = Ids(d) \cap ServerOptionId,
           WitnessedOffers(r, d)
    PROVE  WitnessedOffers(r, e)'
BY HappenedStays DEF WitnessedOffers

LEMMA StatusStaysWitnessed ==
    ASSUME Kept, NEW r, NEW d, NEW e, e.target = d.target, e.status = d.status,
           (e.accepted = None) <=> (d.accepted = None), WitnessedStatus(r, d)
    PROVE  WitnessedStatus(r, e)'
<1>1. Principals(r, e) = Principals(r, d)
  BY DEF Principals
<1> QED BY <1>1, HappenedStays DEF WitnessedStatus

LEMMA MeetingStaysWitnessed ==
    ASSUME Kept, NEW r, NEW d, NEW e, e.target = d.target, e.accepted = d.accepted,
           WitnessedMeeting(r, d)
    PROVE  WitnessedMeeting(r, e)'
<1>1. Principals(r, e) = Principals(r, d) /\ \A u : Other(r, e, u) = Other(r, d, u)
  BY DEF Principals, Other
<1> QED BY <1>1, HappenedStays DEF WitnessedMeeting

LEMMA ProposalStaysWitnessed ==
    ASSUME Kept, NEW r, NEW d, NEW e, e.target = d.target, e.proposal = d.proposal,
           WitnessedProposal(r, d)
    PROVE  WitnessedProposal(r, e)'
<1>1. \A u : Other(r, e, u) = Other(r, d, u)
  BY DEF Other
<1> QED BY <1>1, HappenedStays DEF WitnessedProposal

\* What each transaction leaves is witnessed.
LEMMA OpenedWitnessed ==
    ASSUME NEW r \in Request, NEW e, NEW target \in User, NEW starts \in SUBSET Time,
           Opened(e, target, starts), [to |-> target, id |-> Effect("create", r, None)] \in note'
    PROVE  Witnessed(r, e)'
<1>1. \A id \in Ids(e) : id.src # "offer"
  BY GeneratedOptionsOwner DEF Opened, Ids
<1>2. WitnessedPeople(r, e)'
  BY DEF Opened, WitnessedPeople, CreationTarget
<1>3. WitnessedOffers(r, e)'
  BY <1>1 DEF WitnessedOffers
<1>4. WitnessedStatus(r, e)' /\ WitnessedMeeting(r, e)' /\ WitnessedProposal(r, e)'
  BY DEF Opened, WitnessedStatus, WitnessedMeeting, WitnessedProposal
<1> QED BY <1>2, <1>3, <1>4, WitnessedPartsAfter

LEMMA OfferedWitnessed ==
    ASSUME Kept, NEW r, NEW d, NEW e, NEW u, NEW s, Offered(d, e, OfferId(u, s), s),
           Happened("offer", r, OfferId(u, s), u)', Witnessed(r, d)
    PROVE  Witnessed(r, e)'
<1>1. Ids(e) = Ids(d) \cup {OfferId(u, s)} /\ OfferId(u, s).who = u
  BY DEF Offered, WithMeeting, Ids, OfferId
<1>2. WitnessedOffers(r, d)
  BY WitnessedParts
<1>3. \A id \in Ids(d) \cap ServerOptionId : id.src = "offer" => Happened("offer", r, id, id.who)'
  BY <1>2, HappenedStays DEF WitnessedOffers
<1>4. WitnessedOffers(r, e)'
  BY <1>1, <1>3 DEF WitnessedOffers
<1>5. WitnessedPeople(r, e)' /\ WitnessedStatus(r, e)' /\ WitnessedMeeting(r, e)' /\ WitnessedProposal(r, e)'
  BY WitnessedParts, PeopleStayWitnessed, StatusStaysWitnessed, MeetingStaysWitnessed,
     ProposalStaysWitnessed DEF Offered, SameTerms
<1> QED BY <1>4, <1>5, WitnessedPartsAfter

LEMMA ConfirmedWitnessed ==
    ASSUME Kept, NEW r \in Request, NEW d, NEW e, IsDoc(d), SoundDoc(r, d), d.status = "suggested",
           NEW u, NEW id, AuthorizeConfirmation(r, d, u, id), Confirmed(d, e, id),
           Happened("confirm", r, None, u)', Witnessed(r, d)
    PROVE  Witnessed(r, e)'
<1>1. d.accepted = None /\ d.proposal = None /\ Ids(d) \subseteq ServerOptionId
  BY DEF SoundDoc
<1>2. MeetingEvidence(d, id) /\ id # None
  BY MeetingTyped DEF AuthorizeConfirmation
<1>3. id \notin ProposalId /\ d.target # None
  BY <1>1, <1>2, ProposalIdAssumption, NoneAssumption DEF MeetingEvidence, IsDoc
<1>4. u = IF ProposedBy(id) = None THEN d.target ELSE Requester[r]
  BY <1>3 DEF AuthorizeConfirmation
<1>5. WitnessedMeeting(r, e)'
  BY <1>3, <1>4 DEF WitnessedMeeting, Confirmed, SameTerms
<1>6. WitnessedStatus(r, e)' /\ WitnessedProposal(r, e)'
  BY <1>1 DEF WitnessedStatus, WitnessedProposal, Confirmed
<1>7. Ids(e) = Ids(d)
  BY DEF Confirmed, Ids
<1>8. WitnessedPeople(r, e)' /\ WitnessedOffers(r, e)'
  BY <1>7, WitnessedParts, PeopleStayWitnessed, OffersStayWitnessed DEF Confirmed, SameTerms
<1> QED BY <1>5, <1>6, <1>8, WitnessedPartsAfter

\* A resolution, a completion or a cancellation, by a person who may.
LEMMA ClosedWitnessed ==
    ASSUME Kept, NEW r \in Request, NEW d, NEW e,
           NEW status \in {"async", "declined", "cancelled", "completed"}, Closed(d, e, status),
           NEW u, Witnessed(r, d),
           \/ /\ status = "cancelled" /\ d.accepted = None /\ u = Requester[r]
              /\ Happened("resolve", r, None, u)'
           \/ /\ status \in {"async", "declined"} /\ u = d.target
              /\ Happened("resolve", r, None, u)'
           \/ /\ status = "completed" /\ u \in Principals(r, d)
              /\ Happened("complete", r, None, u)'
           \/ /\ status = "cancelled" /\ d.accepted # None /\ u \in Principals(r, d)
              /\ Happened("cancel", r, None, u)'
    PROVE  Witnessed(r, e)'
<1>1. Principals(r, e) = Principals(r, d) /\ e.target = d.target /\ e.status = status
      /\ e.accepted = d.accepted
  BY DEF Closed, SameTerms, Principals
<1>2. WitnessedStatus(r, e)'
  BY <1>1 DEF WitnessedStatus
<1>3. Ids(e) = Ids(d)
  BY DEF Closed, Ids
<1>4. WitnessedPeople(r, e)' /\ WitnessedOffers(r, e)' /\ WitnessedMeeting(r, e)' /\ WitnessedProposal(r, e)'
  BY <1>3, WitnessedParts, PeopleStayWitnessed, OffersStayWitnessed, MeetingStaysWitnessed,
     ProposalStaysWitnessed DEF Closed, SameTerms
<1> QED BY <1>2, <1>4, WitnessedPartsAfter

LEMMA HandedOffWitnessed ==
    ASSUME Kept, NEW r \in Request, NEW d, NEW e, SoundDoc(r, d), IsDoc(d), d.status = "suggested", d.from = None,
           NEW v \in User, NEW starts \in SUBSET Time, HandedOff(d, e, d.target, v, starts),
           Happened("handoff", r, None, d.target)',
           [to |-> v, id |-> Effect("handoff", r, None)] \in note', Witnessed(r, d)
    PROVE  Witnessed(r, e)'
<1>1. d.accepted = None /\ d.proposal = None /\ d.target # None
  BY NoneAssumption DEF SoundDoc, IsDoc
<1>2. \A id \in Ids(e) : id.src # "offer"
  BY GeneratedOptionsOwner DEF HandedOff, Ids
<1>3. CreationTarget(e) = d.target /\ CreationTarget(d) = d.target
  BY <1>1 DEF HandedOff, CreationTarget
<1>4. [to |-> d.target, id |-> Effect("create", r, None)] \in note'
  BY <1>3, WitnessedParts DEF WitnessedPeople, Kept
<1>5. WitnessedPeople(r, e)'
  BY <1>3, <1>4 DEF HandedOff, WitnessedPeople
<1>6. WitnessedOffers(r, e)'
  BY <1>2 DEF WitnessedOffers
<1>7. WitnessedStatus(r, e)' /\ WitnessedMeeting(r, e)' /\ WitnessedProposal(r, e)'
  BY <1>1 DEF HandedOff, WitnessedStatus, WitnessedMeeting, WitnessedProposal
<1> QED BY <1>5, <1>6, <1>7, WitnessedPartsAfter

LEMMA ProposedWitnessed ==
    ASSUME Kept, NEW r, NEW d, NEW e, NEW p \in ProposalId, NEW u, NEW expected, NEW s,
           Proposed(d, e, u, p, expected, s), Happened("propose", r, p, u)', Witnessed(r, d)
    PROVE  Witnessed(r, e)'
<1>1. Ids(e) \cap ServerOptionId = Ids(d) \cap ServerOptionId
  BY ProposalIdAssumption DEF Proposed, WithMeeting, Ids
<1>2. WitnessedProposal(r, e)'
  BY DEF Proposed, WitnessedProposal
<1>3. WitnessedPeople(r, e)' /\ WitnessedOffers(r, e)' /\ WitnessedStatus(r, e)' /\ WitnessedMeeting(r, e)'
  BY <1>1, WitnessedParts, PeopleStayWitnessed, OffersStayWitnessed, StatusStaysWitnessed,
     MeetingStaysWitnessed DEF Proposed, SameTerms
<1> QED BY <1>2, <1>3, WitnessedPartsAfter

\* The counterpart of one of the two people is the other one.
LEMMA OtherOf ==
    ASSUME NEW r \in Request, NEW d, d.target # Requester[r],
           NEW u \in Principals(r, d), NEW v \in Principals(r, d), u # v
    PROVE  u = Other(r, d, v)
BY DEF Principals, Other

LEMMA AnsweredWitnessed ==
    ASSUME Kept, NEW r \in Request, NEW d, NEW e, IsDoc(d), SoundDoc(r, d), d.status = "accepted",
           d.proposal # None, NEW u \in Principals(r, d), Witnessed(r, d),
           NEW kind \in {"accept", "decline", "withdraw"},
           (kind = "withdraw") <=> (u = d.proposal.proposer),
           NEW accepted, accepted = IF kind = "accept" THEN d.proposal.id ELSE d.accepted,
           Answered(d, e, accepted, Terminal(kind)),
           Happened(kind, r, d.proposal.id, u)'
    PROVE  Witnessed(r, e)'
<1> DEFINE p == d.proposal
           v == d.proposal.proposer
<1>1. p \in Proposal /\ v \in Principals(r, d) /\ p.id # None
  BY NoneAssumption DEF IsDoc, SoundDoc, ValidReplayEvidence, Proposal, OptionId
<1>2. u # v => u = Other(r, d, v)
  BY <1>1, OtherOf DEF SoundDoc
<1>3. Happened("propose", r, p.id, v)'
  BY WitnessedParts, HappenedStays DEF WitnessedProposal
<1>4. /\ e.proposal # None /\ e.proposal.id = p.id /\ e.proposal.proposer = v
      /\ e.proposal.status = Terminal(kind)
  BY <1>1, NoneAssumption DEF Answered, Proposal, Terminal
<1>5. Principals(r, e) = Principals(r, d) /\ \A x : Other(r, e, x) = Other(r, d, x)
  BY DEF Answered, SameTerms, Principals, Other
<1> HIDE DEF p, v
<1>6. WitnessedProposal(r, e)'
  BY <1>2, <1>3, <1>4, <1>5 DEF WitnessedProposal, Terminal, p, v
<1>7. WitnessedMeeting(r, e)'
  <2>1. CASE kind = "accept"
    <3>1. e.accepted = p.id /\ p.id \in ProposalId
      BY <1>1, <2>1 DEF Answered, Proposal, p
    <3>2. Happened("accept", r, p.id, Other(r, d, v))'
      BY <1>2, <2>1 DEF p, v
    <3> QED BY <1>1, <1>3, <1>5, <3>1, <3>2 DEF WitnessedMeeting
  <2>2. CASE kind # "accept"
    BY <2>2, WitnessedParts, MeetingStaysWitnessed DEF Answered, SameTerms
  <2> QED BY <2>1, <2>2
<1>8. Ids(e) = Ids(d)
  BY DEF Answered, Ids
<1>9. WitnessedPeople(r, e)' /\ WitnessedOffers(r, e)'
  BY <1>8, WitnessedParts, PeopleStayWitnessed, OffersStayWitnessed DEF Answered, SameTerms
<1>10. WitnessedStatus(r, e)'
  BY DEF Answered, WitnessedStatus
<1> QED BY <1>6, <1>7, <1>9, <1>10, WitnessedPartsAfter

-----------------------------------------------------------------------------
(* The transactions, one by one: what each writes and records is coherent. *)

CoherentWrite(r, kind, key, actor, recipients) ==
    /\ OnlyWrites(r) /\ Records(Effect(kind, r, key), actor, recipients)
    /\ Live(r) => /\ KeepsEffects(req[r], req'[r])
                  /\ Participants(r, req[r]) \subseteq Participants(r, req'[r])
    /\ SoundEffect(req'[r], kind, key)
    /\ actor \notin recipients /\ recipients \subseteq Participants(r, req'[r])
    /\ (\A q \in DOMAIN req : Witnessed(q, req[q])) => \A e : e = req'[r] => Witnessed(r, e)'

\* Nothing recorded is lost, and what is recorded happened and was told.
LEMMA RecordsKeeps ==
    ASSUME NEW kind, NEW r, NEW key, NEW actor, NEW recipients,
           Records(Effect(kind, r, key), actor, recipients)
    PROVE  /\ Kept
           /\ Happened(kind, r, key, actor)'
           /\ \A u \in recipients : [to |-> u, id |-> Effect(kind, r, key)] \in note'
BY DEF Records, Kept, Happened

LEMMA CreateCoherent ==
    ASSUME TypeOK, DocumentsSound, NEW r \in Request, NEW t \in Reading, NEW target \in User,
           NEW duration \in Durations, NEW deadline \in Deadlines, NEW starts \in SUBSET Time,
           Create(r, t, target, duration, deadline, starts)
    PROVE  CoherentWrite(r, "create", None, Requester[r], {target})
<1>1. PICK e : e = req'[r]
  OBVIOUS
<1>2. /\ ~Live(r) /\ OnlyWrites(r) /\ Opened(e, target, starts)
      /\ Records(Effect("create", r, None), Requester[r], {target})
  BY <1>1, CreateWrites, ReadingTyped
<1>3. target # Requester[r]
  BY DEF Create
<1>4. Witnessed(r, e)'
  BY <1>2, RecordsKeeps, OpenedWitnessed
<1>5. SoundEffect(e, "create", None)
  BY DEF SoundEffect
<1>6. {target} \subseteq Participants(r, e)
  BY <1>2 DEF Opened, Participants
<1> QED BY <1>1, <1>2, <1>3, <1>4, <1>5, <1>6 DEF CoherentWrite

\* The document before, in the store and sound.
LEMMA StoredSound ==
    ASSUME TypeOK, DocumentsSound, NEW r \in Request, Live(r)
    PROVE  IsDoc(req[r]) /\ SoundDoc(r, req[r])
BY DEF TypeOK, DocumentsSound, Live

LEMMA ProposeCoherent ==
    ASSUME TypeOK, DocumentsSound, NEW r \in Request, NEW t \in Reading, NEW u \in User,
           NEW s \in Time, ProposeMeeting(r, u, t, s)
    PROVE  CoherentWrite(r, "offer", OfferId(u, s), u, {Requester[r]})
<1>1. PICK d, e : d = req[r] /\ e = req'[r]
  OBVIOUS
<1>2. /\ Live(r) /\ IsDoc(d) /\ OnlyWrites(r) /\ Offered(d, e, OfferId(u, s), s)
      /\ Records(Effect("offer", r, OfferId(u, s)), u, {Requester[r]})
  BY <1>1, ProposeWrites, ReadingTyped
<1>3. SoundDoc(r, d) /\ u = d.target
  BY <1>1, <1>2, StoredSound DEF ProposeMeeting
<1>4. KeepsEffects(d, e) /\ SoundEffect(e, "offer", OfferId(u, s))
  BY <1>2, <1>3, OfferedEffects
<1>5. Participants(r, e) = Participants(r, d)
  BY <1>2, SamePeople DEF Offered
<1>6. u # Requester[r] /\ Requester[r] \in Participants(r, e)
  BY <1>3 DEF SoundDoc, Participants
<1>7. Witnessed(r, d) => Witnessed(r, e)'
  BY <1>2, RecordsKeeps, OfferedWitnessed
<1> QED BY <1>1, <1>2, <1>4, <1>5, <1>6, <1>7 DEF CoherentWrite, Live

LEMMA ConfirmCoherent ==
    ASSUME TypeOK, DocumentsSound, NEW r \in Request, NEW t \in Reading, NEW u \in User,
           NEW id \in StoredIds(r), ConfirmMeeting(r, u, t, id)
    PROVE  \E to \in User : CoherentWrite(r, "confirm", None, u, {to})
<1>1. PICK d, e : d = req[r] /\ e = req'[r]
  OBVIOUS
<1> DEFINE to == IF u = Requester[r] THEN d.target ELSE Requester[r]
<1>2. /\ Live(r) /\ IsDoc(d) /\ OnlyWrites(r) /\ Confirmed(d, e, id)
      /\ Records(Effect("confirm", r, None), u, {to})
  BY <1>1, ConfirmWrites, ReadingTyped
<1>3. SoundDoc(r, d) /\ d.status = "suggested" /\ AuthorizeConfirmation(r, d, u, id)
  BY <1>1, <1>2, StoredSound DEF ConfirmMeeting
<1>4. KeepsEffects(d, e) /\ SoundEffect(e, "confirm", None)
  BY <1>2, <1>3, ConfirmedEffects
<1>5. Participants(r, e) = Participants(r, d)
  BY <1>2, SamePeople DEF Confirmed
<1>6. u # to /\ to \in Participants(r, e) /\ to \in User
  BY <1>2, <1>3, <1>5, RequesterAssumption DEF SoundDoc, Participants, IsDoc
<1> HIDE DEF to
<1>7. Witnessed(r, d) => Witnessed(r, e)'
  BY <1>2, <1>3, RecordsKeeps, ConfirmedWitnessed
<1>8. CoherentWrite(r, "confirm", None, u, {to})
  BY <1>1, <1>2, <1>4, <1>5, <1>6, <1>7 DEF CoherentWrite, Live
<1> QED BY <1>6, <1>8

LEMMA ResolveCoherent ==
    ASSUME TypeOK, DocumentsSound, NEW r \in Request, NEW t \in Reading, NEW u \in User,
           NEW status \in {"async", "declined", "cancelled"}, Resolve(r, u, t, status)
    PROVE  \E to \in User : CoherentWrite(r, "resolve", None, u, {to})
<1>1. PICK d, e : d = req[r] /\ e = req'[r]
  OBVIOUS
<1> DEFINE to == IF status = "cancelled" THEN d.target ELSE Requester[r]
<1>2. /\ Live(r) /\ IsDoc(d) /\ OnlyWrites(r) /\ Closed(d, e, status)
      /\ Records(Effect("resolve", r, None), u, {to})
  BY <1>1, ResolveWrites, ReadingTyped
<1>3. /\ SoundDoc(r, d) /\ d.status = "suggested" /\ d.accepted = None
      /\ \/ status = "cancelled" /\ u = Requester[r]
         \/ status \in {"async", "declined"} /\ u = d.target
  BY <1>1, <1>2, StoredSound DEF Resolve
<1>4. KeepsEffects(d, e) /\ SoundEffect(e, "resolve", None)
  BY <1>2, <1>3, ResolvedEffects
<1>5. Participants(r, e) = Participants(r, d)
  BY <1>2, SamePeople DEF Closed
<1>6. u # to /\ to \in Participants(r, e) /\ to \in User
  BY <1>2, <1>3, <1>5, RequesterAssumption DEF SoundDoc, Participants, IsDoc
<1> HIDE DEF to
<1>7. Witnessed(r, d) => Witnessed(r, e)'
  BY <1>2, <1>3, RecordsKeeps, ClosedWitnessed
<1>8. CoherentWrite(r, "resolve", None, u, {to})
  BY <1>1, <1>2, <1>4, <1>5, <1>6, <1>7 DEF CoherentWrite, Live
<1> QED BY <1>6, <1>8

LEMMA CompleteCoherent ==
    ASSUME TypeOK, DocumentsSound, NEW r \in Request, NEW t \in Reading, NEW u \in User, NEW id,
           Complete(r, u, t, id)
    PROVE  \E to \in User : CoherentWrite(r, "complete", None, u, {to})
<1>1. PICK d, e : d = req[r] /\ e = req'[r]
  OBVIOUS
<1> DEFINE to == IF u = Requester[r] THEN d.target ELSE Requester[r]
<1>2. /\ Live(r) /\ IsDoc(d) /\ OnlyWrites(r) /\ Closed(d, e, "completed")
      /\ Records(Effect("complete", r, None), u, {to})
  BY <1>1, CompleteWrites, ReadingTyped
<1>3. SoundDoc(r, d) /\ d.status = "accepted" /\ u \in Principals(r, d)
  BY <1>1, <1>2, StoredSound DEF Complete, Completable
<1>4. KeepsEffects(d, e) /\ SoundEffect(e, "complete", None)
  BY <1>2, <1>3, EndedEffects
<1>5. Participants(r, e) = Participants(r, d)
  BY <1>2, SamePeople DEF Closed
<1>6. u # to /\ to \in Participants(r, e) /\ to \in User
  BY <1>2, <1>3, <1>5, RequesterAssumption DEF SoundDoc, Participants, IsDoc
<1> HIDE DEF to
<1>7. Witnessed(r, d) => Witnessed(r, e)'
  BY <1>2, <1>3, RecordsKeeps, ClosedWitnessed
<1>8. CoherentWrite(r, "complete", None, u, {to})
  BY <1>1, <1>2, <1>4, <1>5, <1>6, <1>7 DEF CoherentWrite, Live
<1> QED BY <1>6, <1>8

\* The counterpart is another of the document's people.
LEMMA OtherIsThere ==
    ASSUME NEW r \in Request, NEW d, IsDoc(d), d.target # Requester[r], NEW u
    PROVE  /\ Other(r, d, u) \in Principals(r, d) /\ Other(r, d, u) \in User
           /\ u # Other(r, d, u) \/ u \notin Principals(r, d)
BY RequesterAssumption DEF Other, Principals, IsDoc

LEMMA CancelCoherent ==
    ASSUME TypeOK, DocumentsSound, NEW r \in Request, NEW t \in Reading, NEW u \in User, NEW id,
           CancelConfirmed(r, u, t, id)
    PROVE  \E to \in User : CoherentWrite(r, "cancel", None, u, {to})
<1>1. PICK d, e : d = req[r] /\ e = req'[r]
  OBVIOUS
<1>2. /\ Live(r) /\ IsDoc(d) /\ OnlyWrites(r) /\ Closed(d, e, "cancelled")
      /\ Records(Effect("cancel", r, None), u, {Other(r, d, u)})
  BY <1>1, CancelWrites, ReadingTyped
<1>3. SoundDoc(r, d) /\ d.status = "accepted" /\ u \in Principals(r, d) /\ d.accepted # None
  BY <1>1, <1>2, StoredSound DEF CancelConfirmed, Cancellable, SoundDoc
<1>4. KeepsEffects(d, e) /\ SoundEffect(e, "cancel", None)
  BY <1>2, <1>3, EndedEffects
<1>5. Participants(r, e) = Participants(r, d)
  BY <1>2, SamePeople DEF Closed
<1>6. u # Other(r, d, u) /\ Other(r, d, u) \in Participants(r, e) /\ Other(r, d, u) \in User
  BY <1>2, <1>3, <1>5, OtherIsThere DEF SoundDoc, Participants, Principals
<1>7. Witnessed(r, d) => Witnessed(r, e)'
  BY <1>2, <1>3, RecordsKeeps, ClosedWitnessed
<1>8. CoherentWrite(r, "cancel", None, u, {Other(r, d, u)})
  BY <1>1, <1>2, <1>4, <1>5, <1>6, <1>7 DEF CoherentWrite, Live
<1> QED BY <1>6, <1>8

LEMMA HandoffCoherent ==
    ASSUME TypeOK, DocumentsSound, NEW r \in Request, NEW t \in Reading, NEW u \in User,
           NEW v \in User, NEW starts \in SUBSET Time, Handoff(r, u, t, v, starts)
    PROVE  CoherentWrite(r, "handoff", None, u, {v, Requester[r]})
<1>1. PICK d, e : d = req[r] /\ e = req'[r]
  OBVIOUS
<1>2. /\ Live(r) /\ IsDoc(d) /\ OnlyWrites(r) /\ HandedOff(d, e, u, v, starts)
      /\ Records(Effect("handoff", r, None), u, {v, Requester[r]})
  BY <1>1, HandoffWrites, ReadingTyped
<1>3. /\ SoundDoc(r, d) /\ d.status = "suggested" /\ d.from = None
      /\ u = d.target /\ v \notin {u, Requester[r]}
  BY <1>1, <1>2, StoredSound DEF Handoff
<1>4. KeepsEffects(d, e) /\ SoundEffect(e, "handoff", None)
  BY <1>2, <1>3, HandedOffEffects
<1>5. u \in User /\ u # None
  BY NoneAssumption
<1>6. Participants(r, d) = {Requester[r], u} /\ Participants(r, e) = {Requester[r], v, u}
  BY <1>2, <1>3, <1>5 DEF HandedOff, Participants
<1>7. u \notin {v, Requester[r]}
  BY <1>3 DEF SoundDoc
<1>8. Witnessed(r, d) => Witnessed(r, e)'
  <2>1. /\ Kept /\ Happened("handoff", r, None, d.target)'
        /\ [to |-> v, id |-> Effect("handoff", r, None)] \in note'
    BY <1>2, <1>3, RecordsKeeps
  <2>2. HandedOff(d, e, d.target, v, starts)
    BY <1>2, <1>3
  <2> QED BY <1>2, <1>3, <2>1, <2>2, HandedOffWitnessed
<1>9. /\ Participants(r, d) \subseteq Participants(r, e)
      /\ {v, Requester[r]} \subseteq Participants(r, e)
  BY <1>6
<1> QED BY <1>1, <1>2, <1>4, <1>7, <1>8, <1>9 DEF CoherentWrite, Live

LEMMA RescheduleProposeCoherent ==
    ASSUME TypeOK, DocumentsSound, NEW r \in Request, NEW t \in Reading, NEW u \in User,
           NEW p \in ProposalId, NEW id \in StoredIds(r), NEW s \in Time,
           ReschedulePropose(r, u, t, p, id, s)
    PROVE  \E to \in User : CoherentWrite(r, "propose", p, u, {to})
<1>1. PICK d, e : d = req[r] /\ e = req'[r]
  OBVIOUS
<1>2. /\ Live(r) /\ IsDoc(d) /\ OnlyWrites(r) /\ Proposed(d, e, u, p, id, s)
      /\ Records(Effect("propose", r, p), u, {Other(r, d, u)})
  BY <1>1, RescheduleProposeWrites, ReadingTyped
<1>3. SoundDoc(r, d) /\ d.status = "accepted" /\ u \in Principals(r, d) /\ p \notin Ids(d)
  BY <1>1, <1>2, StoredSound DEF ReschedulePropose, RescheduleGuard
<1>4. KeepsEffects(d, e) /\ SoundEffect(e, "propose", p)
  BY <1>2, <1>3, ProposedEffects
<1>5. Participants(r, e) = Participants(r, d)
  BY <1>2, SamePeople DEF Proposed
<1>6. u # Other(r, d, u) /\ Other(r, d, u) \in Participants(r, e) /\ Other(r, d, u) \in User
  BY <1>2, <1>3, <1>5, OtherIsThere DEF SoundDoc, Participants, Principals
<1>7. Witnessed(r, d) => Witnessed(r, e)'
  BY <1>2, RecordsKeeps, ProposedWitnessed
<1>8. CoherentWrite(r, "propose", p, u, {Other(r, d, u)})
  BY <1>1, <1>2, <1>4, <1>5, <1>6, <1>7 DEF CoherentWrite, Live
<1> QED BY <1>6, <1>8

\* An acceptance, a refusal or a withdrawal.
Answers(r, u, t, p, id, kind) ==
    \/ kind = "accept" /\ RescheduleAccept(r, u, t, p, id)
    \/ kind # "accept" /\ RescheduleRefuse(r, u, t, p, id, kind)

LEMMA AnswerCoherent ==
    ASSUME TypeOK, DocumentsSound, NEW r \in Request, NEW t \in Reading, NEW u \in User,
           NEW p \in ProposalId, NEW id, NEW kind \in {"accept", "decline", "withdraw"},
           Answers(r, u, t, p, id, kind)
    PROVE  \E to \in User : CoherentWrite(r, kind, p, u, {to})
<1>1. PICK d, e : d = req[r] /\ e = req'[r]
  OBVIOUS
<1> DEFINE accepted == IF kind = "accept" THEN p ELSE d.accepted
<1>2. /\ Live(r) /\ IsDoc(d) /\ OnlyWrites(r) /\ Answered(d, e, accepted, Terminal(kind))
      /\ Records(Effect(kind, r, p), u, {Other(r, d, u)})
  <2>1. CASE kind = "accept"
    <3>1. Terminal(kind) = "accepted"
      BY <2>1 DEF Terminal
    <3> QED BY <1>1, <2>1, <3>1, RescheduleAcceptWrites, ReadingTyped DEF Answers
  <2>2. CASE kind # "accept"
    BY <1>1, <2>2, RescheduleRefuseWrites, ReadingTyped DEF Answers
  <2> QED BY <2>1, <2>2
<1>3. Answerable(r, u, t, p, id, kind)
  BY DEF Answers, RescheduleAccept, RescheduleRefuse
<1>4. /\ SoundDoc(r, d) /\ d.status = "accepted" /\ u \in Principals(r, d)
      /\ d.proposal # None /\ d.proposal.id = p
      /\ (kind = "withdraw") <=> (u = d.proposal.proposer)
      /\ p \in Ids(d)
  BY <1>1, <1>2, <1>3, StoredSound
     DEF Answerable, RescheduleGuard, ProposalPending, ValidReplayEvidence, MeetingEvidence
<1>5. Terminal(kind) \in {"accepted", "declined", "withdrawn"}
  BY DEF Terminal
<1>6. KeepsEffects(d, e) /\ SoundEffect(e, kind, p)
  BY <1>2, <1>4, <1>5, AnsweredEffects
<1>7. Participants(r, e) = Participants(r, d)
  BY <1>2, SamePeople DEF Answered
<1>8. u # Other(r, d, u) /\ Other(r, d, u) \in Participants(r, e) /\ Other(r, d, u) \in User
  BY <1>2, <1>4, <1>7, OtherIsThere DEF SoundDoc, Participants, Principals
<1>9. Witnessed(r, d) => Witnessed(r, e)'
  <2>1. accepted = IF kind = "accept" THEN d.proposal.id ELSE d.accepted
    BY <1>4
  <2>2. Kept /\ Happened(kind, r, d.proposal.id, u)'
    BY <1>2, <1>4, RecordsKeeps
  <2> HIDE DEF accepted
  <2> QED BY <1>2, <1>4, <2>1, <2>2, AnsweredWitnessed
<1>10. CoherentWrite(r, kind, p, u, {Other(r, d, u)})
  BY <1>1, <1>2, <1>6, <1>7, <1>8, <1>9 DEF CoherentWrite, Live
<1> QED BY <1>8, <1>10

\* Every step leaves the documents and their effects alone or writes one
\* document, coherently with what it records.
LEMMA CoherentCases ==
    ASSUME TypeOK, DocumentsSound, [Next]_vars
    PROVE  \/ Idle
           \/ \E r \in Request, kind \in EffectKind, key \in OptionId \cup {None},
                 actor \in User, recipients \in SUBSET User :
                    CoherentWrite(r, kind, key, actor, recipients)
<1> DEFINE Goal == \E r \in Request, kind \in EffectKind, key \in OptionId \cup {None},
                      actor \in User, recipients \in SUBSET User :
                         CoherentWrite(r, kind, key, actor, recipients)
<1>1. ASSUME NEW r \in Request, NEW kind \in EffectKind, NEW key \in OptionId \cup {None},
             NEW actor \in User, \E to \in User : CoherentWrite(r, kind, key, actor, {to})
      PROVE  Goal
  <2>1. PICK to \in User : CoherentWrite(r, kind, key, actor, {to})
    BY <1>1
  <2>2. {to} \in SUBSET User
    OBVIOUS
  <2> QED BY <2>1, <2>2
<1> HIDE DEF Goal
<1>2. ASSUME NEW r \in Request, NEW t \in Reading, NEW target \in User, NEW duration \in Durations,
             NEW deadline \in Deadlines, NEW starts \in SUBSET Time,
             Create(r, t, target, duration, deadline, starts)
      PROVE  Goal
  <2>1. CoherentWrite(r, "create", None, Requester[r], {target})
    BY <1>2, CreateCoherent
  <2>2. Requester[r] \in User
    BY RequesterAssumption
  <2> QED BY <1>1, <2>1, <2>2 DEF EffectKind
<1>3. ASSUME NEW r \in Request, NEW t \in Reading, NEW u \in User, NegotiateTransaction(r, u, t)
      PROVE  Goal
  <2>1. ASSUME NEW s \in Time, ProposeMeeting(r, u, t, s) PROVE Goal
    <3>1. CoherentWrite(r, "offer", OfferId(u, s), u, {Requester[r]})
      BY <2>1, ProposeCoherent
    <3>2. Requester[r] \in User /\ OfferId(u, s) \in OptionId
      BY RequesterAssumption, OfferIdType
    <3> QED BY <1>1, <3>1, <3>2 DEF EffectKind
  <2>2. ASSUME NEW status \in {"async", "declined", "cancelled"}, Resolve(r, u, t, status) PROVE Goal
    <3>1. \E to \in User : CoherentWrite(r, "resolve", None, u, {to})
      BY <2>2, ResolveCoherent
    <3> QED BY <1>1, <3>1 DEF EffectKind
  <2>3. ASSUME NEW v \in User, NEW starts \in SUBSET Time, Handoff(r, u, t, v, starts) PROVE Goal
    <3>1. CoherentWrite(r, "handoff", None, u, {v, Requester[r]})
      BY <2>3, HandoffCoherent
    <3>2. {v, Requester[r]} \in SUBSET User
      BY RequesterAssumption
    <3> QED BY <3>1, <3>2 DEF EffectKind, Goal
  <2> QED BY <1>3, <2>1, <2>2, <2>3 DEF NegotiateTransaction
<1>4. ASSUME NEW r \in Request, NEW t \in Reading, NEW u \in User, NEW id \in StoredIds(r),
             MeetingTransaction(r, u, t, id)
      PROVE  Goal
  <2>1. PICK kind \in {"confirm", "complete", "cancel"} :
           \E to \in User : CoherentWrite(r, kind, None, u, {to})
    BY <1>4, ConfirmCoherent, CompleteCoherent, CancelCoherent DEF MeetingTransaction
  <2> QED BY <1>1, <2>1 DEF EffectKind
<1>5. ASSUME NEW r \in Request, NEW t \in Reading, NEW u \in User, NEW p \in ProposalId,
             NEW id \in StoredIds(r), RescheduleTransaction(r, u, t, id, p)
      PROVE  Goal
  <2>1. p \in OptionId \cup {None}
    BY DEF OptionId
  <2>2. ASSUME NEW s \in Time, ReschedulePropose(r, u, t, p, id, s) PROVE Goal
    BY <1>1, <2>1, <2>2, RescheduleProposeCoherent DEF EffectKind
  <2>3. ASSUME RescheduleAccept(r, u, t, p, id) PROVE Goal
    <3>1. \E to \in User : CoherentWrite(r, "accept", p, u, {to})
      BY <2>3, AnswerCoherent DEF Answers
    <3> QED BY <1>1, <2>1, <3>1 DEF EffectKind
  <2>4. ASSUME NEW action \in {"decline", "withdraw"}, RescheduleRefuse(r, u, t, p, id, action) PROVE Goal
    <3>1. CASE action = "decline"
      <4>1. \E to \in User : CoherentWrite(r, "decline", p, u, {to})
        BY <2>4, <3>1, AnswerCoherent DEF Answers
      <4> QED BY <1>1, <2>1, <4>1 DEF EffectKind
    <3>2. CASE action = "withdraw"
      <4>1. \E to \in User : CoherentWrite(r, "withdraw", p, u, {to})
        BY <2>4, <3>2, AnswerCoherent DEF Answers
      <4> QED BY <1>1, <2>1, <4>1 DEF EffectKind
    <3> QED BY <3>1, <3>2
  <2> QED BY <1>5, <2>2, <2>3, <2>4 DEF RescheduleTransaction
<1>6. Idle \/ Goal
  BY <1>2, <1>3, <1>4, <1>5, StepCases
<1> QED BY <1>6 DEF Goal

-----------------------------------------------------------------------------
(* Effects, witnesses and notifications, step by step.                     *)

LEMMA EffectsStep ==
    ASSUME TypeOK, EffectsSound, NEW r \in Request, NEW kind \in EffectKind,
           NEW key \in OptionId \cup {None}, NEW actor, NEW recipients,
           CoherentWrite(r, kind, key, actor, recipients)
    PROVE  EffectsSound'
<1> DEFINE id == Effect(kind, r, key)
<1>1. /\ OnlyWrites(r) /\ SoundEffect(req'[r], kind, key)
      /\ note' = note \cup {[to |-> v, id |-> id] : v \in recipients}
      /\ audit' = audit \cup {[id |-> id, actor |-> actor]}
  BY DEF CoherentWrite, Records
<1>2. id.req = r /\ id.kind = kind /\ id.key = key
  BY DEF Effect
<1> HIDE DEF id
<1>3. ASSUME NEW n \in note' PROVE \E a \in audit' : a.id = n.id
  <2>1. CASE n \in note
    BY <1>1, <2>1 DEF EffectsSound
  <2>2. CASE n \notin note
    <3>1. n.id = id
      BY <1>1, <2>2
    <3>2. [id |-> id, actor |-> actor] \in audit' /\ [id |-> id, actor |-> actor].id = id
      BY <1>1
    <3> QED BY <3>1, <3>2
  <2> QED BY <2>1, <2>2
<1>4. ASSUME NEW a \in audit'
      PROVE  Live(a.id.req)' /\ SoundEffect(req'[a.id.req], a.id.kind, a.id.key)
  <2>1. CASE a \in audit /\ a.id.req = r
    <3>1. Live(r) /\ SoundEffect(req[r], a.id.kind, a.id.key)
      BY <2>1 DEF EffectsSound
    <3>2. a.id.kind \in EffectKind /\ a.id.key \in OptionId \cup {None}
      BY <2>1 DEF TypeOK, Audit, EffectId
    <3>3. SoundEffect(req'[r], a.id.kind, a.id.key)
      BY <3>1, <3>2 DEF CoherentWrite, KeepsEffects
    <3> QED BY <1>1, <2>1, <3>3 DEF OnlyWrites, Live
  <2>2. CASE a \in audit /\ a.id.req # r
    <3>1. Live(a.id.req) /\ SoundEffect(req[a.id.req], a.id.kind, a.id.key)
      BY <2>2 DEF EffectsSound
    <3> QED BY <1>1, <2>2, <3>1 DEF OnlyWrites, Live
  <2>3. CASE a = [id |-> id, actor |-> actor]
    BY <1>1, <1>2, <2>3 DEF OnlyWrites, Live
  <2> QED BY <1>1, <2>1, <2>2, <2>3
<1> QED BY <1>3, <1>4 DEF EffectsSound

\* A document that is not written stays witnessed.
LEMMA UnwrittenWitnessed ==
    ASSUME Kept, NEW r, NEW d, Witnessed(r, d)
    PROVE  Witnessed(r, d)'
BY WitnessedParts, WitnessedPartsAfter, PeopleStayWitnessed, OffersStayWitnessed,
   StatusStaysWitnessed, MeetingStaysWitnessed, ProposalStaysWitnessed

LEMMA WitnessedAfter ==
    ASSUME NEW r, NEW e, e = req'[r], Witnessed(r, e)'
    PROVE  Witnessed(r, req[r])'
BY DEF Witnessed

DocumentsWitnessed == \A r \in DOMAIN req : Witnessed(r, req[r])

LEMMA WitnessesStep ==
    ASSUME DocumentsWitnessed, NEW r \in Request, NEW kind, NEW key, NEW actor, NEW recipients,
           CoherentWrite(r, kind, key, actor, recipients)
    PROVE  DocumentsWitnessed'
<1>1. OnlyWrites(r) /\ Kept
  BY RecordsKeeps DEF CoherentWrite
<1>2. ASSUME NEW q \in DOMAIN req' PROVE Witnessed(q, req[q])'
  <2>1. PICK e : e = req'[q]
    OBVIOUS
  <2>2. CASE q = r
    <3>1. Witnessed(q, e)'
      BY <2>1, <2>2 DEF CoherentWrite, DocumentsWitnessed
    <3> QED BY <2>1, <3>1, WitnessedAfter
  <2>3. CASE q # r
    <3>1. q \in DOMAIN req /\ req[q] = e
      BY <1>1, <1>2, <2>1, <2>3 DEF OnlyWrites
    <3>2. Witnessed(q, e)
      BY <3>1 DEF DocumentsWitnessed
    <3>3. Witnessed(q, e)'
      BY <1>1, <3>2, UnwrittenWitnessed
    <3> QED BY <2>1, <3>3, WitnessedAfter
  <2> QED BY <2>2, <2>3
<1> QED BY <1>2 DEF DocumentsWitnessed

LEMMA NotesStep ==
    ASSUME EffectsSound, NotesToOthers, NEW r \in Request, NEW kind, NEW key, NEW actor,
           NEW recipients, CoherentWrite(r, kind, key, actor, recipients)
    PROVE  NotesToOthers'
<1> DEFINE id == Effect(kind, r, key)
<1>1. /\ OnlyWrites(r) /\ \A a \in audit : a.id # id
      /\ note' = note \cup {[to |-> v, id |-> id] : v \in recipients}
      /\ audit' = audit \cup {[id |-> id, actor |-> actor]}
  BY DEF CoherentWrite, Records
<1>2. id.req = r
  BY DEF Effect
<1> HIDE DEF id
<1>3. ASSUME NEW n \in note, NEW a \in audit', a.id = n.id PROVE a.actor # n.to
  <2>1. n.id # id
    BY <1>1 DEF EffectsSound
  <2>2. a \in audit
    BY <1>1, <1>3, <2>1
  <2> QED BY <1>3, <2>2 DEF NotesToOthers
<1>4. ASSUME NEW n \in note
      PROVE  Live(n.id.req)' /\ n.to \in Participants(n.id.req, req'[n.id.req])
  <2>1. Live(n.id.req) /\ n.to \in Participants(n.id.req, req[n.id.req])
    BY DEF NotesToOthers
  <2> QED BY <1>1, <2>1 DEF CoherentWrite, OnlyWrites, Live
<1>5. ASSUME NEW n \in note' \ note
      PROVE  /\ Live(n.id.req)' /\ n.to \in Participants(n.id.req, req'[n.id.req])
             /\ \A a \in audit' : a.id = n.id => a.actor # n.to
  <2>1. n.id = id /\ n.to \in recipients
    BY <1>1, <1>5
  <2>2. Live(r)' /\ n.to \in Participants(r, req'[r]) /\ n.to # actor
    BY <1>1, <2>1 DEF CoherentWrite, OnlyWrites, Live
  <2>3. \A a \in audit' : a.id = id => a.actor = actor
    BY <1>1
  <2> QED BY <1>2, <2>1, <2>2, <2>3
<1> QED BY <1>3, <1>4, <1>5 DEF NotesToOthers

LEMMA IdleKeepsStory ==
    ASSUME Idle
    PROVE  /\ EffectsSound => EffectsSound'
           /\ DocumentsWitnessed => DocumentsWitnessed'
           /\ NotesToOthers => NotesToOthers'
<1>1. EffectsSound => EffectsSound'
  BY DEF Idle, EffectsSound, Live
<1>2. Kept
  BY DEF Idle, Kept
<1>3. ASSUME DocumentsWitnessed, NEW q \in DOMAIN req' PROVE Witnessed(q, req[q])'
  <2>1. PICK e : e = req'[q]
    OBVIOUS
  <2>2. Witnessed(q, e)
    BY <1>3, <2>1 DEF Idle, DocumentsWitnessed
  <2> QED BY <1>2, <2>1, <2>2, UnwrittenWitnessed, WitnessedAfter
<1>4. NotesToOthers => NotesToOthers'
  BY DEF Idle, NotesToOthers, Live, Participants
<1> QED BY <1>1, <1>3, <1>4 DEF DocumentsWitnessed

\* The whole story is inductive together with the type.
LEMMA StepKeepsStory ==
    ASSUME TypeOK, CoherentHistory, NotesToOthers, [Next]_vars
    PROVE  CoherentHistory' /\ NotesToOthers'
<1>1. DocumentsSound /\ EffectsSound /\ DocumentsWitnessed
  BY DEF CoherentHistory, DocumentsWitnessed
<1>2. DocumentsSound'
  BY <1>1, StepKeepsSound
<1>3. CASE Idle
  <2>1. EffectsSound' /\ DocumentsWitnessed' /\ NotesToOthers'
    BY <1>1, <1>3, IdleKeepsStory
  <2> QED BY <1>2, <2>1 DEF CoherentHistory, DocumentsWitnessed
<1>4. ASSUME NEW r \in Request, NEW kind \in EffectKind, NEW key \in OptionId \cup {None},
             NEW actor \in User, NEW recipients \in SUBSET User,
             CoherentWrite(r, kind, key, actor, recipients)
      PROVE  CoherentHistory' /\ NotesToOthers'
  <2>1. EffectsSound' /\ DocumentsWitnessed' /\ NotesToOthers'
    BY <1>1, <1>4, EffectsStep, WitnessesStep, NotesStep
  <2> QED BY <1>2, <2>1 DEF CoherentHistory, DocumentsWitnessed
<1> QED BY <1>1, <1>3, <1>4, CoherentCases

\* Documents, notifications and audit events tell the same story, and everyone
\* is told of what the others did and never of what they did themselves.
THEOREM HistoryStaysCoherent == Spec => [](CoherentHistory /\ NotesToOthers)
<1>1. Init => CoherentHistory /\ NotesToOthers
  BY DEF Init, CoherentHistory, DocumentsSound, EffectsSound, NotesToOthers
<1>2. TypeOK /\ (CoherentHistory /\ NotesToOthers) /\ [Next]_vars => (CoherentHistory /\ NotesToOthers)'
  BY StepKeepsStory
<1> QED BY <1>1, <1>2, TypeCorrect, PTL DEF Spec

-----------------------------------------------------------------------------
(* What a reader of the stored state may rely on.                          *)

\* A taken id belongs to a stored document that may have left the effect.
LEMMA TakenIsBehind ==
    ASSUME EffectsSound, NEW kind, NEW r, NEW key, Taken(kind, r, key)
    PROVE  Live(r) /\ SoundEffect(req[r], kind, key)
<1>1. PICK a \in audit : a.id = Effect(kind, r, key)
  BY DEF Taken, EffectsSound
<1>2. a.id.req = r /\ a.id.kind = kind /\ a.id.key = key
  BY <1>1 DEF Effect
<1> QED BY <1>1, <1>2 DEF EffectsSound

\* No transition still open to a document aborts for good on an effect id that
\* was taken before.
THEOREM EffectIdsStayFree == Spec => []EffectIdsFree
<1>1. TypeOK /\ CoherentHistory => EffectIdsFree
  <2> SUFFICES ASSUME TypeOK, EffectsSound, NEW r \in Request
               PROVE  /\ ~Live(r) => \A kind \in EffectKind, key \in OptionId \cup {None} : ~Taken(kind, r, key)
                      /\ Live(r) =>
                          LET d == req[r]
                          IN  /\ d.status = "suggested" =>
                                    /\ ~Taken("confirm", r, None) /\ ~Taken("resolve", r, None)
                                    /\ d.from = None => ~Taken("handoff", r, None)
                                    /\ \A s \in Time : OfferId(d.target, s) \notin Ids(d) =>
                                                           ~Taken("offer", r, OfferId(d.target, s))
                              /\ d.status = "accepted" =>
                                    /\ ~Taken("complete", r, None) /\ ~Taken("cancel", r, None)
                                    /\ \A p \in ProposalId \ Ids(d) : ~Taken("propose", r, p)
                                    /\ ProposalPending(d) =>
                                          \A kind \in {"accept", "decline", "withdraw"} :
                                              ~Taken(kind, r, d.proposal.id)
    BY DEF EffectIdsFree, CoherentHistory
  <2>1. \A kind, key : Taken(kind, r, key) => Live(r) /\ SoundEffect(req[r], kind, key)
    BY TakenIsBehind
  <2> DEFINE d == req[r]
  <2>2. ASSUME d.status = "suggested"
        PROVE  /\ ~Taken("confirm", r, None) /\ ~Taken("resolve", r, None)
               /\ d.from = None => ~Taken("handoff", r, None)
               /\ \A s \in Time : OfferId(d.target, s) \notin Ids(d) =>
                                      ~Taken("offer", r, OfferId(d.target, s))
    BY <2>1, <2>2 DEF SoundEffect, OfferId
  <2>3. ASSUME d.status = "accepted"
        PROVE  /\ ~Taken("complete", r, None) /\ ~Taken("cancel", r, None)
               /\ \A p \in ProposalId \ Ids(d) : ~Taken("propose", r, p)
               /\ ProposalPending(d) => \A kind \in {"accept", "decline", "withdraw"} :
                                            ~Taken(kind, r, d.proposal.id)
    BY <2>1, <2>3 DEF SoundEffect
  <2> QED BY <2>1, <2>2, <2>3
<1> QED BY <1>1, TypeCorrect, HistoryStaysCoherent, PTL

\* Both people agreed to the time a meeting stands at.
THEOREM MeetingsAreAgreed == Spec => []AgreedByBoth
<1>1. TypeOK /\ CoherentHistory => AgreedByBoth
  <2> SUFFICES ASSUME TypeOK, DocumentsSound, DocumentsWitnessed, NEW r \in Request, Held(r),
                      NEW d, d = req[r], NEW id, id = d.accepted
               PROVE  IF id \in ProposalId
                      THEN \E u \in Principals(r, d) :
                              Happened("propose", r, id, u) /\ Happened("accept", r, id, Other(r, d, u))
                      ELSE \/ ProposedBy(id) = None /\ Happened("confirm", r, None, d.target)
                           \/ /\ Happened("offer", r, id, d.target)
                              /\ Happened("confirm", r, None, Requester[r])
    BY DEF AgreedByBoth, CoherentHistory, DocumentsWitnessed
  <2>1. /\ IsDoc(d) /\ SoundDoc(r, d) /\ d.accepted # None
        /\ WitnessedMeeting(r, d) /\ WitnessedOffers(r, d)
    BY WitnessedParts, StoredSound DEF Held, DocumentsWitnessed, SoundDoc, Live
  <2>2. CASE id \in ProposalId
    BY <2>1, <2>2 DEF WitnessedMeeting
  <2>3. CASE id \notin ProposalId /\ ProposedBy(id) = None
    BY <2>1, <2>3 DEF WitnessedMeeting
  <2>4. CASE id \notin ProposalId /\ ProposedBy(id) # None
    <3>1. id \in Ids(d) /\ id \in ServerOptionId
      BY <2>1, <2>4 DEF SoundDoc, MeetingEvidence, IsDoc, Ids, OptionId
    <3>2. id.src = "offer" /\ id.who = d.target
      BY <2>1, <2>4, <3>1 DEF ProposedBy, SoundDoc
    <3>3. Happened("offer", r, id, d.target)
      BY <2>1, <3>1, <3>2 DEF WitnessedOffers
    <3> QED BY <2>1, <2>4, <3>3 DEF WitnessedMeeting
  <2> QED BY <2>2, <2>3, <2>4
<1> QED BY <1>1, TypeCorrect, HistoryStaysCoherent, PTL

\* A person is told of what the others did, and nobody outside the request is
\* told anything.
THEOREM NotesReachOthers == Spec => []NotesToOthers
BY HistoryStaysCoherent, PTL

\* What the retries before a time is confirmed claim is true.
NegotiationReplays(r, u) ==
    /\ \A duration, deadline : CreateReplays(r, u, duration, deadline) =>
          [to |-> u, id |-> Effect("create", r, None)] \in note
    /\ \A s \in Time : ProposeReplays(r, u, s) => Happened("offer", r, OfferId(u, s), u)
    /\ \A status \in {"async", "declined", "cancelled"} :
          ResolveReplays(r, u, status) => Happened("resolve", r, None, u)
    /\ \A v \in User : HandoffReplays(r, u, v) =>
          Happened("handoff", r, None, u) /\ [to |-> v, id |-> Effect("handoff", r, None)] \in note

\* So is what those that name a meeting's option claim,
MeetingReplays(r, d, u, id) ==
    /\ ConfirmReplays(r, u, id) =>
          \/ Happened("confirm", r, None, u)
          \/ \E v \in Principals(r, d) : Happened("accept", r, id, v)
    /\ CompleteReplays(r, u, now, id) => \E v \in Principals(r, d) : Happened("complete", r, None, v)
    /\ CancelReplays(r, u, id) => \E v \in Principals(r, d) : Happened("cancel", r, None, v)

\* and what those of a reschedule claim.
RescheduleReplays(r, u, p, id) ==
    /\ \A s : ProposalReplays(r, u, p, id, s) => Happened("propose", r, p, u)
    /\ \A kind \in {"accept", "decline", "withdraw"} :
          AnswerReplays(r, u, p, id, kind) => Happened(kind, r, p, u)

\* The retries before a time is confirmed are answered truly.
LEMMA NegotiationReplaysTrue ==
    ASSUME TypeOK, DocumentsSound, NEW r \in Request, NEW d, d = req[r], NEW u \in User,
           Witnessed(r, d)
    PROVE  NegotiationReplays(r, u)
<1>1. WitnessedPeople(r, d) /\ WitnessedOffers(r, d) /\ WitnessedStatus(r, d)
  BY WitnessedParts
<1>2. \A duration, deadline : CreateReplays(r, u, duration, deadline) =>
          [to |-> u, id |-> Effect("create", r, None)] \in note
  BY <1>1 DEF CreateReplays, WitnessedPeople
<1>3. ASSUME NEW s \in Time, ProposeReplays(r, u, s) PROVE Happened("offer", r, OfferId(u, s), u)
  <2>1. /\ OfferId(u, s) \in Ids(d) \cap ServerOptionId
        /\ OfferId(u, s).src = "offer" /\ OfferId(u, s).who = u
    BY <1>3 DEF ProposeReplays, OfferId, ServerOptionId
  <2> QED BY <1>1, <2>1 DEF WitnessedOffers
<1>4. \A status \in {"async", "declined", "cancelled"} :
          ResolveReplays(r, u, status) => Happened("resolve", r, None, u)
  BY <1>1 DEF ResolveReplays, WitnessedStatus
<1>5. ASSUME NEW v \in User, HandoffReplays(r, u, v)
      PROVE  Happened("handoff", r, None, u) /\ [to |-> v, id |-> Effect("handoff", r, None)] \in note
  BY <1>1, <1>5, NoneAssumption DEF HandoffReplays, WitnessedPeople
<1> QED BY <1>2, <1>3, <1>4, <1>5 DEF NegotiationReplays

\* So are those of a confirmation, a completion and a cancellation.
LEMMA MeetingReplaysTrue ==
    ASSUME TypeOK, DocumentsSound, NEW r \in Request, Live(r), NEW d, d = req[r], NEW u \in User,
           NEW id \in Ids(d), Witnessed(r, d)
    PROVE  MeetingReplays(r, d, u, id)
<1>1. /\ WitnessedStatus(r, d) /\ WitnessedMeeting(r, d) /\ IsDoc(d) /\ SoundDoc(r, d)
      /\ id # None /\ d.target # None
  BY WitnessedParts, StoredSound, NoneAssumption DEF IsDoc, Ids
<1>2. ASSUME ConfirmReplays(r, u, id)
      PROVE  \/ Happened("confirm", r, None, u)
             \/ \E v \in Principals(r, d) : Happened("accept", r, id, v)
  <2>1. d.accepted = id /\ AuthorizeConfirmation(r, d, u, id)
    BY <1>2 DEF ConfirmReplays
  <2>2. CASE id \in ProposalId
    <3>1. PICK v \in Principals(r, d) : Happened("accept", r, id, Other(r, d, v))
      BY <1>1, <2>1, <2>2 DEF WitnessedMeeting
    <3>2. Other(r, d, v) \in Principals(r, d)
      BY DEF Other, Principals
    <3> QED BY <3>1, <3>2
  <2>3. CASE id \notin ProposalId
    <3>1. u = IF ProposedBy(id) = None THEN d.target ELSE Requester[r]
      BY <1>1, <2>1 DEF AuthorizeConfirmation
    <3> QED BY <1>1, <2>1, <2>3, <3>1 DEF WitnessedMeeting
  <2> QED BY <2>2, <2>3
<1>3. CompleteReplays(r, u, now, id) => \E v \in Principals(r, d) : Happened("complete", r, None, v)
  BY <1>1 DEF CompleteReplays, WitnessedStatus
<1>4. CancelReplays(r, u, id) => \E v \in Principals(r, d) : Happened("cancel", r, None, v)
  BY <1>1 DEF CancelReplays, WitnessedStatus
<1> QED BY <1>2, <1>3, <1>4 DEF MeetingReplays

\* So are those of a reschedule.
LEMMA RescheduleReplaysTrue ==
    ASSUME TypeOK, DocumentsSound, NEW r \in Request, Live(r), NEW d, d = req[r], NEW u \in User,
           NEW id, NEW p, Witnessed(r, d)
    PROVE  RescheduleReplays(r, u, p, id)
<1>1. WitnessedProposal(r, d) /\ SoundDoc(r, d)
  BY WitnessedParts, StoredSound
<1>2. \A s : ProposalReplays(r, u, p, id, s) => Happened("propose", r, p, u)
  BY <1>1 DEF ProposalReplays, WitnessedProposal
<1>3. ASSUME NEW kind \in {"accept", "decline", "withdraw"}, AnswerReplays(r, u, p, id, kind)
      PROVE  Happened(kind, r, p, u)
  <2>1. /\ d.proposal # None /\ d.proposal.id = p /\ d.proposal.status = Terminal(kind)
        /\ (kind = "withdraw") <=> (u = d.proposal.proposer)
        /\ u \in Principals(r, d) /\ d.proposal.proposer \in Principals(r, d)
    BY <1>3 DEF AnswerReplays, RescheduleGuard, ValidReplayEvidence
  <2>2. u # d.proposal.proposer => u = Other(r, d, d.proposal.proposer)
    BY <1>1, <2>1, OtherOf DEF SoundDoc
  <2> QED BY <1>1, <2>1, <2>2 DEF WitnessedProposal, Terminal
<1> QED BY <1>2, <1>3 DEF RescheduleReplays

\* A command that is answered "already done" was done, for who repeats it.
THEOREM ReplaysStayTrue == Spec => []ReplaysAreTrue
<1>1. TypeOK /\ CoherentHistory => ReplaysAreTrue
  <2> SUFFICES ASSUME TypeOK, DocumentsSound, DocumentsWitnessed, NEW r \in Request, NEW u \in User
               PROVE  /\ NegotiationReplays(r, u)
                      /\ Live(r) => \A id \in Ids(req[r]) :
                            /\ MeetingReplays(r, req[r], u, id)
                            /\ \A p \in ProposalId : RescheduleReplays(r, u, p, id)
    BY DEF ReplaysAreTrue, CoherentHistory, DocumentsWitnessed, NegotiationReplays,
           MeetingReplays, RescheduleReplays
  <2>1. CASE Live(r)
    <3>1. PICK d : d = req[r]
      OBVIOUS
    <3>2. Witnessed(r, d)
      BY <2>1, <3>1 DEF DocumentsWitnessed, Live
    <3>3. NegotiationReplays(r, u)
      BY <3>1, <3>2, NegotiationReplaysTrue
    <3>4. ASSUME NEW id \in Ids(d) PROVE MeetingReplays(r, d, u, id)
      BY <2>1, <3>1, <3>2, MeetingReplaysTrue
    <3>5. ASSUME NEW id, NEW p PROVE RescheduleReplays(r, u, p, id)
      BY <2>1, <3>1, <3>2, RescheduleReplaysTrue
    <3> QED BY <3>1, <3>3, <3>4, <3>5
  <2>2. CASE ~Live(r)
    BY <2>2 DEF NegotiationReplays, CreateReplays, ProposeReplays, ResolveReplays, HandoffReplays
  <2> QED BY <2>1, <2>2
<1> QED BY <1>1, TypeCorrect, HistoryStaysCoherent, PTL

=============================================================================
