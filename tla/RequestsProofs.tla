--------------------------- MODULE RequestsProofs ---------------------------
(***************************************************************************)
(* Proofs about Requests, for every value of its constants.                *)
(***************************************************************************)
EXTENDS Requests, TLAPS

-----------------------------------------------------------------------------
(* Lemmas on the helpers.                                                  *)

\* A generated option set maps ids the server derives to starts, or to None.
LEMMA GeneratedOptionsType ==
    ASSUME NEW src \in {"candidate", "handoff"}, NEW owner \in User, NEW starts \in SUBSET Time
    PROVE  LET o == GeneratedOptions(src, owner, starts)
           IN  DOMAIN o \subseteq OptionId /\ o \in [DOMAIN o -> Time \cup {None}]
<1>1. 0 \in Time
  BY BoundsAssumption DEF Time
<1>2. CASE starts = {}
  BY <1>1, <1>2 DEF GeneratedOptions, OptionId, ServerOptionId
<1>3. CASE starts # {}
  BY <1>3 DEF GeneratedOptions, OptionId, ServerOptionId
<1> QED BY <1>2, <1>3

\* Adding a meeting keeps the shape of a document's options.
LEMMA WithMeetingType ==
    ASSUME NEW d, IsDoc(d), NEW id \in OptionId, NEW s \in Time
    PROVE  LET o == WithMeeting(d, id, s)
           IN  DOMAIN o \subseteq OptionId /\ o \in [DOMAIN o -> Time \cup {None}]
BY DEF WithMeeting, IsDoc, Ids

\* A transaction that writes a document of the right shape, with effects
\* between known people, keeps the store's type.
LEMMA CommitType ==
    ASSUME TypeOK, NEW r \in Request, NEW d, IsDoc(d), NEW id \in EffectId,
           NEW actor \in User, NEW recipients \in SUBSET User,
           Commit(r, d, id, actor, recipients)
    PROVE  TypeOK'
<1>1. DOMAIN req' = DOMAIN req \cup {r} /\ \A q \in DOMAIN req' : req'[q] = IF q = r THEN d ELSE req[q]
  BY DEF Commit, WithDoc
<1>2. \A q \in DOMAIN req' : IsDoc(req'[q])
  BY <1>1 DEF TypeOK
<1>3. note' \subseteq Note /\ audit' \subseteq Audit
  BY DEF Commit, TypeOK, Note, Audit
<1>4. UNCHANGED <<now, member, deleting, open>>
  BY DEF Commit
<1> QED BY <1>1, <1>2, <1>3, <1>4 DEF TypeOK, IsDoc

-----------------------------------------------------------------------------
(* Type correctness, one lemma per transaction.                            *)

LEMMA EffectType ==
    ASSUME NEW kind \in EffectKind, NEW r \in Request, NEW key \in OptionId \cup {None}
    PROVE  Effect(kind, r, key) \in EffectId
BY DEF Effect, EffectId

LEMMA OfferIdType ==
    ASSUME NEW u \in User, NEW s \in Time
    PROVE  OfferId(u, s) \in OptionId
BY DEF OfferId, OptionId, ServerOptionId

LEMMA CreateType ==
    ASSUME TypeOK, NEW r \in Request, NEW t \in Time, NEW target \in User,
           NEW duration \in Durations, NEW deadline \in Deadlines,
           NEW starts \in SUBSET Time, Create(r, t, target, duration, deadline, starts)
    PROVE  TypeOK'
<1> DEFINE o == GeneratedOptions("candidate", target, starts)
           d == [target |-> target, from |-> None, duration |-> duration,
                 deadline |-> deadline, status |-> "suggested", options |-> o,
                 accepted |-> None, proposal |-> None, updated |-> t]
<1>1. DOMAIN o \subseteq OptionId /\ o \in [DOMAIN o -> Time \cup {None}]
  BY GeneratedOptionsType
<1>2. Commit(r, d, Effect("create", r, None), Requester[r], {target})
  BY DEF Create
<1> HIDE DEF o
<1>3. IsDoc(d)
  BY <1>1 DEF IsDoc, Status
<1>4. Effect("create", r, None) \in EffectId
  BY EffectType DEF EffectKind
<1>5. Requester[r] \in User
  BY RequesterAssumption
<1> HIDE DEF d
<1> QED BY <1>2, <1>3, <1>4, <1>5, CommitType

LEMMA ProposeMeetingType ==
    ASSUME TypeOK, NEW r \in Request, NEW u \in User, NEW t \in Time, NEW s \in Time,
           ProposeMeeting(r, u, t, s)
    PROVE  TypeOK'
<1> DEFINE id == OfferId(u, s)
           o == WithMeeting(req[r], id, s)
           d == [req[r] EXCEPT !.options = o, !.updated = t]
<1>1. IsDoc(req[r])
  BY DEF TypeOK, ProposeMeeting, Live
<1>2. id \in OptionId
  BY OfferIdType
<1>3. DOMAIN o \subseteq OptionId /\ o \in [DOMAIN o -> Time \cup {None}]
  BY <1>1, <1>2, WithMeetingType
<1>4. Commit(r, d, Effect("offer", r, id), u, {Requester[r]})
  BY DEF ProposeMeeting
<1> HIDE DEF id, o
<1>5. IsDoc(d)
  BY <1>1, <1>3 DEF IsDoc
<1>6. Effect("offer", r, id) \in EffectId
  BY <1>2, EffectType DEF EffectKind
<1>7. Requester[r] \in User
  BY RequesterAssumption
<1> HIDE DEF d
<1> QED BY <1>4, <1>5, <1>6, <1>7, CommitType

\* The transactions that leave the options alone.
LEMMA ConfirmMeetingType ==
    ASSUME TypeOK, NEW r \in Request, NEW u \in User, NEW t \in Time, NEW id \in StoredIds(r),
           ConfirmMeeting(r, u, t, id)
    PROVE  TypeOK'
<1> DEFINE d == [req[r] EXCEPT !.status = "accepted", !.accepted = id, !.updated = t]
           to == IF u = Requester[r] THEN req[r].target ELSE Requester[r]
<1>1. IsDoc(req[r])
  BY DEF TypeOK, Live, ConfirmMeeting
<1>2. id \in OptionId
  BY <1>1 DEF StoredIds, IsDoc, Ids, ConfirmMeeting
<1>3. IsDoc(d)
  BY <1>1, <1>2 DEF IsDoc, Status
<1>4. Effect("confirm", r, None) \in EffectId
  BY EffectType DEF EffectKind
<1>5. to \in User
  BY <1>1, RequesterAssumption DEF IsDoc
<1>6. Commit(r, d, Effect("confirm", r, None), u, {to})
  BY DEF ConfirmMeeting
<1> HIDE DEF d, to
<1> QED BY <1>3, <1>4, <1>5, <1>6, CommitType

LEMMA ResolveType ==
    ASSUME TypeOK, NEW r \in Request, NEW u \in User, NEW t \in Time,
           NEW status \in {"async", "declined", "cancelled"}, Resolve(r, u, t, status)
    PROVE  TypeOK'
<1> DEFINE d == [req[r] EXCEPT !.status = status, !.updated = t]
           to == IF status = "cancelled" THEN req[r].target ELSE Requester[r]
<1>1. IsDoc(req[r])
  BY DEF TypeOK, Live, Resolve
<1>2. IsDoc(d)
  BY <1>1 DEF IsDoc, Status
<1>3. Effect("resolve", r, None) \in EffectId
  BY EffectType DEF EffectKind
<1>4. to \in User
  BY <1>1, RequesterAssumption DEF IsDoc
<1>5. Commit(r, d, Effect("resolve", r, None), u, {to})
  BY DEF Resolve
<1> HIDE DEF d, to
<1> QED BY <1>2, <1>3, <1>4, <1>5, CommitType

LEMMA CompleteType ==
    ASSUME TypeOK, NEW r \in Request, NEW u \in User, NEW t \in Time, NEW id,
           Complete(r, u, t, id)
    PROVE  TypeOK'
<1> DEFINE d == [req[r] EXCEPT !.status = "completed", !.updated = t]
           to == IF u = Requester[r] THEN req[r].target ELSE Requester[r]
<1>1. IsDoc(req[r])
  BY DEF TypeOK, Live, Complete, Completable
<1>2. IsDoc(d)
  BY <1>1 DEF IsDoc, Status
<1>3. Effect("complete", r, None) \in EffectId
  BY EffectType DEF EffectKind
<1>4. to \in User
  BY <1>1, RequesterAssumption DEF IsDoc
<1>5. Commit(r, d, Effect("complete", r, None), u, {to})
  BY DEF Complete
<1> HIDE DEF d, to
<1> QED BY <1>2, <1>3, <1>4, <1>5, CommitType

\* The counterpart of anybody is a person.
LEMMA OtherType ==
    ASSUME NEW r \in Request, NEW d, IsDoc(d), NEW u
    PROVE  Other(r, d, u) \in User
BY RequesterAssumption DEF Other, IsDoc

LEMMA CancelConfirmedType ==
    ASSUME TypeOK, NEW r \in Request, NEW u \in User, NEW t \in Time, NEW id,
           CancelConfirmed(r, u, t, id)
    PROVE  TypeOK'
<1> DEFINE d == [req[r] EXCEPT !.status = "cancelled", !.updated = t]
<1>1. IsDoc(req[r])
  BY DEF TypeOK, Live, CancelConfirmed
<1>2. IsDoc(d)
  BY <1>1 DEF IsDoc, Status
<1>3. Effect("cancel", r, None) \in EffectId
  BY EffectType DEF EffectKind
<1>4. Other(r, req[r], u) \in User
  BY <1>1, OtherType
<1>5. Commit(r, d, Effect("cancel", r, None), u, {Other(r, req[r], u)})
  BY DEF CancelConfirmed
<1> HIDE DEF d
<1> QED BY <1>2, <1>3, <1>4, <1>5, CommitType

LEMMA HandoffType ==
    ASSUME TypeOK, NEW r \in Request, NEW u \in User, NEW t \in Time, NEW recipient \in User,
           NEW starts \in SUBSET Time, Handoff(r, u, t, recipient, starts)
    PROVE  TypeOK'
<1> DEFINE o == GeneratedOptions("handoff", recipient, starts)
           d == [req[r] EXCEPT !.from = u, !.target = recipient, !.updated = t, !.options = o]
<1>1. IsDoc(req[r])
  BY DEF TypeOK, Live, Handoff
<1>2. DOMAIN o \subseteq OptionId /\ o \in [DOMAIN o -> Time \cup {None}]
  BY GeneratedOptionsType
<1>3. Commit(r, d, Effect("handoff", r, None), u, {recipient, Requester[r]})
  BY DEF Handoff
<1> HIDE DEF o
<1>4. IsDoc(d)
  BY <1>1, <1>2 DEF IsDoc
<1>5. Effect("handoff", r, None) \in EffectId
  BY EffectType DEF EffectKind
<1>6. Requester[r] \in User
  BY RequesterAssumption
<1> HIDE DEF d
<1> QED BY <1>3, <1>4, <1>5, <1>6, CommitType

LEMMA RescheduleProposeType ==
    ASSUME TypeOK, NEW r \in Request, NEW u \in User, NEW t \in Time, NEW p \in ProposalId,
           NEW expected \in StoredIds(r), NEW s \in Time, ReschedulePropose(r, u, t, p, expected, s)
    PROVE  TypeOK'
<1> DEFINE o == WithMeeting(req[r], p, s)
           d == [req[r] EXCEPT !.options = o, !.updated = t,
                     !.proposal = [id |-> p, proposer |-> u, expected |-> expected,
                                   status |-> "proposed"]]
<1>1. IsDoc(req[r])
  BY DEF TypeOK, Live, ReschedulePropose, RescheduleGuard
<1>2. p \in OptionId /\ expected \in OptionId
  BY <1>1 DEF OptionId, StoredIds, IsDoc, Ids, ReschedulePropose, RescheduleGuard
<1>3. DOMAIN o \subseteq OptionId /\ o \in [DOMAIN o -> Time \cup {None}]
  BY <1>1, <1>2, WithMeetingType
<1>4. Commit(r, d, Effect("propose", r, p), u, {Other(r, req[r], u)})
  BY DEF ReschedulePropose
<1> HIDE DEF o
<1>5. IsDoc(d)
  BY <1>1, <1>2, <1>3 DEF IsDoc, Proposal
<1>6. Effect("propose", r, p) \in EffectId
  BY <1>2, EffectType DEF EffectKind
<1>7. Other(r, req[r], u) \in User
  BY <1>1, OtherType
<1> HIDE DEF d
<1> QED BY <1>4, <1>5, <1>6, <1>7, CommitType

LEMMA RescheduleAcceptType ==
    ASSUME TypeOK, NEW r \in Request, NEW u \in User, NEW t \in Time, NEW p \in ProposalId,
           NEW expected, RescheduleAccept(r, u, t, p, expected)
    PROVE  TypeOK'
<1> DEFINE pr == [req[r].proposal EXCEPT !.status = "accepted"]
           d == [req[r] EXCEPT !.accepted = p, !.proposal = pr, !.updated = t]
<1>1. IsDoc(req[r])
  BY DEF TypeOK, Live, RescheduleAccept, Answerable, RescheduleGuard
<1>2. req[r].proposal \in Proposal
  BY <1>1 DEF IsDoc, RescheduleAccept, Answerable, ProposalPending
<1>3. p \in OptionId
  BY DEF OptionId
<1>4. pr \in Proposal
  BY <1>2 DEF Proposal
<1>5. Commit(r, d, Effect("accept", r, p), u, {Other(r, req[r], u)})
  BY DEF RescheduleAccept
<1> HIDE DEF pr
<1>6. IsDoc(d)
  BY <1>1, <1>3, <1>4 DEF IsDoc
<1>7. Effect("accept", r, p) \in EffectId
  BY <1>3, EffectType DEF EffectKind
<1>8. Other(r, req[r], u) \in User
  BY <1>1, OtherType
<1> HIDE DEF d
<1> QED BY <1>5, <1>6, <1>7, <1>8, CommitType

LEMMA RescheduleRefuseType ==
    ASSUME TypeOK, NEW r \in Request, NEW u \in User, NEW t \in Time, NEW p \in ProposalId,
           NEW expected, NEW action \in {"decline", "withdraw"},
           RescheduleRefuse(r, u, t, p, expected, action)
    PROVE  TypeOK'
<1> DEFINE pr == [req[r].proposal EXCEPT !.status = Terminal(action)]
           d == [req[r] EXCEPT !.proposal = pr, !.updated = t]
<1>1. IsDoc(req[r])
  BY DEF TypeOK, Live, RescheduleRefuse, Answerable, RescheduleGuard
<1>2. req[r].proposal \in Proposal
  BY <1>1 DEF IsDoc, RescheduleRefuse, Answerable, ProposalPending
<1>3. p \in OptionId
  BY DEF OptionId
<1>4. pr \in Proposal
  BY <1>2 DEF Proposal, Terminal
<1>5. Commit(r, d, Effect(action, r, p), u, {Other(r, req[r], u)})
  BY DEF RescheduleRefuse
<1> HIDE DEF pr
<1>6. IsDoc(d)
  BY <1>1, <1>4 DEF IsDoc
<1>7. Effect(action, r, p) \in EffectId
  BY <1>3, EffectType DEF EffectKind
<1>8. Other(r, req[r], u) \in User
  BY <1>1, OtherType
<1> HIDE DEF d
<1> QED BY <1>5, <1>6, <1>7, <1>8, CommitType

\* The people, places and clocks of the environment.
LEMMA EnvironmentType ==
    ASSUME TypeOK, Environment
    PROVE  TypeOK'
<1> USE DEF TypeOK, Live, IsDoc
<1>1. CASE Tick
  BY <1>1, BoundsAssumption DEF Tick, Time
<1>2. CASE \E u \in MayLeave : BeginAccountDeletion(u)
  BY <1>2, BoundsAssumption DEF BeginAccountDeletion
<1>3. CASE \E u \in MayLeave, o \in Org : MemberRemoved(u, o)
  BY <1>3 DEF MemberRemoved
<1>4. CASE \E u \in User, side \in Side, free \in Calendars : CalendarChanges(u, side, free)
  BY <1>4, BoundsAssumption DEF CalendarChanges
<1> QED BY <1>1, <1>2, <1>3, <1>4 DEF Environment

\* Every step keeps the shape of what is stored.
LEMMA TypeCorrectStep ==
    ASSUME TypeOK, [Next]_vars
    PROVE  TypeOK'
<1>1. ASSUME NEW r \in Request, NEW t \in Reading, CreateStep(r, t) PROVE TypeOK'
  BY <1>1, CreateType DEF CreateStep, StartSets, Reading
<1>2. ASSUME NEW r \in Request, NEW t \in Reading, NEW u \in User, NegotiateStep(r, u, t)
      PROVE  TypeOK'
  BY <1>2, ProposeMeetingType, ResolveType, HandoffType
     DEF NegotiateStep, ProposeStep, ResolveStep, HandoffStep, StartSets, Reading
<1>3. ASSUME NEW r \in Request, NEW t \in Reading, NEW u \in User, MeetingStep(r, u, t)
      PROVE  TypeOK'
  <2>1. PICK id \in StoredIds(r) :
           \/ ConfirmMeeting(r, u, t, id)
           \/ Complete(r, u, t, id)
           \/ CancelConfirmed(r, u, t, id)
           \/ \E p \in ProposalId :
                 \/ \E s \in Time : ReschedulePropose(r, u, t, p, id, s)
                 \/ RescheduleAccept(r, u, t, p, id)
                 \/ \E action \in {"decline", "withdraw"} :
                       RescheduleRefuse(r, u, t, p, id, action)
    BY <1>3 DEF MeetingStep, ConfirmStep, CompleteStep, CancelStep, RescheduleStep
  <2>2. t \in Time
    BY DEF Reading
  <2> QED BY <2>1, <2>2, ConfirmMeetingType, CompleteType, CancelConfirmedType,
             RescheduleProposeType, RescheduleAcceptType, RescheduleRefuseType
<1>4. CASE Environment
  BY <1>4, EnvironmentType
<1>5. CASE UNCHANGED vars
  BY <1>5 DEF vars, TypeOK, Live, IsDoc
<1> QED BY <1>1, <1>2, <1>3, <1>4, <1>5 DEF Next

\* The store always holds well-formed documents, notifications and audit events.
THEOREM TypeCorrect == Spec => []TypeOK
<1>1. Init => TypeOK
  <2> SUFFICES ASSUME Init PROVE TypeOK
    OBVIOUS
  <2>1. 0 \in Time
    BY BoundsAssumption DEF Time
  <2>2. open \in [(User \X Side) -> SUBSET Time]
    BY BoundsAssumption DEF Init
  <2> QED BY <2>1, <2>2 DEF Init, TypeOK, Live
<1>2. TypeOK /\ [Next]_vars => TypeOK'
  BY TypeCorrectStep
<1> QED BY <1>1, <1>2, PTL DEF Spec

-----------------------------------------------------------------------------
(* Nobody is booked twice.  NoDoubleBooking is inductive together with the *)
(* type: only a confirmation and an accepted reschedule give a document a  *)
(* time, both check it against every other one, and nothing else moves the *)
(* time, the length or the people of a confirmed document.                 *)

\* A write that leaves a confirmed document's meeting where it is, or that
\* leaves it unconfirmed, double-books nobody.
LEMMA UnmovedKeepsBooking ==
    ASSUME TypeOK, NoDoubleBooking, NEW r \in Request, NEW d,
           req' = WithDoc(r, d),
           d.status = "accepted" =>
                /\ Reserves(r)
                /\ d.target = req[r].target /\ d.accepted = req[r].accepted
                /\ StartOf(d, d.accepted) = MeetingStart(r)
                /\ EndOf(d, d.accepted) = MeetingEnd(r)
    PROVE  NoDoubleBooking'
<1>1. /\ DOMAIN req' = DOMAIN req \cup {r}
      /\ \A q \in DOMAIN req' : req'[q] = IF q = r THEN d ELSE req[q]
  BY DEF WithDoc
<1>2. \A q \in Request : Reserves(q)' =>
          /\ Reserves(q)
          /\ Principals(q, req'[q]) = Principals(q, req[q])
          /\ MeetingStart(q)' = MeetingStart(q)
          /\ MeetingEnd(q)' = MeetingEnd(q)
  BY <1>1 DEF Reserves, Live, Principals, MeetingStart, MeetingEnd
<1> QED BY <1>2 DEF NoDoubleBooking, Share

\* A write that gives a document a time the slot check has found free
\* double-books nobody.
LEMMA FreeSlotKeepsBooking ==
    ASSUME TypeOK, NoDoubleBooking, NEW r \in Request, NEW d, NEW old, NEW id,
           req' = WithDoc(r, d), MeetingSlotFree(r, old, id),
           d.target = old.target, d.accepted = id,
           StartOf(d, id) = StartOf(old, id), EndOf(d, id) = EndOf(old, id)
    PROVE  NoDoubleBooking'
<1>1. /\ DOMAIN req' = DOMAIN req \cup {r}
      /\ \A q \in DOMAIN req' : req'[q] = IF q = r THEN d ELSE req[q]
  BY DEF WithDoc
<1>2. \A q \in Request \ {r} :
          /\ Reserves(q)' <=> Reserves(q)
          /\ Reserves(q) => /\ Principals(q, req'[q]) = Principals(q, req[q])
                            /\ MeetingStart(q)' = MeetingStart(q)
                            /\ MeetingEnd(q)' = MeetingEnd(q)
  BY <1>1 DEF Reserves, Live, Principals, MeetingStart, MeetingEnd
<1>3. /\ Principals(r, req'[r]) = Principals(r, old)
      /\ MeetingStart(r)' = StartOf(old, id)
      /\ MeetingEnd(r)' = EndOf(old, id)
  BY <1>1 DEF Principals, MeetingStart, MeetingEnd
<1>4. ASSUME NEW q \in Request \ {r}, Reserves(q), Principals(q, req[q]) \cap Principals(r, old) # {}
      PROVE  ~Overlap(StartOf(old, id), EndOf(old, id), MeetingStart(q), MeetingEnd(q))
  <2>1. PICK u \in Principals(r, old) : u \in Principals(q, req[q])
    BY <1>4
  <2>2. q \in AsRequester(u) \cup AsTarget(u)
    BY <1>4, <2>1 DEF Principals, AsRequester, AsTarget
  <2> QED BY <2>1, <2>2, <1>4 DEF MeetingSlotFree, MeetingStart, MeetingEnd
<1>5. ASSUME NEW p \in Request, NEW q \in Request, p # q, Reserves(p)', Reserves(q)', Share(p, q)'
      PROVE  ~Overlap(MeetingStart(p), MeetingEnd(p), MeetingStart(q), MeetingEnd(q))'
  <2>1. Principals(p, req'[p]) \cap Principals(q, req'[q]) # {}
    BY <1>5 DEF Share
  <2>2. CASE p = r
    <3>1. Reserves(q) /\ Principals(q, req[q]) \cap Principals(r, old) # {}
      BY <1>2, <1>3, <1>5, <2>1, <2>2
    <3>2. ~Overlap(StartOf(old, id), EndOf(old, id), MeetingStart(q), MeetingEnd(q))
      BY <3>1, <1>4, <1>5, <2>2
    <3> QED BY <3>2, <1>2, <1>3, <1>5, <2>2 DEF Overlap
  <2>3. CASE q = r
    <3>1. Reserves(p) /\ Principals(p, req[p]) \cap Principals(r, old) # {}
      BY <1>2, <1>3, <1>5, <2>1, <2>3
    <3>2. ~Overlap(StartOf(old, id), EndOf(old, id), MeetingStart(p), MeetingEnd(p))
      BY <3>1, <1>4, <1>5, <2>3
    <3> QED BY <3>2, <1>2, <1>3, <1>5, <2>3 DEF Overlap
  <2>4. CASE p # r /\ q # r
    BY <2>1, <2>4, <1>2, <1>5 DEF NoDoubleBooking, Share, Overlap
  <2> QED BY <2>2, <2>3, <2>4
<1> QED BY <1>5 DEF NoDoubleBooking

\* The meeting step, transaction by transaction.
LEMMA MeetingStepKeepsBooking ==
    ASSUME TypeOK, NoDoubleBooking, NEW r \in Request, NEW u \in User, NEW t \in Reading,
           MeetingStep(r, u, t)
    PROVE  NoDoubleBooking'
<1> PICK id \in StoredIds(r) :
        \/ ConfirmMeeting(r, u, t, id)
        \/ Complete(r, u, t, id)
        \/ CancelConfirmed(r, u, t, id)
        \/ \E p \in ProposalId :
              \/ \E s \in Time : ReschedulePropose(r, u, t, p, id, s)
              \/ RescheduleAccept(r, u, t, p, id)
              \/ \E action \in {"decline", "withdraw"} :
                    RescheduleRefuse(r, u, t, p, id, action)
  BY DEF MeetingStep, ConfirmStep, CompleteStep, CancelStep, RescheduleStep
<1>1. IsDoc(req[r])
  BY DEF StoredIds, TypeOK, Live
<1>2. CASE ConfirmMeeting(r, u, t, id)
  <2> DEFINE d == [req[r] EXCEPT !.status = "accepted", !.accepted = id, !.updated = t]
  <2>1. /\ d.target = req[r].target /\ d.accepted = id
        /\ d.options = req[r].options /\ d.duration = req[r].duration
    BY <1>1 DEF IsDoc
  <2>2. req' = WithDoc(r, d) /\ MeetingSlotFree(r, req[r], id)
    BY <1>2 DEF ConfirmMeeting, Commit
  <2> HIDE DEF d
  <2>3. StartOf(d, id) = StartOf(req[r], id) /\ EndOf(d, id) = EndOf(req[r], id)
    BY <2>1 DEF StartOf, EndOf
  <2> QED BY <2>1, <2>2, <2>3, FreeSlotKeepsBooking
<1>3. CASE Complete(r, u, t, id)
  <2> DEFINE d == [req[r] EXCEPT !.status = "completed", !.updated = t]
  <2>1. req' = WithDoc(r, d)
    BY <1>3 DEF Complete, Commit
  <2>2. d.status = "completed"
    BY <1>1 DEF IsDoc
  <2> HIDE DEF d
  <2> QED BY <2>1, <2>2, UnmovedKeepsBooking
<1>4. CASE CancelConfirmed(r, u, t, id)
  <2> DEFINE d == [req[r] EXCEPT !.status = "cancelled", !.updated = t]
  <2>1. req' = WithDoc(r, d)
    BY <1>4 DEF CancelConfirmed, Commit
  <2>2. d.status = "cancelled"
    BY <1>1 DEF IsDoc
  <2> HIDE DEF d
  <2> QED BY <2>1, <2>2, UnmovedKeepsBooking
<1>5. ASSUME NEW p \in ProposalId, NEW s \in Time, ReschedulePropose(r, u, t, p, id, s)
      PROVE  NoDoubleBooking'
  <2> DEFINE o == WithMeeting(req[r], p, s)
             d == [req[r] EXCEPT !.options = o, !.updated = t,
                       !.proposal = [id |-> p, proposer |-> u, expected |-> id,
                                     status |-> "proposed"]]
  <2>1. req' = WithDoc(r, d)
    BY <1>5 DEF ReschedulePropose, Commit
  <2>2. Reserves(r) /\ req[r].accepted = id /\ id \in Ids(req[r]) /\ p # id
    BY <1>5 DEF ReschedulePropose, RescheduleGuard, Reserves, Cancellable, MeetingEvidence
  <2>3. o[id] = req[r].options[id]
    BY <2>2 DEF WithMeeting
  <2> HIDE DEF o
  <2>4. /\ d.target = req[r].target /\ d.accepted = id
        /\ d.options = o /\ d.duration = req[r].duration
    BY <1>1, <2>2 DEF IsDoc
  <2> HIDE DEF d
  <2>5. StartOf(d, d.accepted) = MeetingStart(r) /\ EndOf(d, d.accepted) = MeetingEnd(r)
    BY <2>2, <2>3, <2>4 DEF StartOf, EndOf, MeetingStart, MeetingEnd
  <2> QED BY <2>1, <2>2, <2>4, <2>5, UnmovedKeepsBooking
<1>6. ASSUME NEW p \in ProposalId, RescheduleAccept(r, u, t, p, id)
      PROVE  NoDoubleBooking'
  <2> DEFINE pr == [req[r].proposal EXCEPT !.status = "accepted"]
             d == [req[r] EXCEPT !.accepted = p, !.proposal = pr, !.updated = t]
  <2>1. req' = WithDoc(r, d) /\ MeetingSlotFree(r, req[r], p)
    BY <1>6 DEF RescheduleAccept, Commit
  <2> HIDE DEF pr
  <2>2. /\ d.target = req[r].target /\ d.accepted = p
        /\ d.options = req[r].options /\ d.duration = req[r].duration
    BY <1>1 DEF IsDoc
  <2> HIDE DEF d
  <2>3. StartOf(d, p) = StartOf(req[r], p) /\ EndOf(d, p) = EndOf(req[r], p)
    BY <2>2 DEF StartOf, EndOf
  <2> QED BY <2>1, <2>2, <2>3, FreeSlotKeepsBooking
<1>7. ASSUME NEW p \in ProposalId, NEW action \in {"decline", "withdraw"},
             RescheduleRefuse(r, u, t, p, id, action)
      PROVE  NoDoubleBooking'
  <2> DEFINE pr == [req[r].proposal EXCEPT !.status = Terminal(action)]
             d == [req[r] EXCEPT !.proposal = pr, !.updated = t]
  <2>1. req' = WithDoc(r, d) /\ Reserves(r)
    BY <1>7 DEF RescheduleRefuse, Commit, Answerable, RescheduleGuard, Reserves
  <2> HIDE DEF pr
  <2>2. /\ d.target = req[r].target /\ d.accepted = req[r].accepted
        /\ d.options = req[r].options /\ d.duration = req[r].duration
    BY <1>1 DEF IsDoc
  <2> HIDE DEF d
  <2>3. StartOf(d, d.accepted) = MeetingStart(r) /\ EndOf(d, d.accepted) = MeetingEnd(r)
    BY <2>2 DEF StartOf, EndOf, MeetingStart, MeetingEnd
  <2> QED BY <2>1, <2>2, <2>3, UnmovedKeepsBooking
<1> QED BY <1>2, <1>3, <1>4, <1>5, <1>6, <1>7

\* Before confirmation nothing reserves time.
LEMMA NegotiateStepKeepsBooking ==
    ASSUME TypeOK, NoDoubleBooking, NEW r \in Request, NEW u \in User, NEW t \in Reading,
           NegotiateStep(r, u, t)
    PROVE  NoDoubleBooking'
<1>1. PICK d : req' = WithDoc(r, d) /\ d.status # "accepted"
  <2>1. ASSUME NEW s \in Time, ProposeMeeting(r, u, t, s)
        PROVE  \E d : req' = WithDoc(r, d) /\ d.status # "accepted"
    <3> DEFINE o == WithMeeting(req[r], OfferId(u, s), s)
               d == [req[r] EXCEPT !.options = o, !.updated = t]
    <3>1. req' = WithDoc(r, d)
      BY <2>1 DEF ProposeMeeting, Commit
    <3>2. IsDoc(req[r]) /\ req[r].status = "suggested"
      BY <2>1 DEF ProposeMeeting, TypeOK, Live
    <3> HIDE DEF o
    <3>3. d.status = "suggested"
      BY <3>2 DEF IsDoc
    <3> QED BY <3>1, <3>3
  <2>2. ASSUME NEW status \in {"async", "declined", "cancelled"}, Resolve(r, u, t, status)
        PROVE  \E d : req' = WithDoc(r, d) /\ d.status # "accepted"
    <3> DEFINE d == [req[r] EXCEPT !.status = status, !.updated = t]
    <3>1. req' = WithDoc(r, d)
      BY <2>2 DEF Resolve, Commit
    <3>2. IsDoc(req[r])
      BY <2>2 DEF Resolve, TypeOK, Live
    <3>3. d.status = status
      BY <3>2 DEF IsDoc
    <3> QED BY <3>1, <3>3
  <2>3. ASSUME NEW v \in User, NEW starts \in StartSets, Handoff(r, u, t, v, starts)
        PROVE  \E d : req' = WithDoc(r, d) /\ d.status # "accepted"
    <3> DEFINE o == GeneratedOptions("handoff", v, starts)
               d == [req[r] EXCEPT !.from = u, !.target = v, !.updated = t, !.options = o]
    <3>1. req' = WithDoc(r, d)
      BY <2>3 DEF Handoff, Commit
    <3>2. IsDoc(req[r]) /\ req[r].status = "suggested"
      BY <2>3 DEF Handoff, TypeOK, Live
    <3> HIDE DEF o
    <3>3. d.status = "suggested"
      BY <3>2 DEF IsDoc
    <3> QED BY <3>1, <3>3
  <2> QED BY <2>1, <2>2, <2>3 DEF NegotiateStep, ProposeStep, ResolveStep, HandoffStep
<1> QED BY <1>1, UnmovedKeepsBooking

LEMMA CreateStepKeepsBooking ==
    ASSUME TypeOK, NoDoubleBooking, NEW r \in Request, NEW t \in Reading, CreateStep(r, t)
    PROVE  NoDoubleBooking'
<1>1. PICK target \in User, duration \in Durations, deadline \in Deadlines, starts \in StartSets :
         Create(r, t, target, duration, deadline, starts)
  BY DEF CreateStep
<1> DEFINE d == [target |-> target, from |-> None, duration |-> duration,
                 deadline |-> deadline, status |-> "suggested",
                 options |-> GeneratedOptions("candidate", target, starts),
                 accepted |-> None, proposal |-> None, updated |-> t]
<1>2. req' = WithDoc(r, d)
  BY <1>1 DEF Create, Commit
<1>3. d.status = "suggested"
  OBVIOUS
<1> HIDE DEF d
<1> QED BY <1>2, <1>3, UnmovedKeepsBooking

\* Nobody is booked twice, whatever the commands, their order and the clocks.
THEOREM NeverDoubleBooked == Spec => []NoDoubleBooking
<1>1. Init => NoDoubleBooking
  BY DEF Init, NoDoubleBooking, Reserves, Live
<1>2. TypeOK /\ NoDoubleBooking /\ [Next]_vars => NoDoubleBooking'
  <2> SUFFICES ASSUME TypeOK, NoDoubleBooking, [Next]_vars PROVE NoDoubleBooking'
    OBVIOUS
  <2>1. ASSUME UNCHANGED req PROVE NoDoubleBooking'
    BY <2>1 DEF NoDoubleBooking, Reserves, Live, Share, Principals,
                MeetingStart, MeetingEnd, StartOf, EndOf, Overlap
  <2>2. CASE Environment
    BY <2>1, <2>2 DEF Environment, Tick, BeginAccountDeletion, MemberRemoved, CalendarChanges
  <2>3. CASE UNCHANGED vars
    BY <2>1, <2>3 DEF vars
  <2> QED BY <2>2, <2>3, CreateStepKeepsBooking, NegotiateStepKeepsBooking,
             MeetingStepKeepsBooking DEF Next
<1> QED BY <1>1, <1>2, TypeCorrect, PTL DEF Spec

-----------------------------------------------------------------------------
(***************************************************************************)
(* Proofs about the documents of Requests: that every one stays sound, and *)
(* what follows for the options it offers, the proposal it retains, the    *)
(* time it holds, and what a step may do to it.                            *)
(*                                                                         *)
(* A step is taken apart in two: what its transaction writes, as a         *)
(* relation between the document before (d) and after (e), and what that   *)
(* relation preserves, which is about two documents and no state.          *)
(***************************************************************************)

-----------------------------------------------------------------------------
(* What the transactions do to a document.                                 *)

SameTerms(d, e) ==
    /\ e.target = d.target
    /\ e.from = d.from
    /\ e.duration = d.duration
    /\ e.deadline = d.deadline

Opened(e, target, starts) ==
    /\ e.target = target /\ e.from = None
    /\ e.status = "suggested" /\ e.accepted = None /\ e.proposal = None
    /\ e.options = GeneratedOptions("candidate", target, starts)

Offered(d, e, id, s) ==
    /\ SameTerms(d, e)
    /\ e.status = d.status /\ e.accepted = d.accepted /\ e.proposal = d.proposal
    /\ e.options = WithMeeting(d, id, s)

Confirmed(d, e, id) ==
    /\ SameTerms(d, e)
    /\ e.status = "accepted" /\ e.accepted = id
    /\ e.proposal = d.proposal /\ e.options = d.options

\* A resolution, a completion or a cancellation.
Closed(d, e, status) ==
    /\ SameTerms(d, e)
    /\ e.status = status
    /\ e.accepted = d.accepted /\ e.proposal = d.proposal /\ e.options = d.options

HandedOff(d, e, u, v, starts) ==
    /\ e.target = v /\ e.from = u
    /\ e.duration = d.duration /\ e.deadline = d.deadline
    /\ e.status = d.status /\ e.accepted = d.accepted /\ e.proposal = d.proposal
    /\ e.options = GeneratedOptions("handoff", v, starts)

Proposed(d, e, u, p, expected, s) ==
    /\ SameTerms(d, e)
    /\ e.status = d.status /\ e.accepted = d.accepted
    /\ e.proposal = [id |-> p, proposer |-> u, expected |-> expected, status |-> "proposed"]
    /\ e.options = WithMeeting(d, p, s)

\* The proposal is answered; an acceptance also moves the meeting.
Answered(d, e, accepted, status) ==
    /\ SameTerms(d, e)
    /\ e.status = d.status /\ e.accepted = accepted /\ e.options = d.options
    /\ e.proposal = [d.proposal EXCEPT !.status = status]

OnlyWrites(r) ==
    /\ DOMAIN req' = DOMAIN req \cup {r}
    /\ \A q \in DOMAIN req : q # r => req'[q] = req[q]

Records(id, actor, recipients) ==
    /\ \A a \in audit : a.id # id
    /\ note' = note \cup {[to |-> v, id |-> id] : v \in recipients}
    /\ audit' = audit \cup {[id |-> id, actor |-> actor]}
    /\ UNCHANGED <<now, member, deleting, open>>

\* A commit stores one document and its effects.
LEMMA CommitWrites ==
    ASSUME NEW r, NEW d, NEW id, NEW actor, NEW recipients, Commit(r, d, id, actor, recipients)
    PROVE  OnlyWrites(r) /\ req'[r] = d /\ Records(id, actor, recipients)
<1>1. req' = WithDoc(r, d)
  BY DEF Commit
<1>2. OnlyWrites(r) /\ req'[r] = d
  BY <1>1 DEF WithDoc, OnlyWrites
<1> QED BY <1>2 DEF Commit, Records

\* Documents that are stored have their shape.
LEMMA StoredTyped ==
    ASSUME TypeOK, NEW r \in DOMAIN req
    PROVE  IsDoc(req[r]) /\ r \in Request
BY DEF TypeOK

\* Creation stores a first document, with generated options.
LEMMA CreateWrites ==
    ASSUME TypeOK, NEW r \in Request, NEW t \in Time, NEW target \in User,
           NEW duration \in Durations, NEW deadline \in Deadlines,
           NEW starts \in SUBSET Time, Create(r, t, target, duration, deadline, starts)
    PROVE  /\ ~Live(r) /\ OnlyWrites(r) /\ IsDoc(req'[r])
           /\ Records(Effect("create", r, None), Requester[r], {target})
           /\ Opened(req'[r], target, starts)
<1> DEFINE o == GeneratedOptions("candidate", target, starts)
           d == [target |-> target, from |-> None, duration |-> duration,
                 deadline |-> deadline, status |-> "suggested", options |-> o,
                 accepted |-> None, proposal |-> None, updated |-> t]
<1>1. ~Live(r) /\ Commit(r, d, Effect("create", r, None), Requester[r], {target})
  BY DEF Create
<1>2. TypeOK'
  BY CreateType
<1> HIDE DEF o
<1>3. /\ d.target = target /\ d.from = None
      /\ d.status = "suggested" /\ d.accepted = None /\ d.proposal = None /\ d.options = o
  OBVIOUS
<1> HIDE DEF d
<1>4. Opened(d, target, starts)
  BY <1>3 DEF Opened, o
<1>5. OnlyWrites(r) /\ req'[r] = d /\ Records(Effect("create", r, None), Requester[r], {target})
  BY <1>1, CommitWrites
<1>6. IsDoc(req'[r])
  BY <1>2, <1>5 DEF TypeOK, OnlyWrites
<1> QED BY <1>1, <1>4, <1>5, <1>6

\* A counterproposal adds the target's offer to the options.
LEMMA ProposeWrites ==
    ASSUME TypeOK, NEW r \in Request, NEW u \in User, NEW t \in Time, NEW s \in Time,
           ProposeMeeting(r, u, t, s)
    PROVE  /\ Live(r) /\ IsDoc(req[r]) /\ IsDoc(req'[r]) /\ OnlyWrites(r)
           /\ Records(Effect("offer", r, OfferId(u, s)), u, {Requester[r]})
           /\ Offered(req[r], req'[r], OfferId(u, s), s)
<1> DEFINE o == WithMeeting(req[r], OfferId(u, s), s)
           d == [req[r] EXCEPT !.options = o, !.updated = t]
<1>1. Live(r) /\ IsDoc(req[r])
  BY DEF TypeOK, Live, ProposeMeeting
<1>2. Commit(r, d, Effect("offer", r, OfferId(u, s)), u, {Requester[r]})
  BY DEF ProposeMeeting
<1>3. TypeOK'
  BY ProposeMeetingType
<1> HIDE DEF o
<1>4. /\ SameTerms(req[r], d) /\ d.options = o
      /\ d.status = req[r].status /\ d.accepted = req[r].accepted /\ d.proposal = req[r].proposal
  BY <1>1 DEF IsDoc, SameTerms
<1> HIDE DEF d
<1>5. Offered(req[r], d, OfferId(u, s), s)
  BY <1>4 DEF Offered, o
<1>6. OnlyWrites(r) /\ req'[r] = d /\ Records(Effect("offer", r, OfferId(u, s)), u, {Requester[r]})
  BY <1>2, CommitWrites
<1>7. IsDoc(req'[r])
  BY <1>3, <1>6 DEF TypeOK, OnlyWrites
<1> QED BY <1>1, <1>5, <1>6, <1>7

\* A confirmation marks one option as the time that is accepted.
LEMMA ConfirmWrites ==
    ASSUME TypeOK, NEW r \in Request, NEW u \in User, NEW t \in Time, NEW id \in StoredIds(r),
           ConfirmMeeting(r, u, t, id)
    PROVE  /\ Live(r) /\ IsDoc(req[r]) /\ IsDoc(req'[r]) /\ OnlyWrites(r)
           /\ Records(Effect("confirm", r, None), u, {IF u = Requester[r] THEN req[r].target ELSE Requester[r]})
           /\ Confirmed(req[r], req'[r], id)
<1> DEFINE d == [req[r] EXCEPT !.status = "accepted", !.accepted = id, !.updated = t]
<1>1. Live(r) /\ IsDoc(req[r])
  BY DEF TypeOK, Live, ConfirmMeeting
<1>2. Commit(r, d, Effect("confirm", r, None), u, {IF u = Requester[r] THEN req[r].target ELSE Requester[r]})
  BY DEF ConfirmMeeting
<1>3. TypeOK'
  BY ConfirmMeetingType
<1>4. Confirmed(req[r], d, id)
  BY <1>1 DEF IsDoc, SameTerms, Confirmed
<1> HIDE DEF d
<1>5. OnlyWrites(r) /\ req'[r] = d /\ Records(Effect("confirm", r, None), u, {IF u = Requester[r] THEN req[r].target ELSE Requester[r]})
  BY <1>2, CommitWrites
<1>6. IsDoc(req'[r])
  BY <1>3, <1>5 DEF TypeOK, OnlyWrites
<1> QED BY <1>1, <1>4, <1>5, <1>6

\* A resolution without a meeting changes the status alone.
LEMMA ResolveWrites ==
    ASSUME TypeOK, NEW r \in Request, NEW u \in User, NEW t \in Time,
           NEW status \in {"async", "declined", "cancelled"},
           Resolve(r, u, t, status)
    PROVE  /\ Live(r) /\ IsDoc(req[r]) /\ IsDoc(req'[r]) /\ OnlyWrites(r)
           /\ Records(Effect("resolve", r, None), u, {IF status = "cancelled" THEN req[r].target ELSE Requester[r]})
           /\ Closed(req[r], req'[r], status)
<1> DEFINE d == [req[r] EXCEPT !.status = status, !.updated = t]
<1>1. Live(r) /\ IsDoc(req[r])
  BY DEF TypeOK, Live, Resolve
<1>2. Commit(r, d, Effect("resolve", r, None), u, {IF status = "cancelled" THEN req[r].target ELSE Requester[r]})
  BY DEF Resolve
<1>3. TypeOK'
  BY ResolveType
<1>4. Closed(req[r], d, status)
  BY <1>1 DEF IsDoc, SameTerms, Closed
<1> HIDE DEF d
<1>5. OnlyWrites(r) /\ req'[r] = d /\ Records(Effect("resolve", r, None), u, {IF status = "cancelled" THEN req[r].target ELSE Requester[r]})
  BY <1>2, CommitWrites
<1>6. IsDoc(req'[r])
  BY <1>3, <1>5 DEF TypeOK, OnlyWrites
<1> QED BY <1>1, <1>4, <1>5, <1>6

\* So does a completion.
LEMMA CompleteWrites ==
    ASSUME TypeOK, NEW r \in Request, NEW u \in User, NEW t \in Time, NEW id,
           Complete(r, u, t, id)
    PROVE  /\ Live(r) /\ IsDoc(req[r]) /\ IsDoc(req'[r]) /\ OnlyWrites(r)
           /\ Records(Effect("complete", r, None), u, {IF u = Requester[r] THEN req[r].target ELSE Requester[r]})
           /\ Closed(req[r], req'[r], "completed")
<1> DEFINE d == [req[r] EXCEPT !.status = "completed", !.updated = t]
<1>1. Live(r) /\ IsDoc(req[r])
  BY DEF TypeOK, Live, Complete, Completable
<1>2. Commit(r, d, Effect("complete", r, None), u, {IF u = Requester[r] THEN req[r].target ELSE Requester[r]})
  BY DEF Complete
<1>3. TypeOK'
  BY CompleteType
<1>4. Closed(req[r], d, "completed")
  BY <1>1 DEF IsDoc, SameTerms, Closed
<1> HIDE DEF d
<1>5. OnlyWrites(r) /\ req'[r] = d /\ Records(Effect("complete", r, None), u, {IF u = Requester[r] THEN req[r].target ELSE Requester[r]})
  BY <1>2, CommitWrites
<1>6. IsDoc(req'[r])
  BY <1>3, <1>5 DEF TypeOK, OnlyWrites
<1> QED BY <1>1, <1>4, <1>5, <1>6

\* So does the cancellation of a confirmed meeting.
LEMMA CancelWrites ==
    ASSUME TypeOK, NEW r \in Request, NEW u \in User, NEW t \in Time, NEW id,
           CancelConfirmed(r, u, t, id)
    PROVE  /\ Live(r) /\ IsDoc(req[r]) /\ IsDoc(req'[r]) /\ OnlyWrites(r)
           /\ Records(Effect("cancel", r, None), u, {Other(r, req[r], u)})
           /\ Closed(req[r], req'[r], "cancelled")
<1> DEFINE d == [req[r] EXCEPT !.status = "cancelled", !.updated = t]
<1>1. Live(r) /\ IsDoc(req[r])
  BY DEF TypeOK, Live, CancelConfirmed
<1>2. Commit(r, d, Effect("cancel", r, None), u, {Other(r, req[r], u)})
  BY DEF CancelConfirmed
<1>3. TypeOK'
  BY CancelConfirmedType
<1>4. Closed(req[r], d, "cancelled")
  BY <1>1 DEF IsDoc, SameTerms, Closed
<1> HIDE DEF d
<1>5. OnlyWrites(r) /\ req'[r] = d /\ Records(Effect("cancel", r, None), u, {Other(r, req[r], u)})
  BY <1>2, CommitWrites
<1>6. IsDoc(req'[r])
  BY <1>3, <1>5 DEF TypeOK, OnlyWrites
<1> QED BY <1>1, <1>4, <1>5, <1>6

\* A handoff replaces the target and every option.
LEMMA HandoffWrites ==
    ASSUME TypeOK, NEW r \in Request, NEW u \in User, NEW t \in Time, NEW v \in User,
           NEW starts \in SUBSET Time,
           Handoff(r, u, t, v, starts)
    PROVE  /\ Live(r) /\ IsDoc(req[r]) /\ IsDoc(req'[r]) /\ OnlyWrites(r)
           /\ Records(Effect("handoff", r, None), u, {v, Requester[r]})
           /\ HandedOff(req[r], req'[r], u, v, starts)
<1> DEFINE o == GeneratedOptions("handoff", v, starts)
           d == [req[r] EXCEPT !.from = u, !.target = v, !.updated = t, !.options = o]
<1>1. Live(r) /\ IsDoc(req[r])
  BY DEF TypeOK, Live, Handoff
<1>2. Commit(r, d, Effect("handoff", r, None), u, {v, Requester[r]})
  BY DEF Handoff
<1>3. TypeOK'
  BY HandoffType
<1> HIDE DEF o
<1>4. /\ d.target = v /\ d.from = u /\ d.options = o
      /\ d.duration = req[r].duration /\ d.deadline = req[r].deadline
      /\ d.status = req[r].status /\ d.accepted = req[r].accepted /\ d.proposal = req[r].proposal
  BY <1>1 DEF IsDoc, SameTerms
<1> HIDE DEF d
<1>5. HandedOff(req[r], d, u, v, starts)
  BY <1>4 DEF HandedOff, o
<1>6. OnlyWrites(r) /\ req'[r] = d /\ Records(Effect("handoff", r, None), u, {v, Requester[r]})
  BY <1>2, CommitWrites
<1>7. IsDoc(req'[r])
  BY <1>3, <1>6 DEF TypeOK, OnlyWrites
<1> QED BY <1>1, <1>5, <1>6, <1>7

\* A reschedule adds its option and replaces the retained proposal.
LEMMA RescheduleProposeWrites ==
    ASSUME TypeOK, NEW r \in Request, NEW u \in User, NEW t \in Time,
           NEW p \in ProposalId, NEW expected \in StoredIds(r), NEW s \in Time,
           ReschedulePropose(r, u, t, p, expected, s)
    PROVE  /\ Live(r) /\ IsDoc(req[r]) /\ IsDoc(req'[r]) /\ OnlyWrites(r)
           /\ Records(Effect("propose", r, p), u, {Other(r, req[r], u)})
           /\ Proposed(req[r], req'[r], u, p, expected, s)
<1> DEFINE o == WithMeeting(req[r], p, s)
           pr == [id |-> p, proposer |-> u, expected |-> expected, status |-> "proposed"]
           d == [req[r] EXCEPT !.options = o, !.updated = t, !.proposal = pr]
<1>1. Live(r) /\ IsDoc(req[r])
  BY DEF TypeOK, Live, ReschedulePropose, RescheduleGuard
<1>2. Commit(r, d, Effect("propose", r, p), u, {Other(r, req[r], u)})
  BY DEF ReschedulePropose
<1>3. TypeOK'
  BY RescheduleProposeType
<1> HIDE DEF o, pr
<1>4. /\ SameTerms(req[r], d) /\ d.options = o /\ d.proposal = pr
      /\ d.status = req[r].status /\ d.accepted = req[r].accepted
  BY <1>1 DEF IsDoc, SameTerms
<1> HIDE DEF d
<1>5. Proposed(req[r], d, u, p, expected, s)
  BY <1>4 DEF Proposed, o, pr
<1>6. OnlyWrites(r) /\ req'[r] = d /\ Records(Effect("propose", r, p), u, {Other(r, req[r], u)})
  BY <1>2, CommitWrites
<1>7. IsDoc(req'[r])
  BY <1>3, <1>6 DEF TypeOK, OnlyWrites
<1> QED BY <1>1, <1>5, <1>6, <1>7

\* Accepting it moves the meeting to the proposed option.
LEMMA RescheduleAcceptWrites ==
    ASSUME TypeOK, NEW r \in Request, NEW u \in User, NEW t \in Time, NEW p \in ProposalId, NEW expected,
           RescheduleAccept(r, u, t, p, expected)
    PROVE  /\ Live(r) /\ IsDoc(req[r]) /\ IsDoc(req'[r]) /\ OnlyWrites(r)
           /\ Records(Effect("accept", r, p), u, {Other(r, req[r], u)})
           /\ Answered(req[r], req'[r], p, "accepted")
<1> DEFINE pr == [req[r].proposal EXCEPT !.status = "accepted"]
           d == [req[r] EXCEPT !.accepted = p, !.proposal = pr, !.updated = t]
<1>1. Live(r) /\ IsDoc(req[r])
  BY DEF TypeOK, Live, RescheduleAccept, Answerable, RescheduleGuard
<1>2. Commit(r, d, Effect("accept", r, p), u, {Other(r, req[r], u)})
  BY DEF RescheduleAccept
<1>3. TypeOK'
  BY RescheduleAcceptType
<1> HIDE DEF pr
<1>4. /\ SameTerms(req[r], d) /\ d.options = req[r].options /\ d.proposal = pr
      /\ d.status = req[r].status /\ d.accepted = p
  BY <1>1 DEF IsDoc, SameTerms
<1> HIDE DEF d
<1>5. Answered(req[r], d, p, "accepted")
  BY <1>4 DEF Answered, pr
<1>6. OnlyWrites(r) /\ req'[r] = d /\ Records(Effect("accept", r, p), u, {Other(r, req[r], u)})
  BY <1>2, CommitWrites
<1>7. IsDoc(req'[r])
  BY <1>3, <1>6 DEF TypeOK, OnlyWrites
<1> QED BY <1>1, <1>5, <1>6, <1>7

\* Declining or withdrawing it closes the proposal and leaves the meeting.
LEMMA RescheduleRefuseWrites ==
    ASSUME TypeOK, NEW r \in Request, NEW u \in User, NEW t \in Time, NEW p \in ProposalId, NEW expected,
           NEW action \in {"decline", "withdraw"},
           RescheduleRefuse(r, u, t, p, expected, action)
    PROVE  /\ Live(r) /\ IsDoc(req[r]) /\ IsDoc(req'[r]) /\ OnlyWrites(r)
           /\ Records(Effect(action, r, p), u, {Other(r, req[r], u)})
           /\ Answered(req[r], req'[r], req[r].accepted, Terminal(action))
<1> DEFINE pr == [req[r].proposal EXCEPT !.status = Terminal(action)]
           d == [req[r] EXCEPT !.proposal = pr, !.updated = t]
<1>1. Live(r) /\ IsDoc(req[r])
  BY DEF TypeOK, Live, RescheduleRefuse, Answerable, RescheduleGuard
<1>2. Commit(r, d, Effect(action, r, p), u, {Other(r, req[r], u)})
  BY DEF RescheduleRefuse
<1>3. TypeOK'
  BY RescheduleRefuseType
<1> HIDE DEF pr
<1>4. /\ SameTerms(req[r], d) /\ d.options = req[r].options /\ d.proposal = pr
      /\ d.status = req[r].status /\ d.accepted = req[r].accepted
  BY <1>1 DEF IsDoc, SameTerms
<1> HIDE DEF d
<1>5. Answered(req[r], d, req[r].accepted, Terminal(action))
  BY <1>4 DEF Answered, pr
<1>6. OnlyWrites(r) /\ req'[r] = d /\ Records(Effect(action, r, p), u, {Other(r, req[r], u)})
  BY <1>2, CommitWrites
<1>7. IsDoc(req'[r])
  BY <1>3, <1>6 DEF TypeOK, OnlyWrites
<1> QED BY <1>1, <1>5, <1>6, <1>7

-----------------------------------------------------------------------------
(* Every step is one of the transactions on one document, or leaves the    *)
(* documents and their effects alone.                                      *)

NegotiateTransaction(r, u, t) ==
    \/ \E s \in Time : ProposeMeeting(r, u, t, s)
    \/ \E status \in {"async", "declined", "cancelled"} : Resolve(r, u, t, status)
    \/ \E v \in User, starts \in SUBSET Time : Handoff(r, u, t, v, starts)

MeetingTransaction(r, u, t, id) ==
    \/ ConfirmMeeting(r, u, t, id)
    \/ Complete(r, u, t, id)
    \/ CancelConfirmed(r, u, t, id)

RescheduleTransaction(r, u, t, id, p) ==
    \/ \E s \in Time : ReschedulePropose(r, u, t, p, id, s)
    \/ RescheduleAccept(r, u, t, p, id)
    \/ \E action \in {"decline", "withdraw"} : RescheduleRefuse(r, u, t, p, id, action)

\* What a step that is no transaction leaves alone.
Idle == UNCHANGED <<req, note, audit>> /\ now <= now'

LEMMA StepCases ==
    ASSUME TypeOK, [Next]_vars
    PROVE  \/ Idle
           \/ \E r \in Request, t \in Reading, target \in User, duration \in Durations,
                 deadline \in Deadlines, starts \in SUBSET Time :
                    Create(r, t, target, duration, deadline, starts)
           \/ \E r \in Request, t \in Reading, u \in User : NegotiateTransaction(r, u, t)
           \/ \E r \in Request, t \in Reading, u \in User : \E id \in StoredIds(r) :
                    MeetingTransaction(r, u, t, id)
           \/ \E r \in Request, t \in Reading, u \in User, p \in ProposalId :
                 \E id \in StoredIds(r) : RescheduleTransaction(r, u, t, id, p)
<1> now \in Int
  BY DEF TypeOK, Time
<1>1. CASE UNCHANGED vars
  BY <1>1 DEF vars, Idle
<1>2. CASE Environment
  <2>1. CASE Tick
    BY <2>1 DEF Tick, Idle
  <2>2. CASE ~Tick
    <3>1. UNCHANGED <<req, note, audit, now>>
      BY <1>2, <2>2, Zenon DEF Environment, BeginAccountDeletion, MemberRemoved, CalendarChanges
    <3> QED BY <3>1 DEF Idle
  <2> QED BY <2>1, <2>2
<1>3. ASSUME NEW r \in Request, NEW t \in Reading, CreateStep(r, t)
      PROVE  \E target \in User, duration \in Durations, deadline \in Deadlines,
                starts \in SUBSET Time : Create(r, t, target, duration, deadline, starts)
  BY <1>3 DEF CreateStep, StartSets
<1>4. ASSUME NEW r \in Request, NEW t \in Reading, NEW u \in User, NegotiateStep(r, u, t)
      PROVE  NegotiateTransaction(r, u, t)
  BY <1>4 DEF NegotiateStep, ProposeStep, ResolveStep, HandoffStep, StartSets, NegotiateTransaction
<1>5. ASSUME NEW r \in Request, NEW t \in Reading, NEW u \in User, MeetingStep(r, u, t)
      PROVE  \E id \in StoredIds(r) :
                \/ MeetingTransaction(r, u, t, id)
                \/ \E p \in ProposalId : RescheduleTransaction(r, u, t, id, p)
  BY <1>5 DEF MeetingStep, ConfirmStep, CompleteStep, CancelStep, RescheduleStep,
              MeetingTransaction, RescheduleTransaction
<1> QED BY <1>1, <1>2, <1>3, <1>4, <1>5 DEF Next

-----------------------------------------------------------------------------
(* What the transactions preserve of a document.                           *)

\* A stored option's id and time have their types.
LEMMA MeetingTyped ==
    ASSUME NEW d, IsDoc(d), NEW id, MeetingEvidence(d, id)
    PROVE  /\ id \in OptionId /\ id # None
           /\ StartOf(d, id) \in Time /\ d.duration \in Nat \ {0} /\ d.deadline \in Time
           /\ EndOf(d, id) = StartOf(d, id) + d.duration
BY BoundsAssumption, NoneAssumption DEF IsDoc, MeetingEvidence, Ids, StartOf, EndOf

\* The clock of a server is an instant.
LEMMA ReadingTyped ==
    ASSUME TypeOK, NEW t \in Reading
    PROVE  t \in Time /\ t \in Int /\ now \in Int /\ Skew \in Int /\ t <= now /\ now <= t + Skew
BY BoundsAssumption DEF TypeOK, Reading, Time

\* Generated options belong to the person whose calendar they come from.
LEMMA GeneratedOptionsOwner ==
    ASSUME NEW src \in {"candidate", "handoff"}, NEW owner \in User, NEW starts \in SUBSET Time
    PROVE  LET o == GeneratedOptions(src, owner, starts)
           IN  /\ DOMAIN o \subseteq ServerOptionId
               /\ \A id \in DOMAIN o : id.who = owner /\ id.src # "offer"
<1>1. 0 \in Time
  BY BoundsAssumption DEF Time
<1>2. CASE starts = {}
  BY <1>1, <1>2 DEF GeneratedOptions, ServerOptionId
<1>3. CASE starts # {}
  BY <1>3 DEF GeneratedOptions, ServerOptionId
<1> QED BY <1>2, <1>3

\* What a document holds is sound after each transaction, given its guards.
LEMMA OpenedSound ==
    ASSUME NEW r \in Request, NEW e, IsDoc(e), NEW target \in User, NEW starts \in SUBSET Time,
           Opened(e, target, starts), target # Requester[r]
    PROVE  SoundDoc(r, e)
<1>1. Ids(e) \subseteq ServerOptionId /\ \A id \in Ids(e) : id.who = target
  BY GeneratedOptionsOwner DEF Opened, Ids
<1> QED BY <1>1 DEF Opened, SoundDoc

LEMMA OfferedSound ==
    ASSUME NEW r \in Request, NEW d, NEW e, IsDoc(d), IsDoc(e), SoundDoc(r, d),
           d.status = "suggested", NEW s \in Time, Offered(d, e, OfferId(d.target, s), s)
    PROVE  SoundDoc(r, e)
<1>1. OfferId(d.target, s) \in ServerOptionId /\ OfferId(d.target, s).who = d.target
  BY DEF OfferId, ServerOptionId, IsDoc
<1>2. Ids(e) = Ids(d) \cup {OfferId(d.target, s)}
  BY DEF Offered, WithMeeting, Ids
<1> QED BY <1>1, <1>2 DEF Offered, SameTerms, SoundDoc

LEMMA ConfirmedSound ==
    ASSUME NEW r \in Request, NEW d, NEW e, IsDoc(d), IsDoc(e), SoundDoc(r, d),
           d.status = "suggested", NEW id, MeetingEvidence(d, id), EndOf(d, id) <= d.deadline,
           Confirmed(d, e, id)
    PROVE  SoundDoc(r, e)
<1>1. id # None
  BY MeetingTyped
<1>2. Ids(e) = Ids(d) /\ MeetingEvidence(e, id) /\ EndOf(e, id) <= e.deadline
  BY DEF Confirmed, SameTerms, Ids, MeetingEvidence, StartOf, EndOf
<1> QED BY <1>1, <1>2 DEF Confirmed, SameTerms, SoundDoc

\* Before a time is confirmed a document may be closed without one, after it
\* as cancelled or completed.
LEMMA ClosedSound ==
    ASSUME NEW r \in Request, NEW d, NEW e, IsDoc(d), IsDoc(e), SoundDoc(r, d),
           NEW status \in {"async", "declined", "cancelled", "completed"},
           (d.accepted = None /\ status # "completed") \/ (d.accepted # None /\ status \in {"cancelled", "completed"}),
           Closed(d, e, status)
    PROVE  SoundDoc(r, e)
<1>1. /\ Ids(e) = Ids(d)
      /\ \A id \in Ids(d) : /\ MeetingEvidence(e, id) <=> MeetingEvidence(d, id)
                            /\ EndOf(e, id) = EndOf(d, id)
  BY DEF Closed, SameTerms, Ids, MeetingEvidence, StartOf, EndOf
<1>2. ValidReplayEvidence(r, d) => ValidReplayEvidence(r, e)
  BY DEF Closed, SameTerms, ValidReplayEvidence, Principals, MeetingEvidence, Ids
<1>3. e.accepted # None => MeetingEvidence(e, e.accepted) /\ EndOf(e, e.accepted) <= e.deadline
  BY <1>1 DEF Closed, SameTerms, SoundDoc, MeetingEvidence
<1> QED BY <1>1, <1>2, <1>3 DEF Closed, SameTerms, SoundDoc

LEMMA HandedOffSound ==
    ASSUME NEW r \in Request, NEW d, NEW e, IsDoc(d), IsDoc(e), SoundDoc(r, d),
           d.status = "suggested", NEW u, NEW v \in User, v # Requester[r],
           NEW starts \in SUBSET Time, HandedOff(d, e, u, v, starts)
    PROVE  SoundDoc(r, e)
<1>1. Ids(e) \subseteq ServerOptionId /\ \A id \in Ids(e) : id.who = v
  BY GeneratedOptionsOwner DEF HandedOff, Ids
<1> QED BY <1>1 DEF HandedOff, SoundDoc

LEMMA ProposedSound ==
    ASSUME NEW r \in Request, NEW d, NEW e, IsDoc(d), IsDoc(e), SoundDoc(r, d),
           NEW p \in ProposalId \ Ids(d), NEW u \in Principals(r, d), NEW s \in Time,
           d.status = "accepted", Proposed(d, e, u, p, d.accepted, s)
    PROVE  SoundDoc(r, e)
<1>1. /\ Ids(e) = Ids(d) \cup {p} /\ e.options[p] = s
      /\ \A x \in Ids(d) : e.options[x] = d.options[x]
  BY DEF Proposed, WithMeeting, Ids
<1>2. d.accepted # None /\ MeetingEvidence(d, d.accepted) /\ EndOf(d, d.accepted) <= d.deadline
  BY DEF SoundDoc
<1>3. MeetingEvidence(e, p) /\ MeetingEvidence(e, d.accepted) /\ p # d.accepted
  BY <1>1, <1>2, NoneAssumption DEF MeetingEvidence
<1>4. EndOf(e, d.accepted) = EndOf(d, d.accepted)
  BY <1>1, <1>2 DEF MeetingEvidence, EndOf, StartOf, Proposed, SameTerms
<1>5. ValidReplayEvidence(r, e)
  BY <1>3 DEF Proposed, SameTerms, ValidReplayEvidence, Principals
<1> QED BY <1>1, <1>2, <1>3, <1>4, <1>5 DEF Proposed, SameTerms, SoundDoc

LEMMA AnsweredSound ==
    ASSUME NEW r \in Request, NEW d, NEW e, IsDoc(d), IsDoc(e), SoundDoc(r, d),
           d.status = "accepted", d.proposal # None,
           NEW status \in {"accepted", "declined", "withdrawn"}, NEW accepted,
           accepted = IF status = "accepted" THEN d.proposal.id ELSE d.proposal.expected,
           EndOf(d, accepted) <= d.deadline, Answered(d, e, accepted, status)
    PROVE  SoundDoc(r, e)
<1>1. d.proposal \in Proposal
  BY DEF IsDoc
<1>2. /\ e.proposal # None /\ e.proposal.id = d.proposal.id
      /\ e.proposal.proposer = d.proposal.proposer
      /\ e.proposal.expected = d.proposal.expected /\ e.proposal.status = status
  BY <1>1, NoneAssumption DEF Answered, Proposal
<1>3. ValidReplayEvidence(r, d)
  BY DEF SoundDoc
<1>4. Ids(e) = Ids(d) /\ \A id : MeetingEvidence(e, id) <=> MeetingEvidence(d, id)
  BY DEF Answered, Ids, MeetingEvidence
<1>5. ValidReplayEvidence(r, e)
  BY <1>2, <1>3, <1>4 DEF Answered, SameTerms, ValidReplayEvidence, Principals
<1>6. accepted # None /\ MeetingEvidence(e, accepted)
  BY <1>3, <1>4, MeetingTyped DEF ValidReplayEvidence
<1>7. EndOf(e, accepted) <= e.deadline
  BY DEF Answered, SameTerms, EndOf, StartOf
<1> QED BY <1>2, <1>4, <1>5, <1>6, <1>7 DEF Answered, SameTerms, SoundDoc

-----------------------------------------------------------------------------
(* Every document stays sound, and no completion is recorded before the    *)
(* end of its meeting.                                                     *)

EndedIfCompleted(r) == req[r].status = "completed" => MeetingEnd(r) <= now

LEMMA NegotiationSound ==
    ASSUME TypeOK, DocumentsSound, NEW r \in Request, NEW t \in Reading, NEW u \in User,
           NegotiateTransaction(r, u, t)
    PROVE  OnlyWrites(r) /\ SoundDoc(r, req'[r]) /\ req'[r].status # "completed" /\ now' = now
<1> DEFINE d == req[r]
           e == req'[r]
<1> t \in Time
  BY ReadingTyped
<1>1. ASSUME NEW s \in Time, ProposeMeeting(r, u, t, s)
      PROVE  OnlyWrites(r) /\ SoundDoc(r, e) /\ e.status # "completed" /\ now' = now
  <2>1. /\ IsDoc(d) /\ IsDoc(e) /\ OnlyWrites(r) /\ Offered(d, e, OfferId(u, s), s)
        /\ now' = now
    BY <1>1, ProposeWrites DEF Records
  <2>2. SoundDoc(r, d) /\ u = d.target /\ d.status = "suggested"
    BY <1>1 DEF ProposeMeeting, DocumentsSound, Live
  <2> HIDE DEF d, e
  <2> QED BY <2>1, <2>2, OfferedSound DEF Offered
<1>2. ASSUME NEW status \in {"async", "declined", "cancelled"}, Resolve(r, u, t, status)
      PROVE  OnlyWrites(r) /\ SoundDoc(r, e) /\ e.status # "completed" /\ now' = now
  <2>1. IsDoc(d) /\ IsDoc(e) /\ OnlyWrites(r) /\ Closed(d, e, status) /\ now' = now
    BY <1>2, ResolveWrites DEF Records
  <2>2. SoundDoc(r, d) /\ d.accepted = None
    BY <1>2 DEF Resolve, DocumentsSound, Live
  <2> HIDE DEF d, e
  <2> QED BY <2>1, <2>2, ClosedSound DEF Closed
<1>3. ASSUME NEW v \in User, NEW starts \in SUBSET Time, Handoff(r, u, t, v, starts)
      PROVE  OnlyWrites(r) /\ SoundDoc(r, e) /\ e.status # "completed" /\ now' = now
  <2>1. IsDoc(d) /\ IsDoc(e) /\ OnlyWrites(r) /\ HandedOff(d, e, u, v, starts) /\ now' = now
    BY <1>3, HandoffWrites DEF Records
  <2>2. SoundDoc(r, d) /\ d.status = "suggested" /\ v # Requester[r]
    BY <1>3 DEF Handoff, DocumentsSound, Live
  <2> HIDE DEF d, e
  <2> QED BY <2>1, <2>2, HandedOffSound DEF HandedOff
<1> QED BY <1>1, <1>2, <1>3 DEF NegotiateTransaction

LEMMA MeetingSound ==
    ASSUME TypeOK, DocumentsSound, NEW r \in Request, NEW t \in Reading, NEW u \in User,
           NEW id \in StoredIds(r), MeetingTransaction(r, u, t, id)
    PROVE  OnlyWrites(r) /\ SoundDoc(r, req'[r]) /\ EndedIfCompleted(r)' /\ now' = now
<1> DEFINE d == req[r]
           e == req'[r]
<1> t \in Time /\ t \in Int /\ now \in Int /\ t <= now
  BY ReadingTyped
<1>1. CASE ConfirmMeeting(r, u, t, id)
  <2>1. IsDoc(d) /\ IsDoc(e) /\ OnlyWrites(r) /\ Confirmed(d, e, id) /\ now' = now
    BY <1>1, ConfirmWrites DEF Records
  <2>2. /\ SoundDoc(r, d) /\ d.status = "suggested"
        /\ MeetingEvidence(d, id) /\ EndOf(d, id) <= d.deadline
    BY <1>1 DEF ConfirmMeeting, ConfirmableMeeting, DocumentsSound, Live
  <2>3. EndedIfCompleted(r)' <=> (e.status = "completed" => EndOf(e, e.accepted) <= now')
    BY DEF EndedIfCompleted, MeetingEnd, EndOf, StartOf
  <2> HIDE DEF d, e
  <2>4. SoundDoc(r, e) /\ e.status = "accepted"
    BY <2>1, <2>2, ConfirmedSound DEF Confirmed
  <2> QED BY <2>1, <2>3, <2>4 DEF e
<1>2. CASE Complete(r, u, t, id)
  <2>1. IsDoc(d) /\ IsDoc(e) /\ OnlyWrites(r) /\ Closed(d, e, "completed") /\ now' = now
    BY <1>2, CompleteWrites DEF Records
  <2>2. /\ SoundDoc(r, d) /\ d.accepted = id /\ MeetingEvidence(d, id) /\ EndOf(d, id) <= t
    BY <1>2 DEF Complete, Completable, DocumentsSound, Live
  <2>3. EndedIfCompleted(r)' <=> (e.status = "completed" => EndOf(e, e.accepted) <= now')
    BY DEF EndedIfCompleted, MeetingEnd, EndOf, StartOf
  <2> HIDE DEF d, e
  <2>4. d.accepted # None /\ EndOf(d, id) \in Int
    BY <2>1, <2>2, MeetingTyped DEF Time
  <2>5. SoundDoc(r, e)
    BY <2>1, <2>2, <2>4, ClosedSound
  <2>6. EndOf(e, e.accepted) = EndOf(d, id)
    BY <2>1, <2>2 DEF Closed, SameTerms, EndOf, StartOf
  <2>7. EndOf(e, e.accepted) <= now
    BY <2>2, <2>4, <2>6
  <2> QED BY <2>1, <2>3, <2>5, <2>7 DEF e
<1>3. CASE CancelConfirmed(r, u, t, id)
  <2>1. IsDoc(d) /\ IsDoc(e) /\ OnlyWrites(r) /\ Closed(d, e, "cancelled") /\ now' = now
    BY <1>3, CancelWrites DEF Records
  <2>2. SoundDoc(r, d) /\ d.status = "accepted"
    BY <1>3 DEF CancelConfirmed, Cancellable, DocumentsSound, Live
  <2>3. EndedIfCompleted(r)' <=> (e.status = "completed" => EndOf(e, e.accepted) <= now')
    BY DEF EndedIfCompleted, MeetingEnd, EndOf, StartOf
  <2> HIDE DEF d, e
  <2>4. d.accepted # None
    BY <2>2 DEF SoundDoc
  <2>5. SoundDoc(r, e) /\ e.status = "cancelled"
    BY <2>1, <2>2, <2>4, ClosedSound DEF Closed
  <2> QED BY <2>1, <2>3, <2>5 DEF e
<1> QED BY <1>1, <1>2, <1>3 DEF MeetingTransaction

LEMMA RescheduleSound ==
    ASSUME TypeOK, DocumentsSound, NEW r \in Request, NEW t \in Reading, NEW u \in User,
           NEW p \in ProposalId, NEW id \in StoredIds(r), RescheduleTransaction(r, u, t, id, p)
    PROVE  OnlyWrites(r) /\ SoundDoc(r, req'[r]) /\ req'[r].status = "accepted" /\ now' = now
<1> DEFINE d == req[r]
           e == req'[r]
<1> t \in Time
  BY ReadingTyped
<1>1. ASSUME NEW s \in Time, ReschedulePropose(r, u, t, p, id, s)
      PROVE  OnlyWrites(r) /\ SoundDoc(r, e) /\ e.status = "accepted" /\ now' = now
  <2>1. IsDoc(d) /\ IsDoc(e) /\ OnlyWrites(r) /\ Proposed(d, e, u, p, id, s) /\ now' = now
    BY <1>1, RescheduleProposeWrites DEF Records
  <2>2. /\ SoundDoc(r, d) /\ d.accepted = id /\ d.status = "accepted"
        /\ p \notin Ids(d) /\ u \in Principals(r, d)
    BY <1>1 DEF ReschedulePropose, RescheduleGuard, Cancellable, DocumentsSound, Live
  <2> HIDE DEF d, e
  <2> QED BY <2>1, <2>2, ProposedSound DEF Proposed
<1>2. CASE RescheduleAccept(r, u, t, p, id)
  <2>1. IsDoc(d) /\ IsDoc(e) /\ OnlyWrites(r) /\ Answered(d, e, p, "accepted") /\ now' = now
    BY <1>2, RescheduleAcceptWrites DEF Records
  <2>2. /\ SoundDoc(r, d) /\ d.status = "accepted" /\ EndOf(d, p) <= d.deadline
        /\ d.proposal # None /\ d.proposal.id = p
    BY <1>2 DEF RescheduleAccept, Answerable, RescheduleGuard, ProposalPending,
                ConfirmableMeeting, DocumentsSound, Live
  <2> HIDE DEF d, e
  <2>3. SoundDoc(r, e)
    BY <2>1, <2>2, AnsweredSound
  <2>4. e.status = "accepted"
    BY <2>1, <2>2 DEF Answered
  <2> QED BY <2>1, <2>3, <2>4 DEF e
<1>3. ASSUME NEW action \in {"decline", "withdraw"}, RescheduleRefuse(r, u, t, p, id, action)
      PROVE  OnlyWrites(r) /\ SoundDoc(r, e) /\ e.status = "accepted" /\ now' = now
  <2>1. IsDoc(d) /\ IsDoc(e) /\ OnlyWrites(r) /\ Answered(d, e, d.accepted, Terminal(action)) /\ now' = now
    BY <1>3, RescheduleRefuseWrites DEF Records
  <2>2. /\ SoundDoc(r, d) /\ d.status = "accepted" /\ d.proposal # None
        /\ d.proposal.expected = id /\ d.accepted = id
    BY <1>3 DEF RescheduleRefuse, Answerable, RescheduleGuard, ProposalPending,
                DocumentsSound, Live
  <2> HIDE DEF d, e
  <2>3. Terminal(action) \in {"declined", "withdrawn"}
    BY DEF Terminal
  <2>4. d.accepted # None /\ EndOf(d, d.accepted) <= d.deadline
    BY <2>2 DEF SoundDoc
  <2>5. SoundDoc(r, e)
    BY <2>1, <2>2, <2>3, <2>4, AnsweredSound
  <2>6. e.status = "accepted"
    BY <2>1, <2>2 DEF Answered
  <2> QED BY <2>1, <2>5, <2>6 DEF e
<1> QED BY <1>1, <1>2, <1>3 DEF RescheduleTransaction

\* DocumentsSound is inductive together with the type.
LEMMA StepKeepsSound ==
    ASSUME TypeOK, DocumentsSound, [Next]_vars
    PROVE  DocumentsSound'
<1>1. CASE Idle
  <2>1. ASSUME NEW r \in DOMAIN req, req[r].status = "completed" PROVE MeetingEnd(r) \in Int
    <3>1. IsDoc(req[r]) /\ MeetingEvidence(req[r], req[r].accepted)
      BY <2>1, StoredTyped DEF DocumentsSound, SoundDoc
    <3> QED BY <3>1, MeetingTyped DEF MeetingEnd, Time
  <2>2. now \in Int /\ now' \in Int /\ now <= now'
    BY <1>1, TypeCorrectStep DEF Idle, TypeOK, Time
  <2> QED BY <1>1, <2>1, <2>2 DEF Idle, DocumentsSound, MeetingEnd
<1>2. ASSUME NEW r \in Request, OnlyWrites(r), SoundDoc(r, req'[r]), EndedIfCompleted(r)', now' = now
      PROVE  DocumentsSound'
  <2>1. ASSUME NEW q \in DOMAIN req'
        PROVE  SoundDoc(q, req'[q]) /\ EndedIfCompleted(q)'
    <3>1. CASE q = r
      BY <1>2, <3>1
    <3>2. CASE q # r
      <4>1. q \in DOMAIN req /\ req'[q] = req[q]
        BY <1>2, <3>2, <2>1 DEF OnlyWrites
      <4>2. EndedIfCompleted(q)' <=> EndedIfCompleted(q)
        BY <4>1, <1>2 DEF EndedIfCompleted, MeetingEnd
      <4> QED BY <4>1, <4>2 DEF DocumentsSound, EndedIfCompleted
    <3> QED BY <3>1, <3>2
  <2> QED BY <2>1 DEF DocumentsSound, EndedIfCompleted
<1>3. ASSUME NEW r \in Request, NEW t \in Reading, NEW target \in User, NEW duration \in Durations,
             NEW deadline \in Deadlines, NEW starts \in SUBSET Time,
             Create(r, t, target, duration, deadline, starts)
      PROVE  DocumentsSound'
  <2> DEFINE e == req'[r]
  <2>1. IsDoc(e) /\ OnlyWrites(r) /\ Opened(e, target, starts) /\ now' = now
    BY <1>3, CreateWrites, ReadingTyped DEF Records
  <2>2. target # Requester[r]
    BY <1>3 DEF Create
  <2> HIDE DEF e
  <2>3. SoundDoc(r, e) /\ e.status # "completed"
    BY <2>1, <2>2, OpenedSound DEF Opened
  <2>4. EndedIfCompleted(r)'
    BY <2>3 DEF EndedIfCompleted, e
  <2> QED BY <1>2, <2>1, <2>3, <2>4 DEF e
<1>4. ASSUME NEW r \in Request, NEW t \in Reading, NEW u \in User, NegotiateTransaction(r, u, t)
      PROVE  DocumentsSound'
  BY <1>2, <1>4, NegotiationSound DEF EndedIfCompleted
<1>5. ASSUME NEW r \in Request, NEW t \in Reading, NEW u \in User, NEW id \in StoredIds(r),
             MeetingTransaction(r, u, t, id)
      PROVE  DocumentsSound'
  BY <1>2, <1>5, MeetingSound
<1>6. ASSUME NEW r \in Request, NEW t \in Reading, NEW u \in User, NEW p \in ProposalId,
             NEW id \in StoredIds(r), RescheduleTransaction(r, u, t, id, p)
      PROVE  DocumentsSound'
  BY <1>2, <1>6, RescheduleSound DEF EndedIfCompleted
<1> QED BY <1>1, <1>3, <1>4, <1>5, <1>6, StepCases

\* Whatever happens to a document, it stays sound.
THEOREM DocumentsStaySound == Spec => []DocumentsSound
<1>1. Init => DocumentsSound
  BY DEF Init, DocumentsSound
<1>2. TypeOK /\ DocumentsSound /\ [Next]_vars => DocumentsSound'
  BY StepKeepsSound
<1> QED BY <1>1, <1>2, TypeCorrect, PTL DEF Spec

\* The options a document holds are those of its current target.
THEOREM OptionsStayTargets == Spec => []OptionsOfTarget
<1>1. TypeOK /\ DocumentsSound => OptionsOfTarget
  BY DEF DocumentsSound, SoundDoc, OptionsOfTarget, Live
<1> QED BY <1>1, TypeCorrect, DocumentsStaySound, PTL

\* A lost answer to a reschedule can be recovered whatever came after it.
THEOREM ProposalStaysSound == Spec => []RetainedProposalIsSound
<1>1. DocumentsSound => RetainedProposalIsSound
  BY DEF DocumentsSound, SoundDoc, RetainedProposalIsSound, Live
<1> QED BY <1>1, DocumentsStaySound, PTL

-----------------------------------------------------------------------------
(* The fence of an account deletion.                                       *)

\* A transaction whose document is, before and after, between active accounts
\* that alone are told of it.
FencedWrite(r) ==
    /\ OnlyWrites(r)
    /\ Live(r) => AccountsActive(Participants(r, req[r]))
    /\ AccountsActive(Participants(r, req'[r]))
    /\ \A n \in note' \ note : n.to \in Participants(r, req'[r])

LEMMA FencedWriteRespects ==
    ASSUME TypeOK, NEW r \in Request, FencedWrite(r)
    PROVE  RespectsFence
<1>1. ASSUME NEW q \in Request, Live(q), Participants(q, req[q]) \cap deleting # {}
      PROVE  Live(q)' /\ req'[q] = req[q]
  <2>1. q # r
    BY <1>1 DEF FencedWrite, AccountsActive
  <2> QED BY <1>1, <2>1 DEF FencedWrite, OnlyWrites, Live
<1>2. ASSUME NEW q \in Request, Live(q)', Live(q) => req'[q] # req[q]
      PROVE  Participants(q, req'[q]) \cap deleting = {}
  <2>1. q = r
    BY <1>2 DEF FencedWrite, OnlyWrites, Live
  <2> QED BY <2>1 DEF FencedWrite, AccountsActive
<1>3. \A n \in note' \ note : n.to \notin deleting
  BY DEF FencedWrite, AccountsActive
<1> QED BY <1>1, <1>2, <1>3 DEF RespectsFence

\* The people of a document stay its people, but for who is handed it.
LEMMA SamePeople ==
    ASSUME NEW r \in Request, NEW d, NEW e, SameTerms(d, e)
    PROVE  Participants(r, e) = Participants(r, d)
BY DEF SameTerms, Participants

LEMMA RecordsTell ==
    ASSUME NEW r \in Request, NEW id, NEW actor, NEW people, NEW recipients \in SUBSET people,
           Records(id, actor, recipients)
    PROVE  \A n \in note' \ note : n.to \in people
BY DEF Records

\* No step writes a document of a person who deletes the account, hands one to
\* them or notifies them.
THEOREM DocumentsStayFenced == Spec => FencedDocuments
<1>1. TypeOK /\ [Next]_vars => RespectsFence
  <2> SUFFICES ASSUME TypeOK, [Next]_vars PROVE RespectsFence
    OBVIOUS
  <2>1. CASE Idle
    BY <2>1 DEF Idle, RespectsFence, Live
  <2>2. ASSUME NEW r \in Request, NEW t \in Reading, NEW target \in User, NEW duration \in Durations,
               NEW deadline \in Deadlines, NEW starts \in SUBSET Time,
               Create(r, t, target, duration, deadline, starts)
        PROVE  RespectsFence
    <3>1. /\ ~Live(r) /\ OnlyWrites(r) /\ Opened(req'[r], target, starts)
          /\ Records(Effect("create", r, None), Requester[r], {target})
      BY <2>2, CreateWrites, ReadingTyped
    <3>2. AccountsActive({Requester[r], target})
      BY <2>2 DEF Create, GuardCreation, Participants, AccountsActive
    <3>3. Participants(r, req'[r]) = {Requester[r], target}
      BY <3>1 DEF Opened, Participants
    <3>4. \A n \in note' \ note : n.to \in {Requester[r], target}
      BY <3>1, RecordsTell
    <3> QED BY <3>1, <3>2, <3>3, <3>4, FencedWriteRespects DEF FencedWrite
  <2>3. ASSUME NEW r \in Request, NEW t \in Reading, NEW u \in User, NEW v \in User,
               NEW starts \in SUBSET Time, Handoff(r, u, t, v, starts)
        PROVE  RespectsFence
    <3>1. /\ OnlyWrites(r) /\ HandedOff(req[r], req'[r], u, v, starts)
          /\ Records(Effect("handoff", r, None), u, {v, Requester[r]})
      BY <2>3, HandoffWrites, ReadingTyped
    <3>2. AccountsActive(Participants(r, req[r]) \cup {v}) /\ u = req[r].target
      BY <2>3 DEF Handoff
    <3>3. Participants(r, req'[r]) \subseteq {Requester[r], v, u}
      BY <3>1 DEF HandedOff, Participants
    <3>4. {v, Requester[r]} \subseteq Participants(r, req'[r])
      BY <3>1 DEF HandedOff, Participants
    <3>5. \A n \in note' \ note : n.to \in Participants(r, req'[r])
      BY <3>1, <3>4, RecordsTell
    <3>6. AccountsActive(Participants(r, req[r])) /\ AccountsActive(Participants(r, req'[r]))
      BY <3>2, <3>3 DEF AccountsActive, Participants
    <3> QED BY <3>1, <3>5, <3>6, FencedWriteRespects DEF FencedWrite
  <2>4. ASSUME NEW r \in Request, OnlyWrites(r), SameTerms(req[r], req'[r]),
               AccountsActive(Participants(r, req[r])), NEW id, NEW actor,
               NEW to \in Principals(r, req[r]), Records(id, actor, {to})
        PROVE  RespectsFence
    <3>1. Participants(r, req'[r]) = Participants(r, req[r])
      BY <2>4, SamePeople
    <3>2. to \in Participants(r, req[r])
      BY DEF Principals, Participants
    <3>3. \A n \in note' \ note : n.to \in Participants(r, req'[r])
      BY <2>4, <3>1, <3>2, RecordsTell
    <3> QED BY <2>4, <3>1, <3>3, FencedWriteRespects DEF FencedWrite
  <2>5. ASSUME NEW r \in Request, NEW t \in Reading, NEW u \in User, NegotiateTransaction(r, u, t)
        PROVE  RespectsFence
    <3>1. ASSUME NEW s \in Time, ProposeMeeting(r, u, t, s) PROVE RespectsFence
      <4>1. OnlyWrites(r) /\ Offered(req[r], req'[r], OfferId(u, s), s)
            /\ Records(Effect("offer", r, OfferId(u, s)), u, {Requester[r]})
        BY <3>1, ProposeWrites, ReadingTyped
      <4>2. AccountsActive(Participants(r, req[r]))
        BY <3>1 DEF ProposeMeeting, GuardCreation
      <4> QED BY <2>4, <4>1, <4>2 DEF Offered, Principals
    <3>2. ASSUME NEW status \in {"async", "declined", "cancelled"}, Resolve(r, u, t, status)
          PROVE  RespectsFence
      <4> DEFINE to == IF status = "cancelled" THEN req[r].target ELSE Requester[r]
      <4>1. /\ OnlyWrites(r) /\ Closed(req[r], req'[r], status)
            /\ Records(Effect("resolve", r, None), u, {to})
        BY <3>2, ResolveWrites, ReadingTyped
      <4>2. AccountsActive(Participants(r, req[r]))
        BY <3>2 DEF Resolve, GuardCreation
      <4>3. to \in Principals(r, req[r])
        BY DEF Principals
      <4> HIDE DEF to
      <4> QED BY <2>4, <4>1, <4>2, <4>3 DEF Closed
    <3> QED BY <2>3, <2>5, <3>1, <3>2 DEF NegotiateTransaction
  <2>6. ASSUME NEW r \in Request, NEW t \in Reading, NEW u \in User, NEW id \in StoredIds(r),
               MeetingTransaction(r, u, t, id)
        PROVE  RespectsFence
    <3> DEFINE to == IF u = Requester[r] THEN req[r].target ELSE Requester[r]
    <3>1. to \in Principals(r, req[r]) /\ Other(r, req[r], u) \in Principals(r, req[r])
      BY DEF Principals, Other
    <3>2. CASE ConfirmMeeting(r, u, t, id)
      <4>1. /\ OnlyWrites(r) /\ Confirmed(req[r], req'[r], id)
            /\ Records(Effect("confirm", r, None), u, {to})
        BY <3>2, ConfirmWrites, ReadingTyped
      <4>2. AccountsActive(Participants(r, req[r]))
        BY <3>2 DEF ConfirmMeeting, GuardCreation
      <4> HIDE DEF to
      <4> QED BY <2>4, <4>1, <4>2, <3>1 DEF Confirmed
    <3>3. CASE Complete(r, u, t, id)
      <4>1. /\ OnlyWrites(r) /\ Closed(req[r], req'[r], "completed")
            /\ Records(Effect("complete", r, None), u, {to})
        BY <3>3, CompleteWrites, ReadingTyped
      <4>2. AccountsActive(Participants(r, req[r]))
        BY <3>3 DEF Complete, Completable, GuardCreation
      <4> HIDE DEF to
      <4> QED BY <2>4, <4>1, <4>2, <3>1 DEF Closed
    <3>4. CASE CancelConfirmed(r, u, t, id)
      <4>1. /\ OnlyWrites(r) /\ Closed(req[r], req'[r], "cancelled")
            /\ Records(Effect("cancel", r, None), u, {Other(r, req[r], u)})
        BY <3>4, CancelWrites, ReadingTyped
      <4>2. AccountsActive(Participants(r, req[r]))
        BY <3>4 DEF CancelConfirmed
      <4> HIDE DEF to
      <4> QED BY <2>4, <4>1, <4>2, <3>1 DEF Closed
    <3> QED BY <2>6, <3>2, <3>3, <3>4 DEF MeetingTransaction
  <2>7. ASSUME NEW r \in Request, NEW t \in Reading, NEW u \in User, NEW p \in ProposalId,
               NEW id \in StoredIds(r), RescheduleTransaction(r, u, t, id, p)
        PROVE  RespectsFence
    <3>1. Other(r, req[r], u) \in Principals(r, req[r])
      BY DEF Principals, Other
    <3>2. AccountsActive(Participants(r, req[r]))
      BY <2>7 DEF RescheduleTransaction, ReschedulePropose, RescheduleAccept, RescheduleRefuse,
                  Answerable, RescheduleGuard, GuardCreation
    <3>3. ASSUME NEW s \in Time, ReschedulePropose(r, u, t, p, id, s) PROVE RespectsFence
      <4>1. /\ OnlyWrites(r) /\ Proposed(req[r], req'[r], u, p, id, s)
            /\ Records(Effect("propose", r, p), u, {Other(r, req[r], u)})
        BY <3>3, RescheduleProposeWrites, ReadingTyped
      <4>2. SameTerms(req[r], req'[r])
        BY <4>1 DEF Proposed
      <4> QED BY <2>4, <3>1, <3>2, <4>1, <4>2
    <3>4. CASE RescheduleAccept(r, u, t, p, id)
      <4>1. /\ OnlyWrites(r) /\ Answered(req[r], req'[r], p, "accepted")
            /\ Records(Effect("accept", r, p), u, {Other(r, req[r], u)})
        BY <3>4, RescheduleAcceptWrites, ReadingTyped
      <4>2. SameTerms(req[r], req'[r])
        BY <4>1 DEF Answered
      <4> QED BY <2>4, <3>1, <3>2, <4>1, <4>2
    <3>5. ASSUME NEW action \in {"decline", "withdraw"}, RescheduleRefuse(r, u, t, p, id, action)
          PROVE  RespectsFence
      <4>1. /\ OnlyWrites(r) /\ Answered(req[r], req'[r], req[r].accepted, Terminal(action))
            /\ Records(Effect(action, r, p), u, {Other(r, req[r], u)})
        BY <3>5, RescheduleRefuseWrites, ReadingTyped
      <4>2. SameTerms(req[r], req'[r])
        BY <4>1 DEF Answered
      <4> QED BY <2>4, <3>1, <3>2, <4>1, <4>2
    <3> QED BY <2>7, <3>3, <3>4, <3>5 DEF RescheduleTransaction
  <2> QED BY <2>1, <2>2, <2>5, <2>6, <2>7, StepCases
<1> QED BY <1>1, TypeCorrect, PTL DEF Spec, FencedDocuments

=============================================================================
