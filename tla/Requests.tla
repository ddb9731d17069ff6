------------------------------ MODULE Requests ------------------------------
(***************************************************************************)
(* The life of coordination requests in the store: every command the HTTP *)
(* API sends (create, counter-propose, confirm, answer asynchronously,     *)
(* decline, withdraw, complete, cancel, hand off, reschedule) is one       *)
(* serializable transaction over the request document, the memberships,    *)
(* the account-deletion markers, the other confirmed requests and the      *)
(* participants' calendars.  Each transaction that commits also inserts    *)
(* its notification(s) and its audit event.                                *)
(*                                                                         *)
(* A command is a client's message: it may be delivered late, twice or     *)
(* after another command, so an action is enabled for every command whose  *)
(* guards the stored state satisfies.  A delivery that the code rejects or *)
(* answers as a replay writes nothing and is a stuttering step; the        *)
(* replays are named (the ...Replays operators) for the properties.        *)
(***************************************************************************)
EXTENDS Integers, FiniteSets

CONSTANTS
    User,                  \* account ids
    Org,                   \* workspace ids
    Request,               \* request ids (derived from org, creator and command key)
    Requester,             \* [Request -> User], the creator a request id is derived from
    OrgOf,                 \* [Request -> Org], the workspace it is derived from
    ProposalId,            \* ids that clients choose for reschedule proposals
    MaxTime,               \* bound: the last instant of the clock, slots and deadlines
    Durations,             \* bound: the meeting lengths a creator may ask for
    Deadlines,             \* bound: the deadlines a creator may set
    MayLeave,              \* bound: the users who may leave a workspace or delete their account
    Calendars,             \* bound: the sets of free instants a calendar may show
    Skew,                  \* how far the clock of a server may lag behind the leading one
    CandidateLimit,        \* most meeting candidates generated at once (3)
    MaxRequestOptions,     \* options beyond which no counterproposal is taken (10)
    MaxStoredOptions,      \* options beyond which no reschedule is taken (100)
    ReservationRoleLimit,  \* most confirmed requests read per person and role (5000)
    None                   \* an absent field

Time == 0..MaxTime

ASSUME RequesterAssumption == Requester \in [Request -> User]
ASSUME OrgOfAssumption == OrgOf \in [Request -> Org]
ASSUME BoundsAssumption ==
    /\ MaxTime \in Nat
    /\ Skew \in Nat
    /\ Durations \subseteq Nat \ {0}
    /\ Deadlines \subseteq Time
    /\ MayLeave \subseteq User
    /\ Calendars \subseteq SUBSET Time
    /\ {CandidateLimit, MaxRequestOptions, MaxStoredOptions, ReservationRoleLimit} \subseteq Nat

VARIABLES
    now,       \* the leading server clock
    member,    \* the <<user, org>> membership documents
    deleting,  \* the users whose account-deletion marker is set
    open,      \* the instants a person's calendar shows free to each side of a request
    req,       \* the request documents, by request id
    note,      \* the notification documents, [to, id]
    audit      \* the audit events, [id, actor]

vars == <<now, member, deleting, open, req, note, audit>>

\* What is read of a requester is the private busy intervals (nothing of one
\* without a connected calendar), of a target the published projection.
Side == {"requester", "target"}

-----------------------------------------------------------------------------
(* Documents.                                                              *)

Status == {"suggested", "accepted", "declined", "cancelled", "completed", "async"}

\* The ids the server derives: a candidate's from its start alone (who only
\* records whose calendar it was generated for), a handoff option's also from
\* the recipient, an offer's from its start and the proposer.
ServerOptionId ==
    [src : {"candidate", "handoff", "async", "offer"}, who : User, at : Time]

OptionId == ServerOptionId \cup ProposalId

Proposal == [id : ProposalId, proposer : User, expected : OptionId,
             status : {"proposed", "accepted", "declined", "withdrawn"}]

\* A document holds its options by id: a meeting's start, or None for the
\* asynchronous option, which has no meeting time.
IsDoc(d) ==
    /\ d \in [target : User, from : User \cup {None}, duration : Durations,
              deadline : Deadlines, status : Status, options : {d.options},
              accepted : OptionId \cup {None}, proposal : Proposal \cup {None},
              updated : Time]
    /\ DOMAIN d.options \subseteq OptionId
    /\ d.options \in [DOMAIN d.options -> Time \cup {None}]

EffectKind == {"create", "offer", "confirm", "resolve", "complete", "cancel", "handoff",
               "propose", "accept", "decline", "withdraw"}

EffectId == [kind : EffectKind, req : Request, key : OptionId \cup {None}]

Note == [to : User, id : EffectId]
Audit == [id : EffectId, actor : User]

\* An absent field is no value, and no client chooses an id that the server
\* derives: a candidate's has a colon in it, an offer's is a digest.
ASSUME NoneAssumption == None \notin User \cup OptionId \cup Time \cup Proposal
ASSUME ProposalIdAssumption == ProposalId \cap ServerOptionId = {}

\* The document exists.
Live(r) == r \in DOMAIN req
Participants(r, d) == {Requester[r], d.target} \cup ({d.from} \ {None})
Principals(r, d) == {Requester[r], d.target}
Other(r, d, u) == IF u = d.target THEN Requester[r] ELSE d.target

Ids(d) == DOMAIN d.options
MeetingEvidence(d, id) == id \in Ids(d) /\ d.options[id] # None
StartOf(d, id) == d.options[id]
EndOf(d, id) == StartOf(d, id) + d.duration

\* The instants a meeting takes.
Instants(d, id) == StartOf(d, id)..(EndOf(d, id) - 1)

\* Who offered the option; None for a generated one.
ProposedBy(id) == IF id \notin ProposalId /\ id.src = "offer" THEN id.who ELSE None

\* The options with one more meeting.
WithMeeting(d, id, s) ==
    [x \in Ids(d) \cup {id} |-> IF x = id THEN s ELSE d.options[x]]

Reserves(r) == Live(r) /\ req[r].status = "accepted"
Overlap(s1, e1, s2, e2) == s1 < e2 /\ s2 < e1

-----------------------------------------------------------------------------
(* Guards the transactions share.                                          *)

\* What the clock of the serving process may read.
Reading == {t \in Time : t <= now /\ now <= t + Skew}

ValidMutationTime(d, t) == t >= d.updated

AccountsActive(users) == users \cap deleting = {}
Members(r, users) == \A u \in users : <<u, OrgOf[r]>> \in member
GuardCreation(r, d) == AccountsActive(Participants(r, d)) /\ Members(r, Principals(r, d))

ConfirmableMeeting(d, id, t) ==
    /\ ValidMutationTime(d, t)
    /\ MeetingEvidence(d, id)
    /\ d.deadline > t
    /\ StartOf(d, id) > t
    /\ EndOf(d, id) <= d.deadline

\* Mutant of Cancellable: a meeting that has started may still be cancelled.
CancellableLate(d, id, t) ==
    /\ d.accepted = id /\ MeetingEvidence(d, id)
    /\ d.status = "accepted" /\ ValidMutationTime(d, t)

\* The confirmed meeting may still be cancelled, or moved.
Cancellable(d, id, t) ==
    /\ d.accepted = id
    /\ MeetingEvidence(d, id)
    /\ d.status = "accepted"
    /\ ValidMutationTime(d, t)
    /\ StartOf(d, id) > t

\* The candidate generator's reach: a start after the clock that ends by the deadline.
FutureStarts(duration, deadline, t) == {s \in Time : s > t /\ s + duration <= deadline}

\* Up to CandidateLimit meeting options, or the single asynchronous one.
GeneratedOptions(src, owner, starts) ==
    IF starts = {}
    THEN [id \in {[src |-> "async", who |-> owner, at |-> 0]} |-> None]
    ELSE [id \in [src : {src}, who : {owner}, at : starts] |-> id.at]

-----------------------------------------------------------------------------
(* Writing a document with its effects.  Notifications and audit events    *)
(* are inserted, never overwritten: an id already taken aborts it all.     *)

\* The documents with d stored under r.
WithDoc(r, d) == [q \in (DOMAIN req) \cup {r} |-> IF q = r THEN d ELSE req[q]]

Effect(kind, r, key) == [kind |-> kind, req |-> r, key |-> key]

Commit(r, d, id, actor, recipients) ==
    /\ \A u \in recipients : [to |-> u, id |-> id] \notin note
    /\ \A a \in audit : a.id # id
    /\ req' = WithDoc(r, d)
    /\ note' = note \cup {[to |-> u, id |-> id] : u \in recipients}
    /\ audit' = audit \cup {[id |-> id, actor |-> actor]}
    /\ UNCHANGED <<now, member, deleting, open>>

-----------------------------------------------------------------------------
(* Creation.                                                               *)

Create(r, t, target, duration, deadline, starts) ==
    LET d == [target |-> target, from |-> None, duration |-> duration,
              deadline |-> deadline, status |-> "suggested",
              options |-> GeneratedOptions("candidate", target, starts),
              accepted |-> None, proposal |-> None, updated |-> t]
    IN  /\ ~Live(r)
        /\ target # Requester[r]
        /\ GuardCreation(r, d)
        /\ deadline > t
        /\ starts \subseteq FutureStarts(duration, deadline, t)
        /\ Cardinality(starts) <= CandidateLimit
        /\ Commit(r, d, Effect("create", r, None), Requester[r], {target})

\* Mutant of CreationTarget: the current target, even after a handoff.
CurrentTarget(d) == d.target

\* The recipient that identifies the creation command of a stored document.
CreationTarget(d) == IF d.from # None THEN d.from ELSE d.target

\* A retried creation is answered with the stored document.
CreateReplays(r, target, duration, deadline) ==
    /\ Live(r)
    /\ AccountsActive({Requester[r], target}) /\ Members(r, {Requester[r], target})
    /\ CreationTarget(req[r]) = target
    /\ req[r].duration = duration
    /\ req[r].deadline = deadline

-----------------------------------------------------------------------------
(* Counterproposal by the target, and confirmation.                        *)

\* Mutant of OfferId: the same time makes the same offer, whoever proposes it.
AnyonesOfferId(u, s) == [src |-> "offer", who |-> CHOOSE v \in User : TRUE, at |-> s]

OfferId(u, s) == [src |-> "offer", who |-> u, at |-> s]

ProposeMeeting(r, u, t, s) ==
    LET d == req[r]
        id == OfferId(u, s)
    IN  /\ Live(r)
        /\ u = d.target
        /\ GuardCreation(r, d)
        /\ id \notin Ids(d)
        /\ ValidMutationTime(d, t)
        /\ d.status = "suggested" /\ d.accepted = None
        /\ d.deadline > t /\ s > t /\ s + d.duration <= d.deadline
        /\ Cardinality(Ids(d)) < MaxRequestOptions
        /\ Commit(r, [d EXCEPT !.options = WithMeeting(d, id, s), !.updated = t],
                  Effect("offer", r, id), u, {Requester[r]})

ProposeReplays(r, u, s) ==
    /\ Live(r) /\ u = req[r].target /\ GuardCreation(r, req[r])
    /\ OfferId(u, s) \in Ids(req[r])

\* A generated option is the target's to approve; an offer by the target is
\* the requester's.
AuthorizeConfirmation(r, d, u, id) ==
    /\ MeetingEvidence(d, id)
    /\ \/ ProposedBy(id) = None /\ u = d.target
       \/ ProposedBy(id) = d.target /\ u = Requester[r]

\* The confirmed requests of a person, by role, in every workspace.
AsRequester(u) == {q \in Request : Reserves(q) /\ Requester[q] = u}
AsTarget(u) == {q \in Request : Reserves(q) /\ req[q].target = u}

\* Mutants of MeetingSlotFree: each person's reservations are read in the role
\* they have in this request only; the requester's calendar is not consulted.
MeetingSlotFreeByRole(r, d, id) ==
    \A q \in (AsRequester(Requester[r]) \cup AsTarget(d.target)) \ {r} :
        ~Overlap(StartOf(d, id), EndOf(d, id),
                 StartOf(req[q], req[q].accepted), EndOf(req[q], req[q].accepted))

MeetingSlotFreeForTarget(r, d, id) ==
    /\ MeetingSlotFreeByRole(r, d, id)
    /\ Instants(d, id) \subseteq open[<<d.target, "target">>]

\* The calendars and the reservations of both people leave the slot free.
MeetingSlotFree(r, d, id) ==
    /\ Instants(d, id) \subseteq open[<<Requester[r], "requester">>]
    /\ Instants(d, id) \subseteq open[<<d.target, "target">>]
    /\ \A u \in Principals(r, d) :
          /\ Cardinality(AsRequester(u)) <= ReservationRoleLimit
          /\ Cardinality(AsTarget(u)) <= ReservationRoleLimit
          /\ \A q \in (AsRequester(u) \cup AsTarget(u)) \ {r} :
                /\ MeetingEvidence(req[q], req[q].accepted)
                /\ ~Overlap(StartOf(d, id), EndOf(d, id),
                            StartOf(req[q], req[q].accepted), EndOf(req[q], req[q].accepted))

\* Mutants of ConfirmMeeting: the notification goes to the former target; it
\* goes to the requester, whoever confirms.
ConfirmNotifying(r, u, t, id, recipient) ==
    LET d == req[r]
    IN  /\ Live(r)
        /\ AuthorizeConfirmation(r, d, u, id) /\ GuardCreation(r, d)
        /\ d.status = "suggested"
        /\ ConfirmableMeeting(d, id, t) /\ MeetingSlotFree(r, d, id)
        /\ Commit(r, [d EXCEPT !.status = "accepted", !.accepted = id, !.updated = t],
                  Effect("confirm", r, None), u, {recipient})

ConfirmNotifyingFrom(r, u, t, id) == Live(r) /\ ConfirmNotifying(r, u, t, id, req[r].from)
ConfirmNotifyingRequester(r, u, t, id) == ConfirmNotifying(r, u, t, id, Requester[r])

ConfirmMeeting(r, u, t, id) ==
    LET d == req[r]
    IN  /\ Live(r)
        /\ AuthorizeConfirmation(r, d, u, id)
        /\ GuardCreation(r, d)
        /\ d.status = "suggested"
        /\ ConfirmableMeeting(d, id, t)
        /\ MeetingSlotFree(r, d, id)
        /\ Commit(r, [d EXCEPT !.status = "accepted", !.accepted = id, !.updated = t],
                  Effect("confirm", r, None), u,
                  {IF u = Requester[r] THEN d.target ELSE Requester[r]})

ConfirmReplays(r, u, id) ==
    /\ Live(r)
    /\ AuthorizeConfirmation(r, req[r], u, id)
    /\ GuardCreation(r, req[r])
    /\ req[r].status = "accepted" /\ req[r].accepted = id

-----------------------------------------------------------------------------
(* Resolution without a meeting, completion, and cancellation of a         *)
(* confirmed meeting.                                                      *)

\* An asynchronous answer or a refusal by the target, or the requester's
\* withdrawal of a request that was never confirmed.
Resolve(r, u, t, status) ==
    LET d == req[r]
    IN  /\ Live(r)
        /\ \/ status = "cancelled" /\ u = Requester[r]
           \/ status \in {"async", "declined"} /\ u = d.target
        /\ GuardCreation(r, d)
        /\ d.accepted = None
        /\ ValidMutationTime(d, t)
        /\ d.status = "suggested"
        /\ status # "cancelled" => d.deadline > t
        /\ Commit(r, [d EXCEPT !.status = status, !.updated = t],
                  Effect("resolve", r, None), u,
                  {IF status = "cancelled" THEN d.target ELSE Requester[r]})

ResolveReplays(r, u, status) ==
    /\ Live(r)
    /\ \/ status = "cancelled" /\ u = Requester[r]
       \/ status \in {"async", "declined"} /\ u = req[r].target
    /\ GuardCreation(r, req[r])
    /\ req[r].accepted = None /\ req[r].status = status

ProposalPending(d) == d.proposal # None /\ d.proposal.status = "proposed"

\* Mutant of Completable: a meeting counts as held once it has started.
CompletableEarly(r, u, t, id) ==
    LET d == req[r]
    IN  /\ Live(r)
        /\ u \in Principals(r, d) /\ GuardCreation(r, d)
        /\ d.accepted = id /\ MeetingEvidence(d, id)
        /\ StartOf(d, id) <= t /\ ~ProposalPending(d)

\* What a completion command requires of the document, first time or replay.
Completable(r, u, t, id) ==
    LET d == req[r]
    IN  /\ Live(r)
        /\ u \in Principals(r, d)
        /\ GuardCreation(r, d)
        /\ d.accepted = id
        /\ MeetingEvidence(d, id)
        /\ EndOf(d, id) <= t
        /\ ~ProposalPending(d)

Complete(r, u, t, id) ==
    LET d == req[r]
    IN  /\ Completable(r, u, t, id)
        /\ d.status = "accepted"
        /\ ValidMutationTime(d, t)
        /\ Commit(r, [d EXCEPT !.status = "completed", !.updated = t],
                  Effect("complete", r, None), u,
                  {IF u = Requester[r] THEN d.target ELSE Requester[r]})

CompleteReplays(r, u, t, id) == Completable(r, u, t, id) /\ req[r].status = "completed"

\* Mutants of CancelConfirmed: the former target's deletion is not noticed; the
\* document forgets which meeting was cancelled.
CancelConfirmedUnfenced(r, u, t, id) ==
    LET d == req[r]
    IN  /\ Live(r)
        /\ u \in Principals(r, d)
        /\ AccountsActive(Principals(r, d)) /\ Members(r, {u})
        /\ Cancellable(d, id, t)
        /\ Commit(r, [d EXCEPT !.status = "cancelled", !.updated = t],
                  Effect("cancel", r, None), u, {Other(r, d, u)})

CancelConfirmedForgets(r, u, t, id) ==
    LET d == req[r]
    IN  /\ Live(r)
        /\ u \in Principals(r, d)
        /\ AccountsActive(Participants(r, d)) /\ Members(r, {u})
        /\ Cancellable(d, id, t)
        /\ Commit(r, [d EXCEPT !.status = "cancelled", !.accepted = None, !.updated = t],
                  Effect("cancel", r, None), u, {Other(r, d, u)})

\* The counterpart's membership is not required: cancelling frees a slot.
CancelConfirmed(r, u, t, id) ==
    LET d == req[r]
    IN  /\ Live(r)
        /\ u \in Principals(r, d)
        /\ AccountsActive(Participants(r, d))
        /\ Members(r, {u})
        /\ Cancellable(d, id, t)
        /\ Commit(r, [d EXCEPT !.status = "cancelled", !.updated = t],
                  Effect("cancel", r, None), u, {Other(r, d, u)})

CancelReplays(r, u, id) ==
    LET d == req[r]
    IN  /\ Live(r)
        /\ u \in Principals(r, d)
        /\ AccountsActive(Participants(r, d)) /\ Members(r, {u})
        /\ d.accepted = id /\ MeetingEvidence(d, id)
        /\ d.status = "cancelled"

-----------------------------------------------------------------------------
(* Handoff: once per request, to a third person, with regenerated options. *)

\* Mutant of Handoff: the options of the former target stay.
HandoffKeepingOptions(r, u, t, recipient, starts) ==
    LET d == req[r]
    IN  /\ Live(r)
        /\ u = d.target /\ recipient \notin {u, Requester[r]}
        /\ d.from = None /\ d.status = "suggested" /\ d.accepted = None
        /\ ValidMutationTime(d, t) /\ d.deadline > t
        /\ AccountsActive(Participants(r, d) \cup {recipient})
        /\ Members(r, {Requester[r], u, recipient})
        /\ starts = {}
        /\ Commit(r, [d EXCEPT !.from = u, !.target = recipient, !.updated = t],
                  Effect("handoff", r, None), u, {recipient, Requester[r]})

Handoff(r, u, t, recipient, starts) ==
    LET d == req[r]
        moved == [d EXCEPT !.from = u, !.target = recipient, !.updated = t,
                           !.options = GeneratedOptions("handoff", recipient, starts)]
    IN  /\ Live(r)
        /\ u = d.target
        /\ recipient \notin {u, Requester[r]}
        /\ d.from = None
        /\ d.status = "suggested" /\ d.accepted = None
        /\ ValidMutationTime(d, t)
        /\ d.deadline > t
        /\ AccountsActive(Participants(r, d) \cup {recipient})
        /\ Members(r, {Requester[r], u, recipient})
        /\ starts \subseteq FutureStarts(d.duration, d.deadline, t)
        /\ Cardinality(starts) <= CandidateLimit
        /\ Commit(r, moved, Effect("handoff", r, None), u, {recipient, Requester[r]})

HandoffReplays(r, u, recipient) ==
    /\ Live(r)
    /\ req[r].from = u /\ req[r].target = recipient
    /\ AccountsActive(Participants(r, req[r]))
    /\ Members(r, {Requester[r], u, recipient})

-----------------------------------------------------------------------------
(* Rescheduling a confirmed meeting.                                       *)

\* What the store requires of the retained proposal before it answers any
\* command that names it.
ValidReplayEvidence(r, d) ==
    LET p == d.proposal
    IN  /\ p.id # p.expected
        /\ p.proposer \in Principals(r, d)
        /\ d.accepted = IF p.status = "accepted" THEN p.id ELSE p.expected
        /\ MeetingEvidence(d, p.id)
        /\ MeetingEvidence(d, p.expected)

RescheduleGuard(r, u) ==
    /\ Live(r)
    /\ u \in Principals(r, req[r])
    /\ GuardCreation(r, req[r])

ReschedulePropose(r, u, t, p, expected, s) ==
    LET d == req[r]
    IN  /\ RescheduleGuard(r, u)
        /\ d.status = "accepted"
        /\ ~(d.proposal # None /\ d.proposal.id = p)
        /\ ~ProposalPending(d)
        /\ Cardinality(Ids(d)) < MaxStoredOptions
        /\ Cancellable(d, expected, t)
        /\ p \notin Ids(d)
        /\ s # StartOf(d, expected)
        /\ s > t /\ s + d.duration <= d.deadline
        /\ Commit(r, [d EXCEPT !.options = WithMeeting(d, p, s), !.updated = t,
                               !.proposal = [id |-> p, proposer |-> u,
                                             expected |-> expected, status |-> "proposed"]],
                  Effect("propose", r, p), u, {Other(r, d, u)})

\* Mutant of Terminal: a withdrawal is recorded as a refusal.
TerminalMerged(action) == IF action = "accept" THEN "accepted" ELSE "declined"

\* The status an answer leaves the proposal in.
Terminal(action) ==
    CASE action = "accept" -> "accepted"
      [] action = "decline" -> "declined"
      [] action = "withdraw" -> "withdrawn"

\* Mutant of Answerable: anyone in the request may answer, the proposer too.
AnswerableByAnyone(r, u, t, p, expected, action) ==
    LET d == req[r]
    IN  /\ RescheduleGuard(r, u)
        /\ d.status = "accepted" /\ ProposalPending(d)
        /\ d.proposal.id = p /\ d.proposal.expected = expected
        /\ ValidReplayEvidence(r, d) /\ ValidMutationTime(d, t)

\* Accepting, declining (the counterpart) and withdrawing (the proposer).
Answerable(r, u, t, p, expected, action) ==
    LET d == req[r]
    IN  /\ RescheduleGuard(r, u)
        /\ d.status = "accepted"
        /\ ProposalPending(d)
        /\ d.proposal.id = p /\ d.proposal.expected = expected
        /\ ValidReplayEvidence(r, d)
        /\ (action = "withdraw") <=> (u = d.proposal.proposer)
        /\ ValidMutationTime(d, t)
        /\ d.accepted = expected

\* Mutants of RescheduleAccept: the new time is not checked against the other
\* reservations; the old one may already have started.
RescheduleAcceptUnchecked(r, u, t, p, expected) ==
    LET d == req[r]
    IN  /\ Answerable(r, u, t, p, expected, "accept")
        /\ Cancellable(d, expected, t) /\ ConfirmableMeeting(d, p, t)
        /\ Commit(r, [d EXCEPT !.accepted = p, !.proposal.status = "accepted", !.updated = t],
                  Effect("accept", r, p), u, {Other(r, d, u)})

RescheduleAcceptLate(r, u, t, p, expected) ==
    LET d == req[r]
    IN  /\ Answerable(r, u, t, p, expected, "accept")
        /\ ConfirmableMeeting(d, p, t) /\ MeetingSlotFree(r, d, p)
        /\ Commit(r, [d EXCEPT !.accepted = p, !.proposal.status = "accepted", !.updated = t],
                  Effect("accept", r, p), u, {Other(r, d, u)})

RescheduleAccept(r, u, t, p, expected) ==
    LET d == req[r]
        moved == [d EXCEPT !.accepted = p, !.proposal.status = "accepted", !.updated = t]
    IN  /\ Answerable(r, u, t, p, expected, "accept")
        /\ Cancellable(d, expected, t)
        /\ ConfirmableMeeting(d, p, t)
        /\ MeetingSlotFree(r, d, p)
        /\ Commit(r, moved, Effect("accept", r, p), u, {Other(r, d, u)})

\* Mutant of RescheduleRefuse: the refused option is dropped from the document.
RescheduleRefuseDropping(r, u, t, p, expected, action) ==
    LET d == req[r]
        kept == [id \in Ids(d) \ {p} |-> d.options[id]]
    IN  /\ action \in {"decline", "withdraw"}
        /\ Answerable(r, u, t, p, expected, action)
        /\ Commit(r, [d EXCEPT !.options = kept, !.proposal = None, !.updated = t],
                  Effect(action, r, p), u, {Other(r, d, u)})

RescheduleRefuse(r, u, t, p, expected, action) ==
    LET d == req[r]
    IN  /\ action \in {"decline", "withdraw"}
        /\ Answerable(r, u, t, p, expected, action)
        /\ Commit(r, [d EXCEPT !.proposal.status = Terminal(action), !.updated = t],
                  Effect(action, r, p), u, {Other(r, d, u)})

\* A retried proposal or answer, recovered from the retained proposal.
ProposalReplays(r, u, p, expected, s) ==
    /\ RescheduleGuard(r, u)
    /\ req[r].proposal # None
    /\ ValidReplayEvidence(r, req[r])
    /\ req[r].proposal.id = p /\ req[r].proposal.expected = expected
    /\ req[r].proposal.proposer = u /\ StartOf(req[r], p) = s

AnswerReplays(r, u, p, expected, action) ==
    /\ RescheduleGuard(r, u)
    /\ req[r].proposal # None
    /\ ValidReplayEvidence(r, req[r])
    /\ req[r].proposal.id = p /\ req[r].proposal.expected = expected
    /\ (action = "withdraw") <=> (u = req[r].proposal.proposer)
    /\ req[r].proposal.status = Terminal(action)

-----------------------------------------------------------------------------
(* The environment: time, workspaces, account deletion, calendars.         *)

Tick ==
    /\ now < MaxTime
    /\ now' = now + 1
    /\ UNCHANGED <<member, deleting, open, req, note, audit>>

\* A membership document is removed (a person leaves the workspace).
MemberRemoved(u, o) ==
    /\ <<u, o>> \in member
    /\ member' = member \ {<<u, o>>}
    /\ UNCHANGED <<now, deleting, open, req, note, audit>>

\* The first transaction of an account deletion sets the marker.
BeginAccountDeletion(u) ==
    /\ u \notin deleting
    /\ deleting' = deleting \cup {u}
    /\ UNCHANGED <<now, member, open, req, note, audit>>

\* A synchronization, a policy edit or a disconnection changes what the
\* calendar shows.
CalendarChanges(u, side, free) ==
    /\ free # open[<<u, side>>]
    /\ open' = [open EXCEPT ![<<u, side>>] = free]
    /\ UNCHANGED <<now, member, deleting, req, note, audit>>

-----------------------------------------------------------------------------
Init ==
    /\ now = 0
    /\ member = User \X Org
    /\ deleting = {}
    /\ open \in [(User \X Side) -> Calendars]
    /\ req = [r \in {} |-> None]
    /\ note = {}
    /\ audit = {}

StartSets == {S \in SUBSET Time : Cardinality(S) <= CandidateLimit}

CreateStep(r, t) ==
    \E target \in User, duration \in Durations, deadline \in Deadlines, starts \in StartSets :
        Create(r, t, target, duration, deadline, starts)

ProposeStep(r, u, t) == \E s \in Time : ProposeMeeting(r, u, t, s)

ResolveStep(r, u, t) == \E status \in {"async", "declined", "cancelled"} : Resolve(r, u, t, status)

HandoffStep(r, u, t) == \E v \in User, starts \in StartSets : Handoff(r, u, t, v, starts)

\* The commands that name an option of the document.
StoredIds(r) == IF Live(r) THEN Ids(req[r]) ELSE {}

ConfirmStep(r, u, t) == \E id \in StoredIds(r) : ConfirmMeeting(r, u, t, id)

CompleteStep(r, u, t) == \E id \in StoredIds(r) : Complete(r, u, t, id)

CancelStep(r, u, t) == \E id \in StoredIds(r) : CancelConfirmed(r, u, t, id)

RescheduleStep(r, u, t) ==
    \E id \in StoredIds(r), p \in ProposalId :
        \/ \E s \in Time : ReschedulePropose(r, u, t, p, id, s)
        \/ RescheduleAccept(r, u, t, p, id)
        \/ \E action \in {"decline", "withdraw"} : RescheduleRefuse(r, u, t, p, id, action)

\* The commands before a time is confirmed, and those that confirm it or change it.
NegotiateStep(r, u, t) ==
    \/ ProposeStep(r, u, t)
    \/ ResolveStep(r, u, t)
    \/ HandoffStep(r, u, t)

MeetingStep(r, u, t) ==
    \/ ConfirmStep(r, u, t)
    \/ CompleteStep(r, u, t)
    \/ CancelStep(r, u, t)
    \/ RescheduleStep(r, u, t)

Environment ==
    \/ Tick
    \/ \E u \in MayLeave : BeginAccountDeletion(u)
    \/ \E u \in MayLeave, o \in Org : MemberRemoved(u, o)
    \/ \E u \in User, side \in Side, free \in Calendars : CalendarChanges(u, side, free)

Next ==
    \/ \E r \in Request, t \in Reading :
          \/ CreateStep(r, t)
          \/ \E u \in User : NegotiateStep(r, u, t) \/ MeetingStep(r, u, t)
    \/ Environment

Spec == Init /\ [][Next]_vars

-----------------------------------------------------------------------------
(* Properties.                                                             *)

\* Every document, notification and audit event has its declared shape.
TypeOK ==
    /\ now \in Time
    /\ member \subseteq User \X Org
    /\ deleting \subseteq User
    /\ open \in [(User \X Side) -> SUBSET Time]
    /\ DOMAIN req \subseteq Request /\ \A r \in DOMAIN req : IsDoc(req[r])
    /\ note \subseteq Note
    /\ audit \subseteq Audit

\* The meeting of a document that is confirmed or was held.
Held(r) == Live(r) /\ req[r].status \in {"accepted", "completed"}
MeetingStart(r) == StartOf(req[r], req[r].accepted)
MeetingEnd(r) == EndOf(req[r], req[r].accepted)
Share(q, r) == Principals(q, req[q]) \cap Principals(r, req[r]) # {}

\* Nobody is booked twice: two confirmed requests with a person in common, in
\* whatever roles and workspaces, keep disjoint times, through confirmations,
\* reschedules, handoffs and cancellations in any order (checkMeetingSlot).
NoDoubleBooking ==
    \A q, r \in Request :
        (q # r /\ Reserves(q) /\ Reserves(r) /\ Share(q, r)) =>
            ~Overlap(MeetingStart(q), MeetingEnd(q), MeetingStart(r), MeetingEnd(r))

\* Nor was anybody, but for less than the servers' clocks disagree: completed meetings
\* no longer reserve their time, and a later one can still not run into them, because
\* completion waits for the end and confirmation wants a future start.
HistoryDisjoint ==
    \A q, r \in Request :
        (q # r /\ Held(q) /\ Held(r) /\ Share(q, r)) =>
            \/ ~Overlap(MeetingStart(q), MeetingEnd(q), MeetingStart(r), MeetingEnd(r))
            \/ MeetingEnd(q) < MeetingStart(r) + Skew
            \/ MeetingEnd(r) < MeetingStart(q) + Skew

Happened(kind, r, key, actor) == [id |-> Effect(kind, r, key), actor |-> actor] \in audit

\* A meeting stands where both people put it: each agreed to the time, one by
\* offering it and the other by confirming or accepting it, a generated one by
\* being the target whose calendar it comes from (AuthorizeConfirmation, and
\* the actor rules of ApplyReschedule).
AgreedByBoth ==
    \A r \in Request :
        Held(r) =>
            LET d == req[r]
                id == d.accepted
            IN  IF id \in ProposalId
                THEN \E u \in Principals(r, d) :
                        Happened("propose", r, id, u) /\ Happened("accept", r, id, Other(r, d, u))
                ELSE \/ ProposedBy(id) = None /\ Happened("confirm", r, None, d.target)
                     \/ /\ Happened("offer", r, id, d.target)
                        /\ Happened("confirm", r, None, Requester[r])

\* The generated options and the offers a document holds are those of the
\* current target: a handoff leaves nothing of the former one to be confirmed.
OptionsOfTarget ==
    \A r \in Request :
        Live(r) => \A id \in Ids(req[r]) \ ProposalId : id.who = req[r].target

\* The retained proposal stays coherent with the document whatever happens to
\* the meeting after it, so a lost answer can be recovered even after a
\* cancellation or completion (validRescheduleReplayEvidence never refuses).
RetainedProposalIsSound ==
    \A r \in Request :
        (Live(r) /\ req[r].proposal # None) => ValidReplayEvidence(r, req[r])

Taken(kind, r, key) ==
    \/ \E a \in audit : a.id = Effect(kind, r, key)
    \/ \E n \in note : n.id = Effect(kind, r, key)

\* Effects are inserted under ids derived from the request, the offer or the
\* proposal, and an insert over an existing id would abort the transaction for
\* good.  No transition still open to a document finds its id taken.
EffectIdsFree ==
    \A r \in Request :
        /\ ~Live(r) => \A kind \in EffectKind, key \in OptionId \cup {None} : ~Taken(kind, r, key)
        /\ Live(r) =>
            LET d == req[r]
            IN  /\ d.status = "suggested" =>
                      /\ ~Taken("confirm", r, None) /\ ~Taken("resolve", r, None)
                      /\ d.from = None => ~Taken("handoff", r, None)
                      /\ \A s \in Time : OfferId(d.target, s) \notin Ids(d) =>
                                             ~Taken("offer", r, OfferId(d.target, s))
                /\ d.status = "accepted" =>
                      /\ ~Taken("complete", r, None) /\ ~Taken("cancel", r, None)
                      /\ \A p \in ProposalId \ Ids(d) : ~Taken("propose", r, p)
                      /\ ProposalPending(d) =>
                            \A kind \in {"accept", "decline", "withdraw"} :
                                ~Taken(kind, r, d.proposal.id)

\* A retry that is answered "already done" tells the truth: the command it
\* repeats took effect, for the person who repeats it.  A completion or a
\* cancellation may have been the counterpart's.
ReplaysAreTrue ==
    \A r \in Request, u \in User :
        /\ \A duration \in Durations, deadline \in Deadlines :
              CreateReplays(r, u, duration, deadline) =>
                  [to |-> u, id |-> Effect("create", r, None)] \in note
        /\ \A s \in Time : ProposeReplays(r, u, s) => Happened("offer", r, OfferId(u, s), u)
        /\ \A status \in {"async", "declined", "cancelled"} :
              ResolveReplays(r, u, status) => Happened("resolve", r, None, u)
        /\ \A v \in User : HandoffReplays(r, u, v) =>
              Happened("handoff", r, None, u) /\ [to |-> v, id |-> Effect("handoff", r, None)] \in note
        /\ Live(r) => \A id \in Ids(req[r]) :
              /\ ConfirmReplays(r, u, id) =>
                    \/ Happened("confirm", r, None, u)
                    \/ \E v \in Principals(r, req[r]) : Happened("accept", r, id, v)
              /\ CompleteReplays(r, u, now, id) =>
                    \E v \in Principals(r, req[r]) : Happened("complete", r, None, v)
              /\ CancelReplays(r, u, id) =>
                    \E v \in Principals(r, req[r]) : Happened("cancel", r, None, v)
              /\ \A p \in ProposalId :
                    /\ \A s \in Time :
                          ProposalReplays(r, u, p, id, s) => Happened("propose", r, p, u)
                    /\ \A action \in {"accept", "decline", "withdraw"} :
                          AnswerReplays(r, u, p, id, action) => Happened(action, r, p, u)

\* A person is told of what the others did, never of what they did themselves,
\* and nobody outside the request is told anything.
NotesToOthers ==
    \A n \in note :
        /\ Live(n.id.req) /\ n.to \in Participants(n.id.req, req[n.id.req])
        /\ \A a \in audit : a.id = n.id => a.actor # n.to

\* Once a meeting has started, by every server's clock, it is a fact: it can be
\* completed, but neither cancelled nor moved, by however late a command.
KeepsStarted ==
    \A r \in Request :
        (Reserves(r) /\ MeetingStart(r) + Skew <= now) =>
            /\ Held(r)'
            /\ req'[r].accepted = req[r].accepted
            /\ MeetingStart(r)' = MeetingStart(r) /\ MeetingEnd(r)' = MeetingEnd(r)

StartedMeetingIsFixed == [][KeepsStarted]_vars

\* From the moment one of its people, the former target included, starts to
\* delete the account, a document is frozen: the deletion's sweep that follows
\* races with no other writer, and nothing new is handed or addressed to it.
RespectsFence ==
    /\ \A r \in Request :
          (Live(r) /\ Participants(r, req[r]) \cap deleting # {}) =>
              Live(r)' /\ req'[r] = req[r]
    /\ \A r \in Request :
          (Live(r)' /\ (Live(r) => req'[r] # req[r])) =>
              Participants(r, req'[r]) \cap deleting = {}
    /\ \A n \in note' \ note : n.to \notin deleting

FencedDocuments == [][RespectsFence]_vars

\* A time is booked, or moved to, only while the requester's private calendar
\* and the target's published one both show it free (checkMeetingSlot).
BooksFreeTime ==
    \A r \in Request :
        (Reserves(r)' /\ (Reserves(r) => req'[r].accepted # req[r].accepted)) =>
            LET meeting == MeetingStart(r)'..(MeetingEnd(r)' - 1)
            IN  meeting \subseteq open[<<Requester[r], "requester">>]
                                   \cap open[<<req'[r].target, "target">>]

BookedOnlyWhenFree == [][BooksFreeTime]_vars

-----------------------------------------------------------------------------
(* What makes the properties above inductive.                              *)

\* A document by itself: it is between two people, holds only what was
\* generated for or offered by the current target until a time is confirmed,
\* and from then on a meeting, with what there is of a proposal to move it.
SoundDoc(r, d) ==
    /\ d.target # Requester[r]
    /\ \A id \in Ids(d) \ ProposalId : id.who = d.target
    /\ d.status \in {"suggested", "async", "declined"} => d.accepted = None
    /\ d.status \in {"accepted", "completed"} => d.accepted # None
    /\ d.accepted = None => d.proposal = None /\ Ids(d) \subseteq ServerOptionId
    /\ d.accepted # None => MeetingEvidence(d, d.accepted) /\ EndOf(d, d.accepted) <= d.deadline
    /\ d.proposal # None => ValidReplayEvidence(r, d)

\* The effects a document in this state may have left: an id that is taken
\* belongs to a transition that is behind it.
SoundEffect(d, kind, key) ==
    CASE kind = "create" -> TRUE
      [] kind = "offer" -> /\ key \in ServerOptionId /\ key.src = "offer"
                           /\ key.who = d.target => key \in Ids(d)
                           /\ key.who \in {d.target, d.from}
      [] kind \in {"confirm", "resolve"} -> d.status # "suggested"
      [] kind \in {"complete", "cancel"} -> d.status \notin {"suggested", "accepted"}
      [] kind = "handoff" -> d.from # None
      [] kind = "propose" -> d.status # "suggested" /\ key \in Ids(d)
      [] kind \in {"accept", "decline", "withdraw"} ->
            /\ d.status # "suggested" /\ key \in Ids(d)
            /\ ~(ProposalPending(d) /\ d.proposal.id = key)

\* What a document records happened, by whom it says and was told to whom it says.
Witnessed(r, d) ==
    /\ [to |-> CreationTarget(d), id |-> Effect("create", r, None)] \in note
    /\ \A id \in Ids(d) \cap ServerOptionId :
          id.src = "offer" => Happened("offer", r, id, id.who)
    /\ d.status \in {"async", "declined"} => Happened("resolve", r, None, d.target)
    /\ (d.status = "cancelled" /\ d.accepted = None) => Happened("resolve", r, None, Requester[r])
    /\ d.from # None =>
          /\ Happened("handoff", r, None, d.from)
          /\ [to |-> d.target, id |-> Effect("handoff", r, None)] \in note
    /\ d.status = "completed" => \E u \in Principals(r, d) : Happened("complete", r, None, u)
    /\ (d.status = "cancelled" /\ d.accepted # None) =>
          \E u \in Principals(r, d) : Happened("cancel", r, None, u)
    /\ d.accepted # None => IF d.accepted \in ProposalId
                            THEN \E u \in Principals(r, d) :
                                    /\ Happened("propose", r, d.accepted, u)
                                    /\ Happened("accept", r, d.accepted, Other(r, d, u))
                            ELSE Happened("confirm", r, None, IF ProposedBy(d.accepted) = None
                                                              THEN d.target ELSE Requester[r])
    /\ d.proposal # None =>
          LET p == d.proposal
          IN  /\ Happened("propose", r, p.id, p.proposer)
              /\ p.status = "accepted" => Happened("accept", r, p.id, Other(r, d, p.proposer))
              /\ p.status = "declined" => Happened("decline", r, p.id, Other(r, d, p.proposer))
              /\ p.status = "withdrawn" => Happened("withdraw", r, p.id, p.proposer)

DocumentsSound ==
    /\ \A r \in DOMAIN req : SoundDoc(r, req[r])
    /\ \A r \in DOMAIN req : req[r].status = "completed" => MeetingEnd(r) <= now

EffectsSound ==
    /\ \A n \in note : \E a \in audit : a.id = n.id
    /\ \A a \in audit : Live(a.id.req) /\ SoundEffect(req[a.id.req], a.id.kind, a.id.key)

\* Documents, notifications and audit events tell the same story: every
\* document has the shape its status asks for, what it records was done by the
\* people it names, and no effect was written ahead of it.
CoherentHistory ==
    /\ DocumentsSound
    /\ EffectsSound
    /\ \A r \in DOMAIN req : Witnessed(r, req[r])

-----------------------------------------------------------------------------
(* The requests implement the reservation ledger: confirming books a slot, *)
(* an accepted reschedule moves it, and so on; everything else that        *)
(* happens to a document leaves the ledger as it is.                       *)

LedgerState(d) ==
    CASE d.status = "accepted" -> "booked"
      [] d.status = "completed" -> "finished"
      [] d.status = "cancelled" -> "released"

LedgerEntry(r) ==
    IF ~Live(r) \/ req[r].accepted = None
    THEN [state |-> "unbooked", people |-> {}, start |-> 0, end |-> 0]
    ELSE [state |-> LedgerState(req[r]), people |-> Principals(r, req[r]),
          start |-> MeetingStart(r), end |-> MeetingEnd(r)]

Ledger == INSTANCE Reservations WITH
    Slot <- Request, Person <- User, Instant <- Time, Slack <- Skew,
    clock <- now, ledger <- [r \in Request |-> LedgerEntry(r)]

\* Every command is one atomic change of the ledger, or none: in particular an
\* accepted reschedule keeps the old time until it holds the new one.
ImplementsLedger == Ledger!LedgerSpec

=============================================================================
