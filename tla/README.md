# Negotiable Calendar: TLA+ models and proofs

Negotiable Calendar shares, instead of calendar details, only when and how a
person may be approached, and lets people negotiate meetings on that basis. This
directory models the server (`src/apps/api`, Go) with the Firestore stores it is
deployed on, checks the models with TLC and proves theorems about them with TLAPS.

## 1. The system

| part | state it keeps | operations | what makes it correct |
| --- | --- | --- | --- |
| Request lifecycle (`internal/request`, `firestorestore/request*.go`) | one document per request: people, status, options, accepted option, retained reschedule proposal, `UpdatedAt` | create, counterpropose, confirm, answer, decline, withdraw, complete, cancel, hand off, reschedule (propose / accept / decline / withdraw) | nobody is booked twice; a meeting stands only where both agreed; retries are answered truthfully; deletion freezes what it will erase |
| Notifications and audit events | documents under derived ids | inserted by each command; listed, marked read | inserted once, for the right person |
| Calendar synchronization (`calendar/sync.go`, `firestorestore/calendar*.go`) | connection, sync lease, token, private events | acquire, apply changes, rebuild, mark success or failure, connect, disconnect | a writer that lost its lease writes nothing |
| Publication of projections (`projection_publication.go`, `projection_inputs.go`, `private_inputs.go`, `simple.go`) | gate, policy revision, private input revision, rows | begin, batches, finish, abandon, read | readers see a whole, current projection or nothing |
| Sync scheduling (`sync.go` `RunDue`, `scheduled.go`, `ClaimDueConnections`) | next attempt, failures, sync lease, grant | claim, run batch, back off; a page's synchronization; reading the own events | none is claimed twice at once; only batches that run out of time again and again can starve a connection, a new grant is not blamed for an old one |
| Projection engine (`projection/engine.go`, `model.go`, `policy`) | none | rows of every bucket from policy, rules, events, overrides; the reader's view | a row means what the settings say as long as it counts |
| Candidate generation (`request/candidate*.go`, `httpapi/candidate_calendar.go`) | none | reads rows, reservations, the requester's calendar one after the other; offers the three best starts | what is offered can be confirmed, and nothing better is missed |
| Accounts and workspaces (`account_deletion.go`, `auth_organization.go`, `accountcleanup`, `organization`) | deletion marker, identities, memberships, invitations, sessions | sign in, invite, accept, switch, begin deletion, sweep, resume | a started deletion is finished and leaves nothing behind, one Google account has one user, no workspace is abandoned |
| HTTP API (`httpapi`) | none | decodes commands, reads snapshots, calls the stores | |
| PostgreSQL backend | tables | the same stores | the same |
| Planning previews, web client, middleware | budgets, view state | | |

Commands meet in the database only: each is one Firestore transaction over the
request document, the deletion markers and memberships of its people, the
confirmed requests of both people in both roles, and the calendars. Synchronization
and publication are sequences of transactions guarded by leases, so a crash or a
lost lease may happen between any two of them. Clients retry, and a retry may
arrive after other commands. What is hard: the order of commands of several
people on crossed requests, answers that arrive late, clocks of several server
processes, deletion racing with everything, and multi-transaction writes. Account
deletion is neither: one transaction that leaves a marker, then hundreds of single
deletes that may stop after any of them, while sign-ins, invitations and commands
go on and check the marker in their own transactions.

`PROJECT.json` lists the hazards line by line with the properties that cover them.

## 2. Modules

- `Requests` - the core: the life of request documents in the store.
- `Reservations` - the abstract specification: a ledger of booked, moved,
  released and finished time slots. `Requests` implements it (`ImplementsLedger`).
- `MCRequests` - the instances TLC checks.
- `Publication` - how one user's calendar becomes public availability:
  synchronization, rebuilding, the gates, readers, edits and disconnection.
- `Availability` - the abstract specification of that: one document that shows nothing
  or everything, and is replaced in one step. `Publication` implements it
  (`ImplementsAvailability`).
- `Accounts` - identities, workspaces, sessions and the deletion of accounts.
- `SyncSchedule` - when which calendar is synchronized, and by whom.
- `Projections` - the engine: what rows follow from the settings, what the view shows.
- `Candidates` - the creation handler from its reads to its offers, and what a
  confirmation would check of them.
- `Ordering` - a finite set in order, as the sorts of the code leave their slices.
- `Planning` - composes `Projections` (INSTANCE `P`) and `Candidates` on one clock.
- `MCPublication`, `MCAccounts`, `MCSyncSchedule`, `MCPlanning` - the instances.
- `RequestsProofs` (types, double booking, documents and fences), and on top of it
  `RequestsEffectsProofs` (meetings, the ledger, effects and replays) - the theorems about
  `Requests`.
- `PlanningRowsProofs` (rows and view), and on top of it `PlanningOffersProofs` (offers) -
  the theorems about `Planning`.
- `ReservationsProofs`, `AccountsProofs`, `SyncScheduleProofs`, `PublicationProofs` - the
  theorems about the modules they are named for.

How they meet: `Requests` takes from the others that calendars change
(`CalendarChanges`), that candidates are future starts within the deadline
(`Create`) and that accounts begin to be deleted (`BeginAccountDeletion`);
`Candidates`, `Publication` and `Accounts` open these steps up. `Publication` keeps
which settings a row was computed from, `Projections` what that computation says;
`SyncSchedule` takes one synchronization as a step from lease to outcome, whose
inside is `Publication`.

### How Requests corresponds to the code

`req` is the collection `coordinationRequests`; a document keeps the fields the
guards and effects read. `options` holds the options by id, each with its start,
or `None` for the asynchronous option; all meetings of a request last
`duration`. Ids are structured values instead of hashes: what they are derived
from in the code is what they contain. `note` and `audit` are the notification
and audit collections, `member` the membership documents, `deleting` the account
deletion markers. `open[<<u, "target">>]` is what the published projection of a
person shows requestable, `open[<<u, "requester">>]` what their private busy
intervals leave free; both may change at any time (`CalendarChanges`), a hidden
or stale source showing nothing free.

Each action is one transaction (`CreateOnce`, `ProposeMeeting`, `confirmMeeting`,
`ResolveRequest`, `cancelConfirmed`, `handoff`, `reschedule`; the `...Step` operators
are the handlers that call them): its guards in the
order of the early returns, then the document with all its effects (`Commit`).
A retry that the code answers from the stored document writes nothing; the
conditions are the `...Replays` operators.

Transactions are taken as serializable, which is what Firestore provides and
what the per-person lock documents rely on. `now` is the leading clock of the
server processes; a process reads it or a value at most `Skew` behind
(`Reading`). The same lag stands for the time that passes between a check of the
clock and the commit. Documents erased by account deletion are left to
`Accounts`: here the marker alone is set, and `FencedDocuments` says that
nothing writes them from then on. The statuses pending, delegated and expired
are never set by a command that a handler sends, and are left out.

### How Publication corresponds to the code

One user, and the documents that decide what others see of that user's time:
`conn` is `calendarConnections`, `inputs`, `pub` and `policyRev` are the controls
of private inputs, publication and policy revision, `block` is the control a
disconnection leaves, `events` and `rows` are the collections `privateEvents` and
`scheduleProjections`, `settings` the sharing policy with the manual override.
Time is cut into `Cells`; an event or row of a cell is either there or not, and
`rows[c]` records the policy, override and event it was computed from.

`local[p]` is the program counter and the Go context of a process: a
synchronization (`syncUser`), a policy edit (`putSharingPolicy`) or a disconnection
(`DeleteConnection`). Each action is one transaction, one batch or one read, with
the fence (`fencedWrite`) of everything its context carries. `Chunks` and `Wipe`
leave open where a batch ends, so a process may stop after any part of a
collection. Functions that return an error continue in the deferred cleanup and
then in the caller's handling of the error (`FailAt`, `AfterFailure`): the
abandoned lease, the recorded failure, the erased rows of a failed edit. `Fault`
is an error of any call or a cancelled request, `Crash` the death of the process.
The reader makes its two passes one document at a time.

Abstractions. Leases are live or over; one that nobody holds any more ends freely,
one that ends under its holder is a fault and counted as one. There is one clock:
the checks of a lease all use the server's own time, and a disagreement of clocks
shows as a lease that ended early. Ids are compared only for equality by the code,
so the model reuses an id once nothing holds it in that role (`Unused`), and assumes
enough of them that one is always free (`IdsAssumption`). The provider is the
set of busy cells of each account; the sync token is the state it last reported.
An expired token or a window that moved too far is a free choice of a full fetch.
A synchronization covers all cells, a rebuild one of `Windows`, and `covered`, a
history variable, is the time the completed gate answers for. The load of the
source snapshot and the fetch are one step. `putSharingPolicy`'s new policy differs
from the old one. Account deletion's check in the fence is left to `Accounts`.
The check that a smaller window may not repair a dirty gate is modelled, but no
caller in the application reaches it: every gate a writer leaves dirty has lost
its revisions, so the next replacement clears everything.

`Source` and `RowsShown` map the documents to those of `Availability`: what is shown is
what a read of all the documents at once would show (`Visible`), or `None`; what it is made from
is the settings, the imported events and the account that is connected. Readers
read one by one, so what they get is a property of its own (`AnswersAreConsistent`).

Two things a reader of the code should know, which no property states. A
disconnection that dies midway keeps reconnecting busy until the user disconnects
again. And a read that overlaps a connection, a disconnection, a second connection
and a whole synchronization may still answer with rows of the policy alone, which
were correct when the query ran: `AnswersAreConsistent` therefore asks that the
documents showed the rows only if a calendar is behind them.

### How Accounts corresponds to the code

`docs` is the set of all documents about people: a document is a record with the
fields that decide who owns it and who may do what. `settings` stands for
everything filed under one user behind the same fence (policies, overrides,
events, rows, connections, OAuth flows). `marker` is the deletion control with its
phase. `signin[b]` is the callback of a browser, one call of `UpsertGoogleIdentity`
and its successors at a time; `known` holds the identities `GetSession` has
authenticated, and a request of such an identity may be carried out at any later
time, so every check before the transaction is as old as it likes. `sweep[d]` is
one call of `DeleteAccount`: the stage it is in (`Query` gives what a stage deletes,
`After` what follows), the documents its query returned, and the workspaces the
marker names. Each delete is a step; `Interrupted` ends the call at any of them.
`cleanup` is the operator's command, its page and its cursor, which passes an
account whether its deletion was completed or failed.

Abstractions. Sessions, flows and invitations expire; expiry only disables, so it is
left out. `GetSession`'s reads are one step. Of two outstanding invitations of one
person to one workspace with one role there is one, and each email belongs to one
Google account. Commands on requests are `CreateRequest` and `ChangeRequest`, which
write what they write about people; their guards are in `Requests`. `TransferOwnership` is
external: the code tells an owner to hand over the ownership and has no operation
for it. The dry run of the cleanup writes nothing and is left out.

### How SyncSchedule corresponds to the code

`batch[s]` is the one `RunDue` of server `s`: what its query returned, what it has
claimed, what it is synchronizing and how old it is. `queue` and `timer` are
`NextAttemptAt`, relative to the present and in the order of the query; `lease` is the
sync lease, of a batch or of the user's page. A batch works through the due connections in the queue's
order without those that are being synchronized (`InOrderOf`). A claim postpones the next attempt
from the time the batch began, an attempt from the time it began, and its outcome
from the time it ended. A synchronization that returns has recorded success, a
failure or a refused grant; one that lost its lease has recorded nothing.

`reader[u]` is a read of the user's own events in progress and with which grant it
began, `refused` the users whose present grant has been refused, a history
variable. A connection or a disconnection makes both forget (`NewGrant`).

A unit of time is a minute and times are rounded up: 1 for a batch of 50 s, 2 for
claims and leases, 2, 3 and 5 for the delays after failures. The interval after a
success, 15 minutes, is cut to 3, still longer than a claim. Connections that become
due within one unit may stand in any order. Jitter in the backoff is left out: it
decides only the order within a unit.

A claim puts a connection off whether or not its batch has time for it, so a
connection can starve, without any fault. Of three whose synchronizations take a whole
batch each, 2 is claimed behind 1 in one batch and behind 3 in the next. While 2 is put
off, the others become due, and it is left over every time. Longer delays do not
prevent it when batches come late: with 15 minutes from a success to the next attempt
it is enough that batches start 15 minutes apart, as the scheduled workflow's do.
`docs/scheduled-calendar-sync.md:59` says of unprocessed claims that a later invocation
resumes them; that holds only with time to spare. Hence the condition of
`NoStarvation`, `LeftOver`: what `RunDue` reports as `Unprocessed`, and the workflow as
a failure, is the only thing that can starve a connection. Without the condition
TLC finds such a behaviour with one server and no fault, also when `MaxFailures` is 2 and
`Interval` 5. What
the property then rests on is that a connection that is due and not claimed keeps its
place before all that are put off, whatever they fail at.

### How Projections, Candidates and Planning correspond to the code

`Generate`, `StateForEvent`, `InsideWorkingHours` and the others are the engine's
functions; a state is a place in the order of each of its four dimensions. The wall
clock of a zone is a function of time, so a day that is repeated or skipped is
one that is not monotone. `Rebuild` is one step, which `Publication` justifies: by
`ImplementsAvailability` what rows show is replaced at once. `Valid...` is what `Validate` accepts as
settings, and the assumption `CasesAssumption` says that the checked cases are such.
The sorts of both modules are `InOrder`, with the order as a set of pairs; the orders the
code sorts by are strict and total on what it sorts, or what they leave open makes no
difference (`Sorted` keeps of the ranges what the merge reads).

`Candidates` follows the creation handler: the time it notes (`now`), the rows, the
reservations and the requester's calendar it reads one after the other (`got`), and
the offers. `Merged`, `FirstEndingAfter`, `CandidateSpans`, `Runs`, `Scored` and
`Retain` are the functions of `internal/request` as folds; `Covered`, `Unreserved`
and `NotBusy` are the checks of a confirmation, another implementation of the same
rules and therefore the reference for the first. `case` is everything that stands
still: a request, the meetings already confirmed, the requester's calendar, and
the target's settings or, where they are `None`, its rows.

Abstractions. Rows of other people and other windows are left out, and the request that
prefers no meeting at all, which is answered without looking at either calendar. An override
decides the state of every bucket it touches, by design, so `Meaning` says so too.
`RowsStayTrue` speaks of rows that have not begun, because a row is computed for
its whole bucket. Rows that are given may be of any length, state and time and may
overlap, which rows of the engine never do and `NewView` refuses; but such rows expire
together (`GivenRows`). A reader leaves out what has expired and a confirmation does not,
so beside an expired row that overlaps another one it would refuse what is offered.
`NewView`'s error on rows that overlap cannot occur on rows of the engine.

## 3. What TLC checks

Runs that check no liveness assume no fairness. Deadlock is not checked, because
every behaviour may really stop: the clock ends at `MaxTime` or a case's `last`, the
budget of outside events runs out, and the user may simply do nothing more.

| run | instance | question |
| --- | --- | --- |
| booking | 2 people, 2 requests that cross, meetings of 1 or 2 units, clocks that lag by up to 1 | Is anybody ever booked twice (`NoDoubleBooking`), or has been, but for less than the lag (`HistoryDisjoint`)? Is a meeting that every server sees as started fixed (`StartedMeetingIsFixed`)? Does every command change the ledger in one step (`ImplementsLedger`)? |
| negotiation | 3 people, 1 request, 2 proposal ids, `u2` may leave or delete the account | Are options those of the current target (`OptionsOfTarget`), effect ids never taken (`EffectIdsFree`), replays truthful (`ReplaysAreTrue`), notes for the others (`NotesToOthers`), documents frozen by deletion (`FencedDocuments`)? |
| reschedule | 2 people, 1 request whose meeting can be moved twice, calendars that become busy or free | Does a meeting stand only where both agreed (`AgreedByBoth`), is a time booked or moved to only where both calendars show it free at that moment (`BookedOnlyWhenFree`), is the retained proposal always recoverable (`RetainedProposalIsSound`), do documents, notifications and audit events tell one story (`CoherentHistory`), and do effect ids and replays stay right when a second proposal follows a first (`EffectIdsFree`, `ReplaysAreTrue`)? |
| pub_write | 2 synchronizers, 3 synchronizations, 2 changes, 1 fault; or 2 policy edits with windows of 1 or 2 cells and 1 synchronization | Is a committed cache exactly what its cursor stands for (`CommittedIsSnapshot`), is what is visible the complete projection of the present settings and events (`PublishedIsCurrent`), is everything written behind a closed gate (`WritesBehindGates`), and does only a completion open it (`OpensOnlyByCompletion`)? |
| pub_read | 2 accounts, 1 disconnection, 2 synchronizations, 2 faults; or 1 reader, an override, a disconnection, a source that ages | Is nothing of the calendar left after a disconnection (`DisconnectedIsErased`), nothing of a former account visible (`NoFormerAccount`), and does the double check of separate reads answer with a whole, current projection or nothing (`AnswersAreConsistent`)? Do all of these batches look like one document replaced at once (`ImplementsAvailability`)? |
| pub_reopen | unlimited synchronizations, 1 fault, 1 override, 1 ageing | Does availability always come back (`KeepsReopening`)? |
| acc_sweep | 2 people with 2 spare ids, 2 browsers; a deletion beside an invitation and a request, with a fault; two owners who leave; two sign-ins beside a deletion | Is nothing left of a deleted account (`ErasedOnceComplete`), no member without workspace (`MembershipsCoherent`), one user for a Google account (`OneAccount`), no shared workspace abandoned by deletions that begin (`NeverAbandoned`)? |
| acc_cleanup | 2 deletions, 2 faults, pages of one | Is every deletion that has begun completed (`DeletionsComplete`)? |
| acc_owner | 1 invitation, 1 deletion | Violated: see the findings. |
| schedule | 3 users, 2 servers whose batches claim 2; a fault, beside it a page's synchronization, a new connection or a disconnection of one user; or a private read | Do two batches never work on one connection (`ClaimedByOne`), and can only batches that leave a connection over again and again starve it (`NoStarvation`)? |
| grant | 1 user, 1 server, a private read and a new connection | Violated: see the findings. |
| planning | 5,000 small cases | Do rows keep their meaning (`RowsStayTrue`), does the view show them (`ViewShowsRows`), can what is offered be confirmed (`OfferedIsConfirmable`), are the offers the best (`BestAreOffered`), and do they keep clear of what the settings close (`OffersKeepClear`)? |

### Findings

Two runs end in a violation on purpose: the code does something else than the
documentation says.

- acc_owner, `LastOwnerStays`. `beginAccountDeletion` lets the only member of a
  workspace start deleting the account. `AcceptInvitation` looks at the marker of the
  person who accepts, not of those who lead the workspace, so an invitation sent
  before can still be accepted; the sweep then removes the last OWNER of a workspace
  that has a member. `docs/requirements.md:2398` says such a deletion is refused.
- grant, `AskedForReason`. A read of the own events that Google refuses marks the
  connection of the user as one to be connected again without the lease that fences
  synchronizations, hence also a connection made since with another grant.
  `docs/google-calendar-sync.md:205-206` says that an old answer cannot change the
  new grant's failure state. The user sees a working connection asking to be renewed,
  until a synchronization that was already running succeeds or the user connects again.

### Bounds

Two requests suffice for double booking, a relation of two; a person who is the
requester of one and the target of the other has both roles, and the three people of
negotiation let a handoff go to somebody who is neither. That a scan cut off by the
query's limit is refused does not show with two requests; the theorem of
`NoDoubleBooking` is about any number and any limit. Times 0..3 hold two disjoint
meetings, one that overlaps both and one that has started. `CandidateLimit` 1 keeps
the sets of generated options small while handoffs, offers and proposals still add
more. In negotiation `MaxRequestOptions` and `MaxStoredOptions` are both 2, so that an
offer competes with a candidate and either limit is met; in reschedule they are 1 and
3, so that a meeting is moved twice before the limit. The three people and the
departures of the one, the second move and the calendars of the other are checked
apart only to keep the runs short. `HistoryDisjoint` allows two meetings that were
held to overlap by less than `Skew`: a lagging server may still confirm a time that a
leading one has already recorded as finished.

Elsewhere a behaviour has one of `Budgets`: how often each kind of outside event may
happen in it. A run has several where the hazards are about different events, so each
is large where it matters without multiplying the others. For `Publication`, two cells
are enough for a collection that is half written and for a window that does not cover
all; two synchronizations for a writer and the successor that took its lease over, a
third to build on what they left; `Ids` are 22, more than four processes, the reader
and the documents can hold at once. For `Accounts`, two people are enough for a shared workspace and a request, a
third and a fourth id for those who come back; one sweep that is interrupted once and
resumed, beside the operator's. For `SyncSchedule`, two servers overlap, and of three
users one waits when a batch has claimed the two it may, and batches may have time for one
or for both. `MaxFailures` is 0 in schedule: every failure is retried after the shortest
delay, which is the hardest case for those who wait; the growth of the delay is
not needed for any property. The user in `Active` acts, the others only compete; a
behaviour has a fault beside one thing the user does, or a private read; a read
beside a new connection is the run grant.

The cases of planning are families (`MCPlanning`): rows that overlap, touch,
contradict or leave gaps; meetings and busy times that nest or touch; clocks,
deadlines, ages and windows at their boundaries; working hours at midnight and
around a repeated and a skipped hour; rules of every rank, equal priorities,
disabled ones; two overrides that overlap, end and expire in any order.

### Fairness

pub_reopen: a synchronization that can start is eventually started, because the
scheduler's batches and the user's own page keep asking; a process that runs goes on,
since its calls have timeouts and a death is a `Crash`; a lease left behind runs
out, since it is a time. acc_cleanup: the operator keeps running the cleanup, each
run lists and resumes, and a sweep that is not interrupted goes on. schedule: batches
keep being started, on any one server; a batch that runs goes on, because calls have
timeouts; time passes. A batch always has time for one attempt (`InTime`): 50 s
against queries and claims. No fairness is assumed of users, providers, faults or
readers.

## 4. What is proved

TLC shows a property on small instances; a theorem holds for any people, requests,
servers, workspaces, limits, skew of the clocks and delays that satisfy the assumptions
below. Where a property is not inductive by itself, the conjuncts that make it so are
definitions of the model, in a section of their own after the properties ("What makes
the properties above inductive"), and were checked with TLC on the instances of the
runs before they were proved.

### Requests

| theorem | property | argument |
| --- | --- | --- |
| `TypeCorrect` | `TypeOK` | Each action keeps the shape of the document it writes (`CommitType`), the generated options included (`GeneratedOptionsType`). |
| `NeverDoubleBooked` | `NoDoubleBooking` | Inductive with the types. A step that neither confirms nor moves a meeting only shrinks the set of reservations (`UnmovedKeepsBooking`); one that does has checked the new time against every reservation of both people in both roles (`FreeSlotKeepsBooking`). |
| `DocumentsStaySound` | `DocumentsSound` | The shape of a document in every status (`SoundDoc`): whose options it holds, that a meeting is on record from the confirmation on, that what is left of a proposal passes the code's check of replay evidence; and that a completed meeting is over. Inductive; one lemma per command. |
| `OptionsStayTargets`, `ProposalStaysSound` | `OptionsOfTarget`, `RetainedProposalIsSound` | Follow from it. |
| `DocumentsStayFenced` | `FencedDocuments` | Step by step: whatever a command writes or addresses, it has read the markers of all its people, the former target included. |
| `BookedTimesAreFree` | `BookedOnlyWhenFree` | Only a confirmation and an accepted reschedule take a time, and both have read both calendars. |
| `StartedMeetingsStay` | `StartedMeetingIsFixed` | A reading of the clock is at most `Skew` behind, so a meeting that started `Skew` ago has started by every reading. |
| `HistoryStaysDisjoint` | `HistoryDisjoint` | Needs that completed meetings are over, which is part of `DocumentsSound`; a command that starts one later reads a clock that is at most `Skew` behind. |
| `RequestsImplementLedger` | `ImplementsLedger` | The refinement: initial states map to the empty ledger, every step books, moves, releases or finishes exactly one slot, moves the clock, or stutters. |
| `HistoryStaysCoherent` | `CoherentHistory`, `NotesToOthers` | Documents, notifications and audit events as one invariant: every effect belongs to a transition that is behind the document (`SoundEffect`), and every transition a document records has left its effect, by whom and for whom it says (`Witnessed`). |
| `EffectIdsStayFree`, `MeetingsAreAgreed`, `NotesReachOthers`, `ReplaysStayTrue` | `EffectIdsFree`, `AgreedByBoth`, `NotesToOthers`, `ReplaysAreTrue` | Follow from it. That an id is free needs the first direction, that a replay or an agreement is true the second: neither is inductive alone. |

`ReservationsProofs` proves of the abstract ledger alone that its rules suffice:
`NobodyIsTwice` (nobody is in two booked slots that overlap) and `NobodyWasTwice`
(finished ones overlap later ones by less than the slack). Instants are integers and
the slack a natural number (`LedgerTimes`, a hypothesis because `Reservations` leaves
its times open; `Requests` instantiates it with `0..MaxTime` and `Skew`).

### Accounts

| theorem | property |
| --- | --- |
| `AccountsTyped` | `TypeOK` |
| `NothingIsLeft` | `ErasedOnceComplete` |
| `MembershipsStayCoherent` | `MembershipsCoherent` |
| `OneAccountEach` | `OneAccount` |
| `WorkspacesStayLed` | `NeverAbandoned` |

The invariant of deletion is `SweepsCoherent`. Its heart is `SweepSound`: at each stage
a sweep is in, what the earlier stages were to delete is gone (`Gone`), and nothing of
it can come back, because everything that writes it is fenced by the marker. What
makes that work are the smaller parts: `DocSound` says how documents refer to each
other (a note or an audit event to a request of its people, a session to a membership),
`MarkerSound` which workspaces a marker names, `SigninSound` what a sign-in
that is between two of its transactions may still write, and `InProgress` which
fields of a sign-in or a sweep mean something at which step. The removal of a workspace
needs the most: the check that no member is left and the delete are two calls, and an
invitation may be accepted between them. But whoever has an invitation open is a
member (`DocSound`), because a sweep deletes the invitations before the memberships, so
a workspace without members has none. `OneAccountEach` is proved from `IdentitiesSound`: the active user of
a Google account is the one its identity names, and a sign-in that read the identity
before it changed is refused when it writes (`SigninMapped`). `WorkspacesStayLed` is a
step property; it also needs that the documents are finitely many, since it counts members.

### SyncSchedule

`ScheduleTyped` (`TypeOK`) contains the relation between queue, timers and
connections. `BatchesKeepApart` (`ClaimedByOne`) rests on `ClaimsPostponed`
(`ClaimsStayPostponed`): what a running batch has claimed stays put off for longer than
the batch may run, whoever synchronizes, fails, disconnects or marks it meanwhile;
and what is not due is not claimed. It uses that a batch is shorter than every
delay (`TimesAssumption`), which is what the code's default times give.

### Publication

| theorem | property | rests on |
| --- | --- | --- |
| `PublicationTyped` | `TypeOK` | `ContextsSound`: what the context of a process carries at each of its steps. |
| `PublicationWritesBehindGates` | `WritesBehindGates` | `Ground` |
| `PublicationOpensOnlyByCompletion` | `OpensOnlyByCompletion` | `Ground`, and what each step can make of a hidden state |
| `PublicationCommittedIsSnapshot` | `CommittedIsSnapshot` | `CacheSound` |
| `PublicationPublishedIsCurrent` | `PublishedIsCurrent` | `RowsSound` |
| `PublicationNoFormerAccount` | `NoFormerAccount` | `RowsSound` and `CacheSound` together |
| `PublicationDisconnectedIsErased` | `DisconnectedIsErased` | `ErasureSound` |
| `PublicationAnswersAreConsistent` | `AnswersAreConsistent` | `Settled` and `ReaderSound` |
| `PublicationImplementsAvailability` | `ImplementsAvailability` | `Settled` before and after the step |

One lemma per action first says what it does to the documents and to the context of its
process (`StepOf`, `Happens`), error paths included; all the other proofs start from
there. The invariant has three layers.

`Ground` says how the control documents depend on each other (`ControlsSound`: a dirty
gate is not ready, a lease on the inputs makes them unreadable, a disconnection in
progress leaves no connection), that an id is in the context of the process that made
it only (`IdsApart`), and that inputs being written are nobody's yet (`InputsSound`). It
is what makes a fence mean something: a process whose lease the document still names is the only one.

`Settled` adds what each writer knows while it still may write. A synchronization that holds
its lease is between two states of the cache that the cursor stands for: what is
left to write makes the events those of the response (`Pending`, `ImportSound`). What a
rebuild has read is current unless a revision tells that it is not (`ReadSound`), and the
rows behind its gate are done as far as its remaining batches say (`WriterSound`). A disconnection
has erased what its step says (`EraserSound`). None of this need hold of a process that was
overtaken, which is why the conditions name the documents: such a process may carry
anything, but writes nothing.

`ReaderSound` is about the reader's six reads of documents, before and after the query.
If the query saw something it should not return, the revisions or the source
differ from the gate of the first pass, and no step brings them back while that gate
stays: a revision changes to a fresh one only, and a connection proves an older revision again
only by a synchronization that carries it (`NotAhead`), which the first pass excludes.

That the documents implement `Availability` needs three things of a step. If nothing is
visible after it, it hides or changes something, whatever it does. If something is
visible before and after, nothing of it has changed (`ShownStays`): an edit takes a new
policy revision, an event is written only to inputs that are not ready, a row only behind a
closed gate, and another account leaves no proof of the inputs. If it opens, it is a
completion, which changes nothing itself (`OpenedStays`), and what it opens is complete
(`VisibleIsCurrent`) and of the connected account (`VisibleIsOwn`).

### Planning

| theorem | property | rests on |
| --- | --- | --- |
| `RowsComeTogether` | | `RowsOfOneRebuild`: the rows are those of one rebuild, and the settings stand still. |
| `RowsAreTrue` | `RowsStayTrue` | `RowMeans`: a bucket's row means what the settings mean. |
| `ViewIsTrue` | `ViewShowsRows` | `ViewOfRows`: what the fold of `NewView` shows. |
| `HandlerIsConsistent` | | `HandlerKnows`: what the handler has read at each of its steps, when, and that the offers are the best of what fits that. |
| `OffersHold` | `OfferedIsConfirmable` | `FitsIs`, and that later rows say what the ones read said (`RebuiltSaysTheSame`). |
| `TheBestAreOffered` | `BestAreOffered` | `FitsIs`, `ScoreIsWorth` |
| `OffersAreWelcome` | `OffersKeepClear` | `RowsSayTheSettings`, at the handler's time |

About the rows the invariant is simple; the work is in what the engine computes. `ForemostDecides` says
that going through the rules one by one finds the foremost, `EventsClose` that the fold
over the events of a bucket makes each dimension the most closed of them, whatever the
order, `BucketRowSays` that the overrides leave the state of the newest and the expiry of
the first that ends, `BucketsFillWindow` that the buckets cover the window without
overlap. A row may count long after its rebuild; what is in force then is what was in
force at the rebuild, because every override that took part outlives the row, and one that
did not take part had expired already.

About the offers most of the work is again in what the algorithms compute, said in terms
of the instants they are about. `MergedIs`: merging keeps the instants the ranges cover
and leaves spans that neither touch nor overlap. `HitIs`: the search by halving in them
finds an overlap exactly when some range overlaps (`Halving` is its step, and the
recursion is unfolded by induction on the length that is left). `CoveredIs`: the
confirmation's walk over sorted rows says that every instant is covered and no row it
touches is unusable. `SweepIs`: the spans of the sweep contain the instants at which the
rows can be used (`UsableAt`), each with the least quality there (`Worst`); its
invariant is `SweptTo`, by which the two counters at an end point are the numbers of rows
around it (`CountsDecide`). `CandidatesAre`: the starts within the runs, with their
scores, are all the starts that fit (`Fits`) with what they are worth (`Worth`), and
`OffersAre`: retaining the three best one by one leaves the best of all, in order
(`Leading`). `FitsIs` then says that what fits is what the confirmation would accept, and
`ScoreIsWorth` that the scores are those of the property.

What holds of the offers when they are made must still hold later, when the clock has
gone on and the rows may be those of another rebuild. `HandlerKnows` keeps that what was
read is what had not expired of the rows of one rebuild, at a time after the handler's, and
that the published rows are those of the same or a later rebuild. A later rebuild has the
same buckets (`RebuiltAgain`), and where a row that was read still counts and has not
begun, the row of its bucket counts as well and says the same (`RebuiltSaysTheSame`),
because what the settings say at this time is in both (`RowMeans`).

Such statements are inductions over data, which the provers do not do of themselves. They
are proved from the well-ordering of the naturals, as statements about sets: a set of
numbers that contains 0 and successors contains all (`Induct`, `InductUpTo`); a set of
finite sets that contains each set all of whose smaller ones it contains, contains all
(`InductSubsets`). `Recursion` derives from the latter that the function exists by
which the community modules define a fold, given that each step stays in a set of
results; a lemma for each fold then lists its intermediate results (`RulesInTurn`,
`OverridesInTurn`, `RowsInTurn`, `SweepsInTurn`), about which the induction is over a counter. A sort
is characterized by `InOrderLists`: a strict total order lists a finite set, each element once.

### Assumptions

The proofs use the assumptions the modules declare and no other; TLC evaluates them in
every run. Of `Requests`: requesters, workspaces, limits and times are of their types
(`RequesterAssumption`, `OrgOfAssumption`, `BoundsAssumption`), `None` is no member of the sets it stands beside
(`NoneAssumption`), and the ids a client chooses for proposals are not ids the server
derives (`ProposalIdAssumption`). The code refuses a proposal id that the document
already uses, and derives no id any more once a proposal can be made, so a client that
chose the digest of an offer would find it taken or alone. Of `Accounts`: different
Google accounts make different first ids (`FirstIdAssumption`, a digest), invitations
offer no ownership (`LimitAssumption`, `CanInvite`), the accounts there are to begin with
and the browsers are finitely many (`FiniteAssumption`), and `None` is neither a
request nor a marker (`NoneAssumption`). Of `Planning`: bucket, lifetimes and limits are
positive, a request lasts some time, meetings and busy times are finitely many ranges
that end after they start, and the target has either settings that `Validate` and
`Generate` let in, with rows only from the engine, or rows that are given (`CasesAssumption`,
`GivenRows`). Of `SyncSchedule`: finitely many users, the limits
are positive, and a batch is shorter than every delay. Of `Publication`: a process is of one
kind and they are finitely many (`ProcsAssumption`); there is always an id that nothing
holds (`IdsAssumption`; the code's are random, and the bound counts the places that can hold
one); windows are sets of cells and the default policy is a policy
(`SettingsAssumption`); `None` is no document, id or setting (`NoneAssumption`); and what may be left of
a budget is a number or no bound (`BoundAssumption`), so the theorems also hold of
behaviours without any.

### Model-checked only

- Liveness: `KeepsReopening`, `DeletionsComplete`, `NoStarvation`. The prover
  handles neither fairness nor ENABLED.
- The two findings, which are violations.

## 5. Plan

Done: all the modules of section 2 and the theorems of section 4, which state every
safety property that the runs check.

Worth doing next: the store's transactions themselves, whose retries and conflicts the
models take as atomic; and the PostgreSQL backend against the same abstract
specifications.

## 6. Not modelled

- The PostgreSQL stores: the same guards in `internal/request`, which are modelled,
  behind row and advisory locks instead of optimistic transactions.
- The web client: views. What matters to the server, commands that are delivered late,
  twice or out of order, is in `Requests`.
- The planning previews: they read and reserve nothing; their budget is a counter in
  the memory of one process behind a mutex.
- The exchange with Google (tokens, pages, errors of the provider), which the models
  take as an answer that may come, fail or be refused.
- Middleware, configuration and hosting: no shared state.
- Listing and marking notifications, exporting data, reading audit logs, requests,
  people and workspaces: single reads or writes of one document.
