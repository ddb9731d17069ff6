---------------------------- MODULE Publication ----------------------------
(***************************************************************************)
(* How one user's calendar becomes public availability in Firestore.       *)
(*                                                                         *)
(* A synchronization fetches the provider's events into privateEvents, a   *)
(* rebuild turns them, with the sharing policy and the manual overrides,   *)
(* into scheduleProjections rows, and readers list the rows.  Neither      *)
(* collection fits in one transaction: both are written in batches, by     *)
(* processes that may die, lose their lease or run beside each other.      *)
(* Control documents make the batches look like one commit:                *)
(*   - calendarConnections: the grant, its sync lease and sync token;      *)
(*   - privateInputs: the revision of the events, whether it is complete;  *)
(*   - policyRevision: the revision of the policy and the overrides;       *)
(*   - publication: the gate readers check, and the revisions published;   *)
(*   - calendarDisconnected: the block a disconnection leaves.             *)
(* Each batch checks, in its own transaction, the leases and revisions its *)
(* context carries (Fence).  A lease is "live" until Expire takes it away. *)
(***************************************************************************)
EXTENDS Naturals, FiniteSets

CONSTANTS
    Syncers,        \* calendar synchronizations (worker or HTTP request)
    Editors,        \* PUT sharing-policy requests
    Disconnecters,  \* DELETE calendar-connection requests
    Cells,          \* the pieces of time a row or an event covers
    Windows,        \* the sets of cells a rebuild may cover
    Policies,       \* sharing policies
    DefaultPolicy,  \* the one a rebuild creates when there is none
    Overrides,      \* manual overrides
    Accounts,       \* provider accounts a user may connect
    Ids,            \* revision and lease ids
    Budgets,        \* bounds: how often each kind of outside event happens, one for each behaviour
    None            \* an absent field or document

Procs == Syncers \cup Editors \cup Disconnecters
Kinds == {"sync", "connect", "disconnect", "edit", "override", "change", "age", "fault", "read"}

Maybe(S) == S \cup {None}
LeaseState == {"none", "live", "over"}
Calendar == [Cells -> Maybe(Accounts)]
Connection == [account : Accounts, lease : Maybe(Ids), until : LeaseState, token : Maybe(Calendar),
               last : Maybe(Ids), failed : BOOLEAN, reconnect : BOOLEAN]
Gate == [id : Ids, ready : BOOLEAN, dirty : BOOLEAN, clear : BOOLEAN, win : SUBSET Cells,
         policy : Maybe(Ids), private : Maybe(Ids), lease : LeaseState]
GateView == [id : Ids, ready : BOOLEAN, dirty : BOOLEAN, lease : LeaseState,
             policy : Maybe(Ids), private : Maybe(Ids)]
Block == [id : Ids, inProgress : BOOLEAN, lease : LeaseState]
Capture == [policy : Maybe(Ids), private : Maybe(Ids), managed : BOOLEAN]
Row == [policy : Policies, override : Maybe(Overrides), event : Maybe(Accounts)]

ASSUME ProcsAssumption ==
    /\ Syncers \cap Editors = {}
    /\ Syncers \cap Disconnecters = {}
    /\ Editors \cap Disconnecters = {}
    /\ IsFiniteSet(Procs)
ASSUME SettingsAssumption ==
    /\ DefaultPolicy \in Policies
    /\ Windows \subseteq SUBSET Cells
ASSUME NoneAssumption ==
    /\ None \notin Policies \cup Overrides \cup Accounts \cup Ids
    /\ None \notin Calendar \cup Connection \cup Gate \cup GateView \cup Block \cup Capture \cup Row
\* There is always an id that nothing holds.
ASSUME IdsAssumption == IsFiniteSet(Ids) => Cardinality(Ids) > 4 * Cardinality(Procs) + 5
ASSUME BoundAssumption == Budgets \subseteq [Kinds -> Maybe(Nat)]

VARIABLES
    provider,   \* [Accounts -> SUBSET Cells], when each provider account is busy
    conn,       \* the connection document, None while disconnected
    inputs,     \* the privateInputs control
    events,     \* the privateEvents collection, [Cells -> account or None]
    settings,   \* the sharing policy and the manual override
    policyRev,  \* the policyRevision control, None for the legacy empty revision
    pub,        \* the publication gate, None before the first replacement
    rows,       \* the scheduleProjections collection
    block,      \* the calendarDisconnected control, None while there is none
    local,      \* [Procs -> the context a process carries between its calls]
    reader,     \* a public reader and what it has read so far
    covered,    \* history: the cells the completed gate answers for
    left        \* bound: what is left of the behaviour's budget

documents == <<conn, inputs, events, settings, policyRev, pub, rows, block>>
vars == <<provider, documents, local, reader, covered, left>>

-----------------------------------------------------------------------------
(* Contexts, events, rows and ids                                          *)

NoEvents == [c \in Cells |-> None]
NoRows == [c \in Cells |-> None]
BusyIn(account) == [c \in Cells |-> IF c \in provider[account] THEN account ELSE None]
Held(f) == {c \in Cells : f[c] # None}

\* What the engine generates for a cell.
Projection(read, c) ==
    [policy |-> read.policy, override |-> read.override, event |-> read.events[c]]

\* The context of a process that carries nothing.
Nothing == [pc |-> "idle", sync |-> None, cleanup |-> None, priv |-> None, proj |-> None,
            cap |-> None, obs |-> None, account |-> None, last |-> None, seen |-> None,
            full |-> FALSE, win |-> {}, clearAll |-> FALSE,
            read |-> [policy |-> None, override |-> None, events |-> NoEvents],
            del |-> {}, put |-> {}]

NoReader == [pc |-> "idle", pass |-> 1, id |-> None, gate |-> None, source |-> "none",
             private |-> None, sound |-> FALSE]

\* NewSyncLeaseID: an id that nothing holds in the role it is for.  The code
\* compares ids of one role with each other, and only for equality, so an id
\* nobody holds is as good as a new one.
Unused(held) == CHOOSE i \in Ids : i \notin held
Context(field) == {local[p][field] : p \in Procs}
Captured(field) == {local[p].cap[field] : p \in {q \in Procs : local[q].cap # None}}
GateRead(field) == IF reader.gate = None THEN {} ELSE {reader.gate[field]}
GateHeld(field) == IF pub = None THEN {} ELSE {pub[field]}

NewLease == Unused(Context("sync") \cup Context("cleanup")
                   \cup (IF conn = None THEN {} ELSE {conn.lease})
                   \cup (IF block = None THEN {} ELSE {block.id}))
NewInputs == Unused({inputs.id, reader.private} \cup Context("priv") \cup Context("obs")
                    \cup Context("last") \cup Captured("private") \cup GateHeld("private")
                    \cup GateRead("private") \cup (IF conn = None THEN {} ELSE {conn.last}))
NewPolicyRevision == Unused({policyRev} \cup Captured("policy") \cup GateHeld("policy") \cup GateRead("policy"))
NewPublication == Unused({reader.id} \cup Context("proj") \cup GateHeld("id") \cup GateRead("id"))

\* None in the budget means as often as it likes.
Spend(kind) ==
    \/ left[kind] = None /\ UNCHANGED left
    \/ left[kind] # None /\ left[kind] > 0 /\ left' = [left EXCEPT ![kind] = @ - 1]

-----------------------------------------------------------------------------
(* Source state: when imported events may back public availability         *)

Managed(source, connection, blocked) ==
    source # "none" \/ connection # None \/ blocked # None

\* The source receipt of completed inputs; its revision is the inputs' id.
Snapshot == IF inputs.source # "none" /\ inputs.ready /\ inputs.lease = "none"
            THEN inputs.id ELSE None

Committed(source, revision, connection) ==
    /\ source = "fresh"
    /\ connection # None
    /\ ~connection.reconnect
    /\ ~connection.failed
    /\ connection.lease = None
    /\ connection.last = revision

Readable(source, revision, connection, blocked, published) ==
    \/ ~Managed(source, connection, blocked) /\ published = None
    \/ Committed(source, revision, connection) /\ published = revision

Rebuildable(l) ==
    \/ ~Managed(inputs.source, conn, block)
    \/ /\ Snapshot # None
       /\ \/ Committed(inputs.source, inputs.id, conn)
          \/ /\ inputs.source = "fresh"
             /\ conn # None
             /\ ~conn.reconnect
             /\ l.sync # None
             /\ l.sync = conn.lease
             /\ conn.until = "live"

-----------------------------------------------------------------------------
(* The fence every batch and every completion passes                       *)

CalendarFence(l) ==
    IF l.cleanup # None
    THEN block # None /\ block.inProgress /\ block.id = l.cleanup /\ block.lease = "live"
    ELSE l.sync # None => conn # None /\ conn.lease = l.sync /\ conn.until = "live"

ProjectionFence(l) ==
    l.proj # None => pub # None /\ pub.id = l.proj /\ pub.lease = "live"

ProjectionInputsFence(l) ==
    l.cap # None =>
        /\ inputs.ready
        /\ inputs.lease = "none"
        /\ inputs.id = l.cap.private
        /\ policyRev = l.cap.policy
        /\ Rebuildable(l)
        /\ l.cap.managed = Managed(inputs.source, conn, block)

PrivateInputsFence(l) ==
    l.priv # None => inputs.id = l.priv /\ inputs.lease = "live"

Fence(l) ==
    /\ CalendarFence(l)
    /\ ProjectionFence(l)
    /\ ProjectionInputsFence(l)
    /\ PrivateInputsFence(l)

-----------------------------------------------------------------------------
(* Failure of a call: where the deferred cleanups of the code continue     *)

Continue(p, l) == local' = [local EXCEPT ![p] = l]
Goto(p, pc) == Continue(p, [local[p] EXCEPT !.pc = pc])

\* What is left of a context once the failed function has returned: the
\* leases of the request that called it.
Outer(p, pc) ==
    Continue(p, [Nothing EXCEPT !.pc = pc, !.sync = local[p].sync,
        !.cleanup = local[p].cleanup, !.obs = IF local[p].cleanup = None THEN None ELSE local[p].obs])

AfterFailure(p) ==
    CASE p \in Syncers -> "markFailure"
      [] p \in Editors -> IF local[p].pc \in {"erase", "erasing", "dropErase"} THEN "idle" ELSE "erase"
      [] p \in Disconnecters -> "idle"

Leave(p, pc) == IF pc = "idle" THEN Continue(p, Nothing) ELSE Outer(p, pc)

\* An error returned at the point the process has reached.
FailAt(p) ==
    LET pc == local[p].pc IN
    CASE pc \in {"wipe", "apply"} -> Goto(p, "dropInputs")
      [] pc = "rows" -> Goto(p, "dropWrite")
      [] pc = "erasing" -> Goto(p, "dropErase")
      [] pc \in {"success", "markFailure", "markReconnect"} -> Leave(p, "idle")
      [] OTHER -> Leave(p, AfterFailure(p))

\* A step whose guard the documents no longer satisfy.
Fail(p) == FailAt(p) /\ UNCHANGED documents

\* The store, the provider or the request's deadline fails the next call.  The
\* provider may have revoked the grant; an interruption before the completion
\* of a synchronization still records the failure.
Fault(p) ==
    /\ local[p].pc # "idle"
    /\ Spend("fault")
    /\ \/ FailAt(p)
       \/ local[p].pc = "fetch" /\ Leave(p, "markReconnect")
       \/ local[p].pc = "success" /\ Leave(p, "markFailure")
    /\ UNCHANGED <<provider, documents, reader, covered>>

\* The process dies: nothing runs after it, and its leases stay behind.
Crash(p) ==
    /\ local[p].pc # "idle"
    /\ Spend("fault")
    /\ Continue(p, Nothing)
    /\ UNCHANGED <<provider, documents, reader, covered>>

-----------------------------------------------------------------------------
(* A synchronization: lease, fetch, private events                         *)
\* Mutant of SyncBusy: a lease that ran out is not taken over.
SyncBusyUntilReleased == conn.lease # None
SyncBusy == conn.lease # None /\ conn.until = "live"

AcquireSync(p) ==
    /\ local[p].pc = "idle"
    /\ Spend("sync")
    /\ conn # None
    /\ ~conn.reconnect
    /\ ~SyncBusy
    /\ LET token == IF inputs.ready THEN conn.token ELSE None IN
       /\ conn' = [conn EXCEPT !.lease = NewLease, !.until = "live", !.token = token]
       /\ Continue(p, [Nothing EXCEPT !.pc = "fetch", !.sync = NewLease, !.seen = token,
                                      !.last = conn.last, !.account = conn.account])
    /\ UNCHANGED <<provider, inputs, events, settings, policyRev, pub, rows, block, reader, covered>>

\* A full response lists every event, an incremental one the cells that changed
\* since the token.  The cursor is dropped when the receipt does not prove it,
\* and also when the provider expired it or the window has moved too far.
Fetch(p) ==
    LET l == local[p]
        now == BusyIn(l.account)
        proved == l.seen # None /\ Snapshot # None /\ l.last = Snapshot
    IN
    /\ l.pc = "fetch"
    /\ \E full \in IF proved THEN BOOLEAN ELSE {TRUE}, win \in Windows :
        LET changed == IF full THEN Held(now) ELSE {c \in Cells : now[c] # l.seen[c]} IN
        Continue(p, [l EXCEPT !.pc = "begin", !.seen = now, !.full = full, !.win = win, !.last = None,
                              !.account = None, !.put = changed \cap Held(now), !.del = changed \ Held(now)])
    /\ UNCHANGED <<provider, documents, reader, covered, left>>

BeginPrivateInputs(p) ==
    LET l == local[p] IN
    /\ l.pc = "begin"
    /\ IF /\ Fence(l)
          /\ ~(block # None /\ block.inProgress)
          /\ inputs.lease # "live"
          /\ inputs.ready \/ l.full
          /\ inputs.source # "none" \/ l.full
       THEN /\ inputs' = [id |-> NewInputs, ready |-> FALSE, lease |-> "live", source |-> "fresh"]
            /\ Continue(p, [l EXCEPT !.pc = IF l.full THEN "wipe" ELSE "apply",
                                     !.priv = NewInputs, !.obs = NewInputs])
            /\ UNCHANGED <<conn, events, settings, policyRev, pub, rows, block>>
       ELSE Fail(p)
    /\ UNCHANGED <<provider, reader, covered, left>>

\* chunkedBatch.Commit: the batch of a fenced context is a fenced transaction.
\* Mutant: it is committed as a plain batch.
BatchCommitsAnyhow(l) == TRUE
BatchCommits(l) == Fence(l)

\* deleteCollection: query a page, delete it, until a query returns nothing.
Wipe(p, collection, remains, pc) ==
    IF Held(collection) = {} THEN Goto(p, pc) /\ remains = collection
    ELSE \E page \in (SUBSET Held(collection)) \ {{}} :
            /\ remains = [c \in Cells |-> IF c \in page THEN None ELSE collection[c]]
            /\ UNCHANGED local

\* Mutant of WipeEvents: a full response is written over the events there are.
WipeEventsNever(p) ==
    /\ local[p].pc = "wipe"
    /\ Goto(p, "apply")
    /\ UNCHANGED <<provider, documents, reader, covered, left>>

WipeEvents(p) ==
    /\ local[p].pc = "wipe"
    /\ IF BatchCommits(local[p]) \/ Held(events) = {}
       THEN /\ Wipe(p, events, events', "apply")
            /\ UNCHANGED <<conn, inputs, settings, policyRev, pub, rows, block>>
       ELSE Fail(p)
    /\ UNCHANGED <<provider, reader, covered, left>>

\* chunkedBatch: deletions before writes, committed a chunk at a time.
Chunks(l) ==
    {b \in [del : SUBSET l.del, put : SUBSET l.put] :
        b.del \cup b.put # {} /\ (b.put # {} => b.del = l.del)}
Written(l, b) == [l EXCEPT !.del = @ \ b.del, !.put = @ \ b.put]
ApplyChanges(p) ==
    LET l == local[p] IN
    /\ l.pc = "apply"
    /\ l.del \cup l.put # {}
    /\ IF BatchCommits(l)
       THEN \E b \in Chunks(l) :
            /\ events' = [c \in Cells |-> IF c \in b.put THEN l.seen[c]
                                          ELSE IF c \in b.del THEN None ELSE events[c]]
            /\ Continue(p, Written(l, b))
            /\ UNCHANGED <<conn, inputs, settings, policyRev, pub, rows, block>>
       ELSE Fail(p)
    /\ UNCHANGED <<provider, reader, covered, left>>

FinishPrivateInputs(p) ==
    LET l == local[p] IN
    /\ l.pc = "apply"
    /\ l.del \cup l.put = {}
    /\ IF Fence(l)
       THEN /\ inputs' = [inputs EXCEPT !.ready = TRUE, !.lease = "none"]
            /\ Continue(p, [l EXCEPT !.pc = "capture", !.priv = None])
            /\ UNCHANGED <<conn, events, settings, policyRev, pub, rows, block>>
       ELSE Fail(p)
    /\ UNCHANGED <<provider, reader, covered, left>>

AbandonPrivateInputs(p) ==
    /\ local[p].pc = "dropInputs"
    /\ inputs' = IF Fence(local[p]) THEN [inputs EXCEPT !.lease = "none"] ELSE inputs
    /\ Leave(p, AfterFailure(p))
    /\ UNCHANGED <<provider, conn, events, settings, policyRev, pub, rows, block, reader, covered, left>>

MarkSyncSuccess(p) ==
    LET l == local[p] IN
    /\ l.pc = "success"
    /\ IF Fence(l)
       THEN /\ conn' = [conn EXCEPT !.token = l.seen, !.last = l.obs, !.failed = FALSE,
                                    !.reconnect = FALSE, !.lease = None, !.until = "none"]
            /\ block' = None
            /\ Leave(p, "idle")
            /\ UNCHANGED <<inputs, events, settings, policyRev, pub, rows>>
       ELSE Fail(p)
    /\ UNCHANGED <<provider, reader, covered, left>>

\* Mutant of Failed: the lease is released and the failure not recorded.
FailedSilently(c, reconnect) ==
    [c EXCEPT !.reconnect = reconnect, !.lease = None, !.until = "none"]

Failed(c, reconnect) ==
    [c EXCEPT !.failed = TRUE, !.reconnect = reconnect, !.lease = None, !.until = "none"]

MarkSyncFailure(p) ==
    /\ local[p].pc \in {"markFailure", "markReconnect"}
    /\ conn' = IF Fence(local[p])
               THEN Failed(conn, local[p].pc = "markReconnect")
               ELSE conn
    /\ Leave(p, "idle")
    /\ UNCHANGED <<provider, inputs, events, settings, policyRev, pub, rows, block, reader, covered, left>>

-----------------------------------------------------------------------------
(* Rebuild: capture the revisions, read the inputs, replace the rows       *)

Steady == UNCHANGED <<provider, documents, reader, covered, left>>

\* BeginRebuild reads the policy revision first, then the private inputs and
\* the documents the source state depends on.
CapturePolicyRevision(p) ==
    /\ local[p].pc = "capture"
    /\ Continue(p, [local[p] EXCEPT !.pc = "captureInputs",
            !.cap = [policy |-> policyRev, private |-> None, managed |-> FALSE]])
    /\ Steady

CaptureInputs(p) ==
    LET l == local[p] IN
    /\ l.pc = "captureInputs"
    /\ IF inputs.ready /\ inputs.lease = "none" /\ Rebuildable(l)
       THEN Continue(p, [l EXCEPT !.pc = "policy", !.cap.private = inputs.id,
                                  !.cap.managed = Managed(inputs.source, conn, block)])
       ELSE FailAt(p)
    /\ Steady

ReadPolicy(p) ==
    /\ local[p].pc = "policy"
    /\ Continue(p, [local[p] EXCEPT !.pc = IF settings.policy = None THEN "default" ELSE "events",
                                    !.read.policy = settings.policy])
    /\ Steady

\* Upsert inside Rebuild; the revisions are captured again before the policy
\* is read again.
CreateDefaultPolicy(p) ==
    /\ local[p].pc = "default"
    /\ IF Fence(local[p])
       THEN /\ settings' = [settings EXCEPT !.policy = DefaultPolicy]
            /\ policyRev' = NewPolicyRevision
            /\ Goto(p, "capture")
            /\ UNCHANGED <<conn, inputs, events, pub, rows, block>>
       ELSE Fail(p)
    /\ UNCHANGED <<provider, reader, covered, left>>

\* ListPrivateEvents checks the revision, queries, and checks it again.
SameInputs(l) == inputs.ready /\ inputs.lease = "none" /\ inputs.id = l.cap.private

CheckEventsBefore(p) ==
    /\ local[p].pc = "events"
    /\ IF SameInputs(local[p]) THEN Goto(p, "scan") ELSE FailAt(p)
    /\ Steady

ReadEvents(p) ==
    /\ local[p].pc = "scan"
    /\ Continue(p, [local[p] EXCEPT !.pc = "recheck", !.read.events = events])
    /\ Steady

CheckEventsAfter(p) ==
    /\ local[p].pc = "recheck"
    /\ IF SameInputs(local[p]) THEN Goto(p, "overrides") ELSE FailAt(p)
    /\ Steady

ReadOverrides(p) ==
    /\ local[p].pc = "overrides"
    /\ Continue(p, [local[p] EXCEPT !.pc = "write", !.read.override = settings.override])
    /\ Steady

\* New inputs clear all rows, also those outside the window.  Mutant: they do not.
SameInputsSince(previous, cap) == FALSE
NewInputsSince(previous, cap) == previous.policy # cap.policy \/ previous.private # cap.private

\* The gate closes before the first row changes.  A gate left dirty by a writer
\* that died asks for a replacement that clears what that writer touched.
BeginReplace(p) ==
    LET l == local[p]
        previous == IF pub = None THEN [policy |-> None, private |-> None, lease |-> "none",
                                        dirty |-> FALSE, clear |-> FALSE, win |-> {}] ELSE pub
        clearAll == NewInputsSince(previous, l.cap)
        repair == previous.dirty /\ ~clearAll /\ (previous.clear \/ ~(previous.win \subseteq l.win))
    IN
    /\ l.pc = "write"
    /\ IF Fence(l) /\ previous.lease # "live" /\ ~repair
       THEN /\ pub' = [id |-> NewPublication, ready |-> FALSE, dirty |-> TRUE, clear |-> FALSE, win |-> l.win,
                       policy |-> None, private |-> None, lease |-> "live"]
            /\ Continue(p, [l EXCEPT !.pc = "rows", !.proj = NewPublication, !.clearAll = clearAll,
                                     !.del = IF clearAll THEN Held(rows) ELSE Held(rows) \cap l.win,
                                     !.put = l.win])
            /\ UNCHANGED <<conn, inputs, events, settings, policyRev, rows, block>>
       ELSE Fail(p)
    /\ UNCHANGED <<provider, reader, covered, left>>

ReplaceRows(p) ==
    LET l == local[p] IN
    /\ l.pc = "rows"
    /\ l.del \cup l.put # {}
    /\ IF BatchCommits(l)
       THEN \E b \in Chunks(l) :
            /\ rows' = [c \in Cells |-> IF c \in b.put THEN Projection(l.read, c)
                                        ELSE IF c \in b.del THEN None ELSE rows[c]]
            /\ Continue(p, Written(l, b))
            /\ UNCHANGED <<conn, inputs, events, settings, policyRev, pub, block>>
       ELSE Fail(p)
    /\ UNCHANGED <<provider, reader, covered, left>>

\* The completed gate.  Mutant: it does not keep the operation's id.
CompletedUnnamed(l) ==
    [id |-> None, ready |-> TRUE, dirty |-> FALSE, clear |-> FALSE, win |-> {},
     policy |-> l.cap.policy, private |-> l.cap.private, lease |-> "none"]

Completed(l) ==
    [id |-> l.proj, ready |-> TRUE, dirty |-> FALSE, clear |-> FALSE, win |-> {},
     policy |-> l.cap.policy, private |-> l.cap.private, lease |-> "none"]

FinishReplace(p) ==
    LET l == local[p] IN
    /\ l.pc = "rows"
    /\ l.del \cup l.put = {}
    /\ IF Fence(l)
       THEN /\ pub' = Completed(l)
            /\ covered' = l.win \cup (IF l.clearAll THEN {} ELSE covered)
            /\ IF p \in Syncers
               THEN Continue(p, [Nothing EXCEPT !.pc = "success", !.sync = l.sync,
                                                !.obs = l.obs, !.seen = l.seen])
               ELSE Leave(p, "idle")
            /\ UNCHANGED <<conn, inputs, events, settings, policyRev, rows, block>>
       ELSE Fail(p) /\ UNCHANGED covered
    /\ UNCHANGED <<provider, reader, left>>

\* The cleanup of Replace and of DeleteForUser: release the lease only, and
\* without the inputs, which may have changed.
AbandonProjectionWrite(p) ==
    /\ local[p].pc \in {"dropWrite", "dropErase"}
    /\ pub' = IF Fence([local[p] EXCEPT !.cap = None]) THEN [pub EXCEPT !.lease = "none"] ELSE pub
    /\ Leave(p, AfterFailure(p))
    /\ UNCHANGED <<provider, conn, inputs, events, settings, policyRev, rows, block, reader, covered, left>>

-----------------------------------------------------------------------------
(* DeleteForUser: hide and remove the rows, whoever is writing them        *)

BeginErase(p) ==
    LET l == local[p] IN
    /\ l.pc = "erase"
    /\ IF Fence(l)
       THEN /\ pub' = [id |-> NewPublication, ready |-> FALSE, dirty |-> TRUE, clear |-> TRUE, win |-> {},
                       policy |-> None, private |-> None, lease |-> "live"]
            /\ Continue(p, [l EXCEPT !.pc = "erasing", !.proj = NewPublication])
            /\ UNCHANGED <<conn, inputs, events, settings, policyRev, rows, block>>
       ELSE Fail(p)
    /\ UNCHANGED <<provider, reader, covered, left>>

EraseRows(p) ==
    /\ local[p].pc = "erasing"
    /\ Held(rows) # {}
    /\ IF BatchCommits(local[p])
       THEN /\ Wipe(p, rows, rows', "erasing")
            /\ UNCHANGED <<conn, inputs, events, settings, policyRev, pub, block>>
       ELSE Fail(p)
    /\ UNCHANGED <<provider, reader, covered, left>>

FinishErase(p) ==
    /\ local[p].pc = "erasing"
    /\ Held(rows) = {}
    /\ IF Fence(local[p])
       THEN /\ pub' = [id |-> local[p].proj, ready |-> FALSE, dirty |-> FALSE, clear |-> FALSE, win |-> {},
                       policy |-> None, private |-> None, lease |-> "none"]
            /\ covered' = {}
            /\ Leave(p, IF p \in Disconnecters THEN "eraseEvents" ELSE "idle")
            /\ UNCHANGED <<conn, inputs, events, settings, policyRev, rows, block>>
       ELSE Fail(p) /\ UNCHANGED covered
    /\ UNCHANGED <<provider, reader, left>>

-----------------------------------------------------------------------------
(* The user: policy and override edits, connection, disconnection          *)

\* PUT sharing-policy: the transaction of Upsert, then Rebuild; if it fails,
\* DeleteForUser.
PutSharingPolicy(p) ==
    /\ local[p].pc = "idle"
    /\ Spend("edit")
    /\ \E policy \in Policies \ {settings.policy}, win \in Windows :
        /\ settings' = [settings EXCEPT !.policy = policy]
        /\ Continue(p, [Nothing EXCEPT !.pc = "capture", !.win = win])
    /\ policyRev' = NewPolicyRevision
    /\ UNCHANGED <<provider, conn, inputs, events, pub, rows, block, reader, covered>>

CreateOverride ==
    /\ Spend("override")
    /\ \E override \in Overrides \ {settings.override} :
        settings' = [settings EXCEPT !.override = override]
    /\ policyRev' = NewPolicyRevision
    /\ UNCHANGED <<provider, conn, inputs, events, pub, rows, block, local, reader, covered>>

\* Mutant of NewConnection: the time of the last synchronization is kept.
NewConnectionKeepingSync(a) ==
    [account |-> a, lease |-> None, until |-> "none", token |-> None, failed |-> FALSE,
     reconnect |-> FALSE, last |-> IF conn = None THEN None ELSE conn.last]

NewConnection(a) ==
    [account |-> a, lease |-> None, until |-> "none", token |-> None, failed |-> FALSE,
     reconnect |-> FALSE, last |-> None]

SaveConnection ==
    /\ Spend("connect")
    /\ ~(block # None /\ block.inProgress)
    /\ \E account \in Accounts :
        conn' = NewConnection(account)
    /\ UNCHANGED <<provider, inputs, events, settings, policyRev, pub, rows, block, local, reader, covered>>

\* The first transaction of DeleteConnection revokes every synchronization.
RevokeConnection(p) ==
    /\ local[p].pc = "idle"
    /\ ~(block # None /\ block.inProgress /\ block.lease = "live")
    /\ Spend("disconnect")
    /\ block' = [id |-> NewLease, inProgress |-> TRUE, lease |-> "live"]
    /\ inputs' = [id |-> NewInputs, ready |-> FALSE, lease |-> "none", source |-> "none"]
    /\ conn' = None
    /\ Continue(p, [Nothing EXCEPT !.pc = "erase", !.cleanup = NewLease, !.obs = NewInputs])
    /\ UNCHANGED <<provider, events, settings, policyRev, pub, rows, reader, covered>>

DeleteEvents(p) ==
    /\ local[p].pc = "eraseEvents"
    /\ IF BatchCommits(local[p]) \/ Held(events) = {}
       THEN /\ Wipe(p, events, events', "release")
            /\ UNCHANGED <<conn, inputs, settings, policyRev, pub, rows, block>>
       ELSE Fail(p)
    /\ UNCHANGED <<provider, reader, covered, left>>

FinishDisconnection(p) ==
    /\ local[p].pc = "release"
    /\ IF Fence(local[p])
       THEN /\ inputs' = [id |-> local[p].obs, ready |-> TRUE, lease |-> "none", source |-> "none"]
            /\ block' = [block EXCEPT !.inProgress = FALSE, !.lease = "none"]
            /\ Leave(p, "idle")
            /\ UNCHANGED <<conn, events, settings, policyRev, pub, rows>>
       ELSE Fail(p)
    /\ UNCHANGED <<provider, reader, covered, left>>

-----------------------------------------------------------------------------
(* Time and the provider                                                   *)

\* A lease runs out: freely once nobody holds it, as a fault under its holder.
RunsOut(holders) == IF holders = {} THEN UNCHANGED left ELSE Spend("fault")
HoldersOf(id, field) == {p \in Procs : local[p][field] = id}

ExpireLease ==
    \/ /\ conn # None
       /\ conn.until = "live"
       /\ RunsOut(HoldersOf(conn.lease, "sync"))
       /\ conn' = [conn EXCEPT !.until = "over"]
       /\ UNCHANGED <<inputs, pub, block>>
    \/ /\ inputs.lease = "live"
       /\ RunsOut(HoldersOf(inputs.id, "priv"))
       /\ inputs' = [inputs EXCEPT !.lease = "over"]
       /\ UNCHANGED <<conn, pub, block>>
    \/ /\ pub # None
       /\ pub.lease = "live"
       /\ RunsOut(HoldersOf(pub.id, "proj"))
       /\ pub' = [pub EXCEPT !.lease = "over"]
       /\ UNCHANGED <<conn, inputs, block>>
    \/ /\ block # None
       /\ block.lease = "live"
       /\ RunsOut(HoldersOf(block.id, "cleanup"))
       /\ block' = [block EXCEPT !.lease = "over"]
       /\ UNCHANGED <<conn, inputs, pub>>

Expire ==
    /\ ExpireLease
    /\ UNCHANGED <<provider, events, settings, policyRev, rows, local, reader, covered>>

\* Half an hour after the observation the source is stale.
Age ==
    /\ inputs.source = "fresh"
    /\ Spend("age")
    /\ inputs' = [inputs EXCEPT !.source = "stale"]
    /\ UNCHANGED <<provider, conn, events, settings, policyRev, pub, rows, block, local, reader, covered>>

ProviderChanges ==
    /\ Spend("change")
    /\ \E account \in Accounts, c \in Cells :
        provider' = [provider EXCEPT ![account] = IF c \in @ THEN @ \ {c} ELSE @ \cup {c}]
    /\ UNCHANGED <<documents, local, reader, covered>>

-----------------------------------------------------------------------------
(* What the documents show, and a public reader of them                    *)

\* Mutant of GateOpen: the policy the rows were made from may be a former one.
GateOpenAtAnyPolicy(gate, revision) ==
    IF gate = None THEN revision = None
    ELSE gate.ready /\ ~gate.dirty /\ gate.lease = "none"

GateOpen(gate, revision) ==
    IF gate = None THEN revision = None
    ELSE gate.ready /\ ~gate.dirty /\ gate.lease = "none" /\ gate.policy = revision
PublishedBy(gate) == IF gate = None THEN None ELSE gate.private

\* A read of all the documents at once would show the rows.
Visible ==
    /\ block = None
    /\ GateOpen(pub, policyRev)
    /\ inputs.ready
    /\ inputs.lease = "none"
    /\ PublishedBy(pub) = inputs.id
    /\ Readable(inputs.source, Snapshot, conn, block, PublishedBy(pub))

Current ==
    [policy |-> settings.policy, override |-> settings.override, events |-> events]

\* The rows are the projection of the present settings and events.
RowsAreCurrent ==
    rows = [c \in Cells |-> IF c \in covered THEN Projection(Current, c) ELSE None]

ReaderGoes(r) ==
    /\ reader' = r
    /\ UNCHANGED <<provider, documents, local, covered>>

StartRead ==
    /\ reader.pc = "idle"
    /\ Spend("read")
    /\ ReaderGoes([NoReader EXCEPT !.pc = "block"])

\* One document per step; the first one that does not allow publication ends
\* the read with an empty list.
NextRead(ok, r) == ReaderGoes(IF ok THEN r ELSE NoReader) /\ UNCHANGED left

ReadBlock ==
    /\ reader.pc = "block"
    /\ NextRead(block = None, [reader EXCEPT !.pc = "gate"])

ReadGate ==
    /\ reader.pc = "gate"
    /\ NextRead(TRUE, [reader EXCEPT !.pc = "policy",
            !.gate = IF pub = None THEN None
                     ELSE [id |-> pub.id, ready |-> pub.ready, dirty |-> pub.dirty,
                           lease |-> pub.lease, policy |-> pub.policy, private |-> pub.private]])

ReadPolicyRevision ==
    /\ reader.pc = "policy"
    /\ NextRead(GateOpen(reader.gate, policyRev), [reader EXCEPT !.pc = "inputs"])

ReadInputs ==
    /\ reader.pc = "inputs"
    /\ NextRead(inputs.ready /\ inputs.lease = "none" /\ PublishedBy(reader.gate) = inputs.id,
                [reader EXCEPT !.pc = "source", !.source = inputs.source, !.private = inputs.id])

\* Mutant of PassEnds: any open gate satisfies the second pass.
PassEndsAtAnyGate(ok) ==
    IF reader.pass = 1
    THEN NextRead(ok, [NoReader EXCEPT !.pc = "rows"])
    ELSE NextRead(ok, [NoReader EXCEPT !.pc = "answered", !.sound = reader.sound])

\* The connection decides, or without one the block; the second pass must find
\* the gate of the first.
PassEnds(ok) ==
    LET id == IF reader.gate = None THEN None ELSE reader.gate.id IN
    IF reader.pass = 1
    THEN NextRead(ok, [NoReader EXCEPT !.pc = "rows", !.id = id])
    ELSE NextRead(ok /\ id = reader.id, [NoReader EXCEPT !.pc = "answered", !.sound = reader.sound])

ReadConnection ==
    /\ reader.pc = "source"
    /\ IF conn # None
       THEN PassEnds(Readable(reader.source, reader.private, conn, None, PublishedBy(reader.gate)))
       ELSE NextRead(TRUE, [reader EXCEPT !.pc = "blockAgain"])

ReadBlockAgain ==
    /\ reader.pc = "blockAgain"
    /\ PassEnds(Readable(reader.source, reader.private, None, block, PublishedBy(reader.gate)))

\* The query; "sound" remembers whether it saw the complete current projection
\* and, where a calendar is behind it, one the documents show.
QueryRows ==
    /\ reader.pc = "rows"
    /\ NextRead(TRUE, [reader EXCEPT !.pc = "block", !.pass = 2,
            !.sound = RowsAreCurrent /\ (PublishedBy(pub) # None => Visible)])

Read == \/ StartRead \/ ReadBlock \/ ReadGate \/ ReadPolicyRevision \/ ReadInputs
        \/ ReadConnection \/ ReadBlockAgain \/ QueryRows

-----------------------------------------------------------------------------
(* The specification                                                       *)

\* A user who never connected a calendar nor saved a policy.
Init ==
    /\ provider = [a \in Accounts |-> Cells]
    /\ conn = None
    /\ inputs = [id |-> None, ready |-> TRUE, lease |-> "none", source |-> "none"]
    /\ events = NoEvents
    /\ settings = [policy |-> None, override |-> None]
    /\ policyRev = None
    /\ pub = None
    /\ rows = NoRows
    /\ block = None
    /\ local = [p \in Procs |-> Nothing]
    /\ reader = NoReader
    /\ covered = {}
    /\ left \in Budgets

Synchronize(p) ==
    \/ Fetch(p) \/ BeginPrivateInputs(p) \/ WipeEvents(p) \/ ApplyChanges(p)
    \/ FinishPrivateInputs(p) \/ AbandonPrivateInputs(p) \/ MarkSyncSuccess(p) \/ MarkSyncFailure(p)

Rebuild(p) ==
    \/ CapturePolicyRevision(p) \/ CaptureInputs(p) \/ ReadPolicy(p) \/ CreateDefaultPolicy(p)
    \/ CheckEventsBefore(p) \/ ReadEvents(p) \/ CheckEventsAfter(p) \/ ReadOverrides(p)
    \/ BeginReplace(p) \/ ReplaceRows(p) \/ FinishReplace(p) \/ AbandonProjectionWrite(p)
DeleteForUser(p) == BeginErase(p) \/ EraseRows(p) \/ FinishErase(p)
Disconnect(p) == DeleteEvents(p) \/ FinishDisconnection(p)
Step(p) == Synchronize(p) \/ Rebuild(p) \/ DeleteForUser(p) \/ Disconnect(p)

Next ==
    \/ \E p \in Syncers : AcquireSync(p)
    \/ \E p \in Editors : PutSharingPolicy(p)
    \/ \E p \in Disconnecters : RevokeConnection(p)
    \/ \E p \in Procs : Step(p) \/ Fault(p) \/ Crash(p)
    \/ CreateOverride \/ SaveConnection \/ ProviderChanges \/ Age \/ Expire
    \/ Read

Spec == Init /\ [][Next]_vars

\* The scheduler keeps starting synchronizations, processes that have started
\* go on, and time passes for a lease that is left behind.
Fairness ==
    /\ \A p \in Syncers : WF_vars(AcquireSync(p))
    /\ \A p \in Procs : WF_vars(Step(p))
    /\ WF_vars(Expire)
FairSpec == Spec /\ Fairness

-----------------------------------------------------------------------------
(* Properties                                                              *)

Inputs == [policy : Maybe(Policies), override : Maybe(Overrides), events : Calendar]
Rows == [Cells -> Maybe(Row)]
Pcs == {"idle", "fetch", "begin", "wipe", "apply", "dropInputs", "capture", "captureInputs",
        "policy", "default", "events", "scan", "recheck", "overrides", "write", "rows",
        "dropWrite", "success", "markFailure", "markReconnect", "erase", "erasing",
        "dropErase", "eraseEvents", "release"}
Contexts ==
    [pc : Pcs,
     sync : Maybe(Ids), cleanup : Maybe(Ids), priv : Maybe(Ids), proj : Maybe(Ids),
     cap : Maybe(Capture),
     obs : Maybe(Ids), account : Maybe(Accounts), last : Maybe(Ids), seen : Maybe(Calendar),
     full : BOOLEAN, win : SUBSET Cells, clearAll : BOOLEAN, read : Inputs,
     del : SUBSET Cells, put : SUBSET Cells]

Readers ==
    [pc : {"idle", "block", "gate", "policy", "inputs", "source", "blockAgain", "rows", "answered"},
     pass : {1, 2}, id : Maybe(Ids), gate : Maybe(GateView), source : {"none", "fresh", "stale"},
     private : Maybe(Ids), sound : BOOLEAN]

\* Every document and context has the fields the code gives it.
TypeOK ==
    /\ provider \in [Accounts -> SUBSET Cells]
    /\ conn \in Maybe(Connection)
    /\ inputs \in [id : Maybe(Ids), ready : BOOLEAN, lease : LeaseState,
                   source : {"none", "fresh", "stale"}]
    /\ events \in Calendar
    /\ settings \in [policy : Maybe(Policies), override : Maybe(Overrides)]
    /\ policyRev \in Maybe(Ids)
    /\ pub \in Maybe(Gate)
    /\ rows \in Rows
    /\ block \in Maybe(Block)
    /\ local \in [Procs -> Contexts]
    /\ reader \in Readers
    /\ covered \subseteq Cells
    /\ left \in [Kinds -> Maybe(Nat)]

\* Rows that a reader may see are the complete projection of the policy, the
\* override and the private events as they are now: an edit, a new event, a
\* half-written batch or a dead writer hides them first.
PublishedIsCurrent == Visible => RowsAreCurrent

\* A reader that checks the documents one by one, before and after its query,
\* returns rows only if they were, at its query, the complete projection of the
\* settings and events of that moment, and visible if they show a calendar.
AnswersAreConsistent == reader.pc = "answered" => reader.sound

\* Once a synchronization is committed, the private events are exactly the
\* provider state its cursor stands for, whatever partial or abandoned updates
\* came before: an incremental update never extends a damaged cache.
CommittedIsSnapshot ==
    Snapshot # None /\ conn # None /\ conn.last = Snapshot => events = conn.token

\* Rows of an account the user replaced or disconnected are never visible.
NoFormerAccount ==
    Visible => \A c \in Held(rows) :
        rows[c].event # None => conn # None /\ rows[c].event = conn.account

\* After a completed disconnection nothing of the calendar is stored, and a
\* synchronization or rebuild that was running brings nothing back.
DisconnectedIsErased ==
    block # None /\ ~block.inProgress /\ conn = None =>
        Held(events) = {} /\ Held(rows) = {}

\* A row changes only behind a closed gate whose owner's lease is live, and a
\* private event only while the inputs are not readable.
WritesBehindGates ==
    [][/\ rows' # rows => pub # None /\ pub.dirty /\ ~pub.ready /\ pub.lease = "live"
       /\ events' # events => ~inputs.ready]_vars

\* Hidden rows become visible only by a replacement that finishes or by a
\* synchronization that commits: never because a lease ran out, a writer gave
\* up, a failure was recorded or a calendar was connected.
OpensOnlyByCompletion ==
    [][~Visible /\ Visible' =>
        \E p \in Procs : FinishReplace(p) \/ (p \in Syncers /\ MarkSyncSuccess(p))]_vars

\* While a calendar stays connected and the grant is not revoked, availability
\* keeps coming back: no crash, lease or half-finished write hides it for good.
KeepsReopening ==
    <>[](conn # None /\ ~conn.reconnect) => []<>Visible

-----------------------------------------------------------------------------
(* The documents implement one that is replaced in a step: Availability.   *)

Sources == [policy : Maybe(Policies), override : Maybe(Overrides), events : Calendar,
            account : Maybe(Accounts)]
Source == [policy |-> settings.policy, override |-> settings.override, events |-> events,
           account |-> IF conn = None THEN None ELSE conn.account]
RowsShown == IF Visible THEN rows ELSE None

Promise == INSTANCE Availability WITH
    Fresh <- [policy |-> None, override |-> None, events |-> NoEvents, account |-> None],
    source <- Source, shown <- RowsShown

\* What the documents show is replaced whole and from nothing, and is hidden by
\* the very write that changes a setting, an event or the account behind it,
\* although rows and events are written in batches by processes that overtake
\* each other.
ImplementsAvailability == Promise!AvailabilitySpec

-----------------------------------------------------------------------------
(* What makes the properties inductive                                     *)

Importing == {"wipe", "apply", "dropInputs"}
Gathering == {"captureInputs", "policy", "default", "events", "scan", "recheck", "overrides", "write"}
Replacing == {"rows", "dropWrite"}
Erasing == {"erasing", "dropErase"}
Rebuilding == {"capture"} \cup Gathering \cup Replacing
\* The steps at which a synchronization has imported the events.
Imported == Rebuilding \cup {"success"}

\* What a context carries at each step of its process.
InStep(p, l) ==
    /\ p \in Syncers => l.pc \in {"idle", "fetch", "begin", "markFailure", "markReconnect"}
                                 \cup Importing \cup Imported
    /\ p \in Editors => l.pc \in {"idle", "erase"} \cup Rebuilding \cup Erasing
    /\ p \in Disconnecters => l.pc \in {"idle", "erase", "eraseEvents", "release"} \cup Erasing
    /\ l.sync # None <=> p \in Syncers /\ l.pc # "idle"
    /\ l.cleanup # None <=> p \in Disconnecters /\ l.pc # "idle"
    /\ l.priv # None <=> l.pc \in Importing
    /\ l.proj # None <=> l.pc \in Replacing \cup Erasing
    /\ l.obs # None <=> \/ p \in Syncers /\ l.pc \in Importing \cup Imported
                        \/ p \in Disconnecters /\ l.pc # "idle"
    /\ l.pc \in Importing => l.obs = l.priv
    /\ l.pc \in Gathering \cup Replacing => l.cap # None
    /\ l.cap # None => l.pc \in Rebuilding
    /\ l.pc = "fetch" => l.account # None
    /\ p \in Syncers /\ l.pc \in {"begin"} \cup Importing \cup Imported => l.seen # None
    /\ l.pc \in {"events", "scan", "recheck", "overrides", "write", "rows"} => l.read.policy # None

ContextsSound ==
    /\ settings.policy # None => policyRev # None
    /\ \A p \in Procs :
        /\ InStep(p, local[p])
        /\ local[p].read.policy # None => policyRev # None

\* A lease or revision id is in the context of the process that made it only.
IdsApart ==
    \A p, q \in Procs : p # q =>
        /\ local[p].sync # None => local[p].sync # local[q].sync
        /\ local[p].cleanup # None => local[p].cleanup # local[q].cleanup
        /\ local[p].proj # None => local[p].proj # local[q].proj
        /\ local[p].obs # None => local[p].obs # local[q].obs

\* How the control documents depend on each other.
ControlsSound ==
    /\ inputs.lease # "none" => ~inputs.ready
    /\ ~inputs.ready \/ inputs.source # "none" => inputs.id # None
    /\ pub # None =>
        /\ pub.lease # "none" => pub.dirty
        /\ pub.dirty => ~pub.ready
        /\ pub.policy # None \/ pub.private # None => pub.ready
    /\ pub = None => rows = NoRows /\ covered = {}
    /\ conn = None => inputs.lease = "none" /\ inputs.source = "none"
    /\ conn = None /\ block = None => events = NoEvents
    /\ conn # None /\ conn.last # None => block = None
    /\ block # None /\ block.inProgress => conn = None /\ ~inputs.ready

\* Private inputs that are being written are nobody's yet: no gate, capture,
\* receipt or finished import names them.
ContextInputsSound(p) ==
    LET l == local[p] IN
    /\ ~inputs.ready /\ l.cap # None => l.cap.private # inputs.id
    /\ ~inputs.ready /\ p \in Syncers /\ l.pc \in Imported => l.obs # inputs.id
    /\ l.pc \in Importing /\ inputs.id = l.priv => ~inputs.ready
    /\ p \in Syncers /\ conn # None /\ conn.last # None => l.obs # conn.last
    /\ l.cleanup # None /\ block # None /\ block.inProgress /\ block.id = l.cleanup => inputs.id = l.obs

InputsSound ==
    /\ ~inputs.ready =>
        /\ pub # None => pub.private # inputs.id
        /\ conn # None => conn.last # inputs.id
    /\ \A p \in Procs : ContextInputsSound(p)

AccountOf(calendar, account) == \A c \in Cells : calendar[c] \in {None, account}
\* What is left to write makes the events those of the response.
Pending(l) == \A c \in Cells : c \in l.put \/ l.seen[c] = IF c \in l.del THEN None ELSE events[c]

\* A synchronization that may still write is on its way from one state of the
\* cache that its cursor stands for to another.
ImportSound(l) ==
    LET holds == conn # None /\ conn.lease = l.sync IN
    /\ l.pc = "fetch" /\ holds => l.last = conn.last /\ l.seen = conn.token /\ l.account = conn.account
    /\ l.pc \in {"begin"} \cup Importing \cup Imported /\ holds => AccountOf(l.seen, conn.account)
    /\ l.pc = "begin" /\ ~l.full /\ holds => Pending(l)
    /\ (l.pc = "begin" /\ l.full) \/ l.pc = "wipe" =>
        l.del = {} /\ \A c \in Cells : c \in l.put \/ l.seen[c] = None
    /\ l.pc = "apply" /\ inputs.id = l.priv => Pending(l)
    /\ l.pc \in Imported /\ inputs.id = l.obs => events = l.seen

CacheSound ==
    /\ CommittedIsSnapshot
    /\ conn # None /\ conn.token # None => AccountOf(conn.token, conn.account)
    /\ \A p \in Syncers : ImportSound(local[p])

\* What a rebuild has read is current unless a revision tells that it is not.
ReadSound(l) ==
    /\ l.cap # None /\ l.cap.policy = policyRev =>
        /\ l.pc \in {"events", "scan", "recheck", "overrides", "write", "rows"} => l.read.policy = settings.policy
        /\ l.pc \in {"write", "rows"} => l.read.override = settings.override
    /\ /\ l.cap # None /\ l.cap.private = inputs.id
       /\ l.pc \in {"recheck", "overrides", "write", "rows"}
       => l.read.events = events

\* The rows behind the gate of a replacement that has not finished.
WriterSound(l) ==
    l.pc = "rows" /\ pub # None /\ pub.id = l.proj =>
        /\ l.put \subseteq l.win
        /\ l.put = l.win \/ l.del = {}
        /\ \A c \in l.win \ l.put : rows[c] = Projection(l.read, c)
        /\ \A c \in Cells \ l.win :
            IF c \in l.del THEN l.clearAll
            ELSE rows[c] = IF c \in covered /\ ~l.clearAll THEN Projection(l.read, c) ELSE None

\* A ready gate whose revisions are the present ones has current rows.
RowsSound ==
    /\ pub # None /\ pub.ready /\ pub.policy = policyRev /\ pub.private = inputs.id => RowsAreCurrent
    /\ \A p \in Procs : ReadSound(local[p]) /\ WriterSound(local[p])

\* A disconnection has erased what its step says, and keeps it so.
EraserSound(l) ==
    l.pc \in {"eraseEvents", "release"} /\ block # None /\ block.inProgress /\ block.id = l.cleanup =>
        /\ Held(rows) = {}
        /\ l.pc = "release" => Held(events) = {}

ErasureSound == DisconnectedIsErased /\ \A p \in Procs : EraserSound(local[p])

\* The connection proves the inputs of a revision, and nobody is about to
\* write a receipt of that revision again.
Proven(revision) ==
    conn # None /\ ~conn.reconnect /\ ~conn.failed /\ conn.lease = None /\ conn.last = revision
NotAhead(revision) == \A p \in Syncers : local[p].obs # revision

Unproven(revision) == revision # None /\ (inputs.source # "fresh" \/ ~Proven(revision))

\* The gate is the one of the first pass.
SameGate == IF reader.id = None THEN pub = None ELSE pub # None /\ pub.id = reader.id
SameGateRead == IF reader.id = None THEN reader.gate = None
                ELSE reader.gate # None /\ reader.gate.id = reader.id

\* What a reader that has come so far knows.
ReaderSound ==
    /\ reader.pc = "answered" => reader.sound
    /\ reader.pc \in {"policy", "inputs", "source", "blockAgain"} /\ reader.gate # None =>
        /\ pub # None
        /\ pub.id = reader.gate.id /\ reader.gate.ready => pub.ready /\ pub.private = reader.gate.private
    /\ reader.pc \in {"inputs", "source", "blockAgain"} /\ reader.gate # None => reader.gate.ready
    /\ reader.pc \in {"source", "blockAgain"} => reader.private = PublishedBy(reader.gate)
    /\ reader.pc = "rows" \/ (reader.pass = 2 /\ reader.pc \in {"block", "gate"}) =>
        (SameGate /\ pub # None => pub.ready /\ (pub.private # None => NotAhead(pub.private)))
    /\ reader.pass = 2 /\ reader.pc \in {"block", "gate"} /\ ~reader.sound /\ SameGate =>
        pub # None /\ (policyRev # pub.policy \/ inputs.id # pub.private \/ Unproven(pub.private))
    /\ reader.pass = 2 /\ reader.pc \in {"policy", "inputs", "source", "blockAgain"} /\ ~reader.sound /\ SameGateRead =>
        /\ reader.gate # None
        /\ reader.gate.private # None => NotAhead(reader.gate.private)
        /\ CASE reader.pc = "policy" ->
                  \/ ~reader.gate.ready \/ policyRev # reader.gate.policy
                  \/ inputs.id # reader.gate.private \/ Unproven(reader.gate.private)
             [] reader.pc = "inputs" -> inputs.id # reader.gate.private \/ Unproven(reader.gate.private)
             [] OTHER -> /\ reader.gate.private # None
                         /\ reader.source # "fresh" \/ ~Proven(reader.gate.private)
=============================================================================
