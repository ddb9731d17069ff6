---------------------------- MODULE SyncSchedule ----------------------------
(***************************************************************************)
(* When the calendars of many users are synchronized.                      *)
(*                                                                         *)
(* A batch, started by a server's ticker or by the external scheduler,     *)
(* queries the connections whose next attempt is due, claims some of them  *)
(* by postponing that attempt, and synchronizes the claimed ones one after *)
(* the other until its time is over.  Several servers may run batches at   *)
(* once, and users synchronize, connect and disconnect as they like.  What *)
(* one synchronization does is the module Publication.                     *)
(*                                                                         *)
(* Times are relative: timer[u] is how long until u is due, and the queue  *)
(* holds those that are, the longest due first.  Connections that become   *)
(* due within the same unit of time may stand in any order.                *)
(***************************************************************************)
EXTENDS Naturals, SequencesExt

CONSTANTS
    Users,          \* users with a calendar
    Servers,        \* processes that run batches, each at most one at a time
    Active,         \* bound: the users who do something themselves meanwhile
    Page,           \* a synchronization a user asked for
    ClaimLimit,     \* connections a batch claims
    QueryFactor,    \* how many times as many it looks at
    RunTimeout,     \* time of a batch
    ClaimLease,     \* how long a claim postpones the next attempt
    SyncLease,      \* how long a synchronization holds its connection
    Interval,       \* from a success to the next attempt
    MaxFailures,    \* bound: failures beyond it are not counted further
    Backoff,        \* [0 .. MaxFailures -> from a failure to the next attempt]
    Kinds,          \* kinds of outside events
    Budgets,        \* bounds: how often each kind may happen in a behaviour, one of
    None

ASSUME UsersAssumption ==
    /\ IsFiniteSet(Users) /\ Active \subseteq Users
    /\ Page \notin Servers /\ None \notin Users \cup Servers \cup {Page}
ASSUME LimitAssumption ==
    /\ ClaimLimit \in Nat \ {0} /\ QueryFactor \in Nat \ {0} /\ MaxFailures \in Nat
    /\ Kinds = {"page", "connect", "read", "fault"} /\ Budgets \subseteq [Kinds -> Nat]
\* 50 s < 60 s, 120 s, 15 min: a batch is over before anything it has postponed is due.
ASSUME TimesAssumption ==
    /\ {RunTimeout, ClaimLease, SyncLease, Interval} \subseteq Nat \ {0}
    /\ Backoff \in [0 .. MaxFailures -> Nat \ {0}]
    /\ RunTimeout < ClaimLease /\ RunTimeout < SyncLease /\ RunTimeout < Interval
    /\ \A n \in 0 .. MaxFailures : RunTimeout < Backoff[n]

VARIABLES
    conn,       \* [Users -> "none", "ready" or "reconnect"]
    queue,      \* the connections whose next attempt is due, oldest first
    timer,      \* [Users -> time until the next attempt, 0 when due or never]
    lease,      \* [Users -> sync lease: who holds it and for how long, or None]
    failures,   \* [Users -> failures since the last success]
    refused,    \* the users whose present grant has turned out not to work any more
    reader,     \* [Users -> the grant a private read works with: "none", "current" or "old"]
    batch,      \* [Servers -> the batch it runs]
    left        \* bound: what is left of the behaviour's budget

grants == <<refused, reader>>
vars == <<conn, queue, timer, lease, failures, grants, batch, left>>

-----------------------------------------------------------------------------

Elements(s) == {s[i] : i \in DOMAIN s}
Unique(s) == \A i, j \in DOMAIN s : s[i] = s[j] => i = j
Without(s, u) ==
    IF u \in Elements(s) THEN RemoveAt(s, CHOOSE i \in DOMAIN s : s[i] = u) ELSE s
Take(s, n) == SubSeq(s, 1, IF Len(s) < n THEN Len(s) ELSE n)
Orders(S) == {s \in [1 .. Cardinality(S) -> S] : Elements(s) = S}
InOrderOf(t, s) == \A i, j \in DOMAIN t : \A k, l \in DOMAIN s :
                       t[i] = s[k] /\ t[j] = s[l] /\ i < j => k < l

NoBatch == [pc |-> "idle", todo |-> <<>>, claimed |-> <<>>, at |-> None, age |-> 0,
            tried |-> FALSE, again |-> {}]
Batches ==
    {b \in [pc : {"idle", "claim", "run", "sync"}, todo : Seq(Users), claimed : Seq(Users),
            at : Users \cup {None}, age : 0 .. RunTimeout, tried : BOOLEAN, again : SUBSET Users] :
        b.pc = "sync" <=> b.at # None}
Leases == [by : Servers \cup {Page}, left : 1 .. SyncLease]
Holder(u) == IF lease[u] = None THEN None ELSE lease[u].by

Spend(kind) == left[kind] > 0 /\ left' = [left EXCEPT ![kind] = @ - 1]

\* The next attempt of u is put off by d.
Postpone(u, d) ==
    /\ queue' = Without(queue, u)
    /\ timer' = [timer EXCEPT ![u] = d]

Init ==
    /\ conn = [u \in Users |-> "ready"]
    /\ queue \in Orders(Users)
    /\ timer = [u \in Users |-> 0]
    /\ lease = [u \in Users |-> None]
    /\ failures = [u \in Users |-> 0]
    /\ refused = {}
    /\ reader = [u \in Users |-> "none"]
    /\ batch = [s \in Servers |-> NoBatch]
    /\ left \in Budgets

-----------------------------------------------------------------------------
(* Batches                                                                 *)

Batch(s, next) == batch' = [batch EXCEPT ![s] = next]

\* Mutant of QueryDue: what is due is taken in any order.
QueryDueUnordered(s) ==
    /\ batch[s].pc = "idle"
    /\ queue # <<>>
    /\ LET due == Take(queue, ClaimLimit * QueryFactor)
       IN  \E todo \in Orders({u \in Elements(due) : lease[u] = None}) :
               Batch(s, [NoBatch EXCEPT !.pc = "claim", !.todo = todo])
    /\ UNCHANGED <<conn, queue, timer, lease, failures, grants, left>>

\* RunDue begins: the due connections that nobody synchronizes, oldest first.
\* A server already running a batch answers the scheduler 409.
QueryDue(s) ==
    /\ batch[s].pc = "idle"
    /\ queue # <<>>
    /\ LET due == Take(queue, ClaimLimit * QueryFactor)
       IN  \E todo \in Orders({u \in Elements(due) : lease[u] = None}) :
               /\ InOrderOf(todo, due)
               /\ Batch(s, [NoBatch EXCEPT !.pc = "claim", !.todo = todo])
    /\ UNCHANGED <<conn, queue, timer, lease, failures, grants, left>>

\* Mutant of Claimable: the claim does not look at the connection again.
ClaimableUnread(u) == conn[u] # "none"

\* Whether u is still as the query saw it.
Claimable(u) == conn[u] = "ready" /\ lease[u] = None /\ u \in Elements(queue)

\* The next attempt is put off from the time the batch began.
Claim(s) ==
    LET c == batch[s]
        u == Head(c.todo)
        rest == [c EXCEPT !.todo = Tail(@)]
    IN  /\ c.pc = "claim" /\ c.todo # <<>> /\ Len(c.claimed) < ClaimLimit
        /\ \/ /\ Claimable(u)
              /\ Postpone(u, ClaimLease - c.age)
              /\ Batch(s, [rest EXCEPT !.claimed = Append(@, u)])
           \/ /\ ~Claimable(u)
              /\ Batch(s, rest)
              /\ UNCHANGED <<queue, timer>>
        /\ UNCHANGED <<conn, lease, failures, grants, left>>

ClaimsDone(s) ==
    LET c == batch[s]
    IN  /\ c.pc = "claim"
        /\ c.todo = <<>> \/ Len(c.claimed) = ClaimLimit
        /\ Batch(s, [c EXCEPT !.pc = "run", !.todo = c.claimed, !.claimed = <<>>])
        /\ UNCHANGED <<conn, queue, timer, lease, failures, grants, left>>

\* AcquireSync: the lease postpones the next attempt until it ends.
Acquire(u, by) ==
    /\ conn[u] = "ready" /\ lease[u] = None
    /\ lease' = [lease EXCEPT ![u] = [by |-> by, left |-> SyncLease]]
    /\ Postpone(u, SyncLease)

\* The next claimed connection, while the batch has time: synchronized, or passed
\* over when it is busy, gone or to be reconnected.
Attempt(s) ==
    LET c == batch[s]
        u == Head(c.todo)
        rest == [c EXCEPT !.todo = Tail(@), !.tried = TRUE]
    IN  /\ c.pc = "run" /\ c.todo # <<>> /\ c.age < RunTimeout
        /\ \/ Acquire(u, s) /\ Batch(s, [rest EXCEPT !.pc = "sync", !.at = u])
           \/ /\ ~(conn[u] = "ready" /\ lease[u] = None)
              /\ Batch(s, rest)
              /\ UNCHANGED <<queue, timer, lease>>
        /\ UNCHANGED <<conn, failures, grants, left>>

Released(u) == lease' = [lease EXCEPT ![u] = None]

MarkSyncSuccess(u) ==
    /\ conn' = [conn EXCEPT ![u] = "ready"]
    /\ Postpone(u, Interval)
    /\ failures' = [failures EXCEPT ![u] = 0]
    /\ Released(u)
    /\ refused' = refused \ {u}
    /\ UNCHANGED reader

\* syncBackoff: the more failures in a row, the longer.
DelayAfter(n) == Backoff[n]

MarkSyncFailure(u) ==
    /\ conn' = [conn EXCEPT ![u] = "ready"]
    /\ Postpone(u, DelayAfter(failures[u]))
    /\ failures' = [failures EXCEPT ![u] = IF @ < MaxFailures THEN @ + 1 ELSE @]
    /\ Released(u)
    /\ UNCHANGED grants

\* The grant is no longer accepted: no attempts until the user connects again.
MarkReconnect(u) ==
    /\ conn' = [conn EXCEPT ![u] = "reconnect"]
    /\ Postpone(u, 0)
    /\ failures' = [failures EXCEPT ![u] = IF @ < MaxFailures THEN @ + 1 ELSE @]
    /\ Released(u)
    /\ refused' = refused \cup {u}
    /\ UNCHANGED reader

Recorded(u) == MarkSyncSuccess(u) \/ MarkSyncFailure(u) \/ MarkReconnect(u)

\* The synchronization returns; without its lease it has recorded nothing.
SyncReturns(s) ==
    LET c == batch[s]
    IN  /\ c.pc = "sync"
        /\ \/ Holder(c.at) = s /\ Recorded(c.at)
           \/ Holder(c.at) # s /\ UNCHANGED <<conn, queue, timer, lease, failures, grants>>
        /\ Batch(s, [c EXCEPT !.pc = "run", !.at = None])
        /\ UNCHANGED left

\* Nothing is left to do, or no time.
BatchEnds(s) ==
    LET c == batch[s]
    IN  /\ c.pc = "run"
        /\ c.todo = <<>> \/ c.age = RunTimeout
        /\ Batch(s, NoBatch)
        /\ UNCHANGED <<conn, queue, timer, lease, failures, grants, left>>

\* The server dies, or the outcome of a synchronization cannot be recorded.
Fault(s) ==
    /\ Spend("fault")
    /\ \/ batch[s].pc # "idle" /\ Batch(s, NoBatch)
       \/ batch[s].pc = "sync" /\ Batch(s, [batch[s] EXCEPT !.pc = "run", !.at = None])
    /\ UNCHANGED <<conn, queue, timer, lease, failures, grants>>

-----------------------------------------------------------------------------
(* Users                                                                   *)

PageSync(u) ==
    /\ Spend("page")
    /\ Acquire(u, Page)
    /\ UNCHANGED <<conn, failures, grants, batch>>

PageSyncReturns(u) ==
    /\ Holder(u) = Page
    /\ Recorded(u)
    /\ UNCHANGED <<batch, left>>

\* What u was granted before is forgotten.
NewGrant(u) ==
    /\ refused' = refused \ {u}
    /\ reader' = [reader EXCEPT ![u] = IF @ = "none" THEN @ ELSE "old"]

\* SaveConnection: due at once.  A batch whose query is older cannot claim it.
Connect(u) ==
    /\ Spend("connect")
    /\ conn' = [conn EXCEPT ![u] = "ready"]
    /\ queue' = Append(Without(queue, u), u)
    /\ timer' = [timer EXCEPT ![u] = 0]
    /\ Released(u)
    /\ failures' = [failures EXCEPT ![u] = 0]
    /\ NewGrant(u)
    /\ batch' = [s \in Servers |->
                    LET c == batch[s] IN
                    [c EXCEPT !.todo = IF c.pc = "claim" THEN Without(@, u) ELSE @,
                              !.again = IF c.pc = "idle" THEN @ ELSE @ \cup {u}]]

\* Mutant of Disconnect: the attempt that is due is left standing.
DisconnectStillDue(u) ==
    /\ conn[u] # "none"
    /\ Spend("connect")
    /\ conn' = [conn EXCEPT ![u] = "none"]
    /\ Released(u)
    /\ failures' = [failures EXCEPT ![u] = 0]
    /\ NewGrant(u)
    /\ UNCHANGED <<queue, timer, batch>>

\* The connection is deleted, and with it its lease and its next attempt.
Disconnect(u) ==
    /\ conn[u] # "none"
    /\ Spend("connect")
    /\ conn' = [conn EXCEPT ![u] = "none"]
    /\ Postpone(u, 0)
    /\ Released(u)
    /\ failures' = [failures EXCEPT ![u] = 0]
    /\ NewGrant(u)
    /\ UNCHANGED batch

\* privateEvents: a user looks at the details of the own calendar, read from Google with
\* the grant the connection has at this time.
ReadPrivateEvents(u) ==
    /\ conn[u] = "ready" /\ reader[u] = "none"
    /\ Spend("read")
    /\ reader' = [reader EXCEPT ![u] = "current"]
    /\ UNCHANGED <<conn, queue, timer, lease, failures, refused, batch>>

\* MarkReconnectRequired, of whatever connection the user has by now: the read holds no
\* lease that would fence it.
MarkReconnectRequired(u) ==
    /\ conn' = [conn EXCEPT ![u] = IF @ = "none" THEN @ ELSE "reconnect"]
    /\ Postpone(u, 0)
    /\ refused' = IF reader[u] = "current" THEN refused \cup {u} ELSE refused

\* Google answers, or refuses the grant.
PrivateReadReturns(u) ==
    /\ reader[u] # "none"
    /\ reader' = [reader EXCEPT ![u] = "none"]
    /\ \/ MarkReconnectRequired(u)
       \/ UNCHANGED <<conn, queue, timer, refused>>
    /\ UNCHANGED <<lease, failures, batch, left>>

-----------------------------------------------------------------------------
(* Time                                                                    *)

\* Calls that obey a deadline return before it: a batch is over at RunTimeout, and
\* claiming leaves time for a first attempt.
InTime(s) ==
    LET c == batch[s]
    IN  c.pc # "idle" => c.age < RunTimeout /\ (c.age + 1 = RunTimeout => c.tried \/ c.todo \o c.claimed = <<>>)

Tick ==
    /\ \A s \in Servers : InTime(s)
    /\ \E order \in Orders({u \in Users : timer[u] = 1}) : queue' = queue \o order
    /\ timer' = [u \in Users |-> IF timer[u] = 0 THEN 0 ELSE timer[u] - 1]
    /\ lease' = [u \in Users |-> IF lease[u] = None \/ lease[u].left = 1 THEN None
                                ELSE [lease[u] EXCEPT !.left = @ - 1]]
    /\ batch' = [s \in Servers |-> IF batch[s].pc = "idle" THEN batch[s]
                                   ELSE [batch[s] EXCEPT !.age = @ + 1]]
    /\ UNCHANGED <<conn, failures, grants, left>>

Running(s) ==
    Claim(s) \/ ClaimsDone(s) \/ Attempt(s) \/ SyncReturns(s) \/ BatchEnds(s)

Next ==
    \/ \E s \in Servers : QueryDue(s) \/ Running(s) \/ Fault(s)
    \/ \E u \in Active :
           \/ PageSync(u) \/ PageSyncReturns(u) \/ Connect(u) \/ Disconnect(u)
           \/ ReadPrivateEvents(u) \/ PrivateReadReturns(u)
    \/ Tick

Spec == Init /\ [][Next]_vars

\* Batches keep being started, on any one of the servers, and their calls return.
FairSpec ==
    /\ Spec
    /\ WF_vars(\E s \in Servers : QueryDue(s))
    /\ \A s \in Servers : WF_vars(Running(s))
    /\ WF_vars(Tick)

-----------------------------------------------------------------------------
(* Properties                                                              *)

\* A connection is in the queue, once, when it is ready and its time has come.
QueueSound ==
    /\ queue \in Seq(Users) /\ Unique(queue)
    /\ timer \in [Users -> Nat]
    /\ \A u \in Users : /\ u \in Elements(queue) <=> conn[u] = "ready" /\ timer[u] = 0
                        /\ timer[u] # 0 => conn[u] = "ready"

\* Every variable has its type, and the queue and the timers tell who is due: whatever
\* connects, disconnects, is claimed or fails.
TypeOK ==
    /\ conn \in [Users -> {"none", "ready", "reconnect"}]
    /\ QueueSound
    /\ lease \in [Users -> Leases \cup {None}]
    /\ failures \in [Users -> 0 .. MaxFailures]
    /\ refused \subseteq Users
    /\ reader \in [Users -> {"none", "current", "old"}]
    /\ batch \in [Servers -> Batches]
    /\ left \in [Kinds -> Nat]

\* What a batch has claimed and not finished.
ClaimsOf(c) ==
    Elements(c.claimed) \cup (IF c.pc = "claim" THEN {} ELSE Elements(c.todo))
        \cup ({c.at} \ {None})
Claims(s) == ClaimsOf(batch[s])

\* Two batches that overlap never work on the same connection, whatever users and
\* failures do to its next attempt meanwhile, unless the user connected again
\* (ClaimDueConnections).
ClaimedByOne ==
    \A s, t \in Servers :
        s # t => Claims(s) \cap Claims(t) \subseteq batch[s].again \cup batch[t].again

\* What makes ClaimedByOne inductive: as long as a batch may run, nothing it has claimed
\* falls due, whatever synchronizes, fails or marks the connection meanwhile.
ClaimsStayPostponed ==
    \A s \in Servers :
        /\ batch[s].pc = "idle" => Claims(s) = {}
        /\ \A u \in Claims(s) \ batch[s].again :
               conn[u] = "ready" => batch[s].age + timer[u] > RunTimeout

\* A user is asked to connect again only when the present grant has failed: an old answer
\* of Google says nothing of a newer grant (docs/google-calendar-sync.md:206).
AskedForReason == \A u \in Users : conn[u] = "reconnect" => u \in refused

\* A batch that has no time left ends without having reached u, which it claimed: what
\* RunDue counts as Unprocessed.
LeftOver(u) ==
    \E s \in Servers :
        batch[s].pc = "run" /\ batch[s].age = RunTimeout /\ u \in Elements(batch[s].todo)

\* Only batches that leave a connection over again and again can starve it.  If from some
\* time on none does, it is synchronized whenever it is due, or cannot be any more:
\* although batches may claim fewer than are due and leave others over, servers die with
\* their claims, and the others fail and are due again sooner (RunDue, the order and the
\* limit of ClaimDueConnections, syncBackoff).
NoStarvation ==
    \A u \in Users :
        <>[]~LeftOver(u) => (u \in Elements(queue) ~> lease[u] # None \/ conn[u] # "ready")
=============================================================================
