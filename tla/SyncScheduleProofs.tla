------------------------- MODULE SyncScheduleProofs -------------------------
(***************************************************************************)
(* Proofs about SyncSchedule: the types with what the queue and the timers *)
(* say of each other, and that batches which overlap keep apart.           *)
(***************************************************************************)
EXTENDS SyncSchedule, SequenceTheorems, FiniteSetTheorems, TLAPS

-----------------------------------------------------------------------------
(* Sequences: the queue, and what batches have still to do.                *)

\* Removing a place moves those behind it up by one.
LEMMA RemoveAtProperties ==
    ASSUME NEW S, NEW s \in Seq(S), NEW i \in DOMAIN s
    PROVE  /\ RemoveAt(s, i) \in Seq(S)
           /\ Len(RemoveAt(s, i)) = Len(s) - 1
           /\ \A j \in 1 .. Len(s) - 1 : RemoveAt(s, i)[j] = IF j < i THEN s[j] ELSE s[j + 1]
<1>0. i \in 1 .. Len(s) /\ Len(s) \in Nat
  OBVIOUS
<1>1. PICK a : a = SubSeq(s, 1, i - 1)
  OBVIOUS
<1>2. PICK b : b = SubSeq(s, i + 1, Len(s))
  OBVIOUS
<1>3. a \in Seq(S) /\ Len(a) = i - 1 /\ \A j \in 1 .. (i - 1) : a[j] = s[j]
  BY <1>0, <1>1
<1>4. b \in Seq(S) /\ Len(b) = Len(s) - i /\ \A j \in 1 .. (Len(s) - i) : b[j] = s[i + j]
  BY <1>0, <1>2
<1>5. RemoveAt(s, i) = a \o b
  BY <1>1, <1>2 DEF RemoveAt
<1>6. a \o b \in Seq(S) /\ Len(a \o b) = Len(s) - 1
  BY <1>0, <1>3, <1>4
<1>7. ASSUME NEW j \in 1 .. Len(s) - 1
      PROVE  (a \o b)[j] = IF j < i THEN s[j] ELSE s[j + 1]
  <2>1. CASE j < i
    BY <2>1, <1>0, <1>3, <1>4
  <2>2. CASE ~(j < i)
    <3>0. j > Len(a) /\ j \in 1 .. Len(a) + Len(b) /\ j - (i - 1) \in 1 .. (Len(s) - i)
      BY <2>2, <1>0, <1>3, <1>4
    <3>1. (a \o b)[j] = b[j - (i - 1)] /\ j - (i - 1) \in 1 .. (Len(s) - i)
      <4>1. ~(j <= Len(a)) /\ Len(a) \in Nat /\ Len(b) \in Nat
        BY <3>0, <1>3, <1>4
      <4>2. (a \o b)[j] = b[j - Len(a)]
        BY <3>0, <4>1, <1>3, <1>4, ConcatProperties
      <4>3. Len(a) = i - 1
        BY <1>3
      <4> QED
        BY <3>0, <4>2, <4>3
    <3>2. b[j - (i - 1)] = s[i + (j - (i - 1))] /\ i + (j - (i - 1)) = j + 1
      BY <3>1, <1>0, <1>4
    <3> QED
      BY <3>1, <3>2, <2>2, <1>0
  <2> QED
    BY <2>1, <2>2
<1> QED
  BY <1>5, <1>6, <1>7

LEMMA ElementsOfSeq ==
    ASSUME NEW S, NEW s \in Seq(S)
    PROVE  Elements(s) \subseteq S /\ \A x : x \in Elements(s) <=> \E i \in 1 .. Len(s) : s[i] = x
BY DEF Elements

\* A connection that is taken out of the queue is not in it any more; the others are.
LEMMA WithoutElements ==
    ASSUME NEW S, NEW s \in Seq(S), NEW u
    PROVE  /\ Without(s, u) \in Seq(S)
           /\ Elements(Without(s, u)) \subseteq Elements(s)
           /\ Unique(s) => /\ Unique(Without(s, u))
                           /\ Elements(Without(s, u)) = Elements(s) \ {u}
<1>1. CASE u \notin Elements(s)
  BY <1>1, ElementsOfSeq DEF Without
<1>2. CASE u \in Elements(s)
  <2>1. PICK i : i = CHOOSE k \in DOMAIN s : s[k] = u
    OBVIOUS
  <2>2. i \in 1 .. Len(s) /\ i \in DOMAIN s /\ s[i] = u /\ Len(s) \in Nat
    BY <1>2, <2>1 DEF Elements
  <2>3. PICK t : t = RemoveAt(s, i)
    OBVIOUS
  <2>4. Without(s, u) = t
    BY <1>2, <2>1, <2>3 DEF Without
  <2>5. /\ t \in Seq(S)
        /\ Len(t) = Len(s) - 1
        /\ \A j \in 1 .. Len(s) - 1 : t[j] = IF j < i THEN s[j] ELSE s[j + 1]
    BY <2>2, <2>3, RemoveAtProperties
  <2>6. Elements(t) \subseteq Elements(s)
    BY <2>2, <2>5 DEF Elements
  <2>7. ASSUME Unique(s)
        PROVE  Unique(t) /\ Elements(t) = Elements(s) \ {u}
    <3>0. \A k, l \in 1 .. Len(s) : s[k] = s[l] => k = l
      BY <2>7 DEF Unique
    <3>1. Unique(t)
      <4> SUFFICES ASSUME NEW j \in 1 .. Len(s) - 1, NEW l \in 1 .. Len(s) - 1, t[j] = t[l]
                   PROVE  j = l
        BY <2>2, <2>5 DEF Unique
      <4>1. PICK j2 : j2 = IF j < i THEN j ELSE j + 1
        OBVIOUS
      <4>2. PICK l2 : l2 = IF l < i THEN l ELSE l + 1
        OBVIOUS
      <4>3. j2 \in 1 .. Len(s) /\ t[j] = s[j2]
        BY <4>1, <2>2, <2>5
      <4>4. l2 \in 1 .. Len(s) /\ t[l] = s[l2]
        BY <4>2, <2>2, <2>5
      <4>5. j2 = l2
        BY <4>3, <4>4, <3>0
      <4> QED
        BY <4>1, <4>2, <4>5, <2>2
    <3>2. u \notin Elements(t)
      BY <2>2, <2>5, <2>7 DEF Unique, Elements
    <3>3. ASSUME NEW k \in 1 .. Len(s), s[k] # u
          PROVE  s[k] \in Elements(t)
      <4>1. CASE k < i
        BY <4>1, <2>2, <2>5 DEF Elements
      <4>2. CASE k > i
        <5>1. PICK l : l = k - 1
          OBVIOUS
        <5>2. l \in 1 .. Len(s) - 1 /\ ~(l < i) /\ l + 1 = k
          BY <5>1, <4>2, <2>2
        <5>3. t[l] = s[k] /\ l \in DOMAIN t
          BY <5>2, <2>2, <2>5
        <5> QED
          BY <5>3 DEF Elements
      <4> QED
        BY <4>1, <4>2, <3>3, <2>2
    <3>4. Elements(s) \ {u} \subseteq Elements(t)
      BY <3>3 DEF Elements
    <3> QED
      BY <3>1, <3>2, <3>4, <2>6
  <2> QED
    BY <2>4, <2>5, <2>6, <2>7
<1> QED
  BY <1>1, <1>2

LEMMA TakenElements ==
    ASSUME NEW S, NEW s \in Seq(S), NEW n \in Nat
    PROVE  Take(s, n) \in Seq(S) /\ Elements(Take(s, n)) \subseteq Elements(s)
<1>1. PICK m : m = IF Len(s) < n THEN Len(s) ELSE n
  OBVIOUS
<1>2. m \in Nat /\ m <= Len(s) /\ Len(s) \in Nat
  BY <1>1
<1>3. PICK t : t = SubSeq(s, 1, m)
  OBVIOUS
<1>4. t \in Seq(S) /\ Len(t) = m /\ \A i \in 1 .. m : t[i] = s[i]
  BY <1>2, <1>3
<1>5. Take(s, n) = t
  BY <1>1, <1>3 DEF Take
<1> QED
  BY <1>2, <1>4, <1>5 DEF Elements

LEMMA TailElements ==
    ASSUME NEW S, NEW s \in Seq(S), s # <<>>
    PROVE  Head(s) \in S /\ Tail(s) \in Seq(S) /\ Elements(s) = Elements(Tail(s)) \cup {Head(s)}
<1>1. Len(s) \in Nat \ {0} /\ Head(s) = s[1] /\ Tail(s) \in Seq(S) /\ Len(Tail(s)) = Len(s) - 1
      /\ \A i \in 1 .. Len(s) - 1 : Tail(s)[i] = s[i + 1]
  OBVIOUS
<1>2. ASSUME NEW k \in 1 .. Len(s), k # 1
      PROVE  s[k] \in Elements(Tail(s))
  <2>1. PICK l : l = k - 1
    OBVIOUS
  <2>2. l \in 1 .. Len(s) - 1 /\ l + 1 = k
    BY <2>1, <1>1, <1>2
  <2>3. Tail(s)[l] = s[k] /\ l \in DOMAIN Tail(s)
    BY <2>2, <1>1
  <2> QED
    BY <2>3 DEF Elements
<1>3. ASSUME NEW i \in 1 .. Len(s) - 1
      PROVE  Tail(s)[i] \in Elements(s)
  <2>1. i + 1 \in DOMAIN s /\ Tail(s)[i] = s[i + 1]
    BY <1>1
  <2> QED
    BY <2>1 DEF Elements
<1>4. Elements(Tail(s)) \subseteq Elements(s)
  BY <1>1, <1>3 DEF Elements
<1>5. 1 \in DOMAIN s /\ Head(s) \in Elements(s)
  BY <1>1 DEF Elements
<1> QED
  BY <1>1, <1>2, <1>4, <1>5 DEF Elements

LEMMA AppendedElements ==
    ASSUME NEW S, NEW s \in Seq(S), NEW u \in S
    PROVE  /\ Append(s, u) \in Seq(S)
           /\ Elements(Append(s, u)) = Elements(s) \cup {u}
           /\ Unique(s) /\ u \notin Elements(s) => Unique(Append(s, u))
<1>1. /\ Append(s, u) \in Seq(S) /\ Len(Append(s, u)) = Len(s) + 1 /\ Len(s) \in Nat
      /\ Append(s, u)[Len(s) + 1] = u
      /\ \A i \in 1 .. Len(s) : Append(s, u)[i] = s[i]
  BY AppendProperties
<1>2. Elements(Append(s, u)) = Elements(s) \cup {u}
  BY <1>1 DEF Elements
<1>3. ASSUME Unique(s), u \notin Elements(s), NEW i \in 1 .. Len(s) + 1, NEW j \in 1 .. Len(s) + 1,
             Append(s, u)[i] = Append(s, u)[j]
      PROVE  i = j
  <2>1. \A k \in 1 .. Len(s) : s[k] # u
    BY <1>1, <1>3 DEF Elements
  <2>2. \A k, l \in 1 .. Len(s) : s[k] = s[l] => k = l
    BY <1>1, <1>3 DEF Unique
  <2> QED
    BY <1>1, <1>3, <2>1, <2>2
<1> QED
  BY <1>1, <1>2, <1>3 DEF Unique

\* Sequences that share nothing, one after the other.
LEMMA JoinedElements ==
    ASSUME NEW S, NEW s \in Seq(S), NEW t \in Seq(S)
    PROVE  /\ s \o t \in Seq(S)
           /\ Elements(s \o t) = Elements(s) \cup Elements(t)
           /\ Unique(s) /\ Unique(t) /\ Elements(s) \cap Elements(t) = {} => Unique(s \o t)
<1>1. /\ s \o t \in Seq(S) /\ Len(s \o t) = Len(s) + Len(t) /\ Len(s) \in Nat /\ Len(t) \in Nat
      /\ \A i \in 1 .. Len(s) : (s \o t)[i] = s[i]
      /\ \A i \in 1 .. Len(s) + Len(t) : i > Len(s) => (s \o t)[i] = t[i - Len(s)]
  OBVIOUS
<1>2. ASSUME NEW k \in 1 .. Len(t)
      PROVE  Len(s) + k \in 1 .. Len(s) + Len(t) /\ (s \o t)[Len(s) + k] = t[k]
  <2>1. Len(s) + k \in 1 .. Len(s) + Len(t) /\ Len(s) + k > Len(s) /\ (Len(s) + k) - Len(s) = k
    BY <1>1
  <2> QED
    BY <2>1, <1>1
<1>3. ASSUME NEW i \in 1 .. Len(s) + Len(t), i > Len(s)
      PROVE  i - Len(s) \in 1 .. Len(t)
  BY <1>1, <1>3
<1>4. Elements(s \o t) = Elements(s) \cup Elements(t)
  <2>1. Elements(s \o t) \subseteq Elements(s) \cup Elements(t)
    BY <1>1, <1>3 DEF Elements
  <2>2. Elements(s) \subseteq Elements(s \o t)
    BY <1>1 DEF Elements
  <2>3. ASSUME NEW k \in 1 .. Len(t)
        PROVE  t[k] \in Elements(s \o t)
    <3>1. Len(s) + k \in DOMAIN (s \o t)
      BY <1>1, <1>2
    <3> QED
      BY <3>1, <1>2 DEF Elements
  <2>4. Elements(t) \subseteq Elements(s \o t)
    BY <2>3 DEF Elements
  <2> QED
    BY <2>1, <2>2, <2>4
<1>5. ASSUME Unique(s), Unique(t), Elements(s) \cap Elements(t) = {},
             NEW i \in 1 .. Len(s) + Len(t), NEW j \in 1 .. Len(s) + Len(t), (s \o t)[i] = (s \o t)[j]
      PROVE  i = j
  <2>1. CASE i \in 1 .. Len(s) /\ j \in 1 .. Len(s)
    BY <2>1, <1>1, <1>5 DEF Unique
  <2>2. CASE i > Len(s) /\ j > Len(s)
    <3>1. i - Len(s) = j - Len(s)
      BY <2>2, <1>1, <1>3, <1>5 DEF Unique
    <3> QED
      BY <3>1, <1>1
  <2>3. CASE i \in 1 .. Len(s) /\ j > Len(s)
    BY <2>3, <1>1, <1>3, <1>5 DEF Elements
  <2>4. CASE i > Len(s) /\ j \in 1 .. Len(s)
    BY <2>4, <1>1, <1>3, <1>5 DEF Elements
  <2> QED
    BY <2>1, <2>2, <2>3, <2>4, <1>1
<1> QED
  BY <1>1, <1>4, <1>5 DEF Unique

\* An order of a finite set lists every member once.
LEMMA OrderedElements ==
    ASSUME NEW S, IsFiniteSet(S), NEW s \in Orders(S)
    PROVE  s \in Seq(S) /\ Elements(s) = S /\ Unique(s)
<1>1. Cardinality(S) \in Nat /\ s \in [1 .. Cardinality(S) -> S] /\ Elements(s) = S
  BY FS_CardinalityType DEF Orders
<1>2. s \in Seq(S) /\ DOMAIN s = 1 .. Cardinality(S)
  BY <1>1
<1>3. s \in Surjection(1 .. Cardinality(S), S)
  BY <1>1 DEF Surjection, Elements
<1>4. IsFiniteSet(1 .. Cardinality(S)) /\ Cardinality(1 .. Cardinality(S)) = Cardinality(S)
  BY <1>1, FS_Interval
<1>5. s \in Injection(1 .. Cardinality(S), S)
  BY <1>3, <1>4, FS_SurjSameCardinalityImpliesInj
<1> QED
  BY <1>1, <1>2, <1>5 DEF Injection, IsInjective, Unique
-----------------------------------------------------------------------------
(* The queue.                                                              *)

\* The time of a batch is less than every delay.
LEMMA Delays ==
    /\ RunTimeout \in Nat /\ ClaimLease \in Nat /\ SyncLease \in Nat /\ Interval \in Nat
    /\ RunTimeout # 0 /\ RunTimeout < ClaimLease /\ RunTimeout < SyncLease /\ RunTimeout < Interval
    /\ \A n \in 0 .. MaxFailures : Backoff[n] \in Nat /\ RunTimeout < Backoff[n]
    /\ MaxFailures \in Nat
BY TimesAssumption, LimitAssumption

\* What is put off leaves the queue: with a delay when it is ready, for good when it is not.
LEMMA PostponedLeaves ==
    ASSUME QueueSound, NEW u \in Users, NEW d \in Nat, Postpone(u, d),
           \A v \in Users \ {u} : conn'[v] = conn[v],
           conn'[u] = "ready" <=> d # 0
    PROVE  QueueSound' /\ timer'[u] = d /\ \A v \in Users \ {u} : timer'[v] = timer[v]
<1>1. queue' = Without(queue, u) /\ timer' = [timer EXCEPT ![u] = d]
  BY DEF Postpone
<1>2. queue' \in Seq(Users) /\ Unique(queue') /\ Elements(queue') = Elements(queue) \ {u}
  BY <1>1, WithoutElements DEF QueueSound
<1>3. timer' \in [Users -> Nat] /\ timer'[u] = d /\ \A v \in Users \ {u} : timer'[v] = timer[v]
  BY <1>1 DEF QueueSound
<1>4. ASSUME NEW v \in Users
      PROVE  /\ v \in Elements(queue') <=> conn'[v] = "ready" /\ timer'[v] = 0
             /\ timer'[v] # 0 => conn'[v] = "ready"
  <2>1. CASE v = u
    BY <2>1, <1>2, <1>3
  <2>2. CASE v # u
    BY <2>2, <1>2, <1>3 DEF QueueSound
  <2> QED
    BY <2>1, <2>2
<1>5. Unique(queue)' /\ \A v \in Users : v \in Elements(queue)' <=> v \in Elements(queue')
  BY <1>2 DEF Unique, Elements
<1> QED
  BY <1>2, <1>3, <1>4, <1>5 DEF QueueSound

LEMMA QueueStays ==
    ASSUME QueueSound, UNCHANGED <<conn, queue, timer>>
    PROVE  QueueSound'
BY DEF QueueSound, Unique, Elements

\* A batch that is replaced by one of the right shape.
LEMMA BatchReplaced ==
    ASSUME batch \in [Servers -> Batches], NEW s \in Servers, NEW next \in Batches, Batch(s, next)
    PROVE  /\ batch' \in [Servers -> Batches]
           /\ batch'[s] = next
           /\ \A t \in Servers \ {s} : batch'[t] = batch[t]
BY DEF Batch

LEMMA NoBatchType ==
    NoBatch \in Batches /\ ClaimsOf(NoBatch) = {}
<1>1. <<>> \in Seq(Users) /\ Elements(<<>>) = {}
  BY DEF Elements
<1> QED
  BY <1>1, Delays DEF NoBatch, Batches, ClaimsOf

\* However a synchronization ends, the connection is put off by more than the time of a
\* batch, or not ready any more.
LEMMA RecordedType ==
    ASSUME TypeOK, NEW u \in Users, Recorded(u)
    PROVE  /\ conn' \in [Users -> {"none", "ready", "reconnect"}]
           /\ QueueSound'
           /\ lease' \in [Users -> Leases \cup {None}]
           /\ failures' \in [Users -> 0 .. MaxFailures]
           /\ refused' \subseteq Users
           /\ reader' = reader
           /\ conn'[u] = "ready" => timer'[u] > RunTimeout
           /\ \A v \in Users \ {u} : conn'[v] = conn[v] /\ timer'[v] = timer[v]
<1>1. lease' = [lease EXCEPT ![u] = None] /\ reader' = reader /\ refused' \subseteq Users
  BY DEF Recorded, MarkSyncSuccess, MarkSyncFailure, MarkReconnect, Released, TypeOK, grants
<1>2. lease' \in [Users -> Leases \cup {None}]
  BY <1>1 DEF TypeOK
<1>3. failures[u] \in 0 .. MaxFailures
  BY DEF TypeOK
<1>4. failures' \in [Users -> 0 .. MaxFailures]
  BY <1>3, Delays DEF Recorded, MarkSyncSuccess, MarkSyncFailure, MarkReconnect, TypeOK
<1>5. PICK d \in Nat : Postpone(u, d) /\ (/\ conn' = [conn EXCEPT ![u] = "ready"] /\ d > RunTimeout
                                          \/ /\ conn' = [conn EXCEPT ![u] = "reconnect"] /\ d = 0)
  BY <1>3, Delays DEF Recorded, MarkSyncSuccess, MarkSyncFailure, MarkReconnect, DelayAfter
<1>6. /\ conn' \in [Users -> {"none", "ready", "reconnect"}]
      /\ \A v \in Users \ {u} : conn'[v] = conn[v]
      /\ conn'[u] = "ready" <=> d # 0
      /\ conn'[u] = "ready" => d > RunTimeout
  BY <1>5, Delays DEF TypeOK
<1>7. QueueSound' /\ timer'[u] = d /\ \A v \in Users \ {u} : timer'[v] = timer[v]
  BY <1>5, <1>6, PostponedLeaves DEF TypeOK
<1> QED
  BY <1>1, <1>2, <1>4, <1>6, <1>7
-----------------------------------------------------------------------------
(* Every step keeps the types.                                             *)

LEMMA SpendType ==
    ASSUME left \in [Kinds -> Nat], NEW kind \in {"page", "connect", "read", "fault"}, Spend(kind)
    PROVE  left' \in [Kinds -> Nat]
<1>1. kind \in Kinds /\ left[kind] \in Nat \ {0} /\ left' = [left EXCEPT ![kind] = left[kind] - 1]
  BY LimitAssumption DEF Spend
<1> QED
  BY <1>1

\* A claim, a lease: the connection stays ready and is put off.
LEMMA ReadyPostponed ==
    ASSUME TypeOK, NEW u \in Users, NEW d \in Nat \ {0}, Postpone(u, d), conn[u] = "ready", conn' = conn
    PROVE  QueueSound' /\ timer'[u] = d /\ \A v \in Users \ {u} : timer'[v] = timer[v]
BY PostponedLeaves DEF TypeOK

LEMMA AcquireType ==
    ASSUME TypeOK, NEW u \in Users, NEW by \in Servers \cup {Page}, Acquire(u, by), conn' = conn
    PROVE  /\ QueueSound'
           /\ lease' \in [Users -> Leases \cup {None}]
           /\ timer'[u] = SyncLease /\ \A v \in Users \ {u} : timer'[v] = timer[v]
<1>1. SyncLease \in Nat \ {0} /\ SyncLease \in 1 .. SyncLease
  BY Delays
<1>2. [by |-> by, left |-> SyncLease] \in Leases
  BY <1>1 DEF Leases
<1> QED
  BY <1>1, <1>2, ReadyPostponed DEF Acquire, TypeOK

LEMMA QueryDueType ==
    ASSUME TypeOK, NEW s \in Servers, QueryDue(s)
    PROVE  /\ TypeOK'
           /\ \E c \in Batches : Batch(s, c) /\ ClaimsOf(c) = {} /\ c.pc = "claim"
<1>1. PICK due : due = Take(queue, ClaimLimit * QueryFactor)
  OBVIOUS
<1>2. PICK todo \in Orders({u \in Elements(due) : lease[u] = None}) :
         Batch(s, [NoBatch EXCEPT !.pc = "claim", !.todo = todo])
  BY <1>1 DEF QueryDue
<1>3. ClaimLimit * QueryFactor \in Nat
  BY LimitAssumption
<1>4. due \in Seq(Users) /\ Elements(due) \subseteq Users
  BY <1>1, <1>3, TakenElements, ElementsOfSeq DEF TypeOK, QueueSound
<1>5. IsFiniteSet({u \in Elements(due) : lease[u] = None})
  BY <1>4, UsersAssumption, FS_Subset
<1>6. todo \in Seq(Users)
  BY <1>2, <1>4, <1>5, OrderedElements
<1>7. PICK c : c = [NoBatch EXCEPT !.pc = "claim", !.todo = todo]
  OBVIOUS
<1>8. c \in Batches /\ ClaimsOf(c) = {} /\ c.pc = "claim"
  <2>1. c = [pc |-> "claim", todo |-> todo, claimed |-> <<>>, at |-> None, age |-> 0, tried |-> FALSE, again |-> {}]
    BY <1>7 DEF NoBatch
  <2>2. <<>> \in Seq(Users) /\ Elements(<<>>) = {}
    BY DEF Elements
  <2>3. c \in Batches
    BY <2>1, <2>2, <1>6, Delays DEF Batches
  <2>4. c.claimed = <<>> /\ c.pc = "claim" /\ c.at = None
    BY <2>1
  <2> QED
    BY <2>2, <2>3, <2>4 DEF ClaimsOf
<1>9. batch' \in [Servers -> Batches]
  BY <1>2, <1>7, <1>8, BatchReplaced DEF TypeOK
<1>10. QueueSound'
  BY QueueStays DEF QueryDue, TypeOK
<1> QED
  BY <1>2, <1>7, <1>8, <1>9, <1>10 DEF QueryDue, TypeOK, grants

\* The parts of a batch that is claiming, running or synchronizing.
LEMMA BatchParts ==
    ASSUME TypeOK, NEW s \in Servers
    PROVE  /\ batch[s] \in Batches
           /\ batch[s].todo \in Seq(Users) /\ batch[s].claimed \in Seq(Users)
           /\ batch[s].at \in Users \cup {None} /\ batch[s].age \in 0 .. RunTimeout
           /\ batch[s].again \subseteq Users
           /\ batch[s].todo # <<>> =>
                 /\ Head(batch[s].todo) \in Users /\ Tail(batch[s].todo) \in Seq(Users)
                 /\ Elements(batch[s].todo) = Elements(Tail(batch[s].todo)) \cup {Head(batch[s].todo)}
<1>1. batch[s] \in Batches
  BY DEF TypeOK
<1> QED
  BY <1>1, TailElements DEF Batches

\* A claim takes one connection that is due, or passes it over.
LEMMA ClaimType ==
    ASSUME TypeOK, NEW s \in Servers, Claim(s)
    PROVE  /\ TypeOK'
           /\ batch[s].pc = "claim" /\ UNCHANGED conn
           /\ \E c \in Batches :
                 /\ Batch(s, c) /\ c.pc = "claim" /\ c.age = batch[s].age /\ c.again = batch[s].again
                 /\ \/ ClaimsOf(c) = ClaimsOf(batch[s]) /\ UNCHANGED timer
                    \/ \E u \in Users :
                          /\ ClaimsOf(c) = ClaimsOf(batch[s]) \cup {u}
                          /\ u \in Elements(queue)
                          /\ timer'[u] = ClaimLease - c.age
                          /\ \A v \in Users \ {u} : timer'[v] = timer[v]
<1>1. PICK b : b = batch[s]
  OBVIOUS
<1>2. PICK u : u = Head(b.todo)
  OBVIOUS
<1>3. b \in Batches /\ b.claimed \in Seq(Users) /\ b.age \in 0 .. RunTimeout /\ b.pc = "claim"
      /\ u \in Users /\ Tail(b.todo) \in Seq(Users)
  BY <1>1, <1>2, BatchParts DEF Claim
<1>4. PICK rest : rest = [b EXCEPT !.todo = Tail(b.todo)]
  OBVIOUS
<1>5. rest \in Batches /\ rest.pc = "claim" /\ rest.age = b.age /\ rest.again = b.again
      /\ rest.claimed = b.claimed /\ rest.at = b.at
  BY <1>3, <1>4 DEF Batches
<1>6. CASE Claimable(u) /\ Postpone(u, ClaimLease - b.age) /\ Batch(s, [rest EXCEPT !.claimed = Append(rest.claimed, u)])
  <2>1. PICK c : c = [rest EXCEPT !.claimed = Append(rest.claimed, u)]
    OBVIOUS
  <2>2. Append(rest.claimed, u) \in Seq(Users) /\ Elements(Append(rest.claimed, u)) = Elements(b.claimed) \cup {u}
    BY <1>3, <1>5, AppendedElements
  <2>3. c \in Batches /\ c.pc = "claim" /\ c.age = b.age /\ c.again = b.again
        /\ c.claimed = Append(rest.claimed, u) /\ c.at = b.at
    BY <2>1, <2>2, <1>5 DEF Batches
  <2>4. ClaimsOf(c) = ClaimsOf(b) \cup {u}
    BY <2>2, <2>3, <1>3 DEF ClaimsOf
  <2>5. ClaimLease - b.age \in Nat \ {0}
    BY <1>3, Delays
  <2>6. conn[u] = "ready" /\ u \in Elements(queue) /\ conn' = conn
    BY <1>6 DEF Claimable, Claim
  <2>7. QueueSound' /\ timer'[u] = ClaimLease - b.age /\ \A v \in Users \ {u} : timer'[v] = timer[v]
    BY <2>5, <2>6, <1>3, <1>6, ReadyPostponed
  <2>8. batch' \in [Servers -> Batches]
    BY <2>1, <2>3, <1>6, BatchReplaced DEF TypeOK
  <2>9. TypeOK'
    BY <2>7, <2>8 DEF TypeOK, Claim, grants
  <2> QED
    BY <2>1, <2>3, <2>4, <2>6, <2>7, <2>9, <1>1, <1>3, <1>6
<1>7. CASE Batch(s, rest) /\ UNCHANGED <<queue, timer>>
  <2>1. ClaimsOf(rest) = ClaimsOf(b)
    BY <1>3, <1>5 DEF ClaimsOf
  <2>2. batch' \in [Servers -> Batches]
    BY <1>5, <1>7, BatchReplaced DEF TypeOK
  <2>3. QueueSound'
    BY <1>7, QueueStays DEF TypeOK, Claim
  <2>4. TypeOK'
    BY <2>2, <2>3 DEF TypeOK, Claim, grants
  <2> QED
    BY <2>1, <2>4, <1>1, <1>3, <1>5, <1>7 DEF Claim
<1> QED
  BY <1>1, <1>2, <1>4, <1>6, <1>7 DEF Claim

LEMMA ClaimsDoneType ==
    ASSUME TypeOK, NEW s \in Servers, ClaimsDone(s)
    PROVE  /\ TypeOK'
           /\ \E c \in Batches : /\ Batch(s, c) /\ c.pc = "run"
                                 /\ c.age = batch[s].age /\ c.again = batch[s].again
                                 /\ ClaimsOf(c) = ClaimsOf(batch[s])
<1>1. PICK b : b = batch[s]
  OBVIOUS
<1>2. b \in Batches /\ b.claimed \in Seq(Users) /\ b.pc = "claim"
  BY <1>1, BatchParts DEF ClaimsDone
<1>3. PICK c : c = [b EXCEPT !.pc = "run", !.todo = b.claimed, !.claimed = <<>>]
  OBVIOUS
<1>4. Batch(s, c)
  BY <1>1, <1>3 DEF ClaimsDone
<1>5. <<>> \in Seq(Users) /\ Elements(<<>>) = {}
  BY DEF Elements
<1>6. c \in Batches /\ c.pc = "run" /\ c.age = b.age /\ c.again = b.again /\ c.todo = b.claimed
      /\ c.claimed = <<>> /\ c.at = b.at
  BY <1>2, <1>3, <1>5 DEF Batches
<1>7. ClaimsOf(c) = ClaimsOf(b)
  BY <1>2, <1>5, <1>6 DEF ClaimsOf
<1>8. batch' \in [Servers -> Batches] /\ QueueSound'
  BY <1>4, <1>6, BatchReplaced, QueueStays DEF ClaimsDone, TypeOK
<1> QED
  BY <1>1, <1>4, <1>6, <1>7, <1>8 DEF ClaimsDone, TypeOK, grants

\* An attempt puts off the connection it synchronizes, or passes it over.
LEMMA AttemptType ==
    ASSUME TypeOK, NEW s \in Servers, Attempt(s)
    PROVE  /\ TypeOK'
           /\ UNCHANGED conn
           /\ \A v \in Users : timer'[v] = timer[v] \/ timer'[v] > RunTimeout
           /\ \E c \in Batches : /\ Batch(s, c) /\ c.pc # "idle"
                                 /\ c.age = batch[s].age /\ c.again = batch[s].again
                                 /\ ClaimsOf(c) \subseteq ClaimsOf(batch[s])
<1>1. PICK b : b = batch[s]
  OBVIOUS
<1>2. PICK u : u = Head(b.todo)
  OBVIOUS
<1>3. b \in Batches /\ b.claimed \in Seq(Users) /\ b.pc = "run" /\ u \in Users /\ Tail(b.todo) \in Seq(Users)
      /\ Elements(b.todo) = Elements(Tail(b.todo)) \cup {u}
  BY <1>1, <1>2, BatchParts DEF Attempt
<1>4. PICK rest : rest = [b EXCEPT !.todo = Tail(b.todo), !.tried = TRUE]
  OBVIOUS
<1>5. rest \in Batches /\ rest.pc = "run" /\ rest.age = b.age /\ rest.again = b.again
      /\ rest.claimed = b.claimed /\ rest.at = b.at /\ rest.todo = Tail(b.todo)
  BY <1>3, <1>4 DEF Batches
<1>6. CASE Acquire(u, s) /\ Batch(s, [rest EXCEPT !.pc = "sync", !.at = u])
  <2>1. PICK c : c = [rest EXCEPT !.pc = "sync", !.at = u]
    OBVIOUS
  <2>2. c \in Batches /\ c.pc = "sync" /\ c.age = b.age /\ c.again = b.again
        /\ c.claimed = b.claimed /\ c.at = u /\ c.todo = Tail(b.todo)
    BY <2>1, <1>3, <1>5, UsersAssumption DEF Batches
  <2>3. ClaimsOf(c) \subseteq ClaimsOf(b)
    BY <2>2, <1>3 DEF ClaimsOf
  <2>4. conn' = conn
    BY DEF Attempt
  <2>5. QueueSound' /\ lease' \in [Users -> Leases \cup {None}] /\ timer'[u] = SyncLease
        /\ \A v \in Users \ {u} : timer'[v] = timer[v]
    BY <2>4, <1>3, <1>6, AcquireType
  <2>6. batch' \in [Servers -> Batches]
    BY <2>1, <2>2, <1>6, BatchReplaced DEF TypeOK
  <2>7. TypeOK'
    BY <2>4, <2>5, <2>6 DEF TypeOK, Attempt, grants
  <2> QED
    BY <2>1, <2>2, <2>3, <2>4, <2>5, <2>7, <1>1, <1>6, Delays
<1>7. CASE Batch(s, rest) /\ UNCHANGED <<queue, timer, lease>>
  <2>1. ClaimsOf(rest) \subseteq ClaimsOf(b)
    BY <1>3, <1>5 DEF ClaimsOf
  <2>2. batch' \in [Servers -> Batches]
    BY <1>5, <1>7, BatchReplaced DEF TypeOK
  <2>3. QueueSound'
    BY <1>7, QueueStays DEF TypeOK, Attempt
  <2>4. TypeOK'
    BY <2>2, <2>3, <1>7 DEF TypeOK, Attempt, grants
  <2> QED
    BY <2>1, <2>4, <1>1, <1>5, <1>7 DEF Attempt
<1> QED
  BY <1>1, <1>2, <1>4, <1>6, <1>7 DEF Attempt

LEMMA SyncReturnsType ==
    ASSUME TypeOK, NEW s \in Servers, SyncReturns(s)
    PROVE  /\ TypeOK'
           /\ \A v \in Users : conn'[v] = "ready" =>
                 (conn[v] = "ready" /\ timer'[v] = timer[v]) \/ timer'[v] > RunTimeout
           /\ \E c \in Batches : /\ Batch(s, c) /\ c.pc # "idle"
                                 /\ c.age = batch[s].age /\ c.again = batch[s].again
                                 /\ ClaimsOf(c) \subseteq ClaimsOf(batch[s])
<1>1. PICK b : b = batch[s]
  OBVIOUS
<1>2. b \in Batches /\ b.pc = "sync" /\ b.at \in Users \cup {None}
  BY <1>1, BatchParts DEF SyncReturns
<1>3. PICK c : c = [b EXCEPT !.pc = "run", !.at = None]
  OBVIOUS
<1>4. Batch(s, c)
  BY <1>1, <1>3 DEF SyncReturns
<1>5. c \in Batches /\ c.pc = "run" /\ c.age = b.age /\ c.again = b.again /\ c.claimed = b.claimed
      /\ c.todo = b.todo /\ c.at = None
  BY <1>2, <1>3 DEF Batches
<1>6. ClaimsOf(c) \subseteq ClaimsOf(b)
  BY <1>2, <1>5 DEF ClaimsOf
<1>7. batch' \in [Servers -> Batches]
  BY <1>4, <1>5, BatchReplaced DEF TypeOK
<1>8. CASE Holder(b.at) = s /\ Recorded(b.at)
  <2>1. b.at \in Users
    BY <1>2 DEF Batches
  <2>2. /\ conn' \in [Users -> {"none", "ready", "reconnect"}]
        /\ QueueSound'
        /\ lease' \in [Users -> Leases \cup {None}]
        /\ failures' \in [Users -> 0 .. MaxFailures]
        /\ refused' \subseteq Users
        /\ reader' = reader
        /\ conn'[b.at] = "ready" => timer'[b.at] > RunTimeout
        /\ \A v \in Users \ {b.at} : conn'[v] = conn[v] /\ timer'[v] = timer[v]
    BY <2>1, <1>8, RecordedType
  <2>3. TypeOK'
    BY <2>2, <1>7 DEF TypeOK, SyncReturns
  <2> QED
    BY <2>2, <2>3, <1>1, <1>4, <1>5, <1>6
<1>9. CASE UNCHANGED <<conn, queue, timer, lease, failures, grants>>
  <2>1. QueueSound'
    BY <1>9, QueueStays DEF TypeOK
  <2>2. TypeOK'
    BY <2>1, <1>7, <1>9 DEF TypeOK, SyncReturns, grants
  <2> QED
    BY <2>2, <1>1, <1>4, <1>5, <1>6, <1>9
<1> QED
  BY <1>1, <1>8, <1>9 DEF SyncReturns

LEMMA BatchEndsType ==
    ASSUME TypeOK, NEW s \in Servers, BatchEnds(s)
    PROVE  TypeOK' /\ UNCHANGED <<conn, timer>> /\ Batch(s, NoBatch)
<1>1. batch' \in [Servers -> Batches]
  BY NoBatchType, BatchReplaced DEF BatchEnds, TypeOK
<1>2. QueueSound'
  BY QueueStays DEF BatchEnds, TypeOK
<1> QED
  BY <1>1, <1>2 DEF BatchEnds, TypeOK, grants

LEMMA FaultType ==
    ASSUME TypeOK, NEW s \in Servers, Fault(s)
    PROVE  /\ TypeOK'
           /\ UNCHANGED <<conn, timer>>
           /\ \/ Batch(s, NoBatch)
              \/ \E c \in Batches : /\ Batch(s, c) /\ c.pc # "idle"
                                    /\ c.age = batch[s].age /\ c.again = batch[s].again
                                    /\ ClaimsOf(c) \subseteq ClaimsOf(batch[s])
<1>1. left' \in [Kinds -> Nat]
  BY SpendType DEF Fault, TypeOK
<1>2. QueueSound'
  BY QueueStays DEF Fault, TypeOK
<1>3. PICK b : b = batch[s]
  OBVIOUS
<1>4. PICK c : c = [b EXCEPT !.pc = "run", !.at = None]
  OBVIOUS
<1>5. b \in Batches
  BY <1>3, BatchParts
<1>6. c \in Batches /\ c.pc = "run" /\ c.age = b.age /\ c.again = b.again /\ c.claimed = b.claimed
      /\ c.todo = b.todo /\ c.at = None
  BY <1>4, <1>5 DEF Batches
<1>7. b.pc = "sync" => ClaimsOf(c) \subseteq ClaimsOf(b)
  BY <1>5, <1>6 DEF ClaimsOf
<1>8. Batch(s, NoBatch) \/ (b.pc = "sync" /\ Batch(s, c))
  BY <1>3, <1>4 DEF Fault
<1>9. batch' \in [Servers -> Batches]
  BY <1>6, <1>8, NoBatchType, BatchReplaced DEF TypeOK
<1>10. TypeOK'
  BY <1>1, <1>2, <1>9 DEF Fault, TypeOK, grants
<1> QED
  BY <1>3, <1>6, <1>7, <1>8, <1>10 DEF Fault

LEMMA PageSyncType ==
    ASSUME TypeOK, NEW u \in Users, PageSync(u)
    PROVE  /\ TypeOK' /\ UNCHANGED <<conn, batch>>
           /\ \A v \in Users : timer'[v] = timer[v] \/ timer'[v] > RunTimeout
<1>1. /\ QueueSound'
      /\ lease' \in [Users -> Leases \cup {None}]
      /\ timer'[u] = SyncLease /\ \A v \in Users \ {u} : timer'[v] = timer[v]
  BY AcquireType DEF PageSync
<1>2. left' \in [Kinds -> Nat]
  BY SpendType DEF PageSync, TypeOK
<1> QED
  BY <1>1, <1>2, Delays DEF PageSync, TypeOK, grants

LEMMA PageSyncReturnsType ==
    ASSUME TypeOK, NEW u \in Users, PageSyncReturns(u)
    PROVE  /\ TypeOK' /\ UNCHANGED batch
           /\ \A v \in Users : conn'[v] = "ready" =>
                 (conn[v] = "ready" /\ timer'[v] = timer[v]) \/ timer'[v] > RunTimeout
<1>1. /\ conn' \in [Users -> {"none", "ready", "reconnect"}]
      /\ QueueSound'
      /\ lease' \in [Users -> Leases \cup {None}]
      /\ failures' \in [Users -> 0 .. MaxFailures]
      /\ refused' \subseteq Users
      /\ reader' = reader
      /\ conn'[u] = "ready" => timer'[u] > RunTimeout
      /\ \A v \in Users \ {u} : conn'[v] = conn[v] /\ timer'[v] = timer[v]
  BY RecordedType DEF PageSyncReturns
<1> QED
  BY <1>1 DEF PageSyncReturns, TypeOK

LEMMA NewGrantType ==
    ASSUME TypeOK, NEW u \in Users, NewGrant(u)
    PROVE  refused' \subseteq Users /\ reader' \in [Users -> {"none", "current", "old"}]
BY DEF NewGrant, TypeOK

LEMMA ConnectType ==
    ASSUME TypeOK, NEW u \in Users, Connect(u)
    PROVE  /\ TypeOK'
           /\ \A v \in Users \ {u} : conn'[v] = conn[v] /\ timer'[v] = timer[v]
           /\ \A s \in Servers :
                 /\ batch'[s].pc = batch[s].pc /\ batch'[s].age = batch[s].age
                 /\ batch'[s].again = IF batch[s].pc = "idle" THEN batch[s].again ELSE batch[s].again \cup {u}
                 /\ ClaimsOf(batch'[s]) = ClaimsOf(batch[s])
<1>1. /\ conn' \in [Users -> {"none", "ready", "reconnect"}] /\ conn'[u] = "ready"
      /\ \A v \in Users \ {u} : conn'[v] = conn[v]
      /\ timer' \in [Users -> Nat] /\ timer'[u] = 0
      /\ \A v \in Users \ {u} : timer'[v] = timer[v]
  BY DEF Connect, TypeOK, QueueSound
<1>2. lease' \in [Users -> Leases \cup {None}] /\ failures' \in [Users -> 0 .. MaxFailures]
  <2>1. lease' = [lease EXCEPT ![u] = None] /\ failures' = [failures EXCEPT ![u] = 0]
    BY DEF Connect, Released
  <2> QED
    BY <2>1, Delays DEF TypeOK
<1>3. refused' \subseteq Users /\ reader' \in [Users -> {"none", "current", "old"}]
  BY NewGrantType DEF Connect
<1>4. left' \in [Kinds -> Nat]
  BY SpendType DEF Connect, TypeOK
<1>5. QueueSound'
  <2>1. PICK q : q = Without(queue, u)
    OBVIOUS
  <2>2. q \in Seq(Users) /\ Unique(q) /\ Elements(q) = Elements(queue) \ {u}
    BY <2>1, WithoutElements DEF TypeOK, QueueSound
  <2>3. queue' = Append(q, u)
    BY <2>1 DEF Connect
  <2>4. queue' \in Seq(Users) /\ Unique(queue') /\ Elements(queue') = Elements(queue) \cup {u}
    BY <2>2, <2>3, AppendedElements
  <2>5. ASSUME NEW v \in Users
        PROVE  /\ v \in Elements(queue') <=> conn'[v] = "ready" /\ timer'[v] = 0
               /\ timer'[v] # 0 => conn'[v] = "ready"
    BY <2>4, <1>1 DEF TypeOK, QueueSound
  <2>6. Unique(queue)' /\ \A v \in Users : v \in Elements(queue)' <=> v \in Elements(queue')
    BY <2>4 DEF Unique, Elements
  <2> QED
    BY <2>4, <2>5, <2>6, <1>1 DEF QueueSound
<1>6. ASSUME NEW s \in Servers
      PROVE  /\ batch'[s] \in Batches
             /\ batch'[s].pc = batch[s].pc /\ batch'[s].age = batch[s].age
             /\ batch'[s].again = IF batch[s].pc = "idle" THEN batch[s].again ELSE batch[s].again \cup {u}
             /\ ClaimsOf(batch'[s]) = ClaimsOf(batch[s])
  <2>1. PICK b : b = batch[s]
    OBVIOUS
  <2>2. b \in Batches /\ b.todo \in Seq(Users) /\ b.again \subseteq Users
    BY <2>1, BatchParts
  <2>3. PICK todo : todo = IF b.pc = "claim" THEN Without(b.todo, u) ELSE b.todo
    OBVIOUS
  <2>4. PICK again : again = IF b.pc = "idle" THEN b.again ELSE b.again \cup {u}
    OBVIOUS
  <2>5. PICK c : c = [b EXCEPT !.todo = todo, !.again = again]
    OBVIOUS
  <2>6. batch'[s] = c
    BY <2>1, <2>3, <2>4, <2>5 DEF Connect
  <2>7. todo \in Seq(Users) /\ again \subseteq Users
    BY <2>2, <2>3, <2>4, WithoutElements
  <2>8. c \in Batches /\ c.pc = b.pc /\ c.age = b.age /\ c.again = again /\ c.claimed = b.claimed
        /\ c.at = b.at /\ c.todo = todo
    BY <2>2, <2>5, <2>7 DEF Batches
  <2>9. ClaimsOf(c) = ClaimsOf(b)
    BY <2>3, <2>8 DEF ClaimsOf
  <2> QED
    BY <2>1, <2>4, <2>6, <2>8, <2>9
<1>7. batch' \in [Servers -> Batches]
  BY <1>6 DEF Connect
<1> QED
  BY <1>1, <1>2, <1>3, <1>4, <1>5, <1>6, <1>7 DEF TypeOK

LEMMA DisconnectType ==
    ASSUME TypeOK, NEW u \in Users, Disconnect(u)
    PROVE  /\ TypeOK' /\ UNCHANGED batch /\ conn'[u] = "none"
           /\ \A v \in Users \ {u} : conn'[v] = conn[v] /\ timer'[v] = timer[v]
<1>1. /\ conn' \in [Users -> {"none", "ready", "reconnect"}] /\ conn'[u] = "none"
      /\ \A v \in Users \ {u} : conn'[v] = conn[v]
  BY DEF Disconnect, TypeOK
<1>2. lease' \in [Users -> Leases \cup {None}] /\ failures' \in [Users -> 0 .. MaxFailures]
  BY Delays DEF Disconnect, TypeOK, Released
<1>3. refused' \subseteq Users /\ reader' \in [Users -> {"none", "current", "old"}]
  BY NewGrantType DEF Disconnect
<1>4. left' \in [Kinds -> Nat]
  BY SpendType DEF Disconnect, TypeOK
<1>5. QueueSound' /\ \A v \in Users \ {u} : timer'[v] = timer[v]
  BY <1>1, PostponedLeaves DEF Disconnect, TypeOK
<1> QED
  BY <1>1, <1>2, <1>3, <1>4, <1>5 DEF Disconnect, TypeOK

LEMMA ReadPrivateEventsType ==
    ASSUME TypeOK, NEW u \in Users, ReadPrivateEvents(u)
    PROVE  TypeOK' /\ UNCHANGED <<conn, timer, batch>>
<1>1. left' \in [Kinds -> Nat]
  BY SpendType DEF ReadPrivateEvents, TypeOK
<1>2. QueueSound'
  BY QueueStays DEF ReadPrivateEvents, TypeOK
<1> QED
  BY <1>1, <1>2 DEF ReadPrivateEvents, TypeOK

LEMMA PrivateReadReturnsType ==
    ASSUME TypeOK, NEW u \in Users, PrivateReadReturns(u)
    PROVE  /\ TypeOK' /\ UNCHANGED batch
           /\ \A v \in Users : conn'[v] = "ready" => conn[v] = "ready" /\ timer'[v] = timer[v]
<1>1. reader' \in [Users -> {"none", "current", "old"}]
  BY DEF PrivateReadReturns, TypeOK
<1>2. CASE MarkReconnectRequired(u)
  <2>1. /\ conn' \in [Users -> {"none", "ready", "reconnect"}] /\ conn'[u] # "ready"
        /\ \A v \in Users \ {u} : conn'[v] = conn[v]
    BY <1>2 DEF MarkReconnectRequired, TypeOK
  <2>2. QueueSound' /\ \A v \in Users \ {u} : timer'[v] = timer[v]
    BY <2>1, <1>2, PostponedLeaves DEF MarkReconnectRequired, TypeOK
  <2>3. refused' \subseteq Users
    BY <1>2 DEF MarkReconnectRequired, TypeOK
  <2> QED
    BY <2>1, <2>2, <2>3, <1>1 DEF PrivateReadReturns, TypeOK
<1>3. CASE UNCHANGED <<conn, queue, timer, refused>>
  <2>1. QueueSound'
    BY <1>3, QueueStays DEF TypeOK
  <2> QED
    BY <2>1, <1>1, <1>3 DEF PrivateReadReturns, TypeOK
<1> QED
  BY <1>2, <1>3 DEF PrivateReadReturns

\* Time passes for everybody at once, and what becomes due joins the queue.
LEMMA TickType ==
    ASSUME TypeOK, Tick
    PROVE  /\ TypeOK' /\ UNCHANGED conn
           /\ \A u \in Users : timer[u] # 0 => timer[u] = timer'[u] + 1
           /\ \A s \in Servers :
                 /\ batch'[s].pc = batch[s].pc /\ batch'[s].again = batch[s].again
                 /\ ClaimsOf(batch'[s]) = ClaimsOf(batch[s])
                 /\ batch[s].pc # "idle" => batch[s].age < RunTimeout /\ batch'[s].age = batch[s].age + 1
<1>1. \A u \in Users : timer[u] \in Nat
  BY DEF TypeOK, QueueSound
<1>2. timer' \in [Users -> Nat] /\ \A u \in Users : timer'[u] = IF timer[u] = 0 THEN 0 ELSE timer[u] - 1
  BY <1>1 DEF Tick
<1>3. QueueSound'
  <2>1. PICK S : S = {u \in Users : timer[u] = 1}
    OBVIOUS
  <2>2. PICK order \in Orders(S) : queue' = queue \o order
    BY <2>1 DEF Tick
  <2>3. IsFiniteSet(S) /\ S \subseteq Users
    BY <2>1, UsersAssumption, FS_Subset
  <2>4. order \in Seq(S) /\ Elements(order) = S /\ Unique(order)
    BY <2>2, <2>3, OrderedElements
  <2>5. order \in Seq(Users)
    BY <2>3, <2>4
  <2>6. Elements(queue) \cap S = {}
    BY <2>1 DEF TypeOK, QueueSound
  <2>7. queue' \in Seq(Users) /\ Elements(queue') = Elements(queue) \cup S /\ Unique(queue')
    BY <2>2, <2>4, <2>5, <2>6, JoinedElements DEF TypeOK, QueueSound
  <2>8. ASSUME NEW v \in Users
        PROVE  /\ v \in Elements(queue') <=> conn'[v] = "ready" /\ timer'[v] = 0
               /\ timer'[v] # 0 => conn'[v] = "ready"
    <3>1. timer'[v] = 0 <=> timer[v] = 0 \/ timer[v] = 1
      BY <1>1, <1>2
    <3>2. v \in S <=> timer[v] = 1
      BY <2>1
    <3>3. conn' = conn
      BY DEF Tick
    <3>4. /\ v \in Elements(queue) <=> conn[v] = "ready" /\ timer[v] = 0
          /\ timer[v] # 0 => conn[v] = "ready"
      BY DEF TypeOK, QueueSound
    <3> QED
      BY <2>7, <3>1, <3>2, <3>3, <3>4
  <2>9. Unique(queue)' /\ \A v \in Users : v \in Elements(queue)' <=> v \in Elements(queue')
    BY <2>7 DEF Unique, Elements
  <2> QED
    BY <2>7, <2>8, <2>9, <1>2 DEF QueueSound
<1>4. lease' \in [Users -> Leases \cup {None}]
  <2>1. ASSUME NEW u \in Users
        PROVE  (IF lease[u] = None \/ lease[u].left = 1 THEN None ELSE [lease[u] EXCEPT !.left = @ - 1])
                  \in Leases \cup {None}
    <3>1. lease[u] \in Leases \cup {None}
      BY DEF TypeOK
    <3> QED
      BY <3>1, Delays DEF Leases
  <2> QED
    BY <2>1 DEF Tick
<1>5. ASSUME NEW s \in Servers
      PROVE  /\ batch'[s] \in Batches
             /\ batch'[s].pc = batch[s].pc /\ batch'[s].again = batch[s].again
             /\ ClaimsOf(batch'[s]) = ClaimsOf(batch[s])
             /\ batch[s].pc # "idle" => batch[s].age < RunTimeout /\ batch'[s].age = batch[s].age + 1
  <2>1. PICK b : b = batch[s]
    OBVIOUS
  <2>2. b \in Batches /\ b.age \in 0 .. RunTimeout
    BY <2>1, BatchParts
  <2>3. CASE b.pc = "idle"
    BY <2>1, <2>2, <2>3 DEF Tick
  <2>4. CASE b.pc # "idle"
    <3>1. b.age < RunTimeout
      BY <2>1, <2>4 DEF Tick, InTime
    <3>2. PICK c : c = [b EXCEPT !.age = b.age + 1]
      OBVIOUS
    <3>3. batch'[s] = c
      BY <2>1, <2>4, <3>2 DEF Tick
    <3>4. b.age + 1 \in 0 .. RunTimeout
      BY <2>2, <3>1, Delays
    <3>5. c \in Batches /\ c.pc = b.pc /\ c.again = b.again /\ c.age = b.age + 1 /\ c.claimed = b.claimed
          /\ c.todo = b.todo /\ c.at = b.at
      BY <2>2, <3>2, <3>4 DEF Batches
    <3>6. ClaimsOf(c) = ClaimsOf(b)
      BY <3>5 DEF ClaimsOf
    <3> QED
      BY <2>1, <3>1, <3>3, <3>5, <3>6
  <2> QED
    BY <2>3, <2>4
<1>6. batch' \in [Servers -> Batches]
  BY <1>5 DEF Tick
<1>7. TypeOK'
  BY <1>3, <1>4, <1>6 DEF Tick, TypeOK, grants
<1>8. \A u \in Users : timer[u] # 0 => timer[u] = timer'[u] + 1
  BY <1>1, <1>2
<1> QED
  BY <1>5, <1>7, <1>8 DEF Tick

LEMMA InitType ==
    ASSUME Init
    PROVE  TypeOK /\ ClaimsStayPostponed
<1>1. queue \in Seq(Users) /\ Elements(queue) = Users /\ Unique(queue)
  BY UsersAssumption, OrderedElements DEF Init
<1>2. QueueSound
  BY <1>1 DEF Init, QueueSound
<1>3. \A s \in Servers : batch[s] = NoBatch
  BY DEF Init
<1>4. batch \in [Servers -> Batches]
  BY NoBatchType DEF Init
<1>5. 0 \in 0 .. MaxFailures /\ left \in [Kinds -> Nat]
  BY Delays, LimitAssumption DEF Init
<1>6. TypeOK
  BY <1>2, <1>4, <1>5 DEF Init, TypeOK
<1>7. ClaimsStayPostponed
  BY <1>3, NoBatchType DEF ClaimsStayPostponed, Claims
<1> QED
  BY <1>6, <1>7

LEMMA NextType ==
    ASSUME TypeOK, [Next]_vars
    PROVE  TypeOK'
<1>1. ASSUME NEW s \in Servers, QueryDue(s) \/ Running(s) \/ Fault(s)
      PROVE  TypeOK'
  BY <1>1, QueryDueType, ClaimType, ClaimsDoneType, AttemptType, SyncReturnsType, BatchEndsType, FaultType
     DEF Running
<1>2. ASSUME NEW u \in Active, \/ PageSync(u) \/ PageSyncReturns(u) \/ Connect(u) \/ Disconnect(u)
                               \/ ReadPrivateEvents(u) \/ PrivateReadReturns(u)
      PROVE  TypeOK'
  <2>1. u \in Users
    BY UsersAssumption
  <2> QED
    BY <1>2, <2>1, PageSyncType, PageSyncReturnsType, ConnectType, DisconnectType, ReadPrivateEventsType,
       PrivateReadReturnsType
<1>3. ASSUME Tick PROVE TypeOK'
  BY <1>3, TickType
<1>4. ASSUME UNCHANGED vars PROVE TypeOK'
  <2>1. QueueSound'
    BY <1>4, QueueStays DEF TypeOK, vars
  <2> QED
    BY <2>1, <1>4 DEF TypeOK, vars, grants
<1> QED
  BY <1>1, <1>2, <1>3, <1>4 DEF Next

\* TypeOK holds throughout: a connection is queued, once, exactly when it is ready and due,
\* for any users, servers, limits and delays (SaveConnection, ClaimDueConnections,
\* MarkSyncSuccess, MarkSyncFailure, DeleteConnection).
THEOREM ScheduleTyped == Spec => []TypeOK
<1>1. Init => TypeOK
  BY InitType
<1>2. TypeOK /\ [Next]_vars => TypeOK'
  BY NextType
<1> QED
  BY <1>1, <1>2, PTL DEF Spec

-----------------------------------------------------------------------------
(* Batches keep apart.                                                     *)

\* While a batch goes on, a step that puts nothing of what it has claimed off to sooner keeps
\* its claims postponed; so does one that only makes the batch forget claims.
LEMMA NothingSooner ==
    ASSUME TypeOK, ClaimsStayPostponed, TypeOK', NEW s \in Servers,
           \A v \in Users : conn'[v] = "ready" =>
              (conn[v] = "ready" /\ timer'[v] = timer[v]) \/ timer'[v] > RunTimeout,
           \/ batch'[s] = NoBatch
           \/ /\ batch'[s].pc = batch[s].pc \/ batch'[s].pc # "idle"
              /\ batch'[s].age = batch[s].age /\ batch'[s].again = batch[s].again
              /\ ClaimsOf(batch'[s]) \subseteq ClaimsOf(batch[s])
    PROVE  /\ batch'[s].pc = "idle" => ClaimsOf(batch'[s]) = {}
           /\ \A u \in ClaimsOf(batch'[s]) \ batch'[s].again :
                 conn'[u] = "ready" => batch'[s].age + timer'[u] > RunTimeout
<1>1. CASE batch'[s] = NoBatch
  BY <1>1, NoBatchType
<1>2. CASE /\ batch'[s].pc = batch[s].pc \/ batch'[s].pc # "idle"
           /\ batch'[s].age = batch[s].age /\ batch'[s].again = batch[s].again
           /\ ClaimsOf(batch'[s]) \subseteq ClaimsOf(batch[s])
  <2>1. batch'[s].pc = "idle" => ClaimsOf(batch'[s]) = {}
    BY <1>2 DEF ClaimsStayPostponed, Claims
  <2>2. ASSUME NEW u \in ClaimsOf(batch'[s]) \ batch'[s].again, conn'[u] = "ready"
        PROVE  batch'[s].age + timer'[u] > RunTimeout
    <3>1. u \in ClaimsOf(batch[s]) \ batch[s].again
      BY <1>2, <2>2
    <3>2. u \in Users
      BY <3>1, BatchParts, ElementsOfSeq DEF ClaimsOf
    <3>3. conn[u] = "ready" => batch[s].age + timer[u] > RunTimeout
      BY <3>1 DEF ClaimsStayPostponed, Claims
    <3>4. timer'[u] \in Nat /\ batch[s].age \in Nat /\ RunTimeout \in Nat
      BY <3>2, BatchParts, Delays DEF TypeOK, QueueSound
    <3> QED
      BY <1>2, <2>2, <3>2, <3>3, <3>4
  <2> QED
    BY <2>1, <2>2
<1> QED
  BY <1>1, <1>2

\* What a batch has claimed in good faith is not due, so no other batch claims it.
LEMMA ClaimedIsNotDue ==
    ASSUME TypeOK, ClaimsStayPostponed, NEW s \in Servers, NEW u \in ClaimsOf(batch[s]) \ batch[s].again
    PROVE  u \in Users /\ u \notin Elements(queue)
<1>1. u \in Users
  BY BatchParts, ElementsOfSeq DEF ClaimsOf
<1>2. conn[u] = "ready" => batch[s].age + timer[u] > RunTimeout
  BY DEF ClaimsStayPostponed, Claims
<1>3. batch[s].age \in 0 .. RunTimeout /\ RunTimeout \in Nat
  BY BatchParts, Delays
<1> QED
  BY <1>1, <1>2, <1>3 DEF TypeOK, QueueSound

LEMMA PostponedByStep ==
    ASSUME TypeOK, ClaimsStayPostponed, [Next]_vars
    PROVE  ClaimsStayPostponed'
<1> DEFINE Kept(s) ==
       /\ batch'[s].pc = "idle" => ClaimsOf(batch'[s]) = {}
       /\ \A u \in ClaimsOf(batch'[s]) \ batch'[s].again :
             conn'[u] = "ready" => batch'[s].age + timer'[u] > RunTimeout
<1>0. TypeOK'
  BY NextType
<1> SUFFICES ASSUME NEW t \in Servers PROVE Kept(t)
  BY DEF ClaimsStayPostponed, Claims
<1> HIDE DEF Kept
<1>1. ASSUME NEW s \in Servers, QueryDue(s) PROVE Kept(t)
  <2>1. PICK c \in Batches : Batch(s, c) /\ ClaimsOf(c) = {} /\ c.pc = "claim"
    BY <1>1, QueryDueType
  <2>2. UNCHANGED <<conn, timer>> /\ batch'[s] = c /\ \A r \in Servers \ {s} : batch'[r] = batch[r]
    BY <1>1, <2>1, BatchReplaced DEF QueryDue, TypeOK
  <2>3. CASE t = s
    BY <2>1, <2>2, <2>3 DEF Kept
  <2>4. CASE t # s
    BY <2>2, <2>4, <1>0, NothingSooner DEF Kept
  <2> QED
    BY <2>3, <2>4
<1>2. ASSUME NEW s \in Servers, Claim(s) PROVE Kept(t)
  <2>1. PICK c \in Batches :
                 /\ Batch(s, c) /\ c.pc = "claim" /\ c.age = batch[s].age /\ c.again = batch[s].again
                 /\ \/ ClaimsOf(c) = ClaimsOf(batch[s]) /\ UNCHANGED timer
                    \/ \E u \in Users :
                          /\ ClaimsOf(c) = ClaimsOf(batch[s]) \cup {u}
                          /\ u \in Elements(queue)
                          /\ timer'[u] = ClaimLease - c.age
                          /\ \A v \in Users \ {u} : timer'[v] = timer[v]
    BY <1>2, ClaimType
  <2>2. UNCHANGED conn /\ batch'[s] = c /\ \A r \in Servers \ {s} : batch'[r] = batch[r]
    BY <1>2, <2>1, ClaimType, BatchReplaced DEF TypeOK
  <2>3. CASE ClaimsOf(c) = ClaimsOf(batch[s]) /\ UNCHANGED timer
    <3>1. CASE t = s
      BY <2>1, <2>2, <2>3, <3>1, <1>0, NothingSooner DEF Kept
    <3>2. CASE t # s
      BY <2>2, <2>3, <3>2, <1>0, NothingSooner DEF Kept
    <3> QED
      BY <3>1, <3>2
  <2>4. ASSUME NEW u \in Users, ClaimsOf(c) = ClaimsOf(batch[s]) \cup {u}, u \in Elements(queue),
               timer'[u] = ClaimLease - c.age, \A v \in Users \ {u} : timer'[v] = timer[v]
        PROVE  Kept(t)
    <3>1. batch[s].pc = "claim"
      BY <1>2, ClaimType
    <3>2. ClaimsOf(batch'[t]) \subseteq ClaimsOf(batch[t]) \cup (IF t = s THEN {u} ELSE {})
          /\ batch'[t].age = batch[t].age /\ batch'[t].again = batch[t].again /\ batch'[t].pc = batch[t].pc
      BY <2>1, <2>2, <2>4, <3>1
    <3>3. batch'[t].pc = "idle" => ClaimsOf(batch'[t]) = {}
      BY <3>1, <3>2 DEF ClaimsStayPostponed, Claims
    <3>4. ASSUME NEW v \in ClaimsOf(batch'[t]) \ batch'[t].again, conn'[v] = "ready"
          PROVE  batch'[t].age + timer'[v] > RunTimeout
      <4>1. CASE v \in ClaimsOf(batch[t])
        <5>1. v \in ClaimsOf(batch[t]) \ batch[t].again
          BY <4>1, <3>2, <3>4
        <5>2. v \in Users /\ v # u
          BY <5>1, <2>4, ClaimedIsNotDue
        <5>3. batch[t].age + timer[v] > RunTimeout
          BY <5>1, <3>4, <2>2 DEF ClaimsStayPostponed, Claims
        <5> QED
          BY <5>2, <5>3, <2>4, <3>2
      <4>2. CASE t = s /\ v = u
        <5>1. batch[s].age \in 0 .. RunTimeout
          BY BatchParts
        <5> QED
          BY <5>1, <4>2, <2>1, <2>4, <3>2, Delays
      <4> QED
        BY <4>1, <4>2, <3>2, <3>4
    <3> QED
      BY <3>3, <3>4 DEF Kept
  <2> QED
    BY <2>1, <2>3, <2>4
<1>3. ASSUME NEW s \in Servers, NEW c \in Batches, Batch(s, c), c.pc # "idle",
             c.age = batch[s].age, c.again = batch[s].again, ClaimsOf(c) \subseteq ClaimsOf(batch[s]),
             \A v \in Users : conn'[v] = "ready" =>
                (conn[v] = "ready" /\ timer'[v] = timer[v]) \/ timer'[v] > RunTimeout
      PROVE  Kept(t)
  <2>1. batch'[s] = c /\ \A r \in Servers \ {s} : batch'[r] = batch[r]
    BY <1>3, BatchReplaced DEF TypeOK
  <2>2. CASE t = s
    BY <2>1, <2>2, <1>0, <1>3, NothingSooner DEF Kept
  <2>3. CASE t # s
    BY <2>1, <2>3, <1>0, <1>3, NothingSooner DEF Kept
  <2> QED
    BY <2>2, <2>3
<1>4. ASSUME NEW s \in Servers, Batch(s, NoBatch), UNCHANGED <<conn, timer>> PROVE Kept(t)
  <2>1. batch'[s] = NoBatch /\ \A r \in Servers \ {s} : batch'[r] = batch[r]
    BY <1>4, NoBatchType, BatchReplaced DEF TypeOK
  <2>2. CASE t = s
    BY <2>1, <2>2, <1>0, <1>4, NothingSooner DEF Kept
  <2>3. CASE t # s
    BY <2>1, <2>3, <1>0, <1>4, NothingSooner DEF Kept
  <2> QED
    BY <2>2, <2>3
<1>5. ASSUME NEW s \in Servers, ClaimsDone(s) \/ Attempt(s) \/ SyncReturns(s) \/ BatchEnds(s) \/ Fault(s)
      PROVE  Kept(t)
  <2>1. CASE ClaimsDone(s)
    BY <2>1, <1>3, ClaimsDoneType DEF ClaimsDone
  <2>2. CASE Attempt(s)
    BY <2>2, <1>3, AttemptType
  <2>3. CASE SyncReturns(s)
    BY <2>3, <1>3, SyncReturnsType
  <2>4. CASE BatchEnds(s)
    BY <2>4, <1>4, BatchEndsType
  <2>5. CASE Fault(s)
    BY <2>5, <1>3, <1>4, FaultType
  <2> QED
    BY <1>5, <2>1, <2>2, <2>3, <2>4, <2>5
<1>6. ASSUME UNCHANGED batch,
             \A v \in Users : conn'[v] = "ready" =>
                (conn[v] = "ready" /\ timer'[v] = timer[v]) \/ timer'[v] > RunTimeout
      PROVE  Kept(t)
  BY <1>0, <1>6, NothingSooner DEF Kept
<1>7. ASSUME NEW u \in Users, Connect(u) PROVE Kept(t)
  <2>1. /\ batch'[t].pc = batch[t].pc /\ batch'[t].age = batch[t].age
        /\ batch'[t].again = IF batch[t].pc = "idle" THEN batch[t].again ELSE batch[t].again \cup {u}
        /\ ClaimsOf(batch'[t]) = ClaimsOf(batch[t])
        /\ \A v \in Users \ {u} : conn'[v] = conn[v] /\ timer'[v] = timer[v]
    BY <1>7, ConnectType
  <2>2. batch[t].pc = "idle" => ClaimsOf(batch[t]) = {}
    BY DEF ClaimsStayPostponed, Claims
  <2>3. ASSUME NEW v \in ClaimsOf(batch'[t]) \ batch'[t].again, conn'[v] = "ready"
        PROVE  batch'[t].age + timer'[v] > RunTimeout
    <3>1. v \in ClaimsOf(batch[t]) \ batch[t].again /\ v # u
      BY <2>1, <2>2, <2>3
    <3>2. v \in Users
      BY <3>1, ClaimedIsNotDue
    <3> QED
      BY <2>1, <2>3, <3>1, <3>2 DEF ClaimsStayPostponed, Claims
  <2> QED
    BY <2>1, <2>2, <2>3 DEF Kept
<1>8. ASSUME NEW u \in Active, \/ PageSync(u) \/ PageSyncReturns(u) \/ Disconnect(u)
                               \/ ReadPrivateEvents(u) \/ PrivateReadReturns(u)
      PROVE  Kept(t)
  <2>0. u \in Users
    BY UsersAssumption
  <2>1. CASE PageSync(u)
    BY <2>0, <2>1, <1>6, PageSyncType
  <2>2. CASE PageSyncReturns(u)
    BY <2>0, <2>2, <1>6, PageSyncReturnsType
  <2>3. CASE Disconnect(u)
    <3>1. UNCHANGED batch /\ conn'[u] = "none" /\ \A v \in Users \ {u} : conn'[v] = conn[v] /\ timer'[v] = timer[v]
      BY <2>0, <2>3, DisconnectType
    <3> QED
      BY <3>1, <1>6
  <2>4. CASE ReadPrivateEvents(u)
    BY <2>0, <2>4, <1>6, ReadPrivateEventsType
  <2>5. CASE PrivateReadReturns(u)
    BY <2>0, <2>5, <1>6, PrivateReadReturnsType
  <2> QED
    BY <1>8, <2>1, <2>2, <2>3, <2>4, <2>5
<1>9. ASSUME Tick PROVE Kept(t)
  <2>1. /\ UNCHANGED conn
        /\ \A u \in Users : timer[u] # 0 => timer[u] = timer'[u] + 1
        /\ batch'[t].pc = batch[t].pc /\ batch'[t].again = batch[t].again
        /\ ClaimsOf(batch'[t]) = ClaimsOf(batch[t])
        /\ batch[t].pc # "idle" => batch[t].age < RunTimeout /\ batch'[t].age = batch[t].age + 1
    BY <1>9, TickType
  <2>2. batch[t].pc = "idle" => ClaimsOf(batch[t]) = {}
    BY DEF ClaimsStayPostponed, Claims
  <2>3. ASSUME NEW v \in ClaimsOf(batch'[t]) \ batch'[t].again, conn'[v] = "ready"
        PROVE  batch'[t].age + timer'[v] > RunTimeout
    <3>1. v \in ClaimsOf(batch[t]) \ batch[t].again /\ batch[t].pc # "idle"
      BY <2>1, <2>2, <2>3
    <3>2. v \in Users
      BY <3>1, ClaimedIsNotDue
    <3>3. batch[t].age + timer[v] > RunTimeout
      BY <2>1, <2>3, <3>1 DEF ClaimsStayPostponed, Claims
    <3>4. batch[t].age \in Nat /\ timer[v] \in Nat /\ timer'[v] \in Nat /\ RunTimeout \in Nat
      BY <1>0, <3>2, BatchParts, Delays DEF TypeOK, QueueSound
    <3>5. timer[v] # 0
      BY <2>1, <3>1, <3>3, <3>4
    <3> QED
      BY <2>1, <3>1, <3>2, <3>3, <3>4, <3>5
  <2> QED
    BY <2>1, <2>2, <2>3 DEF Kept
<1>10. ASSUME UNCHANGED vars PROVE Kept(t)
  BY <1>10, <1>6 DEF vars
<1> QED
  BY <1>1, <1>2, <1>5, <1>7, <1>8, <1>9, <1>10, UsersAssumption DEF Next, Running

\* ClaimsStayPostponed holds throughout: no connection that a running batch has claimed falls
\* due again before the batch is over, unless it is connected anew (ClaimDueConnections, RunDue).
THEOREM ClaimsPostponed == Spec => []ClaimsStayPostponed
<1>1. Init => TypeOK /\ ClaimsStayPostponed
  BY InitType
<1>2. TypeOK /\ ClaimsStayPostponed /\ [Next]_vars => TypeOK' /\ ClaimsStayPostponed'
  BY NextType, PostponedByStep
<1> QED
  BY <1>1, <1>2, PTL DEF Spec

\* Batches that only forget claims stay apart.
LEMMA ForgettingKeepsApart ==
    ASSUME ClaimedByOne,
           \A s \in Servers :
              \/ ClaimsOf(batch'[s]) = {}
              \/ ClaimsOf(batch'[s]) \subseteq ClaimsOf(batch[s]) /\ batch[s].again \subseteq batch'[s].again
    PROVE  ClaimedByOne'
BY DEF ClaimedByOne, Claims

\* So does a batch that claims what no other one has claimed in good faith.
LEMMA ClaimKeepsApart ==
    ASSUME TypeOK, ClaimsStayPostponed, ClaimedByOne, NEW s \in Servers, Claim(s)
    PROVE  ClaimedByOne'
<1>1. PICK c \in Batches :
                 /\ Batch(s, c) /\ c.pc = "claim" /\ c.age = batch[s].age /\ c.again = batch[s].again
                 /\ \/ ClaimsOf(c) = ClaimsOf(batch[s]) /\ UNCHANGED timer
                    \/ \E u \in Users :
                          /\ ClaimsOf(c) = ClaimsOf(batch[s]) \cup {u}
                          /\ u \in Elements(queue)
                          /\ timer'[u] = ClaimLease - c.age
                          /\ \A v \in Users \ {u} : timer'[v] = timer[v]
  BY ClaimType
<1>2. batch'[s] = c /\ \A r \in Servers \ {s} : batch'[r] = batch[r]
  BY <1>1, BatchReplaced DEF TypeOK
<1>3. CASE ClaimsOf(c) = ClaimsOf(batch[s])
  BY <1>1, <1>2, <1>3, ForgettingKeepsApart
<1>4. ASSUME NEW u \in Users, ClaimsOf(c) = ClaimsOf(batch[s]) \cup {u}, u \in Elements(queue)
      PROVE  ClaimedByOne'
  <2>1. \A r \in Servers : u \notin ClaimsOf(batch[r]) \ batch[r].again
    BY <1>4, ClaimedIsNotDue
  <2>2. \A r \in Servers : /\ ClaimsOf(batch'[r]) \subseteq ClaimsOf(batch[r]) \cup (IF r = s THEN {u} ELSE {})
                           /\ batch'[r].again = batch[r].again
    BY <1>1, <1>2, <1>4
  <2>3. ASSUME NEW r \in Servers, NEW t \in Servers, r # t,
               NEW v \in ClaimsOf(batch'[r]) \cap ClaimsOf(batch'[t])
        PROVE  v \in batch'[r].again \cup batch'[t].again
    <3>1. CASE v \in ClaimsOf(batch[r]) \cap ClaimsOf(batch[t])
      BY <2>2, <2>3, <3>1 DEF ClaimedByOne, Claims
    <3>2. CASE v = u
      BY <2>1, <2>2, <2>3, <3>2
    <3> QED
      BY <2>2, <2>3, <3>1, <3>2
  <2> QED
    BY <2>3 DEF ClaimedByOne, Claims
<1> QED
  BY <1>1, <1>3, <1>4

LEMMA ApartAfterStep ==
    ASSUME TypeOK, ClaimsStayPostponed, ClaimedByOne, [Next]_vars
    PROVE  ClaimedByOne'
<1>1. ASSUME NEW s \in Servers, NEW c \in Batches, Batch(s, c),
             \/ ClaimsOf(c) = {}
             \/ ClaimsOf(c) \subseteq ClaimsOf(batch[s]) /\ c.again = batch[s].again
      PROVE  ClaimedByOne'
  <2>1. batch'[s] = c /\ \A r \in Servers \ {s} : batch'[r] = batch[r]
    BY <1>1, BatchReplaced DEF TypeOK
  <2> QED
    BY <1>1, <2>1, ForgettingKeepsApart
<1>2. ASSUME NEW s \in Servers, QueryDue(s) \/ Running(s) \/ Fault(s) PROVE ClaimedByOne'
  <2>1. CASE QueryDue(s)
    BY <2>1, <1>1, QueryDueType
  <2>2. CASE Claim(s)
    BY <2>2, ClaimKeepsApart
  <2>3. CASE ClaimsDone(s)
    BY <2>3, <1>1, ClaimsDoneType
  <2>4. CASE Attempt(s)
    BY <2>4, <1>1, AttemptType
  <2>5. CASE SyncReturns(s)
    BY <2>5, <1>1, SyncReturnsType
  <2>6. CASE BatchEnds(s)
    BY <2>6, <1>1, BatchEndsType, NoBatchType
  <2>7. CASE Fault(s)
    BY <2>7, <1>1, FaultType, NoBatchType
  <2> QED
    BY <1>2, <2>1, <2>2, <2>3, <2>4, <2>5, <2>6, <2>7 DEF Running
<1>3. ASSUME UNCHANGED batch PROVE ClaimedByOne'
  BY <1>3 DEF ClaimedByOne, Claims
<1>4. ASSUME NEW u \in Users, Connect(u) PROVE ClaimedByOne'
  <2>1. \A s \in Servers : ClaimsOf(batch'[s]) = ClaimsOf(batch[s]) /\ batch[s].again \subseteq batch'[s].again
    BY <1>4, ConnectType
  <2> QED
    BY <2>1, ForgettingKeepsApart
<1>5. ASSUME Tick PROVE ClaimedByOne'
  <2>1. \A s \in Servers : ClaimsOf(batch'[s]) = ClaimsOf(batch[s]) /\ batch[s].again = batch'[s].again
    BY <1>5, TickType
  <2> QED
    BY <2>1, ForgettingKeepsApart
<1>6. ASSUME NEW u \in Active, \/ PageSync(u) \/ PageSyncReturns(u) \/ Disconnect(u)
                               \/ ReadPrivateEvents(u) \/ PrivateReadReturns(u)
      PROVE  ClaimedByOne'
  BY <1>6, <1>3 DEF PageSync, PageSyncReturns, Disconnect, ReadPrivateEvents, PrivateReadReturns
<1> QED
  BY <1>2, <1>3, <1>4, <1>5, <1>6, UsersAssumption DEF Next, vars

\* ClaimedByOne holds throughout: batches of servers that overlap never work on the same
\* connection, for any users, servers, limits and delays longer than a batch
\* (ClaimDueConnections, RunDue).
THEOREM BatchesKeepApart == Spec => []ClaimedByOne
<1>1. Init => TypeOK /\ ClaimsStayPostponed /\ ClaimedByOne
  <2>1. ASSUME Init PROVE \A s \in Servers : ClaimsOf(batch[s]) = {}
    BY <2>1, NoBatchType DEF Init
  <2> QED
    BY <2>1, InitType DEF ClaimedByOne, Claims
<1>2. TypeOK /\ ClaimsStayPostponed /\ ClaimedByOne /\ [Next]_vars
         => TypeOK' /\ ClaimsStayPostponed' /\ ClaimedByOne'
  BY NextType, PostponedByStep, ApartAfterStep
<1> QED
  BY <1>1, <1>2, PTL DEF Spec

=============================================================================
