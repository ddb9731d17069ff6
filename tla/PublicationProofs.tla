------------------------- MODULE PublicationProofs -------------------------
(***************************************************************************)
(* Proofs about Publication: the types, the gates, that a committed cache  *)
(* is what its cursor stands for, that what is visible or answered is      *)
(* current, and that a disconnection erases what it says.                  *)
(***************************************************************************)
EXTENDS Publication, FiniteSetTheorems, TLAPS

-----------------------------------------------------------------------------
(* Ids.                                                                    *)

LEMMA NoneApart ==
    /\ \A x \in Ids \cup Accounts \cup Policies \cup Overrides : x # None
    /\ \A x \in Calendar \cup Connection \cup Gate \cup GateView \cup Block \cup Capture \cup Row : x # None
BY NoneAssumption

LEMMA ProcsApart ==
    ASSUME NEW p \in Procs
    PROVE  /\ p \in Syncers => p \notin Editors /\ p \notin Disconnecters
           /\ p \in Editors => p \notin Syncers /\ p \notin Disconnecters
           /\ p \in Disconnecters => p \notin Syncers /\ p \notin Editors
           /\ p \in Syncers \/ p \in Editors \/ p \in Disconnecters
BY ProcsAssumption DEF Procs

\* Sets of ids held, by how many there are at most.
AtMost(S, n) == IsFiniteSet(S) /\ Cardinality(S) <= n

LEMMA AtMostUnion ==
    ASSUME NEW S, NEW T, NEW m \in Nat, NEW n \in Nat, AtMost(S, m), AtMost(T, n)
    PROVE  AtMost(S \cup T, m + n)
<1>1. IsFiniteSet(S \cup T) /\ IsFiniteSet(S \cap T)
      /\ Cardinality(S \cup T) = Cardinality(S) + Cardinality(T) - Cardinality(S \cap T)
  BY FS_Union, FS_Intersection DEF AtMost
<1>2. Cardinality(S) \in Nat /\ Cardinality(T) \in Nat /\ Cardinality(S \cap T) \in Nat
  BY <1>1, FS_CardinalityType DEF AtMost
<1> QED BY <1>1, <1>2 DEF AtMost

LEMMA AtMostOne ==
    ASSUME NEW x
    PROVE  AtMost({x}, 1) /\ AtMost({}, 1)
<1>1. IsFiniteSet({x}) /\ Cardinality({x}) = 1
  BY FS_Singleton
<1>2. IsFiniteSet({}) /\ Cardinality({}) = 0
  BY FS_EmptySet
<1> QED BY <1>1, <1>2 DEF AtMost

LEMMA AtMostImage ==
    ASSUME NEW S, NEW T, NEW f, NEW n \in Nat, AtMost(S, n), T = {f[x] : x \in S}
    PROVE  AtMost(T, n)
<1> DEFINE g == [x \in S |-> f[x]]
<1>1. g \in Surjection(S, T)
  BY DEF Surjection
<1>2. IsFiniteSet(T) /\ Cardinality(T) <= Cardinality(S)
  BY <1>1, FS_Surjection DEF AtMost
<1>3. Cardinality(T) \in Nat /\ Cardinality(S) \in Nat
  BY <1>2, FS_CardinalityType DEF AtMost
<1> QED BY <1>2, <1>3 DEF AtMost

LEMMA FreshId ==
    ASSUME NEW held, AtMost(held, 4 * Cardinality(Procs) + 5)
    PROVE  Unused(held) \in Ids /\ Unused(held) \notin held
<1>1. \E i \in Ids : i \notin held
  <2> SUFFICES ASSUME Ids \subseteq held PROVE FALSE
    OBVIOUS
  <2>1. IsFiniteSet(Ids) /\ Cardinality(Ids) <= Cardinality(held)
    BY FS_Subset DEF AtMost
  <2>2. Cardinality(Ids) \in Nat /\ Cardinality(held) \in Nat /\ Cardinality(Procs) \in Nat
    BY <2>1, FS_CardinalityType, ProcsAssumption DEF AtMost
  <2> QED BY <2>1, <2>2, IdsAssumption DEF AtMost
<1> QED BY <1>1 DEF Unused

LEMMA ContextsFew ==
    ASSUME NEW field
    PROVE  AtMost(Context(field), Cardinality(Procs)) /\ AtMost(Captured(field), Cardinality(Procs))
<1> DEFINE n == Cardinality(Procs)
           Q == {q \in Procs : local[q].cap # None}
<1>1. n \in Nat /\ AtMost(Procs, n)
  BY ProcsAssumption, FS_CardinalityType DEF AtMost
<1>2. AtMost(Q, n)
  <2>1. IsFiniteSet(Q) /\ Cardinality(Q) <= n
    BY <1>1, FS_Subset DEF AtMost
  <2> QED BY <2>1 DEF AtMost
<1>3. AtMost(Context(field), n)
  <2> DEFINE f == [p \in Procs |-> local[p][field]]
  <2>1. Context(field) = {f[p] : p \in Procs}
    BY DEF Context
  <2> HIDE DEF f, n
  <2> QED BY <1>1, <2>1, AtMostImage
<1>4. AtMost(Captured(field), n)
  <2> DEFINE f == [p \in Procs |-> local[p].cap[field]]
  <2>1. Captured(field) = {f[p] : p \in Q}
    BY DEF Captured
  <2> HIDE DEF f, n, Q
  <2> QED BY <1>1, <1>2, <2>1, AtMostImage
<1> QED BY <1>3, <1>4

LEMMA ProcsMany == Cardinality(Procs) \in Nat
BY ProcsAssumption, FS_CardinalityType

LEMMA FewHeld ==
    /\ \A field : AtMost(GateRead(field), 1) /\ AtMost(GateHeld(field), 1)
    /\ AtMost(IF conn = None THEN {} ELSE {conn.lease}, 1)
    /\ AtMost(IF conn = None THEN {} ELSE {conn.last}, 1)
    /\ AtMost(IF block = None THEN {} ELSE {block.id}, 1)
BY AtMostOne DEF GateRead, GateHeld

LEMMA NewLeaseFresh ==
    /\ NewLease \in Ids
    /\ \A p \in Procs : NewLease # local[p].sync /\ NewLease # local[p].cleanup
    /\ conn # None => NewLease # conn.lease
    /\ block # None => NewLease # block.id
<1> DEFINE n == Cardinality(Procs)
           A == Context("sync")
           B == Context("cleanup")
           C == IF conn = None THEN {} ELSE {conn.lease}
           D == IF block = None THEN {} ELSE {block.id}
<1>1. n \in Nat /\ AtMost(A, n) /\ AtMost(B, n) /\ AtMost(C, 1) /\ AtMost(D, 1)
  BY ProcsMany, ContextsFew, FewHeld
<1>2. AtMost(A \cup B \cup C \cup D, 4 * n + 5)
  <2> HIDE DEF n, A, B, C, D
  <2>1. AtMost(A \cup B, n + n)
    BY <1>1, AtMostUnion
  <2>2. AtMost(A \cup B \cup C, n + n + 1)
    BY <1>1, <2>1, AtMostUnion
  <2>3. AtMost(A \cup B \cup C \cup D, n + n + 1 + 1)
    BY <1>1, <2>2, AtMostUnion
  <2>4. Cardinality(A \cup B \cup C \cup D) \in Nat
    BY <2>3, FS_CardinalityType DEF AtMost
  <2> QED BY <1>1, <2>3, <2>4 DEF AtMost
<1>3. NewLease \in Ids /\ NewLease \notin A \cup B \cup C \cup D
  BY <1>2, FreshId DEF NewLease
<1> QED BY <1>3 DEF Context

LEMMA NewInputsFresh ==
    /\ NewInputs \in Ids
    /\ NewInputs # inputs.id /\ NewInputs # reader.private
    /\ \A p \in Procs :
        /\ NewInputs # local[p].priv /\ NewInputs # local[p].obs /\ NewInputs # local[p].last
        /\ local[p].cap # None => NewInputs # local[p].cap.private
    /\ pub # None => NewInputs # pub.private
    /\ reader.gate # None => NewInputs # reader.gate.private
    /\ conn # None => NewInputs # conn.last
<1> DEFINE n == Cardinality(Procs)
           A == {inputs.id, reader.private}
           B == Context("priv")
           C == Context("obs")
           D == Context("last")
           E == Captured("private")
           F == GateHeld("private")
           G == GateRead("private")
           H == IF conn = None THEN {} ELSE {conn.last}
<1>1. n \in Nat /\ AtMost(B, n) /\ AtMost(C, n) /\ AtMost(D, n) /\ AtMost(E, n)
  BY ProcsMany, ContextsFew
<1>2. AtMost(A, 2)
  <2>1. AtMost({inputs.id} \cup {reader.private}, 1 + 1)
    BY AtMostOne, AtMostUnion
  <2>2. A = {inputs.id} \cup {reader.private} /\ 1 + 1 = 2
    OBVIOUS
  <2> QED BY <2>1, <2>2
<1>3. AtMost(F, 1) /\ AtMost(G, 1) /\ AtMost(H, 1)
  BY FewHeld
<1>4. AtMost(A \cup B \cup C \cup D \cup E \cup F \cup G \cup H, 4 * n + 5)
  <2> HIDE DEF n, A, B, C, D, E, F, G, H
  <2>1. AtMost(A \cup B, 2 + n)
    BY <1>1, <1>2, AtMostUnion
  <2>2. AtMost(A \cup B \cup C, 2 + n + n)
    BY <1>1, <2>1, AtMostUnion
  <2>3. AtMost(D \cup E, n + n)
    BY <1>1, AtMostUnion
  <2>4. AtMost(F \cup G, 1 + 1)
    BY <1>3, AtMostUnion
  <2>5. AtMost(F \cup G \cup H, 1 + 1 + 1)
    BY <1>3, <2>4, AtMostUnion
  <2> DEFINE X == A \cup B \cup C
             Y == D \cup E
             Z == F \cup G \cup H
             i == 2 + n + n
             j == n + n
             k == 1 + 1 + 1
  <2>6. i \in Nat /\ j \in Nat /\ k \in Nat /\ i + j + k = 4 * n + 5
    BY <1>1
  <2>7. AtMost(X, i) /\ AtMost(Y, j) /\ AtMost(Z, k)
    BY <2>2, <2>3, <2>5
  <2>8. A \cup B \cup C \cup D \cup E \cup F \cup G \cup H = X \cup Y \cup Z
    OBVIOUS
  <2> HIDE DEF X, Y, Z, i, j, k
  <2>9. AtMost(X \cup Y, i + j)
    BY <2>6, <2>7, AtMostUnion
  <2>10. AtMost(X \cup Y \cup Z, i + j + k)
    <3> DEFINE XY == X \cup Y
               ij == i + j
    <3>1. ij \in Nat /\ AtMost(XY, ij)
      BY <2>6, <2>9
    <3> HIDE DEF XY, ij
    <3>2. AtMost(XY \cup Z, ij + k)
      BY <2>6, <2>7, <3>1, AtMostUnion
    <3> QED BY <3>2 DEF XY, ij
  <2> QED BY <2>6, <2>8, <2>10
<1>5. NewInputs \in Ids /\ NewInputs \notin A \cup B \cup C \cup D \cup E \cup F \cup G \cup H
  BY <1>4, FreshId DEF NewInputs
<1> QED BY <1>5 DEF Context, Captured, GateHeld, GateRead

LEMMA NewPolicyRevisionFresh ==
    /\ NewPolicyRevision \in Ids
    /\ NewPolicyRevision # policyRev
    /\ \A p \in Procs : local[p].cap # None => NewPolicyRevision # local[p].cap.policy
    /\ pub # None => NewPolicyRevision # pub.policy
    /\ reader.gate # None => NewPolicyRevision # reader.gate.policy
<1> DEFINE n == Cardinality(Procs)
           A == {policyRev}
           B == Captured("policy")
           C == GateHeld("policy")
           D == GateRead("policy")
<1>1. n \in Nat /\ AtMost(A, 1) /\ AtMost(B, n) /\ AtMost(C, 1) /\ AtMost(D, 1)
  BY ProcsMany, ContextsFew, FewHeld, AtMostOne
<1>2. AtMost(A \cup B \cup C \cup D, 4 * n + 5)
  <2> HIDE DEF n, A, B, C, D
  <2>1. AtMost(A \cup B, 1 + n)
    BY <1>1, AtMostUnion
  <2>2. AtMost(A \cup B \cup C, 1 + n + 1)
    BY <1>1, <2>1, AtMostUnion
  <2>3. AtMost(A \cup B \cup C \cup D, 1 + n + 1 + 1)
    BY <1>1, <2>2, AtMostUnion
  <2>4. Cardinality(A \cup B \cup C \cup D) \in Nat
    BY <2>3, FS_CardinalityType DEF AtMost
  <2> QED BY <1>1, <2>3, <2>4 DEF AtMost
<1>3. NewPolicyRevision \in Ids /\ NewPolicyRevision \notin A \cup B \cup C \cup D
  BY <1>2, FreshId DEF NewPolicyRevision
<1> QED BY <1>3 DEF Captured, GateHeld, GateRead

LEMMA NewPublicationFresh ==
    /\ NewPublication \in Ids
    /\ NewPublication # reader.id
    /\ \A p \in Procs : NewPublication # local[p].proj
    /\ pub # None => NewPublication # pub.id
    /\ reader.gate # None => NewPublication # reader.gate.id
<1> DEFINE n == Cardinality(Procs)
           A == {reader.id}
           B == Context("proj")
           C == GateHeld("id")
           D == GateRead("id")
<1>1. n \in Nat /\ AtMost(A, 1) /\ AtMost(B, n) /\ AtMost(C, 1) /\ AtMost(D, 1)
  BY ProcsMany, ContextsFew, FewHeld, AtMostOne
<1>2. AtMost(A \cup B \cup C \cup D, 4 * n + 5)
  <2> HIDE DEF n, A, B, C, D
  <2>1. AtMost(A \cup B, 1 + n)
    BY <1>1, AtMostUnion
  <2>2. AtMost(A \cup B \cup C, 1 + n + 1)
    BY <1>1, <2>1, AtMostUnion
  <2>3. AtMost(A \cup B \cup C \cup D, 1 + n + 1 + 1)
    BY <1>1, <2>2, AtMostUnion
  <2>4. Cardinality(A \cup B \cup C \cup D) \in Nat
    BY <2>3, FS_CardinalityType DEF AtMost
  <2> QED BY <1>1, <2>3, <2>4 DEF AtMost
<1>3. NewPublication \in Ids /\ NewPublication \notin A \cup B \cup C \cup D
  BY <1>2, FreshId DEF NewPublication
<1> QED BY <1>3 DEF Context, GateHeld, GateRead

-----------------------------------------------------------------------------
(* Contexts.                                                               *)

LEMMA NothingSound ==
    ASSUME NEW p \in Procs
    PROVE  Nothing \in Contexts /\ InStep(p, Nothing) /\ Nothing.read.policy = None
<1>1. NoEvents \in Calendar
  BY DEF NoEvents, Calendar, Maybe
<1>2. Nothing \in Contexts
  BY <1>1 DEF Nothing, Contexts, Inputs, Maybe, Pcs
<1>3. InStep(p, Nothing)
  BY DEF Nothing, InStep, Importing, Imported, Rebuilding, Gathering, Replacing, Erasing
<1> QED BY <1>2, <1>3 DEF Nothing

\* What is left of a context after an error: the drop of what was begun, or
\* the leases of the request.
Dropped(l, m) ==
    /\ m = [l EXCEPT !.pc = m.pc]
    /\ \/ l.pc \in {"wipe", "apply"} /\ m.pc = "dropInputs"
       \/ l.pc = "rows" /\ m.pc = "dropWrite"
       \/ l.pc = "erasing" /\ m.pc = "dropErase"
Returned(l, m) ==
    /\ m.pc \in {"idle", "erase", "markFailure", "markReconnect", "eraseEvents"}
    /\ m.sync \in {l.sync, None} /\ m.cleanup \in {l.cleanup, None} /\ m.obs \in {l.obs, None}
    /\ m.pc \in {"markFailure", "markReconnect"} => m.obs = None
    /\ m.pc = "eraseEvents" => m.cleanup = l.cleanup /\ m.obs = l.obs
    /\ m.priv = None /\ m.proj = None /\ m.cap = None /\ m.seen = None /\ m.last = None
    /\ m.read.policy = None /\ m.del = {} /\ m.put = {}
Leftover(p, l, m) ==
    /\ m \in Contexts /\ InStep(p, m) /\ m.read.policy \in {l.read.policy, None}
    /\ Dropped(l, m) \/ (Returned(l, m) /\ m.pc # "eraseEvents")

LEMMA LeaveReturns ==
    ASSUME TypeOK, ContextsSound, NEW p \in Procs, NEW pc, Leave(p, pc), local[p].pc # "idle",
           \/ pc = "idle"
           \/ p \in Syncers /\ pc \in {"markFailure", "markReconnect"}
           \/ p \in Editors /\ pc = "erase"
           \/ p \in Disconnecters /\ pc = "eraseEvents"
    PROVE  \E m \in Contexts : /\ Continue(p, m) /\ InStep(p, m) /\ Returned(local[p], m) /\ m.pc = pc
<1>1. CASE pc = "idle"
  <2>1. Continue(p, Nothing)
    BY <1>1 DEF Leave
  <2>2. Returned(local[p], Nothing) /\ Nothing.pc = "idle"
    BY DEF Returned, Nothing
  <2> QED BY <1>1, <2>1, <2>2, NothingSound
<1>2. CASE pc # "idle"
  <2> DEFINE l == local[p]
             m == [Nothing EXCEPT !.pc = pc, !.sync = l.sync, !.cleanup = l.cleanup,
                                  !.obs = IF l.cleanup = None THEN None ELSE l.obs]
  <2>1. Continue(p, m)
    BY <1>2 DEF Leave, Outer
  <2>2. l \in Contexts /\ InStep(p, l)
    BY DEF TypeOK, ContextsSound
  <2>3. Nothing \in Contexts /\ Nothing.pc = "idle" /\ Nothing.priv = None /\ Nothing.proj = None
        /\ Nothing.cap = None /\ Nothing.seen = None /\ Nothing.last = None /\ Nothing.read.policy = None
        /\ Nothing.del = {} /\ Nothing.put = {}
    BY NothingSound DEF Nothing
  <2>4. l.sync \in Maybe(Ids) /\ l.cleanup \in Maybe(Ids) /\ l.obs \in Maybe(Ids)
    BY <2>2 DEF Contexts
  <2>5. m \in Contexts
    <3>1. pc \in Pcs
      BY <1>2 DEF Pcs
    <3>2. (IF l.cleanup = None THEN None ELSE l.obs) \in Maybe(Ids)
      BY <2>4 DEF Maybe
    <3> QED BY <2>3, <2>4, <3>1, <3>2 DEF Contexts
  <2>6. m.pc = pc /\ m.sync = l.sync /\ m.cleanup = l.cleanup /\ m.priv = None /\ m.proj = None
        /\ m.obs = (IF l.cleanup = None THEN None ELSE l.obs)
        /\ m.cap = None /\ m.seen = None /\ m.last = None /\ m.read = Nothing.read
        /\ m.del = {} /\ m.put = {}
    BY <2>3 DEF Contexts
  <2> HIDE DEF m
  <2>7. InStep(p, m)
    BY <1>2, <2>2, <2>6, ProcsApart
       DEF InStep, Importing, Imported, Rebuilding, Gathering, Replacing, Erasing
  <2>8. Returned(l, m)
    BY <1>2, <2>2, <2>3, <2>6, ProcsApart DEF Returned, InStep
  <2> QED BY <2>1, <2>5, <2>6, <2>7, <2>8
<1> QED BY <1>1, <1>2

LEMMA GotoTyped ==
    ASSUME TypeOK, NEW p \in Procs, NEW pc \in Pcs, Goto(p, pc)
    PROVE  \E m \in Contexts : Continue(p, m) /\ m = [local[p] EXCEPT !.pc = pc] /\ m.pc = pc
BY DEF TypeOK, Goto, Contexts

LEMMA FailureLeaves ==
    ASSUME TypeOK, ContextsSound, NEW p \in Procs, FailAt(p), local[p].pc # "idle"
    PROVE  \E m \in Contexts : Continue(p, m) /\ Leftover(p, local[p], m)
<1> DEFINE l == local[p]
<1>1. l \in Contexts /\ InStep(p, l)
  BY DEF TypeOK, ContextsSound
<1>2. ASSUME NEW pc \in {"dropInputs", "dropWrite", "dropErase"}, Goto(p, pc),
             \/ l.pc \in {"wipe", "apply"} /\ pc = "dropInputs"
             \/ l.pc = "rows" /\ pc = "dropWrite"
             \/ l.pc = "erasing" /\ pc = "dropErase"
      PROVE  \E m \in Contexts : Continue(p, m) /\ Leftover(p, l, m)
  <2>1. PICK m \in Contexts : Continue(p, m) /\ m = [l EXCEPT !.pc = pc] /\ m.pc = pc
    BY <1>2, GotoTyped DEF Pcs
  <2>2. /\ m.sync = l.sync /\ m.cleanup = l.cleanup /\ m.priv = l.priv /\ m.proj = l.proj
        /\ m.cap = l.cap /\ m.obs = l.obs /\ m.seen = l.seen /\ m.read = l.read /\ m.account = l.account
    BY <1>1, <2>1 DEF Contexts
  <2>3. InStep(p, m)
    BY <1>1, <1>2, <2>1, <2>2
       DEF InStep, Importing, Imported, Rebuilding, Gathering, Replacing, Erasing
  <2>4. Dropped(l, m)
    BY <1>2, <2>1 DEF Dropped
  <2> QED BY <2>1, <2>2, <2>3, <2>4 DEF Leftover
<1>3. ASSUME NEW pc, Leave(p, pc),
             \/ pc = "idle"
             \/ p \in Syncers /\ pc \in {"markFailure", "markReconnect"}
             \/ p \in Editors /\ pc = "erase"
      PROVE  \E m \in Contexts : Continue(p, m) /\ Leftover(p, l, m)
  <2>1. PICK m \in Contexts : Continue(p, m) /\ InStep(p, m) /\ Returned(l, m) /\ m.pc = pc
    BY <1>3, LeaveReturns
  <2>2. m.pc # "eraseEvents" /\ m.read.policy = None
    BY <1>3, <2>1 DEF Returned
  <2> QED BY <2>1, <2>2 DEF Leftover
<1>4. CASE l.pc \in {"wipe", "apply"}
  BY <1>2, <1>4 DEF FailAt
<1>5. CASE l.pc = "rows"
  BY <1>2, <1>5 DEF FailAt
<1>6. CASE l.pc = "erasing"
  BY <1>2, <1>6 DEF FailAt
<1>7. CASE l.pc \in {"success", "markFailure", "markReconnect"}
  <2>1. Leave(p, "idle")
    BY <1>7 DEF FailAt
  <2> QED BY <2>1, <1>3
<1>8. CASE l.pc \notin {"wipe", "apply", "rows", "erasing", "success", "markFailure", "markReconnect"}
  <2>1. Leave(p, AfterFailure(p))
    BY <1>8 DEF FailAt
  <2>2. AfterFailure(p) = "idle" \/ (p \in Syncers /\ AfterFailure(p) = "markFailure")
        \/ (p \in Editors /\ AfterFailure(p) = "erase")
    BY ProcsApart DEF AfterFailure
  <2> QED BY <2>1, <2>2, <1>3
<1> QED BY <1>4, <1>5, <1>6, <1>7, <1>8

-----------------------------------------------------------------------------
(* Types.                                                                  *)

Left == [Kinds -> Maybe(Nat)]

LEMMA SpendTyped ==
    ASSUME left \in Left, NEW kind \in Kinds, Spend(kind)
    PROVE  left' \in Left
BY DEF Spend, Left, Maybe

LEMMA LocalTyped ==
    ASSUME TypeOK, NEW p \in Procs, NEW m \in Contexts, Continue(p, m)
    PROVE  /\ local' \in [Procs -> Contexts]
           /\ local'[p] = m
           /\ \A q \in Procs : q # p => local'[q] = local[q]
BY DEF TypeOK, Continue

LEMMA ContextsGoOn ==
    ASSUME TypeOK, ContextsSound, NEW p \in Procs, NEW m \in Contexts, Continue(p, m), InStep(p, m),
           m.read.policy # None => policyRev' # None, UNCHANGED <<settings, policyRev>>
    PROVE  ContextsSound'
BY LocalTyped DEF ContextsSound

\* The contexts and types of a step that leaves the documents alone,
LEMMA QuietTyped ==
    ASSUME TypeOK, ContextsSound, NEW p \in Procs, NEW m \in Contexts, Continue(p, m), InStep(p, m),
           m.read.policy # None => policyRev # None,
           UNCHANGED <<provider, documents, reader, covered>>, left' \in Left
    PROVE  TypeOK' /\ ContextsSound'
<1>1. local' \in [Procs -> Contexts]
  BY LocalTyped
<1>2. TypeOK'
  BY <1>1 DEF TypeOK, documents, Left
<1>3. ContextsSound'
  BY ContextsGoOn DEF documents
<1> QED BY <1>2, <1>3

\* and of one that ends in an error.
LEMMA FailTyped ==
    ASSUME TypeOK, ContextsSound, NEW p \in Procs, FailAt(p), local[p].pc # "idle",
           UNCHANGED <<provider, documents, reader, covered>>, left' \in Left
    PROVE  TypeOK' /\ ContextsSound'
<1>1. PICK m \in Contexts : Continue(p, m) /\ Leftover(p, local[p], m)
  BY FailureLeaves
<1>2. m.read.policy # None => policyRev # None
  BY <1>1 DEF Leftover, ContextsSound
<1>3. InStep(p, m)
  BY <1>1 DEF Leftover
<1> QED BY <1>1, <1>2, <1>3, QuietTyped

LEMMA LeaveTyped ==
    ASSUME TypeOK, ContextsSound, NEW p \in Procs, NEW pc, Leave(p, pc), local[p].pc # "idle",
           \/ pc = "idle"
           \/ p \in Syncers /\ pc \in {"markFailure", "markReconnect"}
           \/ p \in Editors /\ pc = "erase"
           \/ p \in Disconnecters /\ pc = "eraseEvents",
           UNCHANGED <<settings, policyRev>>
    PROVE  local' \in [Procs -> Contexts] /\ ContextsSound'
<1>1. PICK m \in Contexts : Continue(p, m) /\ InStep(p, m) /\ Returned(local[p], m)
  BY LeaveReturns
<1>2. m.read.policy = None
  BY <1>1 DEF Returned
<1> QED BY <1>1, <1>2, LocalTyped, ContextsGoOn

LEMMA AbandonedTo ==
    ASSUME NEW p \in Procs
    PROVE  \/ AfterFailure(p) = "idle"
           \/ p \in Syncers /\ AfterFailure(p) = "markFailure"
           \/ p \in Editors /\ AfterFailure(p) = "erase"
BY ProcsApart DEF AfterFailure

LEMMA TypedCrash ==
    ASSUME TypeOK, ContextsSound, NEW p \in Procs, Fault(p) \/ Crash(p)
    PROVE  TypeOK' /\ ContextsSound'
<1>1. left' \in Left /\ local[p].pc # "idle" /\ UNCHANGED <<provider, documents, reader, covered>>
  BY SpendTyped DEF Fault, Crash, TypeOK, Left, Kinds
<1>2. CASE FailAt(p)
  BY <1>1, <1>2, FailTyped
<1>3. CASE \E pc \in {"markReconnect", "markFailure"} :
             Leave(p, pc) /\ local[p].pc \in {"fetch", "success"}
  <2>1. p \in Syncers
    BY <1>3, ProcsApart DEF ContextsSound, InStep, Rebuilding, Erasing, Gathering, Replacing
  <2>2. local' \in [Procs -> Contexts] /\ ContextsSound'
    BY <1>1, <1>3, <2>1, LeaveTyped DEF documents
  <2> QED BY <1>1, <2>2 DEF TypeOK, documents, Left
<1>4. CASE Continue(p, Nothing)
  BY <1>1, <1>4, NothingSound, QuietTyped
<1> QED BY <1>2, <1>3, <1>4 DEF Fault, Crash

\* Unfolds what the types say of a context.
LEMMA ContextFields ==
    ASSUME TypeOK, ContextsSound, NEW p \in Procs
    PROVE  /\ local[p] \in Contexts /\ InStep(p, local[p])
           /\ local[p].read \in Inputs
           /\ local[p].cap # None => local[p].cap \in Capture
           /\ local[p].read.policy # None => policyRev # None
BY DEF TypeOK, ContextsSound, Contexts, Maybe

LEMMA TypedAcquireSync ==
    ASSUME TypeOK, ContextsSound, NEW p \in Syncers, AcquireSync(p)
    PROVE  TypeOK' /\ ContextsSound'
<1> DEFINE token == IF inputs.ready THEN conn.token ELSE None
           m == [Nothing EXCEPT !.pc = "fetch", !.sync = NewLease, !.seen = token,
                                !.last = conn.last, !.account = conn.account]
<1>1. p \in Procs /\ conn \in Connection /\ NewLease \in Ids
  BY NewLeaseFresh DEF AcquireSync, TypeOK, Maybe, Procs
<1>2. Continue(p, m) /\ left' \in Left
      /\ conn' = [conn EXCEPT !.lease = NewLease, !.until = "live", !.token = token]
      /\ UNCHANGED <<provider, inputs, events, settings, policyRev, pub, rows, block, reader, covered>>
  BY SpendTyped DEF AcquireSync, TypeOK, Left, Kinds
<1>3. token \in Maybe(Calendar) /\ conn.last \in Maybe(Ids) /\ conn.account \in Accounts
  BY <1>1 DEF Connection, Maybe
<1>4. m \in Contexts /\ m.pc = "fetch" /\ m.sync = NewLease /\ m.account = conn.account
      /\ m.cleanup = None /\ m.priv = None /\ m.proj = None /\ m.obs = None /\ m.cap = None
      /\ m.read.policy = None
  <2>1. "fetch" \in Pcs /\ NewLease \in Maybe(Ids) /\ conn.account \in Maybe(Accounts)
    BY <1>1, <1>3 DEF Pcs, Maybe
  <2>2. Nothing \in Contexts /\ Nothing.read.policy = None
    BY <1>1, NothingSound
  <2>3. Nothing.cleanup = None /\ Nothing.priv = None /\ Nothing.proj = None /\ Nothing.obs = None
        /\ Nothing.cap = None
    BY DEF Nothing
  <2> HIDE DEF token
  <2> QED BY <1>3, <2>1, <2>2, <2>3 DEF Contexts
<1>5. InStep(p, m)
  <2> HIDE DEF m
  <2> QED BY <1>1, <1>3, <1>4, NoneApart, ProcsApart
          DEF InStep, Importing, Imported, Rebuilding, Gathering, Replacing, Erasing
<1>6. conn' \in Connection
  BY <1>1, <1>2, <1>3 DEF Connection, Maybe, LeaseState
<1> HIDE DEF m
<1>7. local' \in [Procs -> Contexts] /\ ContextsSound'
  BY <1>1, <1>2, <1>4, <1>5, LocalTyped, ContextsGoOn
<1> QED BY <1>2, <1>6, <1>7 DEF TypeOK, Left, Maybe

LEMMA BusyTyped ==
    ASSUME TypeOK, NEW a \in Accounts
    PROVE  BusyIn(a) \in Calendar
BY DEF BusyIn, Calendar, Maybe

LEMMA TypedFetch ==
    ASSUME TypeOK, ContextsSound, NEW p \in Procs, Fetch(p)
    PROVE  TypeOK' /\ ContextsSound'
<1> DEFINE l == local[p]
           now == BusyIn(l.account)
<1>1. l \in Contexts /\ InStep(p, l) /\ l.pc = "fetch" /\ l.account # None
      /\ (l.read.policy # None => policyRev # None)
  BY ContextFields DEF Fetch, InStep
<1>2. now \in Calendar /\ now # None
  <2>1. l.account \in Accounts
    BY <1>1 DEF Contexts, Maybe
  <2> QED BY <2>1, BusyTyped, NoneApart
<1>3. PICK full \in BOOLEAN, win \in Windows :
        LET changed == IF full THEN Held(now) ELSE {c \in Cells : now[c] # l.seen[c]} IN
        Continue(p, [l EXCEPT !.pc = "begin", !.seen = now, !.full = full, !.win = win, !.last = None,
                              !.account = None, !.put = changed \cap Held(now), !.del = changed \ Held(now)])
  BY DEF Fetch
<1> DEFINE changed == IF full THEN Held(now) ELSE {c \in Cells : now[c] # l.seen[c]}
           m == [l EXCEPT !.pc = "begin", !.seen = now, !.full = full, !.win = win, !.last = None,
                          !.account = None, !.put = changed \cap Held(now), !.del = changed \ Held(now)]
<1>4. changed \subseteq Cells /\ Held(now) \subseteq Cells /\ win \subseteq Cells
  BY SettingsAssumption DEF Held
<1>5. m \in Contexts /\ m.pc = "begin" /\ m.sync = l.sync /\ m.account = None /\ m.cleanup = l.cleanup
      /\ m.priv = l.priv /\ m.proj = l.proj /\ m.obs = l.obs /\ m.cap = l.cap /\ m.seen = now /\ m.read = l.read
  <2>1. "begin" \in Pcs /\ now \in Maybe(Calendar) /\ None \in Maybe(Ids) /\ None \in Maybe(Accounts)
    BY <1>2 DEF Pcs, Maybe
  <2>2. changed \cap Held(now) \subseteq Cells /\ changed \ Held(now) \subseteq Cells
    BY <1>4
  <2> HIDE DEF changed, now
  <2> QED BY <1>1, <1>4, <2>1, <2>2 DEF Contexts
<1>6. InStep(p, m)
  <2> HIDE DEF m
  <2> QED BY <1>1, <1>2, <1>5, ProcsApart
          DEF InStep, Importing, Imported, Rebuilding, Gathering, Replacing, Erasing
<1>7. Continue(p, m) /\ UNCHANGED <<provider, documents, reader, covered>> /\ left' \in Left
  BY <1>3 DEF Fetch, TypeOK, Left
<1> HIDE DEF m
<1> QED BY <1>1, <1>5, <1>6, <1>7, QuietTyped

LEMMA TypedBeginPrivateInputs ==
    ASSUME TypeOK, ContextsSound, NEW p \in Procs, BeginPrivateInputs(p)
    PROVE  TypeOK' /\ ContextsSound'
<1> DEFINE l == local[p]
           m == [l EXCEPT !.pc = IF l.full THEN "wipe" ELSE "apply", !.priv = NewInputs, !.obs = NewInputs]
<1>1. l \in Contexts /\ InStep(p, l) /\ l.pc = "begin" /\ (l.read.policy # None => policyRev # None)
      /\ left' \in Left /\ UNCHANGED <<provider, reader, covered>>
  BY ContextFields DEF BeginPrivateInputs, TypeOK, Left
<1>2. CASE Fail(p)
  BY <1>1, <1>2, FailTyped DEF Fail
<1>3. CASE ~Fail(p)
  <2>1. Continue(p, m) /\ UNCHANGED <<conn, events, settings, policyRev, pub, rows, block>>
        /\ inputs' = [id |-> NewInputs, ready |-> FALSE, lease |-> "live", source |-> "fresh"]
    BY <1>3 DEF BeginPrivateInputs
  <2>2. NewInputs \in Ids
    BY NewInputsFresh
  <2>3. m \in Contexts /\ m.pc \in {"wipe", "apply"} /\ m.sync = l.sync /\ m.cleanup = l.cleanup
        /\ m.priv = NewInputs /\ m.obs = NewInputs /\ m.proj = l.proj /\ m.cap = l.cap /\ m.seen = l.seen
        /\ m.read = l.read /\ m.account = l.account
    <3>1. (IF l.full THEN "wipe" ELSE "apply") \in Pcs /\ NewInputs \in Maybe(Ids)
      BY <2>2 DEF Pcs, Maybe
    <3> QED BY <1>1, <3>1 DEF Contexts
  <2>4. InStep(p, m)
    <3> HIDE DEF m
    <3> QED BY <1>1, <2>2, <2>3, NoneApart, ProcsApart
            DEF InStep, Importing, Imported, Rebuilding, Gathering, Replacing, Erasing
  <2> HIDE DEF m
  <2>5. local' \in [Procs -> Contexts] /\ ContextsSound'
    BY <1>1, <2>1, <2>3, <2>4, LocalTyped, ContextsGoOn
  <2> QED BY <1>1, <2>1, <2>2, <2>5 DEF TypeOK, Left, Maybe, LeaseState
<1> QED BY <1>2, <1>3

LEMMA WipeTyped ==
    ASSUME TypeOK, ContextsSound, NEW p \in Procs, NEW collection, NEW remains,
           NEW pc \in {"apply", "release", "erasing"}, Wipe(p, collection, remains, pc),
           \/ local[p].pc = "wipe" /\ pc = "apply"
           \/ local[p].pc = "eraseEvents" /\ pc = "release"
           \/ local[p].pc = "erasing" /\ pc = "erasing",
           UNCHANGED <<settings, policyRev>>
    PROVE  /\ local' \in [Procs -> Contexts] /\ ContextsSound'
           /\ \A S : collection \in [Cells -> Maybe(S)] => remains \in [Cells -> Maybe(S)]
<1> DEFINE l == local[p]
<1>1. l \in Contexts /\ InStep(p, l) /\ (l.read.policy # None => policyRev # None)
  BY ContextFields
<1>2. CASE Goto(p, pc) /\ remains = collection
  <2>1. PICK m \in Contexts : Continue(p, m) /\ m = [l EXCEPT !.pc = pc] /\ m.pc = pc
    BY <1>2, GotoTyped DEF Pcs
  <2>2. /\ m.sync = l.sync /\ m.cleanup = l.cleanup /\ m.priv = l.priv /\ m.proj = l.proj
        /\ m.cap = l.cap /\ m.obs = l.obs /\ m.seen = l.seen /\ m.read = l.read /\ m.account = l.account
    BY <1>1, <2>1 DEF Contexts
  <2>3. InStep(p, m)
    BY <1>1, <2>1, <2>2, ProcsApart
       DEF InStep, Importing, Imported, Rebuilding, Gathering, Replacing, Erasing
  <2> QED BY <1>1, <1>2, <2>1, <2>2, <2>3, LocalTyped, ContextsGoOn
<1>3. CASE ~(Goto(p, pc) /\ remains = collection)
  <2>1. PICK page : UNCHANGED local
                    /\ remains = [c \in Cells |-> IF c \in page THEN None ELSE collection[c]]
    BY <1>3 DEF Wipe
  <2> QED BY <2>1 DEF TypeOK, ContextsSound, Maybe
<1> QED BY <1>2, <1>3

LEMMA TypedWipeEvents ==
    ASSUME TypeOK, ContextsSound, NEW p \in Procs, WipeEvents(p) \/ DeleteEvents(p)
    PROVE  TypeOK' /\ ContextsSound'
<1>1. local[p].pc \in {"wipe", "eraseEvents"} /\ left' \in Left /\ UNCHANGED <<provider, reader, covered>>
  BY DEF WipeEvents, DeleteEvents, TypeOK, Left
<1>2. CASE Fail(p)
  BY <1>1, <1>2, FailTyped DEF Fail
<1>3. CASE ~Fail(p)
  <2>1. PICK pc \in {"apply", "release"} :
           /\ Wipe(p, events, events', pc)
           /\ (local[p].pc = "wipe" /\ pc = "apply") \/ (local[p].pc = "eraseEvents" /\ pc = "release")
           /\ UNCHANGED <<conn, inputs, settings, policyRev, pub, rows, block>>
    BY <1>3 DEF WipeEvents, DeleteEvents
  <2>2. local' \in [Procs -> Contexts] /\ ContextsSound' /\ events' \in Calendar
    BY <2>1, WipeTyped DEF TypeOK, Calendar
  <2> QED BY <1>1, <2>1, <2>2 DEF TypeOK, Left
<1> QED BY <1>2, <1>3

LEMMA ChunkTyped ==
    ASSUME NEW l \in Contexts, NEW b \in Chunks(l)
    PROVE  /\ b.del \subseteq l.del /\ b.put \subseteq l.put
           /\ b.put # {} => b.del = l.del
           /\ Written(l, b) \in Contexts
           /\ Written(l, b) = [l EXCEPT !.del = l.del \ b.del, !.put = l.put \ b.put]
<1>1. b.del \subseteq l.del /\ b.put \subseteq l.put /\ (b.put # {} => b.del = l.del)
  BY DEF Chunks
<1>2. l.del \subseteq Cells /\ l.put \subseteq Cells
  BY DEF Contexts
<1> QED BY <1>1, <1>2 DEF Written, Contexts

\* A chunk that is written leaves the step of its process as it is.
LEMMA WrittenGoesOn ==
    ASSUME TypeOK, ContextsSound, NEW p \in Procs, NEW b \in Chunks(local[p]),
           Continue(p, Written(local[p], b)), UNCHANGED <<settings, policyRev>>
    PROVE  local' \in [Procs -> Contexts] /\ ContextsSound'
<1> DEFINE l == local[p]
           m == Written(l, b)
<1>1. l \in Contexts /\ InStep(p, l) /\ (l.read.policy # None => policyRev # None)
  BY ContextFields
<1>2. m \in Contexts /\ m = [l EXCEPT !.del = l.del \ b.del, !.put = l.put \ b.put]
  BY <1>1, ChunkTyped
<1>3. /\ m.pc = l.pc /\ m.sync = l.sync /\ m.cleanup = l.cleanup /\ m.priv = l.priv /\ m.proj = l.proj
      /\ m.cap = l.cap /\ m.obs = l.obs /\ m.seen = l.seen /\ m.read = l.read /\ m.account = l.account
  BY <1>1, <1>2 DEF Contexts
<1>4. InStep(p, m)
  <2> HIDE DEF m
  <2> QED BY <1>1, <1>3 DEF InStep
<1>5. m.read.policy # None => policyRev' # None
  BY <1>1, <1>3
<1>6. Continue(p, m)
  OBVIOUS
<1> HIDE DEF m, l
<1>7. local' \in [Procs -> Contexts]
  BY <1>2, <1>6, LocalTyped
<1> QED BY <1>2, <1>4, <1>5, <1>6, <1>7, ContextsGoOn

LEMMA TypedApplyChanges ==
    ASSUME TypeOK, ContextsSound, NEW p \in Procs, ApplyChanges(p)
    PROVE  TypeOK' /\ ContextsSound'
<1> DEFINE l == local[p]
<1>1. l \in Contexts /\ InStep(p, l) /\ l.pc = "apply" /\ left' \in Left
      /\ UNCHANGED <<provider, reader, covered>>
  BY ContextFields DEF ApplyChanges, TypeOK, Left
<1>2. CASE Fail(p)
  BY <1>1, <1>2, FailTyped DEF Fail
<1>3. CASE ~Fail(p)
  <2>1. PICK b \in Chunks(l) :
            /\ events' = [c \in Cells |-> IF c \in b.put THEN l.seen[c]
                                          ELSE IF c \in b.del THEN None ELSE events[c]]
            /\ Continue(p, Written(l, b))
            /\ UNCHANGED <<conn, inputs, settings, policyRev, pub, rows, block>>
    BY <1>3 DEF ApplyChanges
  <2>2. l.seen \in Calendar
    <3>1. p \in Syncers /\ l.seen # None
      BY <1>1, ProcsApart DEF InStep, Importing, Rebuilding, Gathering, Replacing, Erasing
    <3> QED BY <1>1, <3>1 DEF Contexts, Maybe
  <2>3. events' \in Calendar
    BY <2>1, <2>2 DEF TypeOK, Calendar, Maybe
  <2>4. local' \in [Procs -> Contexts] /\ ContextsSound'
    BY <2>1, WrittenGoesOn
  <2> QED BY <1>1, <2>1, <2>3, <2>4 DEF TypeOK, Left
<1> QED BY <1>2, <1>3

LEMMA TypedFinishPrivateInputs ==
    ASSUME TypeOK, ContextsSound, NEW p \in Procs, FinishPrivateInputs(p)
    PROVE  TypeOK' /\ ContextsSound'
<1> DEFINE l == local[p]
           m == [l EXCEPT !.pc = "capture", !.priv = None]
<1>1. l \in Contexts /\ InStep(p, l) /\ l.pc = "apply" /\ (l.read.policy # None => policyRev # None)
      /\ left' \in Left /\ UNCHANGED <<provider, reader, covered>>
  BY ContextFields DEF FinishPrivateInputs, TypeOK, Left
<1>2. CASE Fail(p)
  BY <1>1, <1>2, FailTyped DEF Fail
<1>3. CASE ~Fail(p)
  <2>1. Continue(p, m) /\ UNCHANGED <<conn, events, settings, policyRev, pub, rows, block>>
        /\ inputs' = [inputs EXCEPT !.ready = TRUE, !.lease = "none"]
    BY <1>3 DEF FinishPrivateInputs
  <2>2. m \in Contexts /\ m.pc = "capture" /\ m.sync = l.sync /\ m.cleanup = l.cleanup
        /\ m.priv = None /\ m.obs = l.obs /\ m.proj = l.proj /\ m.cap = l.cap /\ m.seen = l.seen
        /\ m.read = l.read /\ m.account = l.account
    <3>1. "capture" \in Pcs /\ None \in Maybe(Ids)
      BY DEF Pcs, Maybe
    <3> QED BY <1>1, <3>1 DEF Contexts
  <2>3. InStep(p, m)
    <3> HIDE DEF m
    <3> QED BY <1>1, <2>2, ProcsApart
            DEF InStep, Importing, Imported, Rebuilding, Gathering, Replacing, Erasing
  <2> HIDE DEF m
  <2>4. local' \in [Procs -> Contexts] /\ ContextsSound'
    BY <1>1, <2>1, <2>2, <2>3, LocalTyped, ContextsGoOn
  <2>5. inputs' \in [id : Maybe(Ids), ready : BOOLEAN, lease : LeaseState,
                     source : {"none", "fresh", "stale"}]
    BY <2>1 DEF TypeOK, LeaseState
  <2> QED BY <1>1, <2>1, <2>4, <2>5 DEF TypeOK, Left
<1> QED BY <1>2, <1>3

LEMMA TypedAbandonPrivateInputs ==
    ASSUME TypeOK, ContextsSound, NEW p \in Procs, AbandonPrivateInputs(p)
    PROVE  TypeOK' /\ ContextsSound'
<1>1. local' \in [Procs -> Contexts] /\ ContextsSound'
  BY AbandonedTo, LeaveTyped DEF AbandonPrivateInputs
<1>2. inputs' \in [id : Maybe(Ids), ready : BOOLEAN, lease : LeaseState,
                   source : {"none", "fresh", "stale"}]
  BY DEF AbandonPrivateInputs, TypeOK, LeaseState
<1> QED BY <1>1, <1>2 DEF AbandonPrivateInputs, TypeOK

LEMMA TypedMarkSyncSuccess ==
    ASSUME TypeOK, ContextsSound, NEW p \in Procs, MarkSyncSuccess(p)
    PROVE  TypeOK' /\ ContextsSound'
<1> DEFINE l == local[p]
<1>1. l \in Contexts /\ InStep(p, l) /\ l.pc = "success" /\ left' \in Left
      /\ UNCHANGED <<provider, reader, covered>>
  BY ContextFields DEF MarkSyncSuccess, TypeOK, Left
<1>2. CASE Fail(p)
  BY <1>1, <1>2, FailTyped DEF Fail
<1>3. CASE ~Fail(p)
  <2>1. /\ conn' = [conn EXCEPT !.token = l.seen, !.last = l.obs, !.failed = FALSE,
                                !.reconnect = FALSE, !.lease = None, !.until = "none"]
        /\ block' = None /\ Leave(p, "idle") /\ Fence(l)
        /\ UNCHANGED <<inputs, events, settings, policyRev, pub, rows>>
    BY <1>3 DEF MarkSyncSuccess
  <2>2. conn \in Connection
    <3>1. l.sync # None /\ l.cleanup = None
      BY <1>1, ProcsApart DEF InStep, Rebuilding, Gathering, Replacing, Erasing
    <3>2. conn # None
      BY <2>1, <3>1 DEF Fence, CalendarFence
    <3> QED BY <3>2 DEF TypeOK, Maybe
  <2>3. l.seen \in Maybe(Calendar) /\ l.obs \in Maybe(Ids) /\ None \in Maybe(Ids)
    BY <1>1 DEF Contexts, Maybe
  <2>4. conn' \in Connection
    BY <2>1, <2>2, <2>3 DEF Connection, LeaseState
  <2>5. local' \in [Procs -> Contexts] /\ ContextsSound'
    BY <1>1, <2>1, LeaveTyped
  <2> QED BY <1>1, <2>1, <2>4, <2>5 DEF TypeOK, Left, Maybe
<1> QED BY <1>2, <1>3

LEMMA TypedMarkSyncFailure ==
    ASSUME TypeOK, ContextsSound, NEW p \in Procs, MarkSyncFailure(p)
    PROVE  TypeOK' /\ ContextsSound'
<1> DEFINE l == local[p]
<1>1. l \in Contexts /\ InStep(p, l) /\ l.pc \in {"markFailure", "markReconnect"}
  BY ContextFields DEF MarkSyncFailure
<1>2. conn' \in Maybe(Connection)
  <2>1. CASE Fence(l)
    <3>1. l.sync # None /\ l.cleanup = None
      BY <1>1, ProcsApart DEF InStep, Rebuilding, Gathering, Replacing, Erasing
    <3>2. conn \in Connection
      BY <2>1, <3>1 DEF Fence, CalendarFence, TypeOK, Maybe
    <3> QED BY <2>1, <3>2 DEF MarkSyncFailure, Failed, Connection, Maybe, LeaseState
  <2>2. CASE ~Fence(l)
    BY <2>2 DEF MarkSyncFailure, TypeOK
  <2> QED BY <2>1, <2>2
<1>3. local' \in [Procs -> Contexts] /\ ContextsSound'
  BY <1>1, LeaveTyped DEF MarkSyncFailure
<1> QED BY <1>2, <1>3 DEF MarkSyncFailure, TypeOK

LEMMA TypedCapture ==
    ASSUME TypeOK, ContextsSound, NEW p \in Procs, CapturePolicyRevision(p) \/ CaptureInputs(p)
    PROVE  TypeOK' /\ ContextsSound'
<1> DEFINE l == local[p]
<1>1. l \in Contexts /\ InStep(p, l) /\ l.pc \in {"capture", "captureInputs"}
      /\ (l.read.policy # None => policyRev # None)
      /\ left' \in Left /\ UNCHANGED <<provider, documents, reader, covered>>
  BY ContextFields DEF CapturePolicyRevision, CaptureInputs, TypeOK, Left, Steady
<1>2. CASE FailAt(p)
  BY <1>1, <1>2, FailTyped
<1>3. CASE ~FailAt(p)
  <2>1. \E cap \in Capture, pc \in {"captureInputs", "policy"} :
            Continue(p, [l EXCEPT !.pc = pc, !.cap = cap])
    <3>1. CASE CapturePolicyRevision(p)
      <4>1. [policy |-> policyRev, private |-> None, managed |-> FALSE] \in Capture
        BY DEF Capture, TypeOK, Maybe
      <4> QED BY <3>1, <4>1 DEF CapturePolicyRevision
    <3>2. CASE CaptureInputs(p)
      <4> DEFINE cap == [l.cap EXCEPT !.private = inputs.id, !.managed = Managed(inputs.source, conn, block)]
                 m == [l EXCEPT !.pc = "policy", !.cap.private = inputs.id,
                                !.cap.managed = Managed(inputs.source, conn, block)]
      <4>1. l.cap \in Capture
        BY <3>2, ContextFields DEF CaptureInputs, InStep, Gathering
      <4>2. cap \in Capture
        BY <4>1 DEF Capture, TypeOK, Managed
      <4>3. m = [l EXCEPT !.pc = "policy", !.cap = cap]
        BY <1>1 DEF Contexts
      <4>4. Continue(p, m)
        BY <1>3, <3>2 DEF CaptureInputs
      <4> QED BY <4>2, <4>3, <4>4
    <3> QED BY <1>1, <3>1, <3>2, <1>3 DEF CapturePolicyRevision, CaptureInputs
  <2>2. PICK cap \in Capture, pc \in {"captureInputs", "policy"} :
            Continue(p, [l EXCEPT !.pc = pc, !.cap = cap])
    BY <2>1
  <2> DEFINE m == [l EXCEPT !.pc = pc, !.cap = cap]
  <2>3. m \in Contexts /\ m.pc = pc /\ m.sync = l.sync /\ m.cleanup = l.cleanup
        /\ m.priv = l.priv /\ m.obs = l.obs /\ m.proj = l.proj /\ m.cap = cap /\ m.seen = l.seen
        /\ m.read = l.read /\ m.account = l.account
    <3>1. pc \in Pcs /\ cap \in Maybe(Capture)
      BY <2>2 DEF Pcs, Maybe
    <3> QED BY <1>1, <3>1 DEF Contexts
  <2>4. Continue(p, m)
    BY <2>2
  <2> HIDE DEF m
  <2>5. InStep(p, m)
    BY <1>1, <2>2, <2>3, NoneApart, ProcsApart
       DEF InStep, Importing, Imported, Rebuilding, Gathering, Replacing, Erasing
  <2> QED BY <1>1, <2>3, <2>4, <2>5, QuietTyped
<1> QED BY <1>2, <1>3

LEMMA TypedGather ==
    ASSUME TypeOK, ContextsSound, NEW p \in Procs,
           ReadPolicy(p) \/ CheckEventsBefore(p) \/ ReadEvents(p) \/ CheckEventsAfter(p) \/ ReadOverrides(p)
    PROVE  TypeOK' /\ ContextsSound'
<1> DEFINE l == local[p]
<1>1. l \in Contexts /\ InStep(p, l) /\ l.pc \in Gathering \ {"captureInputs"}
      /\ (l.read.policy # None => policyRev # None) /\ l.read \in Inputs
      /\ left' \in Left /\ UNCHANGED <<provider, documents, reader, covered>>
  BY ContextFields DEF ReadPolicy, CheckEventsBefore, ReadEvents, CheckEventsAfter, ReadOverrides,
                       TypeOK, Left, Steady, Gathering
<1>2. CASE FailAt(p)
  BY <1>1, <1>2, FailTyped DEF Gathering
<1>3. CASE ~FailAt(p)
  <2>1. \E read \in Inputs, pc \in Gathering :
            /\ Continue(p, [l EXCEPT !.pc = pc, !.read = read])
            /\ pc \in {"events", "scan", "recheck", "overrides", "write"} => read.policy # None
            /\ read.policy # None => policyRev # None
    <3>1. CASE ReadPolicy(p)
      <4> DEFINE read == [l.read EXCEPT !.policy = settings.policy]
                 pc == IF settings.policy = None THEN "default" ELSE "events"
      <4>1. read \in Inputs /\ read.policy = settings.policy
        BY <1>1 DEF Inputs, TypeOK, Maybe
      <4>2. Continue(p, [l EXCEPT !.pc = pc, !.read.policy = settings.policy])
        BY <3>1 DEF ReadPolicy
      <4>3. [l EXCEPT !.pc = pc, !.read.policy = settings.policy] = [l EXCEPT !.pc = pc, !.read = read]
        BY <1>1 DEF Contexts
      <4>4. Continue(p, [l EXCEPT !.pc = pc, !.read = read])
        BY <4>2, <4>3
      <4>5. pc \in Gathering /\ (pc # "default" => settings.policy # None)
            /\ (settings.policy # None => policyRev # None)
        BY DEF Gathering, ContextsSound
      <4> HIDE DEF read, pc
      <4> QED BY <4>1, <4>4, <4>5
    <3>2. CASE CheckEventsBefore(p) \/ CheckEventsAfter(p)
      <4>1. PICK pc \in {"scan", "overrides"} :
                Continue(p, [l EXCEPT !.pc = pc]) /\ l.pc \in {"events", "recheck"}
        BY <1>3, <3>2 DEF CheckEventsBefore, CheckEventsAfter, Goto
      <4>2. [l EXCEPT !.pc = pc] = [l EXCEPT !.pc = pc, !.read = l.read]
        BY <1>1 DEF Contexts
      <4>3. l.read.policy # None
        BY <1>1, <4>1 DEF InStep
      <4>4. Continue(p, [l EXCEPT !.pc = pc, !.read = l.read]) /\ pc \in Gathering
        BY <4>1, <4>2 DEF Gathering
      <4> QED BY <1>1, <4>3, <4>4
    <3>3. CASE ReadEvents(p)
      <4> DEFINE read == [l.read EXCEPT !.events = events]
      <4>1. read \in Inputs /\ read.policy = l.read.policy /\ l.pc = "scan"
        BY <1>1, <3>3 DEF Inputs, TypeOK, ReadEvents
      <4>2. [l EXCEPT !.pc = "recheck", !.read.events = events] = [l EXCEPT !.pc = "recheck", !.read = read]
        BY <1>1 DEF Contexts
      <4>3. Continue(p, [l EXCEPT !.pc = "recheck", !.read = read])
        BY <3>3, <4>2 DEF ReadEvents
      <4>4. read.policy # None /\ (read.policy # None => policyRev # None) /\ "recheck" \in Gathering
        BY <1>1, <4>1 DEF InStep, Gathering
      <4> HIDE DEF read
      <4> QED BY <4>1, <4>3, <4>4
    <3>4. CASE ReadOverrides(p)
      <4> DEFINE read == [l.read EXCEPT !.override = settings.override]
      <4>1. read \in Inputs /\ read.policy = l.read.policy /\ l.pc = "overrides"
        BY <1>1, <3>4 DEF Inputs, TypeOK, ReadOverrides
      <4>2. [l EXCEPT !.pc = "write", !.read.override = settings.override] = [l EXCEPT !.pc = "write", !.read = read]
        BY <1>1 DEF Contexts
      <4>3. Continue(p, [l EXCEPT !.pc = "write", !.read = read])
        BY <3>4, <4>2 DEF ReadOverrides
      <4>4. read.policy # None /\ (read.policy # None => policyRev # None) /\ "write" \in Gathering
        BY <1>1, <4>1 DEF InStep, Gathering
      <4> HIDE DEF read
      <4> QED BY <4>1, <4>3, <4>4
    <3> QED BY <3>1, <3>2, <3>3, <3>4
  <2>2. PICK read \in Inputs, pc \in Gathering :
            /\ Continue(p, [l EXCEPT !.pc = pc, !.read = read])
            /\ pc \in {"events", "scan", "recheck", "overrides", "write"} => read.policy # None
            /\ read.policy # None => policyRev # None
    BY <2>1
  <2> DEFINE m == [l EXCEPT !.pc = pc, !.read = read]
  <2>3. m \in Contexts /\ m.pc = pc /\ m.sync = l.sync /\ m.cleanup = l.cleanup
        /\ m.priv = l.priv /\ m.obs = l.obs /\ m.proj = l.proj /\ m.cap = l.cap /\ m.seen = l.seen
        /\ m.read = read /\ m.account = l.account
    <3>1. pc \in Pcs
      BY <2>2 DEF Pcs, Gathering
    <3> QED BY <1>1, <3>1 DEF Contexts
  <2>4. Continue(p, m)
    BY <2>2
  <2> HIDE DEF m
  <2>5. InStep(p, m)
    BY <1>1, <2>2, <2>3, ProcsApart
       DEF InStep, Importing, Imported, Rebuilding, Gathering, Replacing, Erasing
  <2> QED BY <1>1, <2>2, <2>3, <2>4, <2>5, QuietTyped
<1> QED BY <1>2, <1>3

LEMMA PolicyTyped ==
    ASSUME TypeOK, ContextsSound, NEW p \in Procs, NEW m \in Contexts, InStep(p, m), Continue(p, m),
           policyRev' = NewPolicyRevision
    PROVE  local' \in [Procs -> Contexts] /\ ContextsSound' /\ policyRev' \in Ids
<1>1. policyRev' \in Ids /\ policyRev' # None
  BY NewPolicyRevisionFresh, NoneApart
<1> QED BY <1>1, LocalTyped DEF ContextsSound

LEMMA TypedCreateDefaultPolicy ==
    ASSUME TypeOK, ContextsSound, NEW p \in Procs, CreateDefaultPolicy(p)
    PROVE  TypeOK' /\ ContextsSound'
<1> DEFINE l == local[p]
<1>1. l \in Contexts /\ InStep(p, l) /\ l.pc = "default" /\ left' \in Left
      /\ UNCHANGED <<provider, reader, covered>>
  BY ContextFields DEF CreateDefaultPolicy, TypeOK, Left
<1>2. CASE Fail(p)
  BY <1>1, <1>2, FailTyped DEF Fail
<1>3. CASE ~Fail(p)
  <2>1. /\ settings' = [settings EXCEPT !.policy = DefaultPolicy]
        /\ policyRev' = NewPolicyRevision /\ Goto(p, "capture")
        /\ UNCHANGED <<conn, inputs, events, pub, rows, block>>
    BY <1>3 DEF CreateDefaultPolicy
  <2>2. PICK m \in Contexts : Continue(p, m) /\ m = [l EXCEPT !.pc = "capture"] /\ m.pc = "capture"
    BY <2>1, GotoTyped DEF Pcs
  <2>3. /\ m.sync = l.sync /\ m.cleanup = l.cleanup /\ m.priv = l.priv /\ m.proj = l.proj
        /\ m.cap = l.cap /\ m.obs = l.obs /\ m.seen = l.seen /\ m.read = l.read /\ m.account = l.account
    BY <1>1, <2>2 DEF Contexts
  <2>4. InStep(p, m)
    BY <1>1, <2>2, <2>3, ProcsApart
       DEF InStep, Importing, Imported, Rebuilding, Gathering, Replacing, Erasing
  <2>5. local' \in [Procs -> Contexts] /\ ContextsSound' /\ policyRev' \in Ids
    BY <2>1, <2>2, <2>4, PolicyTyped
  <2>6. settings' \in [policy : Maybe(Policies), override : Maybe(Overrides)]
    BY <2>1, SettingsAssumption DEF TypeOK, Maybe
  <2> QED BY <1>1, <2>1, <2>5, <2>6 DEF TypeOK, Left, Maybe
<1> QED BY <1>2, <1>3

LEMMA TypedPutSharingPolicy ==
    ASSUME TypeOK, ContextsSound, NEW p \in Editors, PutSharingPolicy(p)
    PROVE  TypeOK' /\ ContextsSound'
<1>1. p \in Procs
  BY DEF Procs
<1>2. PICK policy \in Policies, win \in Windows :
        /\ settings' = [settings EXCEPT !.policy = policy]
        /\ Continue(p, [Nothing EXCEPT !.pc = "capture", !.win = win])
  BY DEF PutSharingPolicy
<1> DEFINE m == [Nothing EXCEPT !.pc = "capture", !.win = win]
<1>3. m \in Contexts /\ m.pc = "capture" /\ m.sync = None /\ m.cleanup = None /\ m.priv = None
      /\ m.proj = None /\ m.obs = None /\ m.cap = None
  <2>1. Nothing \in Contexts
    BY <1>1, NothingSound
  <2>2. "capture" \in Pcs /\ win \in SUBSET Cells
    BY SettingsAssumption DEF Pcs
  <2>3. m \in Contexts /\ m.pc = "capture"
    BY <2>1, <2>2 DEF Contexts
  <2>4. Nothing.sync = None /\ Nothing.cleanup = None /\ Nothing.priv = None
        /\ Nothing.proj = None /\ Nothing.obs = None /\ Nothing.cap = None
    BY DEF Nothing
  <2> QED BY <2>1, <2>3, <2>4 DEF Contexts
<1>4. Continue(p, m) /\ policyRev' = NewPolicyRevision /\ left' \in Left
      /\ UNCHANGED <<provider, conn, inputs, events, pub, rows, block, reader, covered>>
  BY <1>2, SpendTyped DEF PutSharingPolicy, TypeOK, Left, Kinds
<1> HIDE DEF m
<1>5. InStep(p, m)
  BY <1>1, <1>3, ProcsApart
     DEF InStep, Importing, Imported, Rebuilding, Gathering, Replacing, Erasing
<1>6. local' \in [Procs -> Contexts] /\ ContextsSound' /\ policyRev' \in Ids
  BY <1>1, <1>3, <1>4, <1>5, PolicyTyped
<1>7. settings' \in [policy : Maybe(Policies), override : Maybe(Overrides)]
  BY <1>2 DEF TypeOK, Maybe
<1> QED BY <1>4, <1>6, <1>7 DEF TypeOK, Left, Maybe

LEMMA TypedBeginReplace ==
    ASSUME TypeOK, ContextsSound, NEW p \in Procs, BeginReplace(p)
    PROVE  TypeOK' /\ ContextsSound'
<1> DEFINE l == local[p]
<1>1. l \in Contexts /\ InStep(p, l) /\ l.pc = "write" /\ (l.read.policy # None => policyRev # None)
      /\ left' \in Left /\ UNCHANGED <<provider, reader, covered>>
  BY ContextFields DEF BeginReplace, TypeOK, Left
<1>2. CASE Fail(p)
  BY <1>1, <1>2, FailTyped DEF Fail
<1>3. CASE ~Fail(p)
  <2>1. PICK clearAll \in BOOLEAN, del \in SUBSET Cells :
            /\ pub' = [id |-> NewPublication, ready |-> FALSE, dirty |-> TRUE, clear |-> FALSE, win |-> l.win,
                       policy |-> None, private |-> None, lease |-> "live"]
            /\ Continue(p, [l EXCEPT !.pc = "rows", !.proj = NewPublication, !.clearAll = clearAll,
                                     !.del = del, !.put = l.win])
            /\ UNCHANGED <<conn, inputs, events, settings, policyRev, rows, block>>
    <3>1. Held(rows) \subseteq Cells
      BY DEF Held
    <3> QED BY <1>3, <3>1 DEF BeginReplace, NewInputsSince
  <2> DEFINE m == [l EXCEPT !.pc = "rows", !.proj = NewPublication, !.clearAll = clearAll,
                            !.del = del, !.put = l.win]
  <2>2. NewPublication \in Ids /\ l.win \subseteq Cells
    BY <1>1, NewPublicationFresh DEF Contexts
  <2>3. m \in Contexts /\ m.pc = "rows" /\ m.sync = l.sync /\ m.cleanup = l.cleanup
        /\ m.priv = l.priv /\ m.obs = l.obs /\ m.proj = NewPublication /\ m.cap = l.cap /\ m.seen = l.seen
        /\ m.read = l.read /\ m.account = l.account
    <3>1. "rows" \in Pcs /\ NewPublication \in Maybe(Ids)
      BY <2>2 DEF Pcs, Maybe
    <3> QED BY <1>1, <2>2, <3>1 DEF Contexts
  <2>4. Continue(p, m)
    BY <2>1
  <2> HIDE DEF m
  <2>5. InStep(p, m)
    BY <1>1, <2>2, <2>3, NoneApart, ProcsApart
       DEF InStep, Importing, Imported, Rebuilding, Gathering, Replacing, Erasing
  <2>6. local' \in [Procs -> Contexts] /\ ContextsSound'
    BY <1>1, <2>1, <2>3, <2>4, <2>5, LocalTyped, ContextsGoOn
  <2>7. pub' \in Gate
    BY <2>1, <2>2 DEF Gate, Maybe, LeaseState
  <2> QED BY <1>1, <2>1, <2>6, <2>7 DEF TypeOK, Left, Maybe
<1> QED BY <1>2, <1>3

LEMMA TypedReplaceRows ==
    ASSUME TypeOK, ContextsSound, NEW p \in Procs, ReplaceRows(p)
    PROVE  TypeOK' /\ ContextsSound'
<1> DEFINE l == local[p]
<1>1. l \in Contexts /\ InStep(p, l) /\ l.pc = "rows" /\ left' \in Left /\ l.read \in Inputs
      /\ UNCHANGED <<provider, reader, covered>>
  BY ContextFields DEF ReplaceRows, TypeOK, Left
<1>2. CASE Fail(p)
  BY <1>1, <1>2, FailTyped DEF Fail
<1>3. CASE ~Fail(p)
  <2>1. PICK b \in Chunks(l) :
            /\ rows' = [c \in Cells |-> IF c \in b.put THEN Projection(l.read, c)
                                        ELSE IF c \in b.del THEN None ELSE rows[c]]
            /\ Continue(p, Written(l, b))
            /\ UNCHANGED <<conn, inputs, events, settings, policyRev, pub, block>>
    BY <1>3 DEF ReplaceRows
  <2>2. l.read.policy \in Policies
    BY <1>1 DEF InStep, Inputs, Maybe
  <2>3. \A c \in Cells : Projection(l.read, c) \in Row
    BY <1>1, <2>2 DEF Projection, Row, Inputs, Calendar
  <2>4. rows' \in Rows
    BY <2>1, <2>3 DEF TypeOK, Rows, Maybe
  <2>5. local' \in [Procs -> Contexts] /\ ContextsSound'
    BY <2>1, WrittenGoesOn
  <2> QED BY <1>1, <2>1, <2>4, <2>5 DEF TypeOK, Left
<1> QED BY <1>2, <1>3

LEMMA TypedFinishReplace ==
    ASSUME TypeOK, ContextsSound, NEW p \in Procs, FinishReplace(p)
    PROVE  TypeOK' /\ ContextsSound'
<1> DEFINE l == local[p]
<1>1. l \in Contexts /\ InStep(p, l) /\ l.pc = "rows" /\ (l.read.policy # None => policyRev # None)
      /\ left' \in Left /\ UNCHANGED <<provider, reader>> /\ l.cap \in Capture
  BY ContextFields DEF FinishReplace, TypeOK, Left, InStep, Replacing
<1>2. CASE Fail(p) /\ UNCHANGED covered
  BY <1>1, <1>2, FailTyped DEF Fail
<1>3. CASE ~(Fail(p) /\ UNCHANGED covered)
  <2>1. /\ pub' = Completed(l)
        /\ covered' = l.win \cup (IF l.clearAll THEN {} ELSE covered)
        /\ IF p \in Syncers
           THEN Continue(p, [Nothing EXCEPT !.pc = "success", !.sync = l.sync, !.obs = l.obs, !.seen = l.seen])
           ELSE Leave(p, "idle")
        /\ UNCHANGED <<conn, inputs, events, settings, policyRev, rows, block>>
    BY <1>3 DEF FinishReplace
  <2>2. local' \in [Procs -> Contexts] /\ ContextsSound'
    <3>1. CASE p \notin Syncers
      BY <1>1, <2>1, <3>1, LeaveTyped
    <3>2. CASE p \in Syncers
      <4> DEFINE m == [Nothing EXCEPT !.pc = "success", !.sync = l.sync, !.obs = l.obs, !.seen = l.seen]
      <4>1. Nothing \in Contexts /\ "success" \in Pcs /\ Nothing.read.policy = None
        BY NothingSound DEF Pcs
      <4>2. Nothing.cleanup = None /\ Nothing.priv = None /\ Nothing.proj = None /\ Nothing.cap = None
        BY DEF Nothing
      <4>3. m \in Contexts /\ m.pc = "success" /\ m.sync = l.sync /\ m.obs = l.obs /\ m.seen = l.seen
            /\ m.cleanup = None /\ m.priv = None /\ m.proj = None /\ m.cap = None /\ m.read.policy = None
        BY <1>1, <4>1, <4>2 DEF Contexts
      <4>4. Continue(p, m)
        BY <2>1, <3>2
      <4> HIDE DEF m
      <4>5. InStep(p, m)
        BY <1>1, <3>2, <4>3, ProcsApart
           DEF InStep, Importing, Imported, Rebuilding, Gathering, Replacing, Erasing
      <4> QED BY <2>1, <4>3, <4>4, <4>5, LocalTyped, ContextsGoOn
    <3> QED BY <3>1, <3>2
  <2>3. l.proj \in Ids
    BY <1>1 DEF InStep, Replacing, Contexts, Maybe
  <2>4. pub' \in Gate
    BY <1>1, <2>1, <2>3 DEF Completed, Gate, Capture, LeaseState
  <2>5. covered' \subseteq Cells
    BY <1>1, <2>1 DEF TypeOK, Contexts
  <2> QED BY <1>1, <2>1, <2>2, <2>4, <2>5 DEF TypeOK, Left, Maybe
<1> QED BY <1>2, <1>3

LEMMA TypedAbandonProjectionWrite ==
    ASSUME TypeOK, ContextsSound, NEW p \in Procs, AbandonProjectionWrite(p)
    PROVE  TypeOK' /\ ContextsSound'
<1> DEFINE l == local[p]
<1>1. l \in Contexts /\ InStep(p, l) /\ l.pc \in {"dropWrite", "dropErase"}
  BY ContextFields DEF AbandonProjectionWrite
<1>2. local' \in [Procs -> Contexts] /\ ContextsSound'
  BY <1>1, AbandonedTo, LeaveTyped DEF AbandonProjectionWrite
<1>3. pub' \in Maybe(Gate)
  <2>1. CASE Fence([l EXCEPT !.cap = None])
    <3>1. l.proj # None /\ [l EXCEPT !.cap = None].proj = l.proj
      BY <1>1 DEF InStep, Replacing, Erasing, Contexts
    <3>2. pub \in Gate
      BY <2>1, <3>1 DEF Fence, ProjectionFence, TypeOK, Maybe
    <3> QED BY <2>1, <3>2 DEF AbandonProjectionWrite, Gate, Maybe, LeaseState
  <2>2. CASE ~Fence([l EXCEPT !.cap = None])
    BY <2>2 DEF AbandonProjectionWrite, TypeOK
  <2> QED BY <2>1, <2>2
<1> QED BY <1>2, <1>3 DEF AbandonProjectionWrite, TypeOK

LEMMA TypedBeginErase ==
    ASSUME TypeOK, ContextsSound, NEW p \in Procs, BeginErase(p)
    PROVE  TypeOK' /\ ContextsSound'
<1> DEFINE l == local[p]
           m == [l EXCEPT !.pc = "erasing", !.proj = NewPublication]
<1>1. l \in Contexts /\ InStep(p, l) /\ l.pc = "erase" /\ (l.read.policy # None => policyRev # None)
      /\ left' \in Left /\ UNCHANGED <<provider, reader, covered>>
  BY ContextFields DEF BeginErase, TypeOK, Left
<1>2. CASE Fail(p)
  BY <1>1, <1>2, FailTyped DEF Fail
<1>3. CASE ~Fail(p)
  <2>1. /\ pub' = [id |-> NewPublication, ready |-> FALSE, dirty |-> TRUE, clear |-> TRUE, win |-> {},
                   policy |-> None, private |-> None, lease |-> "live"]
        /\ Continue(p, m)
        /\ UNCHANGED <<conn, inputs, events, settings, policyRev, rows, block>>
    BY <1>3 DEF BeginErase
  <2>2. NewPublication \in Ids
    BY NewPublicationFresh
  <2>3. m \in Contexts /\ m.pc = "erasing" /\ m.sync = l.sync /\ m.cleanup = l.cleanup
        /\ m.priv = l.priv /\ m.obs = l.obs /\ m.proj = NewPublication /\ m.cap = l.cap /\ m.seen = l.seen
        /\ m.read = l.read /\ m.account = l.account
    <3>1. "erasing" \in Pcs /\ NewPublication \in Maybe(Ids)
      BY <2>2 DEF Pcs, Maybe
    <3> QED BY <1>1, <3>1 DEF Contexts
  <2> HIDE DEF m
  <2>4. InStep(p, m)
    BY <1>1, <2>2, <2>3, NoneApart, ProcsApart
       DEF InStep, Importing, Imported, Rebuilding, Gathering, Replacing, Erasing
  <2>5. local' \in [Procs -> Contexts] /\ ContextsSound'
    BY <1>1, <2>1, <2>3, <2>4, LocalTyped, ContextsGoOn
  <2>6. pub' \in Gate
    BY <2>1, <2>2 DEF Gate, Maybe, LeaseState
  <2> QED BY <1>1, <2>1, <2>5, <2>6 DEF TypeOK, Left, Maybe
<1> QED BY <1>2, <1>3

LEMMA TypedEraseRows ==
    ASSUME TypeOK, ContextsSound, NEW p \in Procs, EraseRows(p)
    PROVE  TypeOK' /\ ContextsSound'
<1>1. local[p].pc = "erasing" /\ left' \in Left /\ UNCHANGED <<provider, reader, covered>>
  BY DEF EraseRows, TypeOK, Left
<1>2. CASE Fail(p)
  BY <1>1, <1>2, FailTyped DEF Fail
<1>3. CASE ~Fail(p)
  <2>1. Wipe(p, rows, rows', "erasing") /\ UNCHANGED <<conn, inputs, events, settings, policyRev, pub, block>>
    BY <1>3 DEF EraseRows
  <2>2. local' \in [Procs -> Contexts] /\ ContextsSound' /\ rows' \in Rows
    BY <1>1, <2>1, WipeTyped DEF TypeOK, Rows
  <2> QED BY <1>1, <2>1, <2>2 DEF TypeOK, Left
<1> QED BY <1>2, <1>3

LEMMA TypedFinishErase ==
    ASSUME TypeOK, ContextsSound, NEW p \in Procs, FinishErase(p)
    PROVE  TypeOK' /\ ContextsSound'
<1> DEFINE l == local[p]
<1>1. l \in Contexts /\ InStep(p, l) /\ l.pc = "erasing" /\ left' \in Left /\ UNCHANGED <<provider, reader>>
  BY ContextFields DEF FinishErase, TypeOK, Left
<1>2. CASE Fail(p) /\ UNCHANGED covered
  BY <1>1, <1>2, FailTyped DEF Fail
<1>3. CASE ~(Fail(p) /\ UNCHANGED covered)
  <2>1. /\ pub' = [id |-> l.proj, ready |-> FALSE, dirty |-> FALSE, clear |-> FALSE, win |-> {},
                   policy |-> None, private |-> None, lease |-> "none"]
        /\ covered' = {}
        /\ Leave(p, IF p \in Disconnecters THEN "eraseEvents" ELSE "idle")
        /\ UNCHANGED <<conn, inputs, events, settings, policyRev, rows, block>>
    BY <1>3 DEF FinishErase
  <2>2. local' \in [Procs -> Contexts] /\ ContextsSound'
    BY <1>1, <2>1, LeaveTyped
  <2>3. l.proj \in Ids
    BY <1>1 DEF InStep, Erasing, Contexts, Maybe
  <2>4. pub' \in Gate
    BY <2>1, <2>3 DEF Gate, Maybe, LeaseState
  <2> QED BY <1>1, <2>1, <2>2, <2>4 DEF TypeOK, Left, Maybe
<1> QED BY <1>2, <1>3

LEMMA TypedRevokeConnection ==
    ASSUME TypeOK, ContextsSound, NEW p \in Disconnecters, RevokeConnection(p)
    PROVE  TypeOK' /\ ContextsSound'
<1> DEFINE m == [Nothing EXCEPT !.pc = "erase", !.cleanup = NewLease, !.obs = NewInputs]
<1>1. p \in Procs /\ NewLease \in Ids /\ NewInputs \in Ids
  BY NewLeaseFresh, NewInputsFresh DEF Procs
<1>2. /\ block' = [id |-> NewLease, inProgress |-> TRUE, lease |-> "live"]
      /\ inputs' = [id |-> NewInputs, ready |-> FALSE, lease |-> "none", source |-> "none"]
      /\ conn' = None /\ Continue(p, m) /\ left' \in Left
      /\ UNCHANGED <<provider, events, settings, policyRev, pub, rows, reader, covered>>
  BY SpendTyped DEF RevokeConnection, TypeOK, Left, Kinds
<1>3. m \in Contexts /\ m.pc = "erase" /\ m.sync = None /\ m.cleanup = NewLease /\ m.priv = None
      /\ m.proj = None /\ m.obs = NewInputs /\ m.cap = None /\ m.read.policy = None
  <2>1. Nothing \in Contexts /\ "erase" \in Pcs /\ Nothing.read.policy = None
        /\ NewLease \in Maybe(Ids) /\ NewInputs \in Maybe(Ids)
    BY <1>1, NothingSound DEF Pcs, Maybe
  <2>2. Nothing.sync = None /\ Nothing.priv = None /\ Nothing.proj = None /\ Nothing.cap = None
    BY DEF Nothing
  <2> QED BY <2>1, <2>2 DEF Contexts
<1> HIDE DEF m
<1>4. InStep(p, m)
  BY <1>1, <1>3, NoneApart, ProcsApart
     DEF InStep, Importing, Imported, Rebuilding, Gathering, Replacing, Erasing
<1>5. local' \in [Procs -> Contexts] /\ ContextsSound'
  BY <1>1, <1>2, <1>3, <1>4, LocalTyped, ContextsGoOn
<1>6. block' \in Block /\ inputs' \in [id : Maybe(Ids), ready : BOOLEAN, lease : LeaseState,
                                       source : {"none", "fresh", "stale"}]
  BY <1>1, <1>2 DEF Block, Maybe, LeaseState
<1> QED BY <1>2, <1>5, <1>6 DEF TypeOK, Left, Maybe

LEMMA TypedFinishDisconnection ==
    ASSUME TypeOK, ContextsSound, NEW p \in Procs, FinishDisconnection(p)
    PROVE  TypeOK' /\ ContextsSound'
<1> DEFINE l == local[p]
<1>1. l \in Contexts /\ InStep(p, l) /\ l.pc = "release" /\ left' \in Left
      /\ UNCHANGED <<provider, reader, covered>>
  BY ContextFields DEF FinishDisconnection, TypeOK, Left
<1>2. CASE Fail(p)
  BY <1>1, <1>2, FailTyped DEF Fail
<1>3. CASE ~Fail(p)
  <2>1. /\ Fence(l) /\ Leave(p, "idle")
        /\ inputs' = [id |-> l.obs, ready |-> TRUE, lease |-> "none", source |-> "none"]
        /\ block' = [block EXCEPT !.inProgress = FALSE, !.lease = "none"]
        /\ UNCHANGED <<conn, events, settings, policyRev, pub, rows>>
    BY <1>3 DEF FinishDisconnection
  <2>2. block \in Block
    <3>1. l.cleanup # None
      BY <1>1, ProcsApart DEF InStep, Importing, Imported, Rebuilding, Gathering, Replacing, Erasing
    <3> QED BY <2>1, <3>1 DEF Fence, CalendarFence, TypeOK, Maybe
  <2>3. block' \in Block /\ inputs' \in [id : Maybe(Ids), ready : BOOLEAN, lease : LeaseState,
                                         source : {"none", "fresh", "stale"}]
    BY <1>1, <2>1, <2>2 DEF Block, LeaseState, Contexts
  <2>4. local' \in [Procs -> Contexts] /\ ContextsSound'
    BY <1>1, <2>1, LeaveTyped
  <2> QED BY <1>1, <2>1, <2>3, <2>4 DEF TypeOK, Left, Maybe
<1> QED BY <1>2, <1>3

LEMMA TypedCreateOverride ==
    ASSUME TypeOK, ContextsSound, CreateOverride
    PROVE  TypeOK' /\ ContextsSound'
<1>1. PICK override \in Overrides : settings' = [settings EXCEPT !.override = override]
  BY DEF CreateOverride
<1>2. policyRev' = NewPolicyRevision /\ left' \in Left
      /\ UNCHANGED <<provider, conn, inputs, events, pub, rows, block, local, reader, covered>>
  BY SpendTyped DEF CreateOverride, TypeOK, Left, Kinds
<1>3. policyRev' \in Ids /\ policyRev' # None
  BY <1>2, NewPolicyRevisionFresh, NoneApart
<1>4. settings' \in [policy : Maybe(Policies), override : Maybe(Overrides)]
  BY <1>1 DEF TypeOK, Maybe
<1>5. ContextsSound'
  BY <1>2, <1>3 DEF ContextsSound
<1> QED BY <1>2, <1>3, <1>4, <1>5 DEF TypeOK, Left, Maybe

LEMMA TypedSaveConnection ==
    ASSUME TypeOK, ContextsSound, SaveConnection
    PROVE  TypeOK' /\ ContextsSound'
<1>1. PICK account \in Accounts : conn' = NewConnection(account)
  BY DEF SaveConnection
<1>2. conn' \in Connection
  BY <1>1 DEF NewConnection, Connection, Maybe, LeaseState
<1>3. left' \in Left
      /\ UNCHANGED <<provider, inputs, events, settings, policyRev, pub, rows, block, local, reader, covered>>
  BY SpendTyped DEF SaveConnection, TypeOK, Left, Kinds
<1> QED BY <1>2, <1>3 DEF TypeOK, ContextsSound, Left, Maybe

LEMMA TypedExpire ==
    ASSUME TypeOK, ContextsSound, Expire
    PROVE  TypeOK' /\ ContextsSound'
<1>1. left' \in Left
  BY SpendTyped DEF Expire, ExpireLease, RunsOut, TypeOK, Left, Kinds
<1>2. conn' \in Maybe(Connection)
  BY DEF Expire, ExpireLease, TypeOK, Connection, Maybe, LeaseState
<1>3. inputs' \in [id : Maybe(Ids), ready : BOOLEAN, lease : LeaseState, source : {"none", "fresh", "stale"}]
  BY DEF Expire, ExpireLease, TypeOK, LeaseState
<1>4. pub' \in Maybe(Gate)
  BY DEF Expire, ExpireLease, TypeOK, Gate, Maybe, LeaseState
<1>5. block' \in Maybe(Block)
  BY DEF Expire, ExpireLease, TypeOK, Block, Maybe, LeaseState
<1>6. UNCHANGED <<provider, events, settings, policyRev, rows, local, reader, covered>>
  BY DEF Expire
<1> QED BY <1>1, <1>2, <1>3, <1>4, <1>5, <1>6 DEF TypeOK, ContextsSound, Left

LEMMA TypedWorld ==
    ASSUME TypeOK, ContextsSound, Age \/ ProviderChanges
    PROVE  TypeOK' /\ ContextsSound'
<1>1. left' \in Left
  BY SpendTyped DEF Age, ProviderChanges, TypeOK, Left, Kinds
<1>2. CASE Age
  BY <1>1, <1>2 DEF Age, TypeOK, ContextsSound, Left
<1>3. CASE ProviderChanges
  BY <1>1, <1>3 DEF ProviderChanges, documents, TypeOK, ContextsSound, Left
<1> QED BY <1>2, <1>3

LEMMA NoReaderTyped == NoReader \in Readers
BY DEF NoReader, Readers, Maybe

LEMMA TypedRead ==
    ASSUME TypeOK, ContextsSound, Read
    PROVE  TypeOK' /\ ContextsSound'
<1>1. left' \in Left
  BY SpendTyped DEF Read, StartRead, ReadBlock, ReadGate, ReadPolicyRevision, ReadInputs, ReadConnection,
     ReadBlockAgain, QueryRows, PassEnds, NextRead, ReaderGoes, TypeOK, Left, Kinds
<1>2. reader \in Readers /\ NoReader \in Readers
  BY NoReaderTyped DEF TypeOK
<1>3. UNCHANGED <<provider, documents, local, covered>>
  BY DEF Read, StartRead, ReadBlock, ReadGate, ReadPolicyRevision, ReadInputs, ReadConnection,
     ReadBlockAgain, QueryRows, PassEnds, NextRead, ReaderGoes
<1>4. reader' \in Readers
  <2>1. CASE StartRead \/ ReadBlock \/ ReadPolicyRevision
    BY <1>2, <2>1 DEF StartRead, ReadBlock, ReadPolicyRevision, NextRead, ReaderGoes, Readers
  <2>2. CASE ReadGate
    <3> DEFINE g == IF pub = None THEN None
                    ELSE [id |-> pub.id, ready |-> pub.ready, dirty |-> pub.dirty,
                          lease |-> pub.lease, policy |-> pub.policy, private |-> pub.private]
    <3>1. g \in Maybe(GateView)
      BY DEF TypeOK, Gate, GateView, Maybe
    <3>2. reader' = [reader EXCEPT !.pc = "policy", !.gate = g]
      BY <2>2 DEF ReadGate, NextRead, ReaderGoes
    <3> HIDE DEF g
    <3> QED BY <1>2, <3>1, <3>2 DEF Readers
  <2>3. CASE ReadInputs
    BY <1>2, <2>3 DEF ReadInputs, NextRead, ReaderGoes, Readers, TypeOK
  <2>4. ASSUME NEW ok, PassEnds(ok) PROVE reader' \in Readers
    <3> DEFINE id == IF reader.gate = None THEN None ELSE reader.gate.id
    <3>1. id \in Maybe(Ids)
      BY <1>2 DEF Readers, GateView, Maybe
    <3>2. \/ reader' = NoReader
          \/ reader' = [NoReader EXCEPT !.pc = "rows", !.id = id]
          \/ reader' = [NoReader EXCEPT !.pc = "answered", !.sound = reader.sound]
      BY <2>4 DEF PassEnds, NextRead, ReaderGoes
    <3> HIDE DEF id
    <3> QED BY <1>2, <3>1, <3>2 DEF Readers
  <2>5. CASE ReadConnection
    BY <1>2, <2>4, <2>5 DEF ReadConnection, NextRead, ReaderGoes, Readers
  <2>6. CASE ReadBlockAgain
    BY <2>4, <2>6 DEF ReadBlockAgain
  <2>7. CASE QueryRows
    <3>1. PICK sound : /\ reader' = [reader EXCEPT !.pc = "block", !.pass = 2, !.sound = sound]
                       /\ sound = (RowsAreCurrent /\ (PublishedBy(pub) # None => Visible))
      BY <2>7 DEF QueryRows, NextRead, ReaderGoes
    <3>2. sound \in BOOLEAN
      BY <3>1, Zenon
    <3> QED BY <1>2, <3>1, <3>2 DEF Readers
  <2> QED BY <2>1, <2>2, <2>3, <2>5, <2>6, <2>7 DEF Read
<1> QED BY <1>1, <1>3, <1>4 DEF documents, TypeOK, ContextsSound, Left

\* Every step keeps the types of the documents and of the contexts.
LEMMA TypedStep ==
    ASSUME TypeOK, ContextsSound, [Next]_vars
    PROVE  TypeOK' /\ ContextsSound'
<1>1. CASE UNCHANGED vars
  BY <1>1 DEF vars, documents, TypeOK, ContextsSound
<1>2. ASSUME NEW p \in Procs, Step(p)
      PROVE  TypeOK' /\ ContextsSound'
  <2>1. CASE Synchronize(p)
    BY <2>1, TypedFetch, TypedBeginPrivateInputs, TypedWipeEvents, TypedApplyChanges, TypedFinishPrivateInputs,
       TypedAbandonPrivateInputs, TypedMarkSyncSuccess, TypedMarkSyncFailure DEF Synchronize
  <2>2. CASE Rebuild(p)
    BY <2>2, TypedCapture, TypedGather, TypedCreateDefaultPolicy, TypedBeginReplace, TypedReplaceRows,
       TypedFinishReplace, TypedAbandonProjectionWrite DEF Rebuild
  <2>3. CASE DeleteForUser(p)
    BY <2>3, TypedBeginErase, TypedEraseRows, TypedFinishErase DEF DeleteForUser
  <2>4. CASE Disconnect(p)
    BY <2>4, TypedWipeEvents, TypedFinishDisconnection DEF Disconnect
  <2> QED BY <1>2, <2>1, <2>2, <2>3, <2>4 DEF Step
<1> QED BY <1>1, <1>2, TypedAcquireSync, TypedPutSharingPolicy, TypedRevokeConnection, TypedCrash,
           TypedCreateOverride, TypedSaveConnection, TypedWorld, TypedExpire, TypedRead DEF Next

LEMMA TypedInit ==
    ASSUME Init
    PROVE  TypeOK /\ ContextsSound
<1>1. local \in [Procs -> Contexts] /\ \A p \in Procs : local[p] = Nothing
  BY NothingSound DEF Init
<1>2. ContextsSound
  BY <1>1, NothingSound DEF Init, ContextsSound
<1>3. reader \in Readers /\ NoEvents \in Calendar /\ NoRows \in Rows /\ left \in [Kinds -> Maybe(Nat)]
  BY NoReaderTyped, BoundAssumption DEF Init, NoEvents, Calendar, Maybe, NoRows, Rows
<1>4. TypeOK
  BY <1>1, <1>3 DEF Init, TypeOK, Maybe, LeaseState
<1> QED BY <1>2, <1>4

\* The documents, contexts and the reader keep their shapes, for any number of
\* processes, cells, accounts and ids, however they interleave, fail and die.
THEOREM PublicationTyped == Spec => []TypeOK
<1>1. Init => TypeOK /\ ContextsSound
  BY TypedInit
<1>2. TypeOK /\ ContextsSound /\ [Next]_vars => (TypeOK /\ ContextsSound)'
  BY TypedStep
<1> QED BY <1>1, <1>2, PTL DEF Spec

-----------------------------------------------------------------------------
(* What each step does, its failures apart: the fields of the context it   *)
(* leaves and the documents it writes.                                     *)

Others(p) == local' \in [Procs -> Contexts] /\ \A q \in Procs : q # p => local'[q] = local[q]
SameLeases(l, m) == m.sync = l.sync /\ m.cleanup = l.cleanup
SameWork(l, m) == m.priv = l.priv /\ m.proj = l.proj /\ m.obs = l.obs
SameImport(l, m) == m.seen = l.seen /\ m.full = l.full /\ m.last = l.last /\ m.account = l.account
SameBatch(l, m) == m.win = l.win /\ m.clearAll = l.clearAll /\ m.del = l.del /\ m.put = l.put
SameBut(l, m) == SameLeases(l, m) /\ SameWork(l, m) /\ SameImport(l, m) /\ SameBatch(l, m)

Stopped(p) ==
    /\ Others(p) /\ Leftover(p, local[p], local'[p])
    /\ UNCHANGED <<documents, covered, reader>>

SyncAcquired(p) ==
    LET l == local[p]  m == local'[p] IN
    /\ p \in Syncers /\ Others(p) /\ l.pc = "idle" /\ m.pc = "fetch"
    /\ conn \in Connection /\ conn' \in Connection
    /\ conn'.account = conn.account /\ conn'.lease = NewLease /\ conn'.last = conn.last
    /\ conn'.failed = conn.failed /\ conn'.reconnect = conn.reconnect
    /\ conn'.token = IF inputs.ready THEN conn.token ELSE None
    /\ m.sync = NewLease /\ m.cleanup = None /\ m.priv = None /\ m.proj = None /\ m.obs = None /\ m.cap = None
    /\ m.seen = conn'.token /\ m.last = conn.last /\ m.account = conn.account
    /\ UNCHANGED <<inputs, events, settings, policyRev, pub, rows, block, reader, covered>>

Fetched(p) ==
    LET l == local[p]  m == local'[p] IN
    /\ p \in Syncers /\ Others(p) /\ l.pc = "fetch" /\ m.pc = "begin"
    /\ SameLeases(l, m) /\ SameWork(l, m) /\ m.cap = l.cap /\ m.read = l.read
    /\ m.seen \in Calendar /\ AccountOf(m.seen, l.account)
    /\ m.del \cap m.put = {}
    /\ \A c \in Cells : c \in m.put => m.seen[c] # None
    /\ \A c \in Cells : c \in m.del => m.seen[c] = None
    /\ m.full => m.del = {} /\ \A c \in Cells : c \in m.put \/ m.seen[c] = None
    /\ ~m.full => /\ l.seen # None /\ Snapshot # None /\ l.last = Snapshot
                  /\ \A c \in Cells : c \in m.put \cup m.del \/ m.seen[c] = l.seen[c]
    /\ UNCHANGED <<documents, covered, reader>>

ImportBegun(p) ==
    LET l == local[p]  m == local'[p] IN
    /\ p \in Syncers /\ Others(p) /\ Fence(l)
    /\ l.pc = "begin" /\ m.pc = IF l.full THEN "wipe" ELSE "apply"
    /\ ~(block # None /\ block.inProgress) /\ inputs.lease # "live"
    /\ SameLeases(l, m) /\ SameImport(l, m) /\ SameBatch(l, m)
    /\ m.priv = NewInputs /\ m.obs = NewInputs /\ m.proj = l.proj /\ m.cap = l.cap /\ m.read = l.read
    /\ inputs' = [id |-> NewInputs, ready |-> FALSE, lease |-> "live", source |-> "fresh"]
    /\ UNCHANGED <<conn, events, settings, policyRev, pub, rows, block, reader, covered>>

EventsWiped(p) ==
    LET l == local[p]  m == local'[p] IN
    /\ Others(p)
    /\ \/ p \in Syncers /\ l.pc = "wipe" /\ m.pc \in {"wipe", "apply"}
       \/ p \in Disconnecters /\ l.pc = "eraseEvents" /\ m.pc \in {"eraseEvents", "release"}
    /\ SameBut(l, m) /\ m.cap = l.cap /\ m.read = l.read
    /\ m.pc # l.pc => Held(events) = {}
    /\ Held(events) = {} \/ Fence(l)
    /\ events' \in Calendar /\ \A c \in Cells : events'[c] \in {events[c], None}
    /\ UNCHANGED <<conn, inputs, settings, policyRev, pub, rows, block, reader, covered>>

ChangesApplied(p) ==
    LET l == local[p]  m == local'[p] IN
    /\ p \in Syncers /\ Others(p) /\ Fence(l) /\ l.pc = "apply" /\ m.pc = "apply"
    /\ SameLeases(l, m) /\ SameWork(l, m) /\ SameImport(l, m) /\ m.cap = l.cap /\ m.read = l.read
    /\ \E b \in Chunks(l) :
        /\ events' = [c \in Cells |-> IF c \in b.put THEN l.seen[c]
                                      ELSE IF c \in b.del THEN None ELSE events[c]]
        /\ m.del = l.del \ b.del /\ m.put = l.put \ b.put
    /\ UNCHANGED <<conn, inputs, settings, policyRev, pub, rows, block, reader, covered>>

ImportFinished(p) ==
    LET l == local[p]  m == local'[p] IN
    /\ p \in Syncers /\ Others(p) /\ Fence(l) /\ l.pc = "apply" /\ m.pc = "capture"
    /\ l.del = {} /\ l.put = {}
    /\ SameLeases(l, m) /\ SameImport(l, m) /\ m.priv = None /\ m.proj = l.proj /\ m.obs = l.obs
    /\ m.cap = l.cap /\ m.read = l.read
    /\ inputs' = [inputs EXCEPT !.ready = TRUE, !.lease = "none"]
    /\ UNCHANGED <<conn, events, settings, policyRev, pub, rows, block, reader, covered>>

ImportAbandoned(p) ==
    LET l == local[p]  m == local'[p] IN
    /\ p \in Syncers /\ Others(p) /\ l.pc = "dropInputs" /\ m.pc = "markFailure" /\ Returned(l, m)
    /\ inputs' = inputs \/ (Fence(l) /\ inputs' = [inputs EXCEPT !.lease = "none"])
    /\ UNCHANGED <<conn, events, settings, policyRev, pub, rows, block, reader, covered>>

SyncCommitted(p) ==
    LET l == local[p]  m == local'[p] IN
    /\ p \in Syncers /\ MarkSyncSuccess(p) /\ Others(p) /\ Fence(l) /\ l.pc = "success"
    /\ m.pc = "idle" /\ Returned(l, m)
    /\ conn \in Connection /\ conn' \in Connection
    /\ conn'.account = conn.account /\ conn'.token = l.seen /\ conn'.last = l.obs /\ conn'.lease = None
    /\ block' = None
    /\ UNCHANGED <<inputs, events, settings, policyRev, pub, rows, reader, covered>>

FailureMarked(p) ==
    LET l == local[p]  m == local'[p] IN
    /\ p \in Syncers /\ Others(p) /\ l.pc \in {"markFailure", "markReconnect"}
    /\ m.pc = "idle" /\ Returned(l, m)
    /\ \/ conn' = conn
       \/ /\ Fence(l) /\ conn \in Connection /\ conn' \in Connection
          /\ conn'.account = conn.account /\ conn'.token = conn.token /\ conn'.last = conn.last
          /\ conn'.failed /\ conn'.lease = None
    /\ UNCHANGED <<inputs, events, settings, policyRev, pub, rows, block, reader, covered>>

PolicyCaptured(p) ==
    LET l == local[p]  m == local'[p] IN
    /\ p \notin Disconnecters /\ Others(p) /\ l.pc = "capture" /\ m.pc = "captureInputs"
    /\ SameBut(l, m) /\ m.read = l.read /\ m.cap \in Capture /\ m.cap.policy = policyRev /\ m.cap.private = None
    /\ UNCHANGED <<documents, covered, reader>>

InputsCaptured(p) ==
    LET l == local[p]  m == local'[p] IN
    /\ p \notin Disconnecters /\ Others(p) /\ l.pc = "captureInputs" /\ m.pc = "policy"
    /\ inputs.ready /\ inputs.lease = "none"
    /\ SameBut(l, m) /\ m.read = l.read
    /\ l.cap \in Capture /\ m.cap \in Capture /\ m.cap.policy = l.cap.policy /\ m.cap.private = inputs.id
    /\ UNCHANGED <<documents, covered, reader>>

\* One of the inputs is read, or checked between two reads.
Gathered(p) ==
    LET l == local[p]  m == local'[p] IN
    /\ p \notin Disconnecters /\ Others(p) /\ SameBut(l, m) /\ m.cap = l.cap
    /\ l.read \in Inputs /\ m.read \in Inputs
    /\ \/ /\ l.pc = "policy" /\ m.pc \in {"default", "events"}
          /\ m.read.policy = settings.policy
       \/ /\ l.pc = "events" /\ m.pc = "scan" /\ m.read = l.read
       \/ /\ l.pc = "scan" /\ m.pc = "recheck"
          /\ m.read.events = events /\ m.read.policy = l.read.policy
       \/ /\ l.pc = "recheck" /\ m.pc = "overrides" /\ m.read = l.read
       \/ /\ l.pc = "overrides" /\ m.pc = "write"
          /\ m.read.override = settings.override /\ m.read.policy = l.read.policy /\ m.read.events = l.read.events
    /\ UNCHANGED <<documents, covered, reader>>

DefaultCreated(p) ==
    LET l == local[p]  m == local'[p] IN
    /\ p \notin Disconnecters /\ Others(p) /\ Fence(l) /\ l.pc = "default" /\ m.pc = "capture"
    /\ SameBut(l, m) /\ m.cap = l.cap /\ m.read = l.read
    /\ policyRev' = NewPolicyRevision
    /\ UNCHANGED <<conn, inputs, events, pub, rows, block, reader, covered>>

ReplaceBegun(p) ==
    LET l == local[p]  m == local'[p] IN
    /\ p \notin Disconnecters /\ Others(p) /\ Fence(l) /\ l.pc = "write" /\ m.pc = "rows"
    /\ pub = None \/ pub.lease # "live"
    /\ SameLeases(l, m) /\ SameImport(l, m) /\ m.priv = l.priv /\ m.obs = l.obs /\ m.proj = NewPublication
    /\ m.cap = l.cap /\ m.read = l.read /\ m.win = l.win /\ m.put = l.win
    /\ m.del = IF m.clearAll THEN Held(rows) ELSE Held(rows) \cap l.win
    /\ ~m.clearAll => \/ pub = None /\ l.cap.policy = None /\ l.cap.private = None
                      \/ pub # None /\ l.cap.policy = pub.policy /\ l.cap.private = pub.private
    /\ pub' \in Gate /\ pub'.id = NewPublication /\ ~pub'.ready /\ pub'.dirty /\ pub'.policy = None
    /\ pub'.private = None /\ pub'.lease = "live"
    /\ UNCHANGED <<conn, inputs, events, settings, policyRev, rows, block, reader, covered>>

RowsReplaced(p) ==
    LET l == local[p]  m == local'[p] IN
    /\ p \notin Disconnecters /\ Others(p) /\ Fence(l) /\ l.pc = "rows" /\ m.pc = "rows"
    /\ SameLeases(l, m) /\ SameWork(l, m) /\ SameImport(l, m) /\ m.cap = l.cap /\ m.read = l.read
    /\ m.win = l.win /\ m.clearAll = l.clearAll
    /\ \E b \in Chunks(l) :
        /\ rows' = [c \in Cells |-> IF c \in b.put THEN Projection(l.read, c)
                                    ELSE IF c \in b.del THEN None ELSE rows[c]]
        /\ m.del = l.del \ b.del /\ m.put = l.put \ b.put
    /\ UNCHANGED <<conn, inputs, events, settings, policyRev, pub, block, reader, covered>>

ReplaceFinished(p) ==
    LET l == local[p]  m == local'[p] IN
    /\ p \notin Disconnecters /\ FinishReplace(p) /\ Others(p) /\ Fence(l) /\ l.pc = "rows"
    /\ l.del = {} /\ l.put = {}
    /\ \/ /\ p \in Syncers /\ m.pc = "success" /\ SameLeases(l, m) /\ m.obs = l.obs /\ m.seen = l.seen
          /\ m.priv = None /\ m.proj = None /\ m.cap = None
       \/ /\ p \in Editors /\ m.pc = "idle" /\ Returned(l, m)
    /\ l.cap \in Capture /\ pub' \in Gate
    /\ pub'.id = l.proj /\ pub'.ready /\ ~pub'.dirty /\ pub'.policy = l.cap.policy
    /\ pub'.private = l.cap.private /\ pub'.lease = "none"
    /\ covered' = l.win \cup (IF l.clearAll THEN {} ELSE covered)
    /\ UNCHANGED <<conn, inputs, events, settings, policyRev, rows, block, reader>>

WriteAbandoned(p) ==
    LET l == local[p]  m == local'[p] IN
    /\ Others(p) /\ l.pc \in {"dropWrite", "dropErase"} /\ Returned(l, m) /\ m.pc # "eraseEvents"
    /\ \/ pub' = pub
       \/ /\ pub \in Gate /\ pub' \in Gate /\ pub.id = l.proj /\ pub.lease = "live"
          /\ pub'.id = pub.id /\ pub'.ready = pub.ready /\ pub'.dirty = pub.dirty /\ pub'.policy = pub.policy
          /\ pub'.private = pub.private /\ pub'.lease = "none"
    /\ UNCHANGED <<conn, inputs, events, settings, policyRev, rows, block, reader, covered>>

EraseBegun(p) ==
    LET l == local[p]  m == local'[p] IN
    /\ p \notin Syncers /\ Others(p) /\ Fence(l) /\ l.pc = "erase" /\ m.pc = "erasing"
    /\ SameLeases(l, m) /\ m.priv = l.priv /\ m.obs = l.obs /\ m.proj = NewPublication
    /\ m.cap = l.cap /\ m.read = l.read
    /\ pub' \in Gate /\ pub'.id = NewPublication /\ ~pub'.ready /\ pub'.dirty /\ pub'.policy = None
    /\ pub'.private = None /\ pub'.lease = "live"
    /\ UNCHANGED <<conn, inputs, events, settings, policyRev, rows, block, reader, covered>>

RowsErased(p) ==
    LET l == local[p]  m == local'[p] IN
    /\ p \notin Syncers /\ local' = local /\ Fence(l) /\ l.pc = "erasing"
    /\ rows' \in Rows /\ \A c \in Cells : rows'[c] \in {rows[c], None}
    /\ UNCHANGED <<conn, inputs, events, settings, policyRev, pub, block, reader, covered>>

EraseFinished(p) ==
    LET l == local[p]  m == local'[p] IN
    /\ p \notin Syncers /\ Others(p) /\ Fence(l) /\ l.pc = "erasing" /\ Held(rows) = {}
    /\ m.pc = (IF p \in Disconnecters THEN "eraseEvents" ELSE "idle") /\ Returned(l, m)
    /\ pub' \in Gate /\ pub'.id = l.proj /\ ~pub'.ready /\ ~pub'.dirty /\ pub'.policy = None
    /\ pub'.private = None /\ pub'.lease = "none"
    /\ covered' = {}
    /\ UNCHANGED <<conn, inputs, events, settings, policyRev, rows, block, reader>>

PolicyPut(p) ==
    LET l == local[p]  m == local'[p] IN
    /\ p \in Editors /\ Others(p) /\ l.pc = "idle" /\ m.pc = "capture"
    /\ m.sync = None /\ m.cleanup = None /\ m.priv = None /\ m.proj = None /\ m.obs = None /\ m.cap = None
    /\ policyRev' = NewPolicyRevision
    /\ UNCHANGED <<conn, inputs, events, pub, rows, block, reader, covered>>

Revoked(p) ==
    LET l == local[p]  m == local'[p] IN
    /\ p \in Disconnecters /\ Others(p) /\ l.pc = "idle" /\ m.pc = "erase"
    /\ m.sync = None /\ m.cleanup = NewLease /\ m.priv = None /\ m.proj = None /\ m.obs = NewInputs /\ m.cap = None
    /\ block' \in Block /\ block'.id = NewLease /\ block'.inProgress
    /\ inputs' = [id |-> NewInputs, ready |-> FALSE, lease |-> "none", source |-> "none"]
    /\ conn' = None
    /\ UNCHANGED <<events, settings, policyRev, pub, rows, reader, covered>>

Released(p) ==
    LET l == local[p]  m == local'[p] IN
    /\ p \in Disconnecters /\ Others(p) /\ Fence(l) /\ l.pc = "release" /\ m.pc = "idle" /\ Returned(l, m)
    /\ inputs' = [id |-> l.obs, ready |-> TRUE, lease |-> "none", source |-> "none"]
    /\ block' \in Block /\ block'.id = block.id /\ ~block'.inProgress
    /\ UNCHANGED <<conn, events, settings, policyRev, pub, rows, reader, covered>>

Overridden ==
    /\ policyRev' = NewPolicyRevision
    /\ UNCHANGED <<conn, inputs, events, pub, rows, block, local, reader, covered>>

Connected ==
    /\ ~(block # None /\ block.inProgress)
    /\ conn' \in Connection /\ conn'.lease = None /\ conn'.token = None /\ conn'.last = None
    /\ ~conn'.failed /\ ~conn'.reconnect
    /\ UNCHANGED <<inputs, events, settings, policyRev, pub, rows, block, local, reader, covered>>

\* Time passes for one of the leases or for the observation of the source.
Aged ==
    /\ \/ conn' = conn
       \/ /\ conn \in Connection /\ conn' \in Connection
          /\ conn'.account = conn.account /\ conn'.lease = conn.lease /\ conn'.token = conn.token
          /\ conn'.last = conn.last /\ conn'.failed = conn.failed /\ conn'.reconnect = conn.reconnect
    /\ inputs'.id = inputs.id /\ inputs'.ready = inputs.ready
    /\ inputs'.lease = inputs.lease \/ (inputs.lease = "live" /\ inputs'.lease = "over")
    /\ inputs'.source = inputs.source \/ (inputs.source = "fresh" /\ inputs'.source = "stale")
    /\ \/ pub' = pub
       \/ /\ pub \in Gate /\ pub' \in Gate /\ pub.lease = "live" /\ pub'.lease = "over"
          /\ pub'.id = pub.id /\ pub'.ready = pub.ready /\ pub'.dirty = pub.dirty /\ pub'.policy = pub.policy
          /\ pub'.private = pub.private
    /\ \/ block' = block
       \/ block \in Block /\ block' \in Block /\ block'.id = block.id /\ block'.inProgress = block.inProgress
    /\ UNCHANGED <<events, settings, policyRev, rows, local, reader, covered>>

\* Only the reader, the provider or nothing changes.
Untouched == UNCHANGED <<documents, local, covered>>

StepOf(p) ==
    \/ Stopped(p) \/ SyncAcquired(p) \/ Fetched(p) \/ ImportBegun(p) \/ EventsWiped(p) \/ ChangesApplied(p)
    \/ ImportFinished(p) \/ ImportAbandoned(p) \/ SyncCommitted(p) \/ FailureMarked(p) \/ PolicyCaptured(p)
    \/ InputsCaptured(p) \/ Gathered(p) \/ DefaultCreated(p) \/ ReplaceBegun(p) \/ RowsReplaced(p)
    \/ ReplaceFinished(p) \/ WriteAbandoned(p) \/ EraseBegun(p) \/ RowsErased(p) \/ EraseFinished(p)
    \/ PolicyPut(p) \/ Revoked(p) \/ Released(p)

LEMMA Continued ==
    ASSUME TypeOK, NEW p \in Procs, NEW m, Continue(p, m), local' \in [Procs -> Contexts]
    PROVE  Others(p) /\ local'[p] = m
BY DEF TypeOK, Continue, Others

LEMMA LeaveEnds ==
    ASSUME TypeOK, ContextsSound, NEW p \in Procs, NEW pc, Leave(p, pc), local[p].pc # "idle",
           \/ pc = "idle"
           \/ p \in Syncers /\ pc \in {"markFailure", "markReconnect"}
           \/ p \in Editors /\ pc = "erase"
           \/ p \in Disconnecters /\ pc = "eraseEvents"
    PROVE  Others(p) /\ Returned(local[p], local'[p]) /\ local'[p].pc = pc /\ InStep(p, local'[p])
<1>1. PICK m \in Contexts : /\ Continue(p, m) /\ InStep(p, m) /\ Returned(local[p], m) /\ m.pc = pc
  BY LeaveReturns
<1>2. Others(p) /\ local'[p] = m
  BY <1>1, LocalTyped DEF Others
<1> QED BY <1>1, <1>2

LEMMA FailStops ==
    ASSUME TypeOK, ContextsSound, NEW p \in Procs, FailAt(p), local[p].pc # "idle",
           UNCHANGED <<documents, covered, reader>>
    PROVE  Stopped(p)
<1>1. PICK m \in Contexts : Continue(p, m) /\ Leftover(p, local[p], m)
  BY FailureLeaves
<1>2. Others(p) /\ local'[p] = m
  BY <1>1, LocalTyped DEF Others
<1> QED BY <1>1, <1>2 DEF Stopped

LEMMA CrashStops ==
    ASSUME TypeOK, ContextsSound, NEW p \in Procs, Fault(p) \/ Crash(p)
    PROVE  Stopped(p)
<1>1. local[p].pc # "idle" /\ UNCHANGED <<documents, covered, reader>>
  BY DEF Fault, Crash
<1>2. CASE FailAt(p)
  BY <1>1, <1>2, FailStops
<1>3. CASE \E pc \in {"markReconnect", "markFailure"} :
             Leave(p, pc) /\ local[p].pc \in {"fetch", "success"}
  <2>1. p \in Syncers
    BY <1>3, ProcsApart DEF ContextsSound, InStep, Rebuilding, Erasing, Gathering, Replacing
  <2>2. PICK pc \in {"markReconnect", "markFailure"} : Leave(p, pc)
    BY <1>3
  <2>3. Others(p) /\ Returned(local[p], local'[p]) /\ local'[p].pc = pc /\ InStep(p, local'[p])
    BY <1>1, <2>1, <2>2, LeaveEnds
  <2>4. local'[p] \in Contexts
    BY <2>3 DEF Others
  <2> QED BY <1>1, <2>3, <2>4 DEF Stopped, Leftover, Returned
<1>4. CASE Continue(p, Nothing)
  <2>1. Others(p) /\ local'[p] = Nothing
    BY <1>4, NothingSound, LocalTyped DEF Others
  <2>2. Returned(local[p], Nothing) /\ Nothing.pc = "idle"
    BY DEF Returned, Nothing
  <2> QED BY <1>1, <2>1, <2>2, NothingSound DEF Stopped, Leftover
<1> QED BY <1>2, <1>3, <1>4 DEF Fault, Crash

LEMMA AcquiresSync ==
    ASSUME TypeOK, NEW p \in Syncers, AcquireSync(p), TypeOK'
    PROVE  SyncAcquired(p)
<1> DEFINE token == IF inputs.ready THEN conn.token ELSE None
           m == [Nothing EXCEPT !.pc = "fetch", !.sync = NewLease, !.seen = token,
                                !.last = conn.last, !.account = conn.account]
<1>1. p \in Procs /\ conn \in Connection
  BY DEF AcquireSync, TypeOK, Maybe, Procs
<1>2. Continue(p, m) /\ local[p].pc = "idle"
      /\ conn' = [conn EXCEPT !.lease = NewLease, !.until = "live", !.token = token]
      /\ UNCHANGED <<provider, inputs, events, settings, policyRev, pub, rows, block, reader, covered>>
  BY DEF AcquireSync
<1>3. Others(p) /\ local'[p] = m
  <2>1. local' \in [Procs -> Contexts]
    BY DEF TypeOK
  <2> HIDE DEF m
  <2> QED BY <1>1, <1>2, <2>1, Continued
<1>4. m.pc = "fetch" /\ m.sync = NewLease /\ m.seen = token /\ m.last = conn.last /\ m.account = conn.account
      /\ m.cleanup = None /\ m.priv = None /\ m.proj = None /\ m.obs = None /\ m.cap = None
  <2> HIDE DEF token
  <2> QED BY DEF Nothing
<1>5. conn'.account = conn.account /\ conn'.lease = NewLease /\ conn'.last = conn.last
      /\ conn'.failed = conn.failed /\ conn'.reconnect = conn.reconnect /\ conn'.token = token
  <2> HIDE DEF token
  <2> QED BY <1>1, <1>2 DEF Connection
<1>6. conn' \in Connection
  <2>1. token \in Maybe(Calendar) /\ NewLease \in Ids
    BY <1>1, NewLeaseFresh DEF Connection, Maybe
  <2> HIDE DEF token
  <2> QED BY <1>1, <1>2, <2>1 DEF Connection, Maybe, LeaseState
<1> HIDE DEF m
<1> QED BY <1>1, <1>2, <1>3, <1>4, <1>5, <1>6 DEF SyncAcquired

LEMMA Fetches ==
    ASSUME TypeOK, ContextsSound, NEW p \in Procs, Fetch(p), TypeOK'
    PROVE  Fetched(p)
<1> DEFINE l == local[p]
           now == BusyIn(l.account)
<1>1. l \in Contexts /\ InStep(p, l) /\ l.pc = "fetch" /\ l.account # None
  BY ContextFields DEF Fetch, InStep
<1>2. now \in Calendar /\ now # None /\ AccountOf(now, l.account)
  <2>1. l.account \in Accounts
    BY <1>1 DEF Contexts, Maybe
  <2> QED BY <2>1, BusyTyped, NoneApart DEF BusyIn, AccountOf
<1>3. PICK full \in IF l.seen # None /\ Snapshot # None /\ l.last = Snapshot THEN BOOLEAN ELSE {TRUE},
           win \in Windows :
        LET changed == IF full THEN Held(now) ELSE {c \in Cells : now[c] # l.seen[c]} IN
        Continue(p, [l EXCEPT !.pc = "begin", !.seen = now, !.full = full, !.win = win, !.last = None,
                              !.account = None, !.put = changed \cap Held(now), !.del = changed \ Held(now)])
  BY DEF Fetch
<1> DEFINE changed == IF full THEN Held(now) ELSE {c \in Cells : now[c] # l.seen[c]}
           m == [l EXCEPT !.pc = "begin", !.seen = now, !.full = full, !.win = win, !.last = None,
                          !.account = None, !.put = changed \cap Held(now), !.del = changed \ Held(now)]
<1>4. Others(p) /\ local'[p] = m
  <2>1. Continue(p, m) /\ local' \in [Procs -> Contexts]
    BY <1>3 DEF TypeOK
  <2> HIDE DEF m
  <2> QED BY <2>1, Continued
<1>5. m.pc = "begin" /\ SameLeases(l, m) /\ SameWork(l, m) /\ m.cap = l.cap /\ m.read = l.read
      /\ m.seen = now /\ m.full = full /\ m.put = changed \cap Held(now) /\ m.del = changed \ Held(now)
  <2> HIDE DEF changed, now
  <2> QED BY <1>1 DEF Contexts, SameLeases, SameWork
<1>6. /\ (changed \ Held(now)) \cap (changed \cap Held(now)) = {}
      /\ \A c \in Cells : c \in changed \cap Held(now) => now[c] # None
      /\ \A c \in Cells : c \in changed \ Held(now) => now[c] = None
      /\ full => changed \ Held(now) = {} /\ \A c \in Cells : c \in changed \cap Held(now) \/ now[c] = None
      /\ ~full => \A c \in Cells : c \in changed \/ now[c] = l.seen[c]
  <2> HIDE DEF now
  <2> QED BY DEF Held
<1>7. ~full => l.seen # None /\ Snapshot # None /\ l.last = Snapshot
  BY <1>3
<1>8. p \in Syncers
  BY <1>1, ProcsApart DEF InStep, Rebuilding, Gathering, Replacing, Erasing
<1>9. UNCHANGED <<documents, covered, reader>>
  BY DEF Fetch
<1> HIDE DEF m, changed, now
<1> QED BY <1>1, <1>2, <1>4, <1>5, <1>6, <1>7, <1>8, <1>9 DEF Fetched

LEMMA BeginsImport ==
    ASSUME TypeOK, ContextsSound, NEW p \in Procs, BeginPrivateInputs(p), TypeOK'
    PROVE  Stopped(p) \/ ImportBegun(p)
<1> DEFINE l == local[p]
           m == [l EXCEPT !.pc = IF l.full THEN "wipe" ELSE "apply", !.priv = NewInputs, !.obs = NewInputs]
<1>1. l \in Contexts /\ InStep(p, l) /\ l.pc = "begin" /\ UNCHANGED <<covered, reader>>
  BY ContextFields DEF BeginPrivateInputs
<1>2. CASE Fail(p)
  BY <1>1, <1>2, FailStops DEF Fail
<1>3. CASE ~Fail(p)
  <2>1. /\ Continue(p, m) /\ UNCHANGED <<conn, events, settings, policyRev, pub, rows, block>>
        /\ inputs' = [id |-> NewInputs, ready |-> FALSE, lease |-> "live", source |-> "fresh"]
        /\ Fence(l) /\ ~(block # None /\ block.inProgress) /\ inputs.lease # "live"
    BY <1>3 DEF BeginPrivateInputs
  <2>2. Others(p) /\ local'[p] = m
    <3>1. local' \in [Procs -> Contexts]
      BY DEF TypeOK
    <3> HIDE DEF m
    <3> QED BY <2>1, <3>1, Continued
  <2>3. m.pc = (IF l.full THEN "wipe" ELSE "apply") /\ SameLeases(l, m) /\ SameImport(l, m) /\ SameBatch(l, m)
        /\ m.priv = NewInputs /\ m.obs = NewInputs /\ m.proj = l.proj /\ m.cap = l.cap /\ m.read = l.read
    BY <1>1 DEF Contexts, SameLeases, SameImport, SameBatch
  <2>4. p \in Syncers
    BY <1>1, ProcsApart DEF InStep, Rebuilding, Gathering, Replacing, Erasing
  <2> HIDE DEF m
  <2> QED BY <1>1, <2>1, <2>2, <2>3, <2>4 DEF ImportBegun
<1> QED BY <1>2, <1>3

LEMMA GotoGoes ==
    ASSUME TypeOK, NEW p \in Procs, NEW pc \in Pcs, Goto(p, pc)
    PROVE  /\ Others(p) /\ local'[p].pc = pc
           /\ SameBut(local[p], local'[p]) /\ local'[p].cap = local[p].cap /\ local'[p].read = local[p].read
<1> DEFINE l == local[p]
<1>1. PICK m \in Contexts : Continue(p, m) /\ m = [l EXCEPT !.pc = pc] /\ m.pc = pc
  BY GotoTyped
<1>2. Others(p) /\ local'[p] = m
  BY <1>1, LocalTyped DEF Others
<1>3. l \in Contexts
  BY DEF TypeOK
<1>4. SameBut(l, m) /\ m.cap = l.cap /\ m.read = l.read
  BY <1>1, <1>3 DEF Contexts, SameBut, SameLeases, SameWork, SameImport, SameBatch
<1> QED BY <1>1, <1>2, <1>4

LEMMA StaysSame ==
    ASSUME TypeOK, NEW p \in Procs, UNCHANGED local
    PROVE  /\ Others(p) /\ local'[p] = local[p] /\ SameBut(local[p], local'[p])
BY DEF TypeOK, Others, SameBut, SameLeases, SameWork, SameImport, SameBatch

LEMMA WipesEvents ==
    ASSUME TypeOK, ContextsSound, NEW p \in Procs, WipeEvents(p) \/ DeleteEvents(p), TypeOK'
    PROVE  Stopped(p) \/ EventsWiped(p)
<1> DEFINE l == local[p]
<1>1. l \in Contexts /\ InStep(p, l) /\ l.pc \in {"wipe", "eraseEvents"} /\ UNCHANGED <<reader, covered>>
  BY ContextFields DEF WipeEvents, DeleteEvents
<1>2. CASE Fail(p)
  BY <1>1, <1>2, FailStops DEF Fail
<1>3. CASE ~Fail(p)
  <2>1. PICK pc \in {"apply", "release"} :
           /\ Wipe(p, events, events', pc)
           /\ (l.pc = "wipe" /\ pc = "apply") \/ (l.pc = "eraseEvents" /\ pc = "release")
           /\ Held(events) = {} \/ Fence(l)
           /\ UNCHANGED <<conn, inputs, settings, policyRev, pub, rows, block>>
    BY <1>3 DEF WipeEvents, DeleteEvents, BatchCommits
  <2>2. (l.pc = "wipe" => p \in Syncers) /\ (l.pc = "eraseEvents" => p \in Disconnecters)
    BY <1>1, ProcsApart DEF InStep, Importing, Imported, Rebuilding, Gathering, Replacing, Erasing
  <2>3. events \in Calendar /\ events' \in Calendar
    BY DEF TypeOK
  <2>4. CASE Held(events) = {}
    <3>1. Goto(p, pc) /\ events' = events
      BY <2>1, <2>4 DEF Wipe
    <3>2. /\ Others(p) /\ local'[p].pc = pc
          /\ SameBut(l, local'[p]) /\ local'[p].cap = l.cap /\ local'[p].read = l.read
      BY <3>1, GotoGoes DEF Pcs
    <3> QED BY <1>1, <2>1, <2>2, <2>3, <2>4, <3>1, <3>2 DEF EventsWiped
  <2>5. CASE Held(events) # {}
    <3>1. PICK page : UNCHANGED local
                      /\ events' = [c \in Cells |-> IF c \in page THEN None ELSE events[c]]
      BY <2>1, <2>5 DEF Wipe
    <3>2. Others(p) /\ local'[p] = l /\ SameBut(l, local'[p])
      BY <3>1, StaysSame
    <3>3. \A c \in Cells : events'[c] \in {events[c], None}
      BY <3>1
    <3> QED BY <1>1, <2>1, <2>2, <2>3, <2>5, <3>2, <3>3 DEF EventsWiped
  <2> QED BY <2>4, <2>5
<1> QED BY <1>2, <1>3

LEMMA AppliesChanges ==
    ASSUME TypeOK, ContextsSound, NEW p \in Procs, ApplyChanges(p), TypeOK'
    PROVE  Stopped(p) \/ ChangesApplied(p)
<1> DEFINE l == local[p]
<1>1. l \in Contexts /\ InStep(p, l) /\ l.pc = "apply" /\ UNCHANGED <<reader, covered>>
  BY ContextFields DEF ApplyChanges
<1>2. CASE Fail(p)
  BY <1>1, <1>2, FailStops DEF Fail
<1>3. CASE ~Fail(p)
  <2>1. Fence(l) /\ \E b \in Chunks(l) :
            /\ events' = [c \in Cells |-> IF c \in b.put THEN l.seen[c]
                                          ELSE IF c \in b.del THEN None ELSE events[c]]
            /\ Continue(p, Written(l, b))
            /\ UNCHANGED <<conn, inputs, settings, policyRev, pub, rows, block>>
    BY <1>3 DEF ApplyChanges, BatchCommits
  <2>2. PICK b \in Chunks(l) :
            /\ events' = [c \in Cells |-> IF c \in b.put THEN l.seen[c]
                                          ELSE IF c \in b.del THEN None ELSE events[c]]
            /\ Continue(p, Written(l, b))
            /\ UNCHANGED <<conn, inputs, settings, policyRev, pub, rows, block>>
    BY <2>1
  <2> DEFINE m == Written(l, b)
  <2>3. Others(p) /\ local'[p] = m
    <3>1. local' \in [Procs -> Contexts]
      BY DEF TypeOK
    <3> QED BY <2>2, <3>1, Continued
  <2>4. m = [l EXCEPT !.del = l.del \ b.del, !.put = l.put \ b.put]
    BY <1>1, ChunkTyped
  <2>5. SameLeases(l, m) /\ SameWork(l, m) /\ SameImport(l, m) /\ m.cap = l.cap /\ m.read = l.read
        /\ m.pc = l.pc /\ m.del = l.del \ b.del /\ m.put = l.put \ b.put
    <3> HIDE DEF m
    <3> QED BY <1>1, <2>4 DEF Contexts, SameLeases, SameWork, SameImport
  <2>6. p \in Syncers
    BY <1>1, ProcsApart DEF InStep, Rebuilding, Gathering, Replacing, Erasing
  <2> HIDE DEF m
  <2> QED BY <1>1, <2>1, <2>2, <2>3, <2>5, <2>6 DEF ChangesApplied
<1> QED BY <1>2, <1>3

LEMMA FinishesImport ==
    ASSUME TypeOK, ContextsSound, NEW p \in Procs, FinishPrivateInputs(p), TypeOK'
    PROVE  Stopped(p) \/ ImportFinished(p)
<1> DEFINE l == local[p]
           m == [l EXCEPT !.pc = "capture", !.priv = None]
<1>1. l \in Contexts /\ InStep(p, l) /\ l.pc = "apply" /\ l.del = {} /\ l.put = {}
      /\ UNCHANGED <<reader, covered>>
  BY ContextFields DEF FinishPrivateInputs
<1>2. CASE Fail(p)
  BY <1>1, <1>2, FailStops DEF Fail
<1>3. CASE ~Fail(p)
  <2>1. Continue(p, m) /\ UNCHANGED <<conn, events, settings, policyRev, pub, rows, block>>
        /\ inputs' = [inputs EXCEPT !.ready = TRUE, !.lease = "none"] /\ Fence(l)
    BY <1>3 DEF FinishPrivateInputs
  <2>2. Others(p) /\ local'[p] = m
    <3>1. local' \in [Procs -> Contexts]
      BY DEF TypeOK
    <3> HIDE DEF m
    <3> QED BY <2>1, <3>1, Continued
  <2>3. m.pc = "capture" /\ SameLeases(l, m) /\ SameImport(l, m) /\ m.priv = None /\ m.proj = l.proj
        /\ m.obs = l.obs /\ m.cap = l.cap /\ m.read = l.read
    BY <1>1 DEF Contexts, SameLeases, SameImport
  <2>4. p \in Syncers
    BY <1>1, ProcsApart DEF InStep, Rebuilding, Gathering, Replacing, Erasing
  <2> HIDE DEF m
  <2> QED BY <1>1, <2>1, <2>2, <2>3, <2>4 DEF ImportFinished
<1> QED BY <1>2, <1>3

LEMMA AbandonsImport ==
    ASSUME TypeOK, ContextsSound, NEW p \in Procs, AbandonPrivateInputs(p)
    PROVE  ImportAbandoned(p)
<1>1. p \in Syncers /\ local[p].pc = "dropInputs"
  BY ProcsApart DEF AbandonPrivateInputs, ContextsSound, InStep, Rebuilding, Gathering, Replacing, Erasing
<1>2. Leave(p, "markFailure")
  BY <1>1, ProcsApart DEF AbandonPrivateInputs, AfterFailure
<1>3. Others(p) /\ Returned(local[p], local'[p]) /\ local'[p].pc = "markFailure"
  BY <1>1, <1>2, LeaveEnds
<1> QED BY <1>1, <1>3 DEF AbandonPrivateInputs, ImportAbandoned

LEMMA CommitsSync ==
    ASSUME TypeOK, ContextsSound, NEW p \in Procs, MarkSyncSuccess(p), TypeOK'
    PROVE  Stopped(p) \/ SyncCommitted(p)
<1> DEFINE l == local[p]
<1>1. l \in Contexts /\ InStep(p, l) /\ l.pc = "success" /\ UNCHANGED <<reader, covered>>
  BY ContextFields DEF MarkSyncSuccess
<1>2. CASE Fail(p)
  BY <1>1, <1>2, FailStops DEF Fail
<1>3. CASE ~Fail(p)
  <2>1. /\ conn' = [conn EXCEPT !.token = l.seen, !.last = l.obs, !.failed = FALSE,
                                !.reconnect = FALSE, !.lease = None, !.until = "none"]
        /\ block' = None /\ Leave(p, "idle") /\ Fence(l)
        /\ UNCHANGED <<inputs, events, settings, policyRev, pub, rows>>
    BY <1>3 DEF MarkSyncSuccess
  <2>2. p \in Syncers /\ l.sync # None /\ l.cleanup = None
    BY <1>1, ProcsApart DEF InStep, Rebuilding, Gathering, Replacing, Erasing
  <2>3. conn \in Connection
    <3>1. conn # None
      BY <2>1, <2>2 DEF Fence, CalendarFence
    <3> QED BY <3>1 DEF TypeOK, Maybe
  <2>4. conn' \in Connection /\ conn'.account = conn.account /\ conn'.token = l.seen /\ conn'.last = l.obs
        /\ conn'.lease = None
    <3>1. l.seen \in Maybe(Calendar) /\ l.obs \in Maybe(Ids) /\ None \in Maybe(Ids)
      BY <1>1 DEF Contexts, Maybe
    <3> QED BY <2>1, <2>3, <3>1 DEF Connection, LeaseState
  <2>5. Others(p) /\ Returned(l, local'[p]) /\ local'[p].pc = "idle"
    BY <1>1, <2>1, LeaveEnds
  <2> QED BY <1>1, <2>1, <2>2, <2>3, <2>4, <2>5 DEF SyncCommitted
<1> QED BY <1>2, <1>3

LEMMA MarksFailure ==
    ASSUME TypeOK, ContextsSound, NEW p \in Procs, MarkSyncFailure(p), TypeOK'
    PROVE  FailureMarked(p)
<1> DEFINE l == local[p]
<1>1. l \in Contexts /\ InStep(p, l) /\ l.pc \in {"markFailure", "markReconnect"} /\ Leave(p, "idle")
  BY ContextFields DEF MarkSyncFailure
<1>2. p \in Syncers /\ l.sync # None /\ l.cleanup = None
  BY <1>1, ProcsApart DEF InStep, Rebuilding, Gathering, Replacing, Erasing
<1>3. Others(p) /\ Returned(l, local'[p]) /\ local'[p].pc = "idle"
  BY <1>1, LeaveEnds
<1>4. UNCHANGED <<inputs, events, settings, policyRev, pub, rows, block, reader, covered>>
  BY DEF MarkSyncFailure
<1>5. CASE ~Fence(l)
  <2>1. conn' = conn
    BY <1>5 DEF MarkSyncFailure
  <2> QED BY <1>1, <1>2, <1>3, <1>4, <2>1 DEF FailureMarked
<1>6. CASE Fence(l)
  <2>1. conn \in Connection
    <3>1. conn # None
      BY <1>2, <1>6 DEF Fence, CalendarFence
    <3> QED BY <3>1 DEF TypeOK, Maybe
  <2>2. conn' = [conn EXCEPT !.failed = TRUE, !.reconnect = (l.pc = "markReconnect"),
                             !.lease = None, !.until = "none"]
    BY <1>6 DEF MarkSyncFailure, Failed
  <2>3. conn' \in Connection /\ conn'.account = conn.account /\ conn'.token = conn.token
        /\ conn'.last = conn.last /\ conn'.failed /\ conn'.lease = None
    BY <2>1, <2>2 DEF Connection, Maybe, LeaseState
  <2> QED BY <1>1, <1>2, <1>3, <1>4, <1>6, <2>1, <2>3 DEF FailureMarked
<1> QED BY <1>5, <1>6

LEMMA CapturesPolicy ==
    ASSUME TypeOK, ContextsSound, NEW p \in Procs, CapturePolicyRevision(p), TypeOK'
    PROVE  PolicyCaptured(p)
<1> DEFINE l == local[p]
           cap == [policy |-> policyRev, private |-> None, managed |-> FALSE]
           m == [l EXCEPT !.pc = "captureInputs", !.cap = cap]
<1>1. l \in Contexts /\ InStep(p, l) /\ l.pc = "capture" /\ UNCHANGED <<documents, covered, reader>>
  BY ContextFields DEF CapturePolicyRevision, Steady
<1>2. Continue(p, m)
  BY DEF CapturePolicyRevision
<1>3. Others(p) /\ local'[p] = m
  <2>1. local' \in [Procs -> Contexts]
    BY DEF TypeOK
  <2> HIDE DEF m
  <2> QED BY <1>2, <2>1, Continued
<1>4. m.pc = "captureInputs" /\ SameBut(l, m) /\ m.read = l.read /\ m.cap = cap
  BY <1>1 DEF Contexts, SameBut, SameLeases, SameWork, SameImport, SameBatch
<1>5. cap \in Capture /\ cap.policy = policyRev /\ cap.private = None
  BY DEF TypeOK, Capture, Maybe
<1>6. p \notin Disconnecters
  BY <1>1, ProcsApart DEF InStep, Erasing
<1> HIDE DEF m, cap
<1> QED BY <1>1, <1>3, <1>4, <1>5, <1>6 DEF PolicyCaptured

LEMMA CapturesInputs ==
    ASSUME TypeOK, ContextsSound, NEW p \in Procs, CaptureInputs(p), TypeOK'
    PROVE  Stopped(p) \/ InputsCaptured(p)
<1> DEFINE l == local[p]
           managed == Managed(inputs.source, conn, block)
           m == [l EXCEPT !.pc = "policy", !.cap.private = inputs.id, !.cap.managed = managed]
<1>1. l \in Contexts /\ InStep(p, l) /\ l.pc = "captureInputs" /\ UNCHANGED <<documents, covered, reader>>
  BY ContextFields DEF CaptureInputs, Steady
<1>2. l.cap \in Capture
  BY <1>1, ContextFields DEF InStep, Gathering
<1>3. CASE FailAt(p)
  BY <1>1, <1>3, FailStops
<1>4. CASE ~FailAt(p)
  <2>1. Continue(p, m) /\ inputs.ready /\ inputs.lease = "none"
    BY <1>4 DEF CaptureInputs
  <2>2. Others(p) /\ local'[p] = m
    <3>1. local' \in [Procs -> Contexts]
      BY DEF TypeOK
    <3> HIDE DEF m
    <3> QED BY <2>1, <3>1, Continued
  <2>3. m.pc = "policy" /\ SameBut(l, m) /\ m.read = l.read /\ m.cap.policy = l.cap.policy
        /\ m.cap.private = inputs.id
    <3> HIDE DEF managed
    <3> QED BY <1>1, <1>2 DEF Contexts, Capture, SameBut, SameLeases, SameWork, SameImport, SameBatch
  <2>4. m.cap \in Capture
    <3>1. m.cap = [l.cap EXCEPT !.private = inputs.id, !.managed = managed]
      BY <1>1, <1>2 DEF Contexts, Capture
    <3>2. managed \in BOOLEAN /\ inputs.id \in Maybe(Ids)
      BY DEF TypeOK, Managed
    <3> HIDE DEF managed, m
    <3> QED BY <1>2, <3>1, <3>2 DEF Capture
  <2>5. p \notin Disconnecters
    BY <1>1, ProcsApart DEF InStep, Gathering, Erasing
  <2> HIDE DEF m
  <2> QED BY <1>1, <1>2, <2>1, <2>2, <2>3, <2>4, <2>5 DEF InputsCaptured
<1> QED BY <1>3, <1>4

LEMMA Gathers ==
    ASSUME TypeOK, ContextsSound, NEW p \in Procs, TypeOK',
           ReadPolicy(p) \/ CheckEventsBefore(p) \/ ReadEvents(p) \/ CheckEventsAfter(p) \/ ReadOverrides(p)
    PROVE  Stopped(p) \/ Gathered(p)
<1> DEFINE l == local[p]
<1>1. l \in Contexts /\ InStep(p, l) /\ l.read \in Inputs /\ UNCHANGED <<documents, covered, reader>>
  BY ContextFields DEF ReadPolicy, CheckEventsBefore, ReadEvents, CheckEventsAfter, ReadOverrides, Steady
<1>2. l.pc \in {"policy", "events", "scan", "recheck", "overrides"}
  BY DEF ReadPolicy, CheckEventsBefore, ReadEvents, CheckEventsAfter, ReadOverrides
<1>3. p \notin Disconnecters
  BY <1>1, <1>2, ProcsApart DEF InStep, Gathering, Erasing
<1>4. CASE FailAt(p)
  BY <1>1, <1>2, <1>4, FailStops
<1>5. ASSUME NEW pc \in {"scan", "overrides"}, Goto(p, pc),
             (l.pc = "events" /\ pc = "scan") \/ (l.pc = "recheck" /\ pc = "overrides")
      PROVE  Gathered(p)
  <2>1. /\ Others(p) /\ local'[p].pc = pc
        /\ SameBut(l, local'[p]) /\ local'[p].cap = l.cap /\ local'[p].read = l.read
    BY <1>5, GotoGoes DEF Pcs
  <2> QED BY <1>1, <1>3, <1>5, <2>1 DEF Gathered
<1>6. CASE ReadPolicy(p)
  <2> DEFINE pc == IF settings.policy = None THEN "default" ELSE "events"
             m == [l EXCEPT !.pc = pc, !.read.policy = settings.policy]
  <2>1. Continue(p, m) /\ l.pc = "policy"
    BY <1>6 DEF ReadPolicy
  <2>2. Others(p) /\ local'[p] = m
    <3>1. local' \in [Procs -> Contexts]
      BY DEF TypeOK
    <3> HIDE DEF m
    <3> QED BY <2>1, <3>1, Continued
  <2>3. m.pc \in {"default", "events"} /\ SameBut(l, m) /\ m.cap = l.cap
        /\ m.read = [l.read EXCEPT !.policy = settings.policy]
    BY <1>1 DEF Contexts, SameBut, SameLeases, SameWork, SameImport, SameBatch
  <2>4. m.read \in Inputs /\ m.read.policy = settings.policy
    <3> HIDE DEF m
    <3> QED BY <1>1, <2>3 DEF Inputs, TypeOK
  <2> HIDE DEF m
  <2> QED BY <1>1, <1>3, <2>1, <2>2, <2>3, <2>4 DEF Gathered
<1>7. CASE ReadEvents(p)
  <2> DEFINE m == [l EXCEPT !.pc = "recheck", !.read.events = events]
  <2>1. Continue(p, m) /\ l.pc = "scan"
    BY <1>7 DEF ReadEvents
  <2>2. Others(p) /\ local'[p] = m
    <3>1. local' \in [Procs -> Contexts]
      BY DEF TypeOK
    <3> HIDE DEF m
    <3> QED BY <2>1, <3>1, Continued
  <2>3. m.pc = "recheck" /\ SameBut(l, m) /\ m.cap = l.cap /\ m.read = [l.read EXCEPT !.events = events]
    BY <1>1 DEF Contexts, SameBut, SameLeases, SameWork, SameImport, SameBatch
  <2>4. m.read \in Inputs /\ m.read.events = events /\ m.read.policy = l.read.policy
    <3> HIDE DEF m
    <3> QED BY <1>1, <2>3 DEF Inputs, TypeOK
  <2> HIDE DEF m
  <2> QED BY <1>1, <1>3, <2>1, <2>2, <2>3, <2>4 DEF Gathered
<1>8. CASE ReadOverrides(p)
  <2> DEFINE m == [l EXCEPT !.pc = "write", !.read.override = settings.override]
  <2>1. Continue(p, m) /\ l.pc = "overrides"
    BY <1>8 DEF ReadOverrides
  <2>2. Others(p) /\ local'[p] = m
    <3>1. local' \in [Procs -> Contexts]
      BY DEF TypeOK
    <3> HIDE DEF m
    <3> QED BY <2>1, <3>1, Continued
  <2>3. m.pc = "write" /\ SameBut(l, m) /\ m.cap = l.cap /\ m.read = [l.read EXCEPT !.override = settings.override]
    BY <1>1 DEF Contexts, SameBut, SameLeases, SameWork, SameImport, SameBatch
  <2>4. m.read \in Inputs /\ m.read.override = settings.override /\ m.read.policy = l.read.policy
        /\ m.read.events = l.read.events
    <3> HIDE DEF m
    <3> QED BY <1>1, <2>3 DEF Inputs, TypeOK
  <2> HIDE DEF m
  <2> QED BY <1>1, <1>3, <2>1, <2>2, <2>3, <2>4 DEF Gathered
<1>9. CASE ~FailAt(p) /\ (CheckEventsBefore(p) \/ CheckEventsAfter(p))
  <2>1. \/ l.pc = "events" /\ Goto(p, "scan")
        \/ l.pc = "recheck" /\ Goto(p, "overrides")
    BY <1>9 DEF CheckEventsBefore, CheckEventsAfter
  <2> QED BY <2>1, <1>5
<1> QED BY <1>4, <1>6, <1>7, <1>8, <1>9

LEMMA CreatesDefault ==
    ASSUME TypeOK, ContextsSound, NEW p \in Procs, CreateDefaultPolicy(p), TypeOK'
    PROVE  Stopped(p) \/ DefaultCreated(p)
<1> DEFINE l == local[p]
<1>1. l \in Contexts /\ InStep(p, l) /\ l.pc = "default" /\ UNCHANGED <<covered, reader>>
  BY ContextFields DEF CreateDefaultPolicy
<1>2. CASE Fail(p)
  BY <1>1, <1>2, FailStops DEF Fail
<1>3. CASE ~Fail(p)
  <2>1. Goto(p, "capture") /\ Fence(l) /\ policyRev' = NewPolicyRevision
        /\ UNCHANGED <<conn, inputs, events, pub, rows, block>>
    BY <1>3 DEF CreateDefaultPolicy
  <2>2. /\ Others(p) /\ local'[p].pc = "capture"
        /\ SameBut(l, local'[p]) /\ local'[p].cap = l.cap /\ local'[p].read = l.read
    BY <2>1, GotoGoes DEF Pcs
  <2>3. p \notin Disconnecters
    BY <1>1, ProcsApart DEF InStep, Gathering, Erasing
  <2> QED BY <1>1, <2>1, <2>2, <2>3 DEF DefaultCreated
<1> QED BY <1>2, <1>3

LEMMA BeginsReplace ==
    ASSUME TypeOK, ContextsSound, NEW p \in Procs, BeginReplace(p), TypeOK'
    PROVE  Stopped(p) \/ ReplaceBegun(p)
<1> DEFINE l == local[p]
           previous == IF pub = None THEN [policy |-> None, private |-> None, lease |-> "none",
                                           dirty |-> FALSE, clear |-> FALSE, win |-> {}] ELSE pub
           clearAll == NewInputsSince(previous, l.cap)
           m == [l EXCEPT !.pc = "rows", !.proj = NewPublication, !.clearAll = clearAll,
                          !.del = IF clearAll THEN Held(rows) ELSE Held(rows) \cap l.win, !.put = l.win]
<1>1. l \in Contexts /\ InStep(p, l) /\ l.pc = "write" /\ UNCHANGED <<covered, reader>>
  BY ContextFields DEF BeginReplace
<1>2. CASE Fail(p)
  BY <1>1, <1>2, FailStops DEF Fail
<1>3. CASE ~Fail(p)
  <2>1. /\ pub' = [id |-> NewPublication, ready |-> FALSE, dirty |-> TRUE, clear |-> FALSE, win |-> l.win,
                   policy |-> None, private |-> None, lease |-> "live"]
        /\ Continue(p, m) /\ Fence(l) /\ previous.lease # "live"
        /\ UNCHANGED <<conn, inputs, events, settings, policyRev, rows, block>>
    BY <1>3 DEF BeginReplace
  <2>2. Others(p) /\ local'[p] = m
    <3>1. local' \in [Procs -> Contexts]
      BY DEF TypeOK
    <3> HIDE DEF m
    <3> QED BY <2>1, <3>1, Continued
  <2>3. /\ m.pc = "rows" /\ SameLeases(l, m) /\ SameImport(l, m) /\ m.priv = l.priv /\ m.obs = l.obs
        /\ m.proj = NewPublication /\ m.cap = l.cap /\ m.read = l.read /\ m.win = l.win /\ m.put = l.win
        /\ m.clearAll = clearAll
        /\ m.del = IF clearAll THEN Held(rows) ELSE Held(rows) \cap l.win
    <3> HIDE DEF clearAll
    <3> QED BY <1>1 DEF Contexts, SameLeases, SameImport
  <2>4. pub = None \/ pub.lease # "live"
    BY <2>1
  <2>5. ~clearAll => \/ pub = None /\ l.cap.policy = None /\ l.cap.private = None
                     \/ pub # None /\ l.cap.policy = pub.policy /\ l.cap.private = pub.private
    BY DEF NewInputsSince
  <2>6. /\ pub' \in Gate /\ pub'.id = NewPublication /\ ~pub'.ready /\ pub'.dirty /\ pub'.policy = None
        /\ pub'.private = None /\ pub'.lease = "live"
    BY <1>1, <2>1, NewPublicationFresh DEF Gate, Maybe, LeaseState, Contexts
  <2>7. p \notin Disconnecters
    BY <1>1, ProcsApart DEF InStep, Gathering, Erasing
  <2> HIDE DEF m, clearAll, previous
  <2> QED BY <1>1, <2>1, <2>2, <2>3, <2>4, <2>5, <2>6, <2>7 DEF ReplaceBegun
<1> QED BY <1>2, <1>3

LEMMA ReplacesRows ==
    ASSUME TypeOK, ContextsSound, NEW p \in Procs, ReplaceRows(p), TypeOK'
    PROVE  Stopped(p) \/ RowsReplaced(p)
<1> DEFINE l == local[p]
<1>1. l \in Contexts /\ InStep(p, l) /\ l.pc = "rows" /\ UNCHANGED <<reader, covered>>
  BY ContextFields DEF ReplaceRows
<1>2. CASE Fail(p)
  BY <1>1, <1>2, FailStops DEF Fail
<1>3. CASE ~Fail(p)
  <2>1. Fence(l) /\ \E b \in Chunks(l) :
            /\ rows' = [c \in Cells |-> IF c \in b.put THEN Projection(l.read, c)
                                        ELSE IF c \in b.del THEN None ELSE rows[c]]
            /\ Continue(p, Written(l, b))
            /\ UNCHANGED <<conn, inputs, events, settings, policyRev, pub, block>>
    BY <1>3 DEF ReplaceRows, BatchCommits
  <2>2. PICK b \in Chunks(l) :
            /\ rows' = [c \in Cells |-> IF c \in b.put THEN Projection(l.read, c)
                                        ELSE IF c \in b.del THEN None ELSE rows[c]]
            /\ Continue(p, Written(l, b))
            /\ UNCHANGED <<conn, inputs, events, settings, policyRev, pub, block>>
    BY <2>1
  <2> DEFINE m == Written(l, b)
  <2>3. Others(p) /\ local'[p] = m
    <3>1. local' \in [Procs -> Contexts]
      BY DEF TypeOK
    <3> QED BY <2>2, <3>1, Continued
  <2>4. m = [l EXCEPT !.del = l.del \ b.del, !.put = l.put \ b.put]
    BY <1>1, ChunkTyped
  <2>5. SameLeases(l, m) /\ SameWork(l, m) /\ SameImport(l, m) /\ m.cap = l.cap /\ m.read = l.read
        /\ m.pc = l.pc /\ m.win = l.win /\ m.clearAll = l.clearAll
        /\ m.del = l.del \ b.del /\ m.put = l.put \ b.put
    <3> HIDE DEF m
    <3> QED BY <1>1, <2>4 DEF Contexts, SameLeases, SameWork, SameImport
  <2>6. p \notin Disconnecters
    BY <1>1, ProcsApart DEF InStep, Erasing
  <2> HIDE DEF m
  <2> QED BY <1>1, <2>1, <2>2, <2>3, <2>5, <2>6 DEF RowsReplaced
<1> QED BY <1>2, <1>3

LEMMA FinishesReplace ==
    ASSUME TypeOK, ContextsSound, NEW p \in Procs, FinishReplace(p), TypeOK'
    PROVE  Stopped(p) \/ ReplaceFinished(p)
<1> DEFINE l == local[p]
<1>1. l \in Contexts /\ InStep(p, l) /\ l.pc = "rows" /\ l.del = {} /\ l.put = {} /\ UNCHANGED reader
  BY ContextFields DEF FinishReplace
<1>2. p \notin Disconnecters /\ p \in Syncers \cup Editors
  BY <1>1, ProcsApart DEF InStep, Erasing
<1>3. CASE Fail(p) /\ UNCHANGED covered
  BY <1>1, <1>3, FailStops DEF Fail
<1>4. CASE ~(Fail(p) /\ UNCHANGED covered)
  <2>1. /\ pub' = Completed(l) /\ Fence(l)
        /\ covered' = l.win \cup (IF l.clearAll THEN {} ELSE covered)
        /\ IF p \in Syncers
           THEN Continue(p, [Nothing EXCEPT !.pc = "success", !.sync = l.sync, !.obs = l.obs, !.seen = l.seen])
           ELSE Leave(p, "idle")
        /\ UNCHANGED <<conn, inputs, events, settings, policyRev, rows, block>>
    BY <1>4 DEF FinishReplace
  <2>2. l.cap \in Capture /\ l.proj \in Ids
    BY <1>1, ContextFields DEF InStep, Replacing, Contexts, Maybe
  <2>3. /\ pub' \in Gate /\ pub'.id = l.proj /\ pub'.ready /\ ~pub'.dirty /\ pub'.policy = l.cap.policy
        /\ pub'.private = l.cap.private /\ pub'.lease = "none"
    BY <2>1, <2>2 DEF Completed, Gate, Capture, LeaseState
  <2>4. CASE p \in Syncers
    <3> DEFINE m == [Nothing EXCEPT !.pc = "success", !.sync = l.sync, !.obs = l.obs, !.seen = l.seen]
    <3>1. Others(p) /\ local'[p] = m
      <4>1. Continue(p, m) /\ local' \in [Procs -> Contexts]
        BY <2>1, <2>4 DEF TypeOK
      <4> HIDE DEF m
      <4> QED BY <4>1, Continued
    <3>2. l.cleanup = None
      BY <1>1, <2>4, ProcsApart DEF InStep
    <3>3. m.pc = "success" /\ SameLeases(l, m) /\ m.obs = l.obs /\ m.seen = l.seen
          /\ m.priv = None /\ m.proj = None /\ m.cap = None
      BY <3>2 DEF Nothing, SameLeases
    <3> HIDE DEF m
    <3> QED BY <1>1, <1>2, <2>1, <2>2, <2>3, <2>4, <3>1, <3>3 DEF ReplaceFinished
  <2>5. CASE p \in Editors
    <3>1. Leave(p, "idle")
      BY <2>1, <2>5, ProcsApart
    <3>2. Others(p) /\ Returned(l, local'[p]) /\ local'[p].pc = "idle"
      BY <1>1, <3>1, LeaveEnds
    <3> QED BY <1>1, <1>2, <2>1, <2>2, <2>3, <2>5, <3>2 DEF ReplaceFinished
  <2> QED BY <1>2, <2>4, <2>5
<1> QED BY <1>3, <1>4

LEMMA AbandonsWrite ==
    ASSUME TypeOK, ContextsSound, NEW p \in Procs, AbandonProjectionWrite(p), TypeOK'
    PROVE  WriteAbandoned(p)
<1> DEFINE l == local[p]
           k == [l EXCEPT !.cap = None]
<1>1. l \in Contexts /\ InStep(p, l) /\ l.pc \in {"dropWrite", "dropErase"} /\ Leave(p, AfterFailure(p))
      /\ UNCHANGED <<conn, inputs, events, settings, policyRev, rows, block, reader, covered>>
      /\ pub' = IF Fence(k) THEN [pub EXCEPT !.lease = "none"] ELSE pub
  BY ContextFields DEF AbandonProjectionWrite
<1>2. l.proj # None /\ k.proj = l.proj
  BY <1>1 DEF InStep, Replacing, Erasing, Contexts
<1>3. Others(p) /\ Returned(l, local'[p]) /\ local'[p].pc # "eraseEvents"
  BY <1>1, AbandonedTo, LeaveEnds
<1>4. CASE ~Fence(k)
  <2> HIDE DEF k
  <2> QED BY <1>1, <1>3, <1>4 DEF WriteAbandoned
<1>5. CASE Fence(k)
  <2>1. pub # None /\ pub.id = l.proj /\ pub.lease = "live"
    BY <1>2, <1>5 DEF Fence, ProjectionFence
  <2>2. pub \in Gate /\ pub' = [pub EXCEPT !.lease = "none"]
    BY <1>1, <1>5, <2>1 DEF TypeOK, Maybe
  <2>3. /\ pub' \in Gate /\ pub'.id = pub.id /\ pub'.ready = pub.ready /\ pub'.dirty = pub.dirty
        /\ pub'.policy = pub.policy /\ pub'.private = pub.private /\ pub'.lease = "none"
    BY <2>2 DEF Gate, LeaseState
  <2> HIDE DEF k
  <2> QED BY <1>1, <1>3, <2>1, <2>2, <2>3 DEF WriteAbandoned
<1> QED BY <1>4, <1>5

LEMMA BeginsErase ==
    ASSUME TypeOK, ContextsSound, NEW p \in Procs, BeginErase(p), TypeOK'
    PROVE  Stopped(p) \/ EraseBegun(p)
<1> DEFINE l == local[p]
           m == [l EXCEPT !.pc = "erasing", !.proj = NewPublication]
<1>1. l \in Contexts /\ InStep(p, l) /\ l.pc = "erase" /\ UNCHANGED <<covered, reader>>
  BY ContextFields DEF BeginErase
<1>2. CASE Fail(p)
  BY <1>1, <1>2, FailStops DEF Fail
<1>3. CASE ~Fail(p)
  <2>1. /\ pub' = [id |-> NewPublication, ready |-> FALSE, dirty |-> TRUE, clear |-> TRUE, win |-> {},
                   policy |-> None, private |-> None, lease |-> "live"]
        /\ Continue(p, m) /\ Fence(l)
        /\ UNCHANGED <<conn, inputs, events, settings, policyRev, rows, block>>
    BY <1>3 DEF BeginErase
  <2>2. Others(p) /\ local'[p] = m
    <3>1. local' \in [Procs -> Contexts]
      BY DEF TypeOK
    <3> HIDE DEF m
    <3> QED BY <2>1, <3>1, Continued
  <2>3. /\ m.pc = "erasing" /\ SameLeases(l, m) /\ m.priv = l.priv /\ m.obs = l.obs
        /\ m.proj = NewPublication /\ m.cap = l.cap /\ m.read = l.read
    BY <1>1 DEF Contexts, SameLeases
  <2>4. /\ pub' \in Gate /\ pub'.id = NewPublication /\ ~pub'.ready /\ pub'.dirty /\ pub'.policy = None
        /\ pub'.private = None /\ pub'.lease = "live"
    BY <2>1, NewPublicationFresh DEF Gate, Maybe, LeaseState
  <2>5. p \notin Syncers
    BY <1>1, ProcsApart DEF InStep, Importing, Imported, Rebuilding, Gathering, Replacing
  <2> HIDE DEF m
  <2> QED BY <1>1, <2>1, <2>2, <2>3, <2>4, <2>5 DEF EraseBegun
<1> QED BY <1>2, <1>3

LEMMA ErasesRows ==
    ASSUME TypeOK, ContextsSound, NEW p \in Procs, EraseRows(p), TypeOK'
    PROVE  Stopped(p) \/ RowsErased(p)
<1> DEFINE l == local[p]
<1>1. l \in Contexts /\ InStep(p, l) /\ l.pc = "erasing" /\ Held(rows) # {} /\ UNCHANGED <<covered, reader>>
  BY ContextFields DEF EraseRows
<1>2. CASE Fail(p)
  BY <1>1, <1>2, FailStops DEF Fail
<1>3. CASE ~Fail(p)
  <2>1. Wipe(p, rows, rows', "erasing") /\ Fence(l)
        /\ UNCHANGED <<conn, inputs, events, settings, policyRev, pub, block>>
    BY <1>3 DEF EraseRows, BatchCommits
  <2>2. PICK page : UNCHANGED local
                    /\ rows' = [c \in Cells |-> IF c \in page THEN None ELSE rows[c]]
    BY <1>1, <2>1 DEF Wipe
  <2>3. rows' \in Rows /\ \A c \in Cells : rows'[c] \in {rows[c], None}
    BY <2>2 DEF TypeOK
  <2>4. p \notin Syncers
    BY <1>1, ProcsApart DEF InStep, Importing, Imported, Rebuilding, Gathering, Replacing
  <2> QED BY <1>1, <2>1, <2>2, <2>3, <2>4 DEF RowsErased
<1> QED BY <1>2, <1>3

LEMMA FinishesErase ==
    ASSUME TypeOK, ContextsSound, NEW p \in Procs, FinishErase(p), TypeOK'
    PROVE  Stopped(p) \/ EraseFinished(p)
<1> DEFINE l == local[p]
           pc == IF p \in Disconnecters THEN "eraseEvents" ELSE "idle"
<1>1. l \in Contexts /\ InStep(p, l) /\ l.pc = "erasing" /\ Held(rows) = {} /\ UNCHANGED reader
  BY ContextFields DEF FinishErase
<1>2. CASE Fail(p) /\ UNCHANGED covered
  BY <1>1, <1>2, FailStops DEF Fail
<1>3. CASE ~(Fail(p) /\ UNCHANGED covered)
  <2>1. /\ pub' = [id |-> l.proj, ready |-> FALSE, dirty |-> FALSE, clear |-> FALSE, win |-> {},
                   policy |-> None, private |-> None, lease |-> "none"]
        /\ covered' = {} /\ Leave(p, pc) /\ Fence(l)
        /\ UNCHANGED <<conn, inputs, events, settings, policyRev, rows, block>>
    BY <1>3 DEF FinishErase
  <2>2. l.proj \in Ids
    BY <1>1 DEF InStep, Erasing, Contexts, Maybe
  <2>3. /\ pub' \in Gate /\ pub'.id = l.proj /\ ~pub'.ready /\ ~pub'.dirty /\ pub'.policy = None
        /\ pub'.private = None /\ pub'.lease = "none"
    BY <2>1, <2>2 DEF Gate, Maybe, LeaseState
  <2>4. Others(p) /\ Returned(l, local'[p]) /\ local'[p].pc = pc
    BY <1>1, <2>1, LeaveEnds
  <2>5. p \notin Syncers
    BY <1>1, ProcsApart DEF InStep, Importing, Imported, Rebuilding, Gathering, Replacing
  <2> QED BY <1>1, <2>1, <2>3, <2>4, <2>5 DEF EraseFinished
<1> QED BY <1>2, <1>3

LEMMA PutsPolicy ==
    ASSUME TypeOK, NEW p \in Editors, PutSharingPolicy(p), TypeOK'
    PROVE  PolicyPut(p)
<1>1. p \in Procs /\ local[p].pc = "idle" /\ policyRev' = NewPolicyRevision
      /\ UNCHANGED <<conn, inputs, events, pub, rows, block, reader, covered>>
  BY DEF PutSharingPolicy, Procs
<1>2. PICK win \in Windows : Continue(p, [Nothing EXCEPT !.pc = "capture", !.win = win])
  BY DEF PutSharingPolicy
<1> DEFINE m == [Nothing EXCEPT !.pc = "capture", !.win = win]
<1>3. Others(p) /\ local'[p] = m
  <2>1. Continue(p, m) /\ local' \in [Procs -> Contexts]
    BY <1>2 DEF TypeOK
  <2> HIDE DEF m
  <2> QED BY <1>1, <2>1, Continued
<1>4. m.pc = "capture" /\ m.sync = None /\ m.cleanup = None /\ m.priv = None /\ m.proj = None
      /\ m.obs = None /\ m.cap = None
  BY DEF Nothing
<1> HIDE DEF m
<1> QED BY <1>1, <1>3, <1>4 DEF PolicyPut

LEMMA Revokes ==
    ASSUME TypeOK, NEW p \in Disconnecters, RevokeConnection(p), TypeOK'
    PROVE  Revoked(p)
<1> DEFINE m == [Nothing EXCEPT !.pc = "erase", !.cleanup = NewLease, !.obs = NewInputs]
<1>1. /\ p \in Procs /\ local[p].pc = "idle" /\ Continue(p, m)
      /\ block' = [id |-> NewLease, inProgress |-> TRUE, lease |-> "live"]
      /\ inputs' = [id |-> NewInputs, ready |-> FALSE, lease |-> "none", source |-> "none"]
      /\ conn' = None
      /\ UNCHANGED <<events, settings, policyRev, pub, rows, reader, covered>>
  BY DEF RevokeConnection, Procs
<1>2. Others(p) /\ local'[p] = m
  <2>1. local' \in [Procs -> Contexts]
    BY DEF TypeOK
  <2> HIDE DEF m
  <2> QED BY <1>1, <2>1, Continued
<1>3. m.pc = "erase" /\ m.sync = None /\ m.cleanup = NewLease /\ m.priv = None /\ m.proj = None
      /\ m.obs = NewInputs /\ m.cap = None
  BY DEF Nothing
<1>4. block' \in Block /\ block'.id = NewLease /\ block'.inProgress
  BY <1>1, NewLeaseFresh DEF Block, LeaseState
<1> HIDE DEF m
<1> QED BY <1>1, <1>2, <1>3, <1>4 DEF Revoked

LEMMA Releases ==
    ASSUME TypeOK, ContextsSound, NEW p \in Procs, FinishDisconnection(p), TypeOK'
    PROVE  Stopped(p) \/ Released(p)
<1> DEFINE l == local[p]
<1>1. l \in Contexts /\ InStep(p, l) /\ l.pc = "release" /\ UNCHANGED <<reader, covered>>
  BY ContextFields DEF FinishDisconnection
<1>2. CASE Fail(p)
  BY <1>1, <1>2, FailStops DEF Fail
<1>3. CASE ~Fail(p)
  <2>1. /\ inputs' = [id |-> l.obs, ready |-> TRUE, lease |-> "none", source |-> "none"]
        /\ block' = [block EXCEPT !.inProgress = FALSE, !.lease = "none"]
        /\ Leave(p, "idle") /\ Fence(l)
        /\ UNCHANGED <<conn, events, settings, policyRev, pub, rows>>
    BY <1>3 DEF FinishDisconnection
  <2>2. p \in Disconnecters /\ l.cleanup # None
    BY <1>1, ProcsApart DEF InStep, Importing, Imported, Rebuilding, Gathering, Replacing, Erasing
  <2>3. block \in Block
    BY <2>1, <2>2 DEF Fence, CalendarFence, TypeOK, Maybe
  <2>4. block' \in Block /\ block'.id = block.id /\ ~block'.inProgress
    BY <2>1, <2>3 DEF Block, LeaseState
  <2>5. Others(p) /\ Returned(l, local'[p]) /\ local'[p].pc = "idle"
    BY <1>1, <2>1, LeaveEnds
  <2> QED BY <1>1, <2>1, <2>2, <2>4, <2>5 DEF Released
<1> QED BY <1>2, <1>3

LEMMA Ages ==
    ASSUME TypeOK, Age \/ Expire
    PROVE  Aged
<1>1. UNCHANGED <<events, settings, policyRev, rows, local, reader, covered>>
  BY DEF Age, Expire
<1>2. CASE Age
  <2>1. inputs' = [inputs EXCEPT !.source = "stale"] /\ inputs.source = "fresh"
        /\ UNCHANGED <<conn, pub, block>>
    BY <1>2 DEF Age
  <2> QED BY <1>1, <2>1 DEF Aged, TypeOK
<1>3. CASE /\ conn # None /\ conn' = [conn EXCEPT !.until = "over"] /\ UNCHANGED <<inputs, pub, block>>
  <2>1. conn \in Connection /\ conn' \in Connection
    BY <1>3 DEF TypeOK, Maybe, Connection, LeaseState
  <2> QED BY <1>1, <1>3, <2>1 DEF Aged, Connection
<1>4. CASE /\ inputs.lease = "live" /\ inputs' = [inputs EXCEPT !.lease = "over"]
           /\ UNCHANGED <<conn, pub, block>>
  BY <1>1, <1>4 DEF Aged, TypeOK
<1>5. CASE /\ pub # None /\ pub.lease = "live" /\ pub' = [pub EXCEPT !.lease = "over"]
           /\ UNCHANGED <<conn, inputs, block>>
  <2>1. pub \in Gate /\ pub' \in Gate
    BY <1>5 DEF TypeOK, Maybe, Gate, LeaseState
  <2> QED BY <1>1, <1>5, <2>1 DEF Aged, Gate
<1>6. CASE /\ block # None /\ block' = [block EXCEPT !.lease = "over"] /\ UNCHANGED <<conn, inputs, pub>>
  <2>1. block \in Block /\ block' \in Block
    BY <1>6 DEF TypeOK, Maybe, Block, LeaseState
  <2> QED BY <1>1, <1>6, <2>1 DEF Aged, Block
<1> QED BY <1>2, <1>3, <1>4, <1>5, <1>6 DEF Expire, ExpireLease

LEMMA Connects ==
    ASSUME SaveConnection, TypeOK'
    PROVE  Connected
<1>1. PICK account \in Accounts : conn' = NewConnection(account)
  BY DEF SaveConnection
<1>2. conn' \in Connection
  BY <1>1 DEF NewConnection, Connection, Maybe, LeaseState
<1> QED BY <1>1, <1>2 DEF SaveConnection, Connected, NewConnection

LEMMA ReaderOnly ==
    ASSUME Read
    PROVE  UNCHANGED <<documents, local, covered>>
BY DEF Read, StartRead, ReadBlock, ReadGate, ReadPolicyRevision, ReadInputs, ReadConnection,
       ReadBlockAgain, QueryRows, PassEnds, NextRead, ReaderGoes

\* Every step of the system is one of these.
Happens ==
    \/ Untouched \/ Overridden \/ Connected \/ Aged
    \/ \E p \in Procs : StepOf(p)

LEMMA Outcome ==
    ASSUME TypeOK, ContextsSound, [Next]_vars
    PROVE  Happens
<1>1. TypeOK'
  BY TypedStep
<1>2. CASE UNCHANGED vars \/ Read \/ ProviderChanges
  BY <1>2, ReaderOnly DEF vars, ProviderChanges, Untouched, Happens
<1>3. ASSUME NEW p \in Procs, Step(p) \/ Fault(p) \/ Crash(p)
      PROVE  StepOf(p)
  <2>1. CASE Synchronize(p)
    BY <1>1, <2>1, Fetches, BeginsImport, WipesEvents, AppliesChanges, FinishesImport, AbandonsImport,
       CommitsSync, MarksFailure DEF Synchronize, StepOf
  <2>2. CASE Rebuild(p)
    BY <1>1, <2>2, CapturesPolicy, CapturesInputs, Gathers, CreatesDefault, BeginsReplace, ReplacesRows,
       FinishesReplace, AbandonsWrite DEF Rebuild, StepOf
  <2>3. CASE DeleteForUser(p) \/ Disconnect(p)
    BY <1>1, <2>3, BeginsErase, ErasesRows, FinishesErase, WipesEvents, Releases
       DEF DeleteForUser, Disconnect, StepOf
  <2>4. CASE Fault(p) \/ Crash(p)
    BY <2>4, CrashStops DEF StepOf
  <2> QED BY <1>3, <2>1, <2>2, <2>3, <2>4 DEF Step
<1>4. ASSUME NEW p \in Syncers, AcquireSync(p) PROVE p \in Procs /\ StepOf(p)
  BY <1>1, <1>4, AcquiresSync DEF StepOf, Procs
<1>5. ASSUME NEW p \in Editors, PutSharingPolicy(p) PROVE p \in Procs /\ StepOf(p)
  BY <1>1, <1>5, PutsPolicy DEF StepOf, Procs
<1>6. ASSUME NEW p \in Disconnecters, RevokeConnection(p) PROVE p \in Procs /\ StepOf(p)
  BY <1>1, <1>6, Revokes DEF StepOf, Procs
<1>7. CASE CreateOverride
  BY <1>7 DEF CreateOverride, Overridden, Happens
<1>8. CASE SaveConnection
  BY <1>1, <1>8, Connects DEF Happens
<1>9. CASE Age \/ Expire
  BY <1>9, Ages DEF Happens
<1> QED BY <1>2, <1>3, <1>4, <1>5, <1>6, <1>7, <1>8, <1>9 DEF Next, Happens

-----------------------------------------------------------------------------
(* The control documents.                                                  *)

\* What a process knows when its fence lets it through.
LEMMA Fenced ==
    ASSUME TypeOK, ContextsSound, NEW p \in Procs, Fence(local[p]), local[p].pc # "idle"
    PROVE  /\ p \in Syncers => conn \in Connection /\ conn.lease = local[p].sync
           /\ p \in Disconnecters => block \in Block /\ block.inProgress /\ block.id = local[p].cleanup
           /\ local[p].pc \in Replacing \cup Erasing =>
                pub \in Gate /\ pub.id = local[p].proj /\ pub.lease = "live"
           /\ local[p].pc \in Importing => inputs.id = local[p].priv /\ inputs.lease = "live"
           /\ local[p].cap # None =>
                /\ inputs.ready /\ inputs.lease = "none"
                /\ inputs.id = local[p].cap.private /\ policyRev = local[p].cap.policy
<1>1. InStep(p, local[p]) /\ local[p] \in Contexts
  BY ContextFields
<1>2. /\ p \in Syncers => local[p].sync # None /\ local[p].cleanup = None
      /\ p \in Disconnecters => local[p].cleanup # None
      /\ local[p].pc \in Replacing \cup Erasing => local[p].proj # None
      /\ local[p].pc \in Importing => local[p].priv # None
  BY <1>1, ProcsApart DEF InStep
<1>3. (conn # None => conn \in Connection) /\ (block # None => block \in Block) /\ (pub # None => pub \in Gate)
  BY DEF TypeOK, Maybe
<1> QED BY <1>2, <1>3
        DEF Fence, CalendarFence, ProjectionFence, PrivateInputsFence, ProjectionInputsFence

LEMMA ControlsStep ==
    ASSUME TypeOK, ContextsSound, TypeOK', ControlsSound, Happens
    PROVE  ControlsSound'
<1>1. /\ \A x \in Ids \cup Connection \cup Gate \cup Block : x # None
      /\ NewInputs \in Ids /\ NewLease \in Ids
  BY NoneApart, NewInputsFresh, NewLeaseFresh
<1>2. CASE Untouched \/ Overridden
  BY <1>2 DEF Untouched, Overridden, documents, ControlsSound
<1>3. CASE Connected
  BY <1>1, <1>3 DEF Connected, ControlsSound
<1>4. CASE Aged
  BY <1>1, <1>4 DEF Aged, ControlsSound
<1>5. ASSUME NEW p \in Procs, StepOf(p)
      PROVE  ControlsSound'
  <2> DEFINE l == local[p]
  <2>1. CASE Stopped(p) \/ Fetched(p) \/ PolicyCaptured(p) \/ InputsCaptured(p) \/ Gathered(p)
             \/ DefaultCreated(p) \/ PolicyPut(p)
    BY <2>1 DEF Stopped, Fetched, PolicyCaptured, InputsCaptured, Gathered, DefaultCreated, PolicyPut,
                documents, ControlsSound
  <2>2. CASE SyncAcquired(p)
    BY <1>1, <2>2 DEF SyncAcquired, ControlsSound
  <2>3. CASE ImportBegun(p)
    <3>1. conn \in Connection
      BY <2>3, Fenced DEF ImportBegun
    <3> QED BY <1>1, <2>3, <3>1 DEF ImportBegun, ControlsSound
  <2>4. CASE EventsWiped(p)
    <3>1. events = NoEvents => events' = NoEvents
      BY <2>4 DEF EventsWiped, NoEvents, Calendar
    <3> QED BY <2>4, <3>1 DEF EventsWiped, ControlsSound
  <2>5. CASE ChangesApplied(p)
    <3>1. conn \in Connection
      BY <2>5, Fenced DEF ChangesApplied
    <3> QED BY <1>1, <2>5, <3>1 DEF ChangesApplied, ControlsSound
  <2>6. CASE ImportFinished(p)
    <3>1. conn \in Connection /\ inputs.lease = "live"
      BY <2>6, Fenced DEF ImportFinished, Importing
    <3>2. inputs'.id = inputs.id /\ inputs'.ready /\ inputs'.lease = "none" /\ inputs'.source = inputs.source
      BY <2>6 DEF ImportFinished, TypeOK
    <3> QED BY <1>1, <2>6, <3>1, <3>2 DEF ImportFinished, ControlsSound
  <2>7. CASE ImportAbandoned(p)
    <3>1. inputs'.id = inputs.id /\ inputs'.ready = inputs.ready /\ inputs'.source = inputs.source
          /\ inputs'.lease \in {inputs.lease, "none"}
      BY <2>7 DEF ImportAbandoned, TypeOK
    <3> QED BY <2>7, <3>1 DEF ImportAbandoned, ControlsSound
  <2>8. CASE SyncCommitted(p)
    BY <1>1, <2>8 DEF SyncCommitted, ControlsSound
  <2>9. CASE FailureMarked(p)
    BY <1>1, <2>9 DEF FailureMarked, ControlsSound
  <2>10. CASE ReplaceBegun(p) \/ EraseBegun(p)
    BY <1>1, <2>10 DEF ReplaceBegun, EraseBegun, ControlsSound
  <2>11. CASE RowsReplaced(p) \/ RowsErased(p)
    <3>1. pub \in Gate
      BY <2>11, Fenced DEF RowsReplaced, RowsErased, Replacing, Erasing
    <3> QED BY <1>1, <2>11, <3>1 DEF RowsReplaced, RowsErased, ControlsSound
  <2>12. CASE ReplaceFinished(p) \/ EraseFinished(p)
    BY <1>1, <2>12 DEF ReplaceFinished, EraseFinished, ControlsSound
  <2>13. CASE WriteAbandoned(p)
    BY <1>1, <2>13 DEF WriteAbandoned, ControlsSound
  <2>14. CASE Revoked(p)
    BY <1>1, <2>14 DEF Revoked, ControlsSound
  <2>15. CASE Released(p)
    <3>1. block \in Block /\ block.inProgress
      BY <2>15, Fenced DEF Released
    <3> QED BY <1>1, <2>15, <3>1 DEF Released, ControlsSound
  <2> QED BY <1>5, <2>1, <2>2, <2>3, <2>4, <2>5, <2>6, <2>7, <2>8, <2>9, <2>10, <2>11, <2>12, <2>13,
             <2>14, <2>15 DEF StepOf
<1> QED BY <1>2, <1>3, <1>4, <1>5 DEF Happens

\* A row changes only behind a closed gate whose lease is live, an event only
\* while the inputs are not readable.
LEMMA WritesStep ==
    ASSUME TypeOK, ContextsSound, ControlsSound, Happens
    PROVE  /\ rows' # rows => pub # None /\ pub.dirty /\ ~pub.ready /\ pub.lease = "live"
           /\ events' # events => ~inputs.ready
<1>1. \A x \in Gate \cup Block : x # None
  BY NoneApart
<1>2. CASE Untouched \/ Overridden \/ Connected \/ Aged
  BY <1>2 DEF Untouched, Overridden, Connected, Aged, documents
<1>3. ASSUME NEW p \in Procs, StepOf(p)
      PROVE  /\ rows' # rows => pub # None /\ pub.dirty /\ ~pub.ready /\ pub.lease = "live"
             /\ events' # events => ~inputs.ready
  <2>1. CASE RowsReplaced(p) \/ RowsErased(p)
    <3>1. pub \in Gate /\ pub.lease = "live"
      BY <2>1, Fenced DEF RowsReplaced, RowsErased, Replacing, Erasing
    <3> QED BY <1>1, <2>1, <3>1 DEF RowsReplaced, RowsErased, ControlsSound
  <2>2. CASE EventsWiped(p)
    <3>1. CASE Held(events) = {}
      <4>1. events' = events
        BY <2>2, <3>1 DEF EventsWiped, TypeOK, Calendar, Held
      <4> QED BY <2>2, <4>1 DEF EventsWiped
    <3>2. CASE Held(events) # {}
      <4>1. inputs.lease = "live" \/ (block \in Block /\ block.inProgress)
        BY <2>2, <3>2, Fenced DEF EventsWiped, Importing
      <4> QED BY <1>1, <2>2, <4>1 DEF EventsWiped, ControlsSound
    <3> QED BY <3>1, <3>2
  <2>3. CASE ChangesApplied(p)
    <3>1. inputs.lease = "live"
      BY <2>3, Fenced DEF ChangesApplied, Importing
    <3> QED BY <2>3, <3>1 DEF ChangesApplied, ControlsSound
  <2> QED BY <1>3, <2>1, <2>2, <2>3
          DEF StepOf, documents, Stopped, SyncAcquired, Fetched, ImportBegun, ImportFinished, ImportAbandoned,
              SyncCommitted, FailureMarked, PolicyCaptured, InputsCaptured, Gathered, DefaultCreated,
              ReplaceBegun, ReplaceFinished, WriteAbandoned, EraseBegun, EraseFinished, PolicyPut, Revoked,
              Released
<1> QED BY <1>2, <1>3 DEF Happens

-----------------------------------------------------------------------------
(* Ids and private inputs.                                                 *)

LEMMA IdsGoOn ==
    ASSUME TypeOK, NEW p \in Procs, StepOf(p)
    PROVE  /\ Others(p)
           /\ local'[p].sync \in {local[p].sync, None, NewLease}
           /\ local'[p].cleanup \in {local[p].cleanup, None, NewLease}
           /\ local'[p].proj \in {local[p].proj, None, NewPublication}
           /\ local'[p].obs \in {local[p].obs, None, NewInputs}
<1> DEFINE l == local[p]
           m == local'[p]
<1>1. CASE Stopped(p)
  <2>1. CASE Dropped(l, m)
    <3>1. l \in Contexts /\ m = [l EXCEPT !.pc = m.pc]
      BY <2>1 DEF TypeOK, Dropped
    <3>2. m.sync = l.sync /\ m.cleanup = l.cleanup /\ m.proj = l.proj /\ m.obs = l.obs
      BY <3>1 DEF Contexts
    <3> QED BY <1>1, <3>2 DEF Stopped
  <2> QED BY <1>1, <2>1 DEF Stopped, Leftover, Returned
<1>2. CASE RowsErased(p)
  BY <1>2, StaysSame DEF RowsErased
<1>3. CASE ~Stopped(p) /\ ~RowsErased(p)
  BY <1>3 DEF StepOf, SyncAcquired, Fetched, ImportBegun, EventsWiped, ChangesApplied, ImportFinished,
              ImportAbandoned, SyncCommitted, FailureMarked, PolicyCaptured, InputsCaptured, Gathered,
              DefaultCreated, ReplaceBegun, RowsReplaced, ReplaceFinished, WriteAbandoned, EraseBegun,
              EraseFinished, PolicyPut, Revoked, Released, Returned, SameBut, SameLeases, SameWork
<1> QED BY <1>1, <1>2, <1>3

LEMMA IdsStep ==
    ASSUME TypeOK, IdsApart, Happens
    PROVE  IdsApart'
<1>1. CASE Untouched \/ Overridden \/ Connected \/ Aged
  BY <1>1 DEF Untouched, Overridden, Connected, Aged, IdsApart
<1>2. ASSUME NEW p \in Procs, StepOf(p)
      PROVE  IdsApart'
  BY <1>2, IdsGoOn, NewLeaseFresh, NewPublicationFresh, NewInputsFresh DEF IdsApart, Others
<1> QED BY <1>1, <1>2 DEF Happens

\* Only these change the inputs, the end of a disconnection and the time of
\* the last synchronization.
LEMMA InputsStep ==
    ASSUME TypeOK, ContextsSound, TypeOK', ContextsSound', IdsApart, ControlsSound, InputsSound, Happens
    PROVE  InputsSound'
<1>1. /\ \A x \in Ids \cup Connection \cup Gate \cup Block : x # None
      /\ NewInputs \in Ids /\ NewLease \in Ids
  BY NoneApart, NewInputsFresh, NewLeaseFresh
<1>2. CASE Untouched \/ Overridden
  BY <1>2 DEF Untouched, Overridden, documents, InputsSound, ContextInputsSound
<1>3. CASE Connected
  BY <1>1, <1>3 DEF Connected, InputsSound, ContextInputsSound, ControlsSound
<1>4. CASE Aged
  BY <1>1, <1>4 DEF Aged, InputsSound, ContextInputsSound
<1>5. ASSUME NEW p \in Procs, StepOf(p)
      PROVE  InputsSound'
  <2> DEFINE l == local[p]
             m == local'[p]
  <2>0. /\ \A q \in Procs : q # p => local'[q] = local[q]
        /\ InStep(p, l) /\ InStep(p, m)
        /\ p \in Syncers => p \notin Editors /\ p \notin Disconnecters
        /\ p \in Disconnecters => p \notin Syncers
    BY <1>5, IdsGoOn, ProcsApart DEF Others, ContextsSound
  <2>1. CASE Stopped(p)
    <3>1. ContextInputsSound(p)'
      <4>1. CASE Dropped(l, m)
        <5>1. l \in Contexts /\ m = [l EXCEPT !.pc = m.pc]
          BY <4>1 DEF TypeOK, Dropped
        <5>2. m.cleanup = l.cleanup /\ m.cap = l.cap /\ m.obs = l.obs /\ m.priv = l.priv
          BY <5>1 DEF Contexts
        <5> QED BY <2>1, <4>1, <5>2 DEF Stopped, Dropped, documents, InputsSound, ContextInputsSound,
                   Importing, Imported, Rebuilding, Gathering, Replacing
      <4>2. CASE Returned(l, m)
        <5>1. m.obs \in {l.obs, None} /\ (m.cleanup # None => m.obs = l.obs /\ m.cleanup = l.cleanup)
          BY <2>0, <4>2 DEF Returned, InStep
        <5> QED BY <2>1, <4>2, <5>1 DEF Stopped, Returned, documents, InputsSound, ContextInputsSound,
                   Importing, Imported, Rebuilding, Gathering, Replacing
      <4> QED BY <2>1, <4>1, <4>2 DEF Stopped, Leftover
    <3> QED BY <2>0, <2>1, <3>1 DEF Stopped, documents, InputsSound, ContextInputsSound
  <2>2. CASE SyncAcquired(p)
    BY <1>1, <2>0, <2>2 DEF SyncAcquired, InputsSound, ContextInputsSound, Importing, Imported, Rebuilding,
       Gathering, Replacing
  <2>3. CASE Fetched(p)
    BY <1>1, <2>0, <2>3 DEF Fetched, SameLeases, SameWork, documents, InputsSound, ContextInputsSound,
       Importing, Imported, Rebuilding, Gathering, Replacing
  <2>4. CASE ImportBegun(p)
    BY <1>1, <2>0, <2>4, NewInputsFresh DEF ImportBegun, SameLeases, InputsSound, ContextInputsSound,
       Importing, Imported, Rebuilding, Gathering, Replacing
  <2>5. CASE EventsWiped(p) \/ ChangesApplied(p)
    BY <2>0, <2>5 DEF EventsWiped, ChangesApplied, SameBut, SameLeases, SameWork, InputsSound,
       ContextInputsSound, Importing, Imported, Rebuilding, Gathering, Replacing
  <2>6. CASE ImportFinished(p)
    <3>1. inputs'.id = inputs.id /\ inputs'.ready
      BY <2>6 DEF ImportFinished, TypeOK
    <3>2. inputs.id = l.obs /\ l.obs # None /\ (m.cleanup = None)
      BY <2>0, <2>6, Fenced DEF ImportFinished, Importing, InStep
    <3>3. \A q \in Procs : q # p /\ local[q].pc \in Importing => inputs.id # local[q].priv
      BY <3>2 DEF ContextsSound, InStep, IdsApart
    <3> QED BY <2>0, <2>6, <3>1, <3>2, <3>3 DEF ImportFinished, InputsSound, ContextInputsSound, Importing
  <2>7. CASE ImportAbandoned(p) \/ FailureMarked(p)
    <3>1. inputs'.id = inputs.id /\ inputs'.ready = inputs.ready
      BY <2>7 DEF ImportAbandoned, FailureMarked, TypeOK
    <3>2. m.obs = None /\ m.cap = None /\ m.cleanup = None
      BY <2>0, <2>7 DEF ImportAbandoned, FailureMarked, Returned, InStep, Importing, Imported, Rebuilding,
         Gathering, Replacing
    <3> QED BY <1>1, <2>0, <2>7, <3>1, <3>2 DEF ImportAbandoned, FailureMarked, InputsSound,
       ContextInputsSound, Importing, Imported, Rebuilding, Gathering, Replacing
  <2>8. CASE SyncCommitted(p)
    <3>1. l.obs # None /\ m.obs = None /\ m.cap = None /\ m.cleanup = None
      BY <2>0, <2>8 DEF SyncCommitted, Returned, InStep, Importing, Imported, Rebuilding, Gathering, Replacing
    <3>2. \A q \in Procs : q # p => local[q].obs # l.obs
      BY <3>1 DEF IdsApart
    <3> QED BY <1>1, <2>0, <2>8, <3>1, <3>2 DEF SyncCommitted, InputsSound,
       ContextInputsSound, Importing, Imported, Rebuilding, Gathering, Replacing
  <2>9. CASE PolicyCaptured(p) \/ InputsCaptured(p) \/ Gathered(p) \/ DefaultCreated(p)
    BY <2>0, <2>9 DEF PolicyCaptured, InputsCaptured, Gathered, DefaultCreated, SameBut, SameLeases,
       SameWork, documents, InputsSound, ContextInputsSound, ControlsSound, Importing, Imported, Rebuilding,
       Gathering, Replacing
  <2>10. CASE ReplaceBegun(p) \/ EraseBegun(p)
    BY <2>0, <2>10 DEF ReplaceBegun, EraseBegun, SameLeases, InputsSound, ContextInputsSound, ControlsSound,
       Importing, Imported, Rebuilding, Gathering, Replacing
  <2>11. CASE RowsReplaced(p)
    BY <2>0, <2>11 DEF RowsReplaced, SameLeases, SameWork, InputsSound, ContextInputsSound
  <2>12. CASE RowsErased(p)
    BY <2>12 DEF RowsErased, InputsSound, ContextInputsSound
  <2>13. CASE ReplaceFinished(p)
    <3>1. inputs.ready
      BY <2>0, <2>13, Fenced DEF ReplaceFinished, InStep, Replacing
    <3> QED BY <2>0, <2>13, <3>1 DEF ReplaceFinished, Returned, SameLeases, InputsSound, ContextInputsSound,
       InStep, Importing, Imported, Rebuilding, Gathering, Replacing
  <2>14. CASE WriteAbandoned(p) \/ EraseFinished(p)
    <3>1. m.obs \in {l.obs, None} /\ (m.cleanup # None => m.obs = l.obs /\ m.cleanup = l.cleanup)
      BY <2>0, <2>14 DEF WriteAbandoned, EraseFinished, Returned, InStep
    <3> QED BY <1>1, <2>0, <2>14, <3>1 DEF WriteAbandoned, EraseFinished, Returned, InputsSound,
       ContextInputsSound, ControlsSound, Importing, Imported, Rebuilding, Gathering, Replacing
  <2>15. CASE PolicyPut(p)
    BY <2>0, <2>15 DEF PolicyPut, InputsSound, ContextInputsSound, Importing, Imported, Rebuilding,
       Gathering, Replacing
  <2>16. CASE Revoked(p)
    BY <1>1, <2>0, <2>16, NewInputsFresh, NewLeaseFresh DEF Revoked, InputsSound, ContextInputsSound,
       Importing, Imported, Rebuilding, Gathering, Replacing
  <2>17. CASE Released(p)
    <3>1. block # None /\ block.inProgress /\ conn = None /\ l.obs # None
      BY <1>1, <2>0, <2>17, Fenced DEF Released, ControlsSound, InStep
    <3>2. \A q \in Procs : q # p /\ local[q].pc \in Importing => l.obs # local[q].priv
      BY <3>1 DEF ContextsSound, InStep, IdsApart
    <3> QED BY <2>0, <2>17, <3>1, <3>2 DEF Released, Returned, InputsSound, ContextInputsSound, Importing,
       Imported, Rebuilding, Gathering, Replacing
  <2> QED BY <1>5, <2>1, <2>2, <2>3, <2>4, <2>5, <2>6, <2>7, <2>8, <2>9, <2>10, <2>11, <2>12, <2>13,
             <2>14, <2>15, <2>16, <2>17 DEF StepOf
<1> QED BY <1>2, <1>3, <1>4, <1>5 DEF Happens

-----------------------------------------------------------------------------
(* The gates.                                                              *)

\* What a read of all the documents at once finds when it shows the rows.
Shown ==
    /\ block = None /\ inputs.ready /\ inputs.lease = "none"
    /\ pub = None => policyRev = None /\ inputs.id = None
    /\ pub # None =>
        /\ pub \in Gate /\ pub.ready /\ ~pub.dirty /\ pub.lease = "none"
        /\ pub.policy = policyRev /\ pub.private = inputs.id
    /\ \/ inputs.id = None /\ inputs.source = "none" /\ conn = None
       \/ /\ inputs.id # None /\ inputs.source = "fresh" /\ conn \in Connection /\ ~conn.reconnect
          /\ ~conn.failed /\ conn.lease = None /\ conn.last = inputs.id

LEMMA Shows == TypeOK /\ ControlsSound /\ Visible => Shown
<1> SUFFICES ASSUME TypeOK, ControlsSound, Visible PROVE Shown
  OBVIOUS
<1>1. block = None /\ inputs.ready /\ inputs.lease = "none" /\ GateOpen(pub, policyRev)
      /\ PublishedBy(pub) = inputs.id
      /\ Readable(inputs.source, Snapshot, conn, block, PublishedBy(pub))
  BY DEF Visible
<1>2. /\ pub = None => policyRev = None /\ inputs.id = None
      /\ pub # None =>
                /\ pub \in Gate /\ pub.ready /\ ~pub.dirty /\ pub.lease = "none"
                /\ pub.policy = policyRev /\ pub.private = inputs.id
  BY <1>1 DEF GateOpen, PublishedBy, TypeOK, Maybe
<1>3. \/ inputs.id = None /\ inputs.source = "none" /\ conn = None
      \/ /\ inputs.source = "fresh" /\ conn \in Connection /\ ~conn.reconnect
         /\ ~conn.failed /\ conn.lease = None /\ conn.last = inputs.id /\ Snapshot = inputs.id
  BY <1>1 DEF Readable, Managed, Committed, TypeOK, Maybe, Snapshot
<1>4. inputs.source = "fresh" => inputs.id # None
  BY DEF ControlsSound
<1> QED BY <1>1, <1>2, <1>3, <1>4 DEF Shown

LEMMA Hides ==
    ASSUME Shown
    PROVE  Visible
<1>1. conn \in Connection => conn # None
  BY NoneApart
<1> QED BY <1>1 DEF Shown, Visible, Readable, Managed, Committed, Snapshot, GateOpen, PublishedBy

LEMMA OpensStep ==
    ASSUME TypeOK, TypeOK', ControlsSound, ControlsSound', ContextsSound, InputsSound, Happens,
           ~Visible, Visible'
    PROVE  \E p \in Procs : ReplaceFinished(p) \/ SyncCommitted(p)
<1>0. /\ \A x \in Ids \cup Connection \cup Gate \cup Block : x # None
  BY NoneApart
<1>1. /\ block' = None /\ inputs'.ready /\ inputs'.lease = "none"
      /\ pub' = None => policyRev' = None /\ inputs'.id = None
      /\ pub' # None =>
           /\ pub' \in Gate /\ pub'.ready /\ ~pub'.dirty /\ pub'.lease = "none"
           /\ pub'.policy = policyRev' /\ pub'.private = inputs'.id
      /\ \/ inputs'.id = None /\ inputs'.source = "none" /\ conn' = None
         \/ /\ inputs'.id # None /\ inputs'.source = "fresh" /\ conn' \in Connection /\ ~conn'.reconnect
            /\ ~conn'.failed /\ conn'.lease = None /\ conn'.last = inputs'.id
  <2>1. Shown'
    BY Shows, PTL
  <2> QED BY <2>1 DEF Shown
<1>2. ~Shown
  BY Hides
<1>3. ~(UNCHANGED <<conn, inputs, policyRev, pub, block>>)
  BY <1>1, <1>2 DEF Shown
<1>4. policyRev' # NewPolicyRevision \/ pub' # pub
  BY <1>0, <1>1, NewPolicyRevisionFresh
<1>5. CASE Untouched \/ Overridden
  BY <1>3, <1>4, <1>5 DEF Untouched, Overridden, documents
<1>6. CASE Connected
  BY <1>0, <1>1, <1>6 DEF Connected
<1>7. CASE Aged
  <2>1. block = None /\ pub' = pub /\ inputs.ready /\ inputs.lease = "none" /\ inputs'.id = inputs.id
        /\ inputs'.source = inputs.source /\ policyRev' = policyRev
    BY <1>0, <1>1, <1>7 DEF Aged
  <2> QED BY <1>0, <1>1, <1>2, <1>7, <2>1 DEF Aged, Shown
<1>8. ASSUME NEW p \in Procs, StepOf(p)
      PROVE  ReplaceFinished(p) \/ SyncCommitted(p)
  <2>1. CASE Stopped(p) \/ Fetched(p) \/ EventsWiped(p) \/ ChangesApplied(p) \/ PolicyCaptured(p)
             \/ InputsCaptured(p) \/ Gathered(p) \/ RowsReplaced(p) \/ RowsErased(p)
    BY <1>3, <2>1 DEF Stopped, Fetched, EventsWiped, ChangesApplied, PolicyCaptured, InputsCaptured, Gathered,
       RowsReplaced, RowsErased, documents
  <2>2. CASE DefaultCreated(p) \/ PolicyPut(p)
    BY <1>4, <2>2 DEF DefaultCreated, PolicyPut
  <2>3. CASE SyncAcquired(p)
    BY <1>0, <1>1, <2>3, NewLeaseFresh DEF SyncAcquired
  <2>4. CASE ImportBegun(p) \/ Revoked(p)
    BY <1>1, <2>4 DEF ImportBegun, Revoked
  <2>5. CASE ImportFinished(p)
    <3>1. inputs'.id = inputs.id
      BY <2>5 DEF ImportFinished, TypeOK
    <3>2. ~inputs.ready /\ inputs.id # None
      BY <2>5, Fenced DEF ImportFinished, Importing, ControlsSound
    <3> QED BY <1>0, <1>1, <2>5, <3>1, <3>2 DEF ImportFinished, InputsSound
  <2>6. CASE ImportAbandoned(p)
    <3>1. Fence(local[p])
      BY <1>3, <2>6 DEF ImportAbandoned
    <3>2. ~inputs.ready /\ inputs'.ready = inputs.ready
      BY <2>6, <3>1, Fenced DEF ImportAbandoned, Importing, ControlsSound, TypeOK
    <3> QED BY <1>1, <3>2
  <2>7. CASE FailureMarked(p)
    BY <1>0, <1>1, <1>3, <2>7 DEF FailureMarked
  <2>8. CASE ReplaceBegun(p) \/ EraseBegun(p) \/ EraseFinished(p)
    BY <1>0, <1>1, <2>8 DEF ReplaceBegun, EraseBegun, EraseFinished
  <2>9. CASE WriteAbandoned(p)
    BY <1>0, <1>1, <1>3, <2>9 DEF WriteAbandoned, ControlsSound
  <2>10. CASE Released(p)
    BY <1>0, <1>1, <2>10 DEF Released
  <2> QED BY <1>8, <2>1, <2>2, <2>3, <2>4, <2>5, <2>6, <2>7, <2>8, <2>9, <2>10 DEF StepOf
<1> QED BY <1>5, <1>6, <1>7, <1>8 DEF Happens

LEMMA FirstSound ==
    ASSUME Init
    PROVE  ControlsSound /\ IdsApart /\ InputsSound
<1>1. \A p \in Procs : local[p] = Nothing
  BY DEF Init
<1>2. Nothing.sync = None /\ Nothing.cleanup = None /\ Nothing.proj = None /\ Nothing.obs = None
      /\ Nothing.cap = None /\ Nothing.pc = "idle"
  BY DEF Nothing
<1>3. ControlsSound
  BY DEF Init, ControlsSound
<1>4. IdsApart
  BY <1>1, <1>2 DEF IdsApart
<1>5. InputsSound
  BY <1>1, <1>2 DEF Init, InputsSound, ContextInputsSound, Importing, Imported, Rebuilding, Gathering, Replacing
<1> QED BY <1>3, <1>4, <1>5

\* What the proofs below start from.
Ground == TypeOK /\ ContextsSound /\ IdsApart /\ ControlsSound /\ InputsSound

LEMMA GroundInit == Init => Ground
BY TypedInit, FirstSound DEF Ground

LEMMA GroundStep ==
    ASSUME Ground, [Next]_vars
    PROVE  Ground' /\ Happens
BY TypedStep, Outcome, IdsStep, ControlsStep, InputsStep DEF Ground

\* No row changes without a closed gate and a live lease, no event while the
\* inputs are readable: Fence and the order of the batches see to it, whoever
\* dies or is overtaken between two of them.
THEOREM PublicationWritesBehindGates == Spec => WritesBehindGates
<1>1. Ground /\ [Next]_vars =>
        [/\ rows' # rows => pub # None /\ pub.dirty /\ ~pub.ready /\ pub.lease = "live"
         /\ events' # events => ~inputs.ready]_vars
  <2> SUFFICES ASSUME Ground, [Next]_vars
               PROVE  /\ rows' # rows => pub # None /\ pub.dirty /\ ~pub.ready /\ pub.lease = "live"
                      /\ events' # events => ~inputs.ready
    OBVIOUS
  <2> QED BY GroundStep, WritesStep DEF Ground
<1>2. Ground /\ [Next]_vars => Ground'
  BY GroundStep
<1> QED BY <1>1, <1>2, GroundInit, PTL DEF Spec, WritesBehindGates

\* Hidden rows are shown again only by FinishReplace or MarkSyncSuccess: a
\* lease that runs out, an abandoned write or a new connection never opens.
THEOREM PublicationOpensOnlyByCompletion == Spec => OpensOnlyByCompletion
<1>1. Ground /\ [Next]_vars =>
        [~Visible /\ Visible' =>
            \E p \in Procs : FinishReplace(p) \/ (p \in Syncers /\ MarkSyncSuccess(p))]_vars
  <2> SUFFICES ASSUME Ground, [Next]_vars, ~Visible, Visible'
               PROVE  \E p \in Procs : FinishReplace(p) \/ (p \in Syncers /\ MarkSyncSuccess(p))
    OBVIOUS
  <2>1. \E p \in Procs : ReplaceFinished(p) \/ SyncCommitted(p)
    BY GroundStep, OpensStep DEF Ground
  <2> QED BY <2>1 DEF ReplaceFinished, SyncCommitted
<1>2. Ground /\ [Next]_vars => Ground'
  BY GroundStep
<1> QED BY <1>1, <1>2, GroundInit, PTL DEF Spec, OpensOnlyByCompletion

-----------------------------------------------------------------------------
(* The cache of private events.                                            *)

\* A step that changes events belongs to the holder of the inputs: what the
\* others have imported or are about to write is not for these inputs.
LEMMA OthersCannotImport ==
    ASSUME TypeOK, ContextsSound, IdsApart, InputsSound, NEW p \in Procs, NEW q \in Syncers, q # p,
           \/ local[p].pc \in Importing /\ inputs.id = local[p].priv
           \/ /\ local[p].cleanup # None /\ block # None /\ block.inProgress
              /\ block.id = local[p].cleanup
    PROVE  /\ local[q].pc \in Importing => inputs.id # local[q].priv
           /\ local[q].pc \in Imported => inputs.id # local[q].obs
<1>1. q \in Procs /\ InStep(p, local[p]) /\ InStep(q, local[q])
  BY DEF Procs, ContextsSound
<1>2. inputs.id = local[p].obs /\ local[p].obs # None
  BY <1>1 DEF InStep, InputsSound, ContextInputsSound
<1>3. local[p].obs # local[q].obs
  BY <1>1, <1>2 DEF IdsApart
<1>4. local[q].pc \in Importing => local[q].priv = local[q].obs
  BY <1>1 DEF InStep
<1> QED BY <1>2, <1>3, <1>4

LEMMA ImportGoesOn ==
    ASSUME NEW q, ImportSound(local[q]), UNCHANGED <<local[q], events, inputs.id>>,
           conn' = conn \/ (conn' # None => conn'.lease # local[q].sync)
    PROVE  ImportSound(local[q])'
<1>1. CASE conn' = conn
  BY <1>1 DEF ImportSound, AccountOf, Pending
<1>2. CASE conn' # None => conn'.lease # local[q].sync
  BY <1>2 DEF ImportSound, AccountOf, Pending
<1> QED BY <1>1, <1>2

LEMMA CacheStep ==
    ASSUME Ground, TypeOK', ContextsSound', CacheSound, Happens
    PROVE  CacheSound'
<1> USE DEF Ground
<1>0. /\ \A x \in Ids \cup Connection \cup Gate \cup Block \cup Calendar : x # None
      /\ NewInputs \in Ids /\ NewLease \in Ids
      /\ Syncers \subseteq Procs
  BY NoneApart, NewInputsFresh, NewLeaseFresh DEF Procs
<1>1. /\ Snapshot # None => inputs.ready /\ inputs.lease = "none" /\ Snapshot = inputs.id
      /\ Snapshot' # None => inputs'.ready /\ inputs'.lease = "none" /\ inputs'.source # "none"
                             /\ Snapshot' = inputs'.id
      /\ inputs.ready /\ inputs.lease = "none" /\ inputs.source # "none" => Snapshot = inputs.id
  BY DEF Snapshot
<1>2. CASE Untouched \/ Overridden
  BY <1>2 DEF Untouched, Overridden, documents, CacheSound, CommittedIsSnapshot, Snapshot, ImportSound,
              AccountOf, Pending
<1>3. CASE Connected
  <2>1. \A q \in Syncers : ImportSound(local[q])'
    <3> SUFFICES ASSUME NEW q \in Syncers PROVE ImportSound(local[q])'
      OBVIOUS
    <3>1. CASE local[q].sync # None
      BY <1>0, <1>3, <3>1, ImportGoesOn DEF Connected, CacheSound
    <3>2. CASE local[q].sync = None
      <4>1. local[q].pc = "idle"
        BY <1>0, <3>2 DEF ContextsSound, InStep
      <4> QED BY <1>3, <4>1 DEF Connected, ImportSound, Importing, Imported, Rebuilding, Gathering, Replacing
    <3> QED BY <3>1, <3>2
  <2> QED BY <1>0, <1>1, <1>3, <2>1 DEF Connected, CacheSound, CommittedIsSnapshot
<1>4. CASE Aged
  <2>1. Snapshot' = Snapshot
    BY <1>4 DEF Aged, Snapshot
  <2>2. /\ conn' = None <=> conn = None
        /\ conn # None => conn'.account = conn.account /\ conn'.lease = conn.lease /\ conn'.token = conn.token
                          /\ conn'.last = conn.last
        /\ inputs'.id = inputs.id
    BY <1>0, <1>4 DEF Aged
  <2>3. \A q \in Syncers : ImportSound(local[q])'
    BY <1>4, <2>2 DEF Aged, CacheSound, ImportSound, AccountOf, Pending
  <2> QED BY <1>4, <2>1, <2>2, <2>3 DEF Aged, CacheSound, CommittedIsSnapshot, AccountOf
<1>5. ASSUME NEW p \in Procs, StepOf(p)
      PROVE  CacheSound'
  <2> DEFINE l == local[p]
             m == local'[p]
  <2>0. /\ \A q \in Procs : q # p => local'[q] = local[q]
        /\ InStep(p, l) /\ InStep(p, m) /\ l \in Contexts /\ m \in Contexts
        /\ p \in Syncers => p \notin Editors /\ p \notin Disconnecters
        /\ p \in Disconnecters => p \notin Syncers
        /\ p \in Syncers => ImportSound(l)
        /\ \A q \in Syncers : q \in Procs /\ ImportSound(local[q])
        /\ CommittedIsSnapshot /\ (conn # None /\ conn.token # None => AccountOf(conn.token, conn.account))
    BY <1>0, <1>5, IdsGoOn, ProcsApart DEF Others, ContextsSound, TypeOK, CacheSound
  \* The documents of the cache are the same, and nothing is new in the context.
  <2>1. ASSUME UNCHANGED <<conn, events>>, inputs'.id = inputs.id, Snapshot' = Snapshot \/ Snapshot' = None,
               p \in Syncers => ImportSound(l)'
        PROVE  CacheSound'
    BY <2>0, <2>1, ImportGoesOn DEF CacheSound, CommittedIsSnapshot
  <2>2. CASE Stopped(p)
    <3>1. ASSUME p \in Syncers PROVE ImportSound(l)'
      <4>1. CASE Dropped(l, m)
        <5>1. m = [l EXCEPT !.pc = m.pc]
          BY <4>1 DEF Dropped
        <5>2. m.sync = l.sync /\ m.seen = l.seen /\ m.obs = l.obs
          BY <2>0, <5>1 DEF Contexts
        <5> QED BY <2>0, <2>2, <3>1, <4>1, <5>2 DEF Dropped, Stopped, documents, ImportSound, AccountOf,
                Importing, Imported, Rebuilding, Gathering, Replacing
      <4>2. CASE Returned(l, m)
        BY <4>2 DEF Returned, ImportSound, Importing, Imported, Rebuilding, Gathering, Replacing
      <4> QED BY <2>2, <4>1, <4>2 DEF Stopped, Leftover
    <3> QED BY <2>1, <2>2, <3>1 DEF Stopped, documents, Snapshot
  <2>3. CASE SyncAcquired(p)
    <3>1. \A q \in Syncers : q # p => ImportSound(local[q])'
      BY <2>0, <2>3, ImportGoesOn, NewLeaseFresh DEF SyncAcquired
    <3>2. ImportSound(l)'
      BY <2>3 DEF SyncAcquired, ImportSound, Importing, Imported, Rebuilding, Gathering, Replacing
    <3>3. Snapshot' = Snapshot /\ conn # None /\ conn' # None
      BY <1>0, <2>3 DEF SyncAcquired, Snapshot
    <3>4. CommittedIsSnapshot' /\ (conn'.token # None => AccountOf(conn'.token, conn'.account))
      BY <1>1, <2>0, <2>3, <3>3 DEF SyncAcquired, CommittedIsSnapshot
    <3> QED BY <3>1, <3>2, <3>4 DEF CacheSound, AccountOf
  <2>4. CASE Fetched(p)
    <3>1. ImportSound(l)'
      <4>1. m.sync = l.sync /\ m.pc = "begin" /\ l.pc = "fetch" /\ UNCHANGED <<conn, events, inputs>>
        BY <2>4 DEF Fetched, SameLeases, documents
      <4>2. conn # None /\ conn.lease = l.sync =>
               l.last = conn.last /\ l.seen = conn.token /\ l.account = conn.account
        BY <2>0, <2>4, <4>1 DEF Fetched, ImportSound
      <4>3. conn # None /\ conn.lease = l.sync => AccountOf(m.seen, conn.account)
        BY <2>4, <4>2 DEF Fetched
      <4>4. conn # None /\ conn.lease = l.sync /\ ~m.full => Pending(m)
        <5> SUFFICES ASSUME conn # None, conn.lease = l.sync, ~m.full PROVE Pending(m)
          OBVIOUS
        <5>1. events = l.seen
          BY <2>0, <2>4, <4>2 DEF Fetched, CommittedIsSnapshot
        <5> QED BY <2>4, <5>1 DEF Fetched, Pending
      <4>5. m.full => m.del = {} /\ \A c \in Cells : c \in m.put \/ m.seen[c] = None
        BY <2>4 DEF Fetched
      <4>6. Pending(l)' <=> Pending(m)
        BY <4>1 DEF Pending
      <4> QED BY <4>1, <4>3, <4>4, <4>5, <4>6
              DEF ImportSound, AccountOf, Importing, Imported, Rebuilding, Gathering, Replacing
    <3> QED BY <2>1, <2>4, <3>1 DEF Fetched, documents, Snapshot
  <2>5. CASE ImportBegun(p)
    <3>1. \A q \in Syncers : q # p => ImportSound(local[q])'
      BY <2>0, <2>5, NewInputsFresh DEF ImportBegun, ImportSound, AccountOf, Pending
    <3>2. ImportSound(l)'
      <4>1. conn \in Connection /\ conn.lease = l.sync
        BY <2>5, Fenced DEF ImportBegun
      <4>2. /\ AccountOf(l.seen, conn.account)
            /\ ~l.full => Pending(l)
            /\ l.full => l.del = {} /\ \A c \in Cells : c \in l.put \/ l.seen[c] = None
        BY <1>0, <2>0, <2>5, <4>1 DEF ImportBegun, ImportSound
      <4>3. m.seen = l.seen /\ m.del = l.del /\ m.put = l.put /\ m.full = l.full
            /\ m.pc = (IF l.full THEN "wipe" ELSE "apply") /\ UNCHANGED <<conn, events>>
        BY <2>5 DEF ImportBegun, SameImport, SameBatch
      <4> QED BY <4>1, <4>2, <4>3
              DEF ImportSound, Pending, AccountOf, Importing, Imported, Rebuilding, Gathering, Replacing
    <3>3. Snapshot' = None
      BY <2>5 DEF ImportBegun, Snapshot
    <3> QED BY <2>0, <2>5, <3>1, <3>2, <3>3 DEF ImportBegun, CacheSound, CommittedIsSnapshot, AccountOf
  <2>6. ASSUME ~inputs.ready, Fence(l), l.pc # "idle",
               (p \in Syncers /\ l.pc \in Importing) \/ p \in Disconnecters,
               UNCHANGED <<conn, inputs>>, p \in Syncers => ImportSound(l)'
        PROVE  CacheSound'
    <3>1. Snapshot' = None
      BY <2>6 DEF Snapshot
    <3>2. ASSUME NEW q \in Syncers, q # p PROVE ImportSound(local[q])'
      <4>1. /\ local[q].pc \in Importing => inputs.id # local[q].priv
            /\ local[q].pc \in Imported => inputs.id # local[q].obs
        <5>1. CASE p \in Syncers /\ l.pc \in Importing
          BY <2>6, <3>2, <5>1, Fenced, OthersCannotImport
        <5>2. CASE p \in Disconnecters
          <6>1. l.cleanup # None /\ block # None /\ block.inProgress /\ block.id = l.cleanup
            BY <1>0, <2>0, <2>6, <5>2, Fenced DEF InStep
          <6> QED BY <3>2, <6>1, OthersCannotImport
        <5> QED BY <2>6, <5>1, <5>2
      <4>2. conn # None => conn.lease # local[q].sync
        <5>1. CASE p \in Syncers
          <6>1. conn.lease = l.sync /\ l.sync # None
            BY <2>0, <2>6, <5>1, Fenced DEF InStep
          <6> QED BY <2>0, <3>2, <6>1 DEF IdsApart
        <5>2. CASE p \in Disconnecters
          <6>1. conn = None
            BY <1>0, <2>6, <5>2, Fenced DEF ControlsSound
          <6> QED BY <6>1
        <5> QED BY <2>6, <5>1, <5>2
      <4> QED BY <2>0, <2>6, <3>2, <4>1, <4>2 DEF ImportSound, AccountOf, Pending, Importing
    <3> QED BY <2>0, <2>6, <3>1, <3>2 DEF CacheSound, CommittedIsSnapshot, AccountOf
  <2>7. CASE EventsWiped(p)
    <3>1. ASSUME p \in Syncers PROVE ImportSound(l)'
      <4>1. /\ l.pc = "wipe" /\ m.pc \in {"wipe", "apply"} /\ m.seen = l.seen /\ m.del = l.del /\ m.put = l.put
            /\ m.sync = l.sync /\ UNCHANGED conn /\ (m.pc = "apply" => Held(events) = {})
        BY <2>0, <2>7, <3>1 DEF EventsWiped, SameBut, SameImport, SameBatch, SameLeases
      <4>2. l.del = {} /\ \A c \in Cells : c \in l.put \/ l.seen[c] = None
        BY <2>0, <3>1, <4>1 DEF ImportSound
      <4>3. m.pc = "apply" => Pending(l)'
        BY <2>7, <4>1, <4>2 DEF EventsWiped, Pending, Held
      <4> QED BY <2>0, <3>1, <4>1, <4>2, <4>3
              DEF ImportSound, AccountOf, Importing, Imported, Rebuilding, Gathering, Replacing
    <3>2. CASE Held(events) = {}
      <4>1. events' = events
        BY <2>7, <3>2 DEF EventsWiped, TypeOK, Calendar, Held
      <4> QED BY <2>1, <2>7, <3>1, <4>1 DEF EventsWiped, Snapshot
    <3>3. CASE Held(events) # {}
      <4>1. Fence(l)
        BY <2>7, <3>3 DEF EventsWiped
      <4>2. ~inputs.ready
        BY <1>0, <2>7, <4>1, Fenced DEF EventsWiped, Importing, ControlsSound
      <4> QED BY <2>6, <2>7, <3>1, <4>1, <4>2 DEF EventsWiped, Importing
    <3> QED BY <3>2, <3>3
  <2>8. CASE ChangesApplied(p)
    <3>1. inputs.id = l.priv /\ ~inputs.ready /\ Fence(l)
      BY <2>8, Fenced DEF ChangesApplied, Importing, ControlsSound
    <3>2. ImportSound(l)'
      <4>1. PICK b \in Chunks(l) :
               /\ events' = [c \in Cells |-> IF c \in b.put THEN l.seen[c]
                                             ELSE IF c \in b.del THEN None ELSE events[c]]
               /\ m.del = l.del \ b.del /\ m.put = l.put \ b.put
        BY <2>8 DEF ChangesApplied
      <4>2. l.pc = "apply" /\ m.pc = "apply" /\ m.sync = l.sync /\ m.seen = l.seen /\ UNCHANGED conn
        BY <2>8 DEF ChangesApplied, SameLeases, SameImport
      <4>3. Pending(l)
        BY <2>0, <2>8, <3>1, <4>2 DEF ChangesApplied, ImportSound
      <4>4. b.put # {} => b.del = l.del
        BY <2>0, <4>1, ChunkTyped
      <4>5. Pending(l)'
        <5> SUFFICES ASSUME NEW c \in Cells, c \notin m.put
                     PROVE  m.seen[c] = IF c \in m.del THEN None ELSE events'[c]
          BY DEF Pending
        <5>1. CASE c \in b.put
          BY <4>1, <4>2, <4>4, <5>1
        <5>2. CASE c \notin b.put
          <6>1. l.seen[c] = IF c \in l.del THEN None ELSE events[c]
            BY <4>1, <4>3, <5>2 DEF Pending
          <6>2. events'[c] = IF c \in b.del THEN None ELSE events[c]
            BY <4>1, <5>2
          <6>3. b.del \subseteq l.del
            BY <2>0, <4>1, ChunkTyped
          <6> QED BY <4>1, <4>2, <6>1, <6>2, <6>3
        <5> QED BY <5>1, <5>2
      <4> QED BY <2>0, <2>8, <4>2, <4>5
              DEF ChangesApplied, ImportSound, AccountOf, Importing, Imported, Rebuilding, Gathering, Replacing
    <3> QED BY <2>6, <2>8, <3>1, <3>2 DEF ChangesApplied, Importing
  <2>9. CASE ImportFinished(p)
    <3>1. inputs'.id = inputs.id /\ inputs.id = l.priv /\ ~inputs.ready
      BY <2>9, Fenced DEF ImportFinished, Importing, ControlsSound, TypeOK
    <3>2. Pending(l) /\ l.del = {} /\ l.put = {}
      BY <2>0, <2>9, <3>1 DEF ImportFinished, ImportSound
    <3>3. events = l.seen
      <4>1. l.seen \in Calendar /\ events \in Calendar
        BY <2>0, <2>9 DEF ImportFinished, InStep, Importing, Contexts, Maybe, TypeOK
      <4> QED BY <3>2, <4>1 DEF Pending, Calendar
    <3>4. ImportSound(l)'
      BY <2>0, <2>9, <3>3 DEF ImportFinished, SameLeases, SameImport, ImportSound, AccountOf, Importing, Imported,
         Rebuilding, Gathering, Replacing
    <3>5. conn # None => conn.last # inputs.id
      BY <3>1 DEF InputsSound
    <3>6. CommittedIsSnapshot'
      BY <1>1, <2>9, <3>1, <3>5 DEF ImportFinished, CommittedIsSnapshot
    <3>7. \A q \in Syncers : q # p => ImportSound(local[q])'
      BY <2>0, <2>9, <3>1, ImportGoesOn DEF ImportFinished
    <3> QED BY <2>0, <2>9, <3>4, <3>6, <3>7 DEF ImportFinished, CacheSound, AccountOf
  <2>10. CASE ImportAbandoned(p) \/ WriteAbandoned(p)
    <3>1. ImportSound(l)'
      BY <2>10 DEF ImportAbandoned, WriteAbandoned, Returned, ImportSound, Importing, Imported, Rebuilding,
         Gathering, Replacing
    <3>2. inputs'.id = inputs.id /\ (Snapshot' = Snapshot \/ Snapshot' = None)
      <4>1. CASE inputs' = inputs
        BY <4>1 DEF Snapshot
      <4>2. CASE inputs' # inputs
        <5>1. Fence(l) /\ inputs' = [inputs EXCEPT !.lease = "none"] /\ l.pc = "dropInputs"
          BY <2>10, <4>2 DEF ImportAbandoned, WriteAbandoned
        <5>2. ~inputs.ready
          BY <5>1, Fenced DEF Importing, ControlsSound
        <5>3. inputs'.id = inputs.id /\ inputs'.ready = inputs.ready
          BY <5>1 DEF TypeOK
        <5> QED BY <5>2, <5>3 DEF Snapshot
      <4> QED BY <4>1, <4>2
    <3> QED BY <2>1, <2>10, <3>1, <3>2 DEF ImportAbandoned, WriteAbandoned
  <2>11. CASE SyncCommitted(p)
    <3>1. conn \in Connection /\ conn.lease = l.sync
      BY <2>11, Fenced DEF SyncCommitted
    <3>2. AccountOf(l.seen, conn.account) /\ (inputs.id = l.obs => events = l.seen)
      BY <1>0, <2>0, <2>11, <3>1 DEF SyncCommitted, ImportSound, Imported
    <3>3. CommittedIsSnapshot'
      BY <1>1, <2>11, <3>2 DEF SyncCommitted, CommittedIsSnapshot
    <3>4. \A q \in Syncers : q # p => ImportSound(local[q])'
      <4> SUFFICES ASSUME NEW q \in Syncers, q # p PROVE ImportSound(local[q])'
        OBVIOUS
      <4>1. CASE local[q].sync # None
        BY <2>0, <2>11, <4>1, ImportGoesOn DEF SyncCommitted
      <4>2. CASE local[q].sync = None
        <5>1. local[q].pc = "idle"
          BY <1>0, <4>2 DEF ContextsSound, InStep
        <5> QED BY <2>0, <5>1 DEF ImportSound, Importing, Imported, Rebuilding, Gathering, Replacing
      <4> QED BY <4>1, <4>2
    <3>5. ImportSound(l)'
      BY <2>11 DEF SyncCommitted, ImportSound, Importing, Imported, Rebuilding, Gathering, Replacing
    <3> QED BY <2>11, <3>2, <3>3, <3>4, <3>5 DEF SyncCommitted, CacheSound, AccountOf
  <2>12. CASE FailureMarked(p)
    <3>1. ImportSound(l)'
      BY <2>12 DEF FailureMarked, ImportSound, Importing, Imported, Rebuilding, Gathering, Replacing
    <3>2. CASE conn' = conn
      BY <2>1, <2>12, <3>1, <3>2 DEF FailureMarked, Snapshot
    <3>3. CASE conn' # conn
      <4>1. conn \in Connection /\ conn' \in Connection /\ conn'.account = conn.account /\ conn'.token = conn.token
            /\ conn'.last = conn.last /\ conn'.lease = None /\ UNCHANGED <<inputs, events>>
        BY <2>12, <3>3 DEF FailureMarked
      <4>2. \A q \in Syncers : q # p => ImportSound(local[q])'
        <5> SUFFICES ASSUME NEW q \in Syncers, q # p PROVE ImportSound(local[q])'
          OBVIOUS
        <5>1. CASE local[q].sync # None
          BY <2>0, <4>1, <5>1, ImportGoesOn
        <5>2. CASE local[q].sync = None
          <6>1. local[q].pc = "idle"
            BY <1>0, <5>2 DEF ContextsSound, InStep
          <6> QED BY <2>0, <6>1 DEF ImportSound, Importing, Imported, Rebuilding, Gathering, Replacing
        <5> QED BY <5>1, <5>2
      <4>3. Snapshot' = Snapshot
        BY <4>1 DEF Snapshot
      <4> QED BY <1>0, <2>0, <3>1, <4>1, <4>2, <4>3 DEF CacheSound, CommittedIsSnapshot, AccountOf
    <3> QED BY <3>2, <3>3
  <2>13. CASE PolicyCaptured(p) \/ InputsCaptured(p) \/ Gathered(p) \/ DefaultCreated(p) \/ ReplaceBegun(p)
              \/ RowsReplaced(p)
    <3>1. /\ l.pc \in Imported /\ m.pc \in Imported \ Importing
          /\ m.sync = l.sync /\ m.seen = l.seen /\ m.obs = l.obs
          /\ UNCHANGED <<conn, inputs, events>>
      BY <2>13 DEF PolicyCaptured, InputsCaptured, Gathered, DefaultCreated, ReplaceBegun, RowsReplaced,
         SameBut, SameLeases, SameWork, SameImport, documents, Importing, Imported, Rebuilding, Gathering, Replacing
    <3>2. p \in Syncers => ImportSound(l)'
      BY <2>0, <3>1 DEF ImportSound, AccountOf, Importing, Imported, Rebuilding, Gathering, Replacing
    <3> QED BY <2>1, <3>1, <3>2 DEF Snapshot
  <2>14. CASE ReplaceFinished(p)
    <3>1. UNCHANGED <<conn, inputs, events>>
      BY <2>14 DEF ReplaceFinished
    <3>2. p \in Syncers => ImportSound(l)'
      BY <2>0, <2>14, <3>1 DEF ReplaceFinished, Returned, SameLeases, ImportSound, AccountOf, Importing, Imported,
         Rebuilding, Gathering, Replacing
    <3> QED BY <2>1, <3>1, <3>2 DEF Snapshot
  <2>15. CASE EraseBegun(p) \/ RowsErased(p) \/ EraseFinished(p) \/ PolicyPut(p)
    <3>1. p \notin Syncers /\ UNCHANGED <<conn, inputs, events>>
      BY <2>0, <2>15 DEF EraseBegun, RowsErased, EraseFinished, PolicyPut
    <3> QED BY <2>1, <3>1 DEF Snapshot
  <2>16. CASE Revoked(p)
    <3>1. Snapshot' = None /\ conn' = None /\ inputs'.id = NewInputs /\ p \notin Syncers /\ UNCHANGED events
      BY <2>0, <2>16 DEF Revoked, Snapshot
    <3>2. \A q \in Syncers : q # p => ImportSound(local[q])'
      BY <2>0, <3>1, NewInputsFresh DEF ImportSound, AccountOf, Pending
    <3> QED BY <3>1, <3>2 DEF CacheSound, CommittedIsSnapshot
  <2>17. CASE Released(p)
    <3>1. /\ block \in Block /\ block.inProgress /\ l.cleanup # None /\ block.id = l.cleanup
      BY <2>0, <2>17, Fenced DEF Released, InStep
    <3>2. inputs.id = l.obs /\ inputs'.id = l.obs /\ Snapshot' = None /\ p \notin Syncers
          /\ UNCHANGED <<conn, events>>
      BY <1>0, <2>0, <2>17, <3>1 DEF Released, InputsSound, ContextInputsSound, Snapshot
    <3>3. \A q \in Syncers : q # p => ImportSound(local[q])'
      BY <2>0, <3>2, ImportGoesOn
    <3> QED BY <2>0, <3>2, <3>3 DEF CacheSound, CommittedIsSnapshot, AccountOf
  <2> QED BY <1>5, <2>2, <2>3, <2>4, <2>5, <2>7, <2>8, <2>9, <2>10, <2>11, <2>12, <2>13,
             <2>14, <2>15, <2>16, <2>17 DEF StepOf
<1> QED BY <1>2, <1>3, <1>4, <1>5 DEF Happens

-----------------------------------------------------------------------------
(* The rows.                                                               *)

\* A step of another process leaves the rows of a replacement as far as they were.
LEMMA WriterGoesOn ==
    ASSUME NEW q, WriterSound(local[q]), UNCHANGED local[q],
           \/ UNCHANGED <<rows, covered>> /\ (pub' # None => pub # None /\ pub'.id = pub.id)
           \/ pub' # None => pub'.id # local[q].proj
    PROVE  WriterSound(local[q])'
BY DEF WriterSound, Projection

\* A rebuild that passes its fence has read the present settings and events.
LEMMA ReadsCurrent ==
    ASSUME NEW l, ReadSound(l), l.cap # None, l.pc \in {"write", "rows"},
           l.cap.policy = policyRev, l.cap.private = inputs.id
    PROVE  \A c \in Cells : Projection(l.read, c) = Projection(Current, c)
BY DEF ReadSound, Projection, Current

LEMMA CurrentGoesOn ==
    ASSUME RowsAreCurrent, UNCHANGED <<rows, covered, settings, events>>
    PROVE  RowsAreCurrent'
BY DEF RowsAreCurrent, Projection, Current

LEMMA RowsStep ==
    ASSUME Ground, TypeOK', ContextsSound', RowsSound, Happens
    PROVE  RowsSound'
<1> USE DEF Ground
<1>0. /\ \A x \in Ids \cup Connection \cup Gate \cup Block \cup Capture : x # None
      /\ NewInputs \in Ids /\ NewPublication \in Ids
  BY NoneApart, NewInputsFresh, NewPublicationFresh
<1> DEFINE Ready == pub # None /\ pub.ready /\ pub.policy = policyRev /\ pub.private = inputs.id
<1>1. /\ Ready => RowsAreCurrent
      /\ \A q \in Procs : ReadSound(local[q]) /\ WriterSound(local[q])
  BY DEF RowsSound
\* The rows, what they answer for and what they come from stay as they are.
<1>2. ASSUME UNCHANGED <<rows, covered, settings, events, policyRev>>, inputs'.id = inputs.id,
             pub' # None => pub # None /\ pub'.id = pub.id /\ pub'.ready = pub.ready
                            /\ pub'.policy = pub.policy /\ pub'.private = pub.private
      PROVE  /\ Ready' => RowsAreCurrent'
             /\ \A q \in Procs : local'[q] = local[q] => ReadSound(local[q])' /\ WriterSound(local[q])'
  <2>1. Ready' => RowsAreCurrent'
    BY <1>1, <1>2, CurrentGoesOn
  <2>2. ASSUME NEW q \in Procs, local'[q] = local[q] PROVE ReadSound(local[q])' /\ WriterSound(local[q])'
    <3>1. ReadSound(local[q])'
      BY <1>1, <1>2, <2>2 DEF ReadSound
    <3>2. WriterSound(local[q])'
      BY <1>1, <1>2, <2>2, WriterGoesOn
    <3> QED BY <3>1, <3>2
  <2> QED BY <2>1, <2>2
<1>3. CASE Untouched
  BY <1>2, <1>3 DEF Untouched, documents, RowsSound
<1>4. CASE Connected \/ Aged
  <2>1. /\ UNCHANGED <<rows, covered, settings, events, policyRev, local>> /\ inputs'.id = inputs.id
        /\ pub' # None => pub # None /\ pub'.id = pub.id /\ pub'.ready = pub.ready
                          /\ pub'.policy = pub.policy /\ pub'.private = pub.private
    BY <1>0, <1>4 DEF Connected, Aged
  <2> QED BY <1>2, <2>1 DEF RowsSound
\* New settings come with a new revision.
<1>5. ASSUME policyRev' = NewPolicyRevision, UNCHANGED <<inputs, events, pub, rows, covered>>
      PROVE  /\ ~Ready'
             /\ \A q \in Procs : local'[q] = local[q] => ReadSound(local[q])' /\ WriterSound(local[q])'
  <2>1. ~Ready'
    BY <1>5, NewPolicyRevisionFresh
  <2>2. ASSUME NEW q \in Procs, local'[q] = local[q] PROVE ReadSound(local[q])' /\ WriterSound(local[q])'
    <3>1. ReadSound(local[q])'
      BY <1>1, <1>5, <2>2, NewPolicyRevisionFresh DEF ReadSound
    <3>2. WriterSound(local[q])'
      BY <1>1, <1>5, <2>2, WriterGoesOn
    <3> QED BY <3>1, <3>2
  <2> QED BY <2>1, <2>2
<1>6. CASE Overridden
  BY <1>5, <1>6 DEF Overridden, RowsSound
<1>7. ASSUME NEW p \in Procs, StepOf(p)
      PROVE  RowsSound'
  <2> DEFINE l == local[p]
             m == local'[p]
  <2>0. /\ \A q \in Procs : q # p => local'[q] = local[q]
        /\ InStep(p, l) /\ InStep(p, m) /\ l \in Contexts /\ m \in Contexts
        /\ p \in Syncers => p \notin Editors /\ p \notin Disconnecters
        /\ p \in Disconnecters => p \notin Syncers
    BY <1>7, IdsGoOn, ProcsApart DEF Others, ContextsSound, TypeOK
  <2>1. ASSUME m.pc \notin {"events", "scan", "recheck", "overrides", "write", "rows"}
        PROVE  ReadSound(l)' /\ WriterSound(l)'
    BY <2>1 DEF ReadSound, WriterSound
  <2>2. CASE Stopped(p)
    <3>1. m.pc \notin {"events", "scan", "recheck", "overrides", "write", "rows"}
      BY <2>2 DEF Stopped, Leftover, Dropped, Returned
    <3>2. /\ UNCHANGED <<rows, covered, settings, events, policyRev, pub>> /\ inputs'.id = inputs.id
      BY <2>2 DEF Stopped, documents
    <3> QED BY <1>2, <2>0, <2>1, <3>1, <3>2 DEF RowsSound
  <2>3. CASE SyncAcquired(p) \/ Fetched(p) \/ ImportFinished(p) \/ ImportAbandoned(p) \/ SyncCommitted(p)
             \/ FailureMarked(p) \/ PolicyCaptured(p) \/ InputsCaptured(p)
    <3>1. m.pc \notin {"events", "scan", "recheck", "overrides", "write", "rows"}
      BY <2>3 DEF SyncAcquired, Fetched, ImportFinished, ImportAbandoned, SyncCommitted, FailureMarked,
         PolicyCaptured, InputsCaptured
    <3>2. inputs'.id = inputs.id
      BY <2>3 DEF SyncAcquired, Fetched, ImportFinished, ImportAbandoned, SyncCommitted, FailureMarked,
         PolicyCaptured, InputsCaptured, documents, TypeOK
    <3>3. UNCHANGED <<rows, covered, settings, events, policyRev, pub>>
      BY <2>3 DEF SyncAcquired, Fetched, ImportFinished, ImportAbandoned, SyncCommitted, FailureMarked,
         PolicyCaptured, InputsCaptured, documents
    <3> QED BY <1>2, <2>0, <2>1, <3>1, <3>2, <3>3 DEF RowsSound
  <2>4. CASE DefaultCreated(p) \/ PolicyPut(p)
    BY <1>5, <2>0, <2>1, <2>4 DEF DefaultCreated, PolicyPut, RowsSound
  \* New inputs: nothing is from them.
  <2>5. CASE ImportBegun(p) \/ Revoked(p)
    <3>1. inputs'.id = NewInputs /\ UNCHANGED <<rows, covered, settings, events, policyRev, pub>>
          /\ m.pc \notin {"events", "scan", "recheck", "overrides", "write", "rows"}
      BY <2>5 DEF ImportBegun, Revoked
    <3>2. ~Ready'
      BY <3>1, NewInputsFresh
    <3>3. ASSUME NEW q \in Procs, q # p PROVE ReadSound(local[q])' /\ WriterSound(local[q])'
      <4>1. ReadSound(local[q])'
        BY <1>1, <2>0, <3>1, <3>3, NewInputsFresh DEF ReadSound
      <4>2. WriterSound(local[q])'
        BY <1>1, <2>0, <3>1, <3>3, WriterGoesOn
      <4> QED BY <4>1, <4>2
    <3> QED BY <2>1, <3>1, <3>2, <3>3 DEF RowsSound
  \* Events change only while the inputs are nobody's.
  <2>6. CASE EventsWiped(p) \/ ChangesApplied(p)
    <3>1. UNCHANGED <<inputs, rows, covered, settings, policyRev, pub>>
          /\ m.pc \notin {"events", "scan", "recheck", "overrides", "write", "rows"}
      BY <2>6 DEF EventsWiped, ChangesApplied
    <3>2. CASE events' = events
      BY <1>2, <2>0, <2>1, <3>1, <3>2 DEF RowsSound
    <3>3. CASE events' # events
      <4>1. ~inputs.ready
        BY <3>3, WritesStep
      <4>2. /\ pub # None => pub.private # inputs.id
            /\ \A q \in Procs : local[q].cap # None => local[q].cap.private # inputs.id
        BY <4>1 DEF InputsSound, ContextInputsSound
      <4>3. ASSUME NEW q \in Procs, q # p PROVE ReadSound(local[q])' /\ WriterSound(local[q])'
        <5>1. ReadSound(local[q])'
          BY <1>1, <2>0, <3>1, <4>2, <4>3 DEF ReadSound
        <5>2. WriterSound(local[q])'
          BY <1>1, <2>0, <3>1, <4>3, WriterGoesOn
        <5> QED BY <5>1, <5>2
      <4> QED BY <2>1, <3>1, <4>2, <4>3 DEF RowsSound
    <3> QED BY <3>2, <3>3
  <2>7. CASE Gathered(p)
    <3>1. /\ UNCHANGED <<rows, covered, settings, events, policyRev, pub>> /\ inputs'.id = inputs.id
      BY <2>7 DEF Gathered, documents
    <3>2. ReadSound(l)'
      BY <1>1, <2>7, <3>1 DEF Gathered, ReadSound
    <3>3. WriterSound(l)'
      BY <2>7 DEF Gathered, WriterSound
    <3> QED BY <1>2, <2>0, <3>1, <3>2, <3>3 DEF RowsSound
  \* Another replacement or an erasure takes the gate over.
  <2>8. ASSUME pub' # None, ~pub'.ready, UNCHANGED <<inputs, events, settings, policyRev>>,
               pub'.id = NewPublication \/ (pub'.id = l.proj /\ l.proj # None),
               ReadSound(l)', WriterSound(l)'
        PROVE  RowsSound'
    <3>1. ASSUME NEW q \in Procs, q # p PROVE ReadSound(local[q])' /\ WriterSound(local[q])'
      <4>1. pub'.id # local[q].proj
        BY <2>8, <3>1, NewPublicationFresh DEF IdsApart
      <4>2. ReadSound(local[q])'
        BY <1>1, <2>0, <2>8, <3>1 DEF ReadSound
      <4>3. WriterSound(local[q])'
        BY <1>1, <2>0, <3>1, <4>1, WriterGoesOn
      <4> QED BY <4>2, <4>3
    <3> QED BY <2>8, <3>1 DEF RowsSound
  <2>9. CASE ReplaceBegun(p)
    <3>1. l.cap \in Capture /\ l.read.policy # None /\ policyRev # None
      BY <2>0, <2>9, ContextFields DEF ReplaceBegun, InStep, Gathering
    <3>2. l.cap.policy = policyRev /\ l.cap.private = inputs.id
      BY <1>0, <2>9, <3>1, Fenced DEF ReplaceBegun
    <3>3. \A c \in Cells : Projection(l.read, c) = Projection(Current, c)
      BY <1>0, <1>1, <2>9, <3>1, <3>2, ReadsCurrent DEF ReplaceBegun
    <3>4. ~m.clearAll => RowsAreCurrent
      <4>1. ~m.clearAll => Ready
        BY <2>9, <3>1, <3>2 DEF ReplaceBegun, ControlsSound
      <4> QED BY <1>1, <4>1
    <3>5. WriterSound(l)'
      <4>1. m.win = l.win /\ m.put = l.win /\ m.read = l.read /\ UNCHANGED <<rows, covered>>
            /\ m.del = IF m.clearAll THEN Held(rows) ELSE Held(rows) \cap l.win
        BY <2>9 DEF ReplaceBegun
      <4>2. ASSUME NEW c \in Cells \ m.win
            PROVE  IF c \in m.del THEN m.clearAll
                   ELSE rows[c] = IF c \in covered /\ ~m.clearAll THEN Projection(m.read, c) ELSE None
        <5>1. CASE m.clearAll
          BY <4>1, <5>1 DEF Held
        <5>2. CASE ~m.clearAll
          <6>1. rows[c] = IF c \in covered THEN Projection(l.read, c) ELSE None
            BY <3>3, <3>4, <5>2 DEF RowsAreCurrent
          <6> QED BY <4>1, <4>2, <5>2, <6>1
        <5> QED BY <5>1, <5>2
      <4>3. \A c \in Cells \ m.win :
               IF c \in m.del THEN m.clearAll
               ELSE rows'[c] = IF c \in covered' /\ ~m.clearAll THEN Projection(m.read, c) ELSE None
        BY <4>1, <4>2
      <4> HIDE DEF m
      <4> QED BY <4>1, <4>3 DEF WriterSound, m, Projection
    <3>6. ReadSound(l)'
      BY <1>1, <2>9 DEF ReplaceBegun, ReadSound
    <3> QED BY <1>0, <2>8, <2>9, <3>5, <3>6 DEF ReplaceBegun
  <2>10. CASE RowsReplaced(p)
    <3>1. pub \in Gate /\ pub.id = l.proj /\ pub.lease = "live" /\ ~pub.ready
      BY <1>0, <2>10, Fenced DEF RowsReplaced, Replacing, ControlsSound
    <3>2. PICK b \in Chunks(l) :
            /\ rows' = [c \in Cells |-> IF c \in b.put THEN Projection(l.read, c)
                                        ELSE IF c \in b.del THEN None ELSE rows[c]]
            /\ m.del = l.del \ b.del /\ m.put = l.put \ b.put
      BY <2>10 DEF RowsReplaced
    <3>3. b.del \subseteq l.del /\ b.put \subseteq l.put /\ (b.put # {} => b.del = l.del)
      BY <2>0, <3>2, ChunkTyped
    <3>4. /\ l.put \subseteq l.win
          /\ l.put = l.win \/ l.del = {}
          /\ \A c \in l.win \ l.put : rows[c] = Projection(l.read, c)
          /\ \A c \in Cells \ l.win :
                IF c \in l.del THEN l.clearAll
                ELSE rows[c] = IF c \in covered /\ ~l.clearAll THEN Projection(l.read, c) ELSE None
      BY <1>0, <1>1, <2>10, <3>1 DEF RowsReplaced, WriterSound
    <3>5. /\ m.win = l.win /\ m.clearAll = l.clearAll /\ m.read = l.read /\ m.pc = "rows" /\ l.pc = "rows"
          /\ m.cap = l.cap /\ m.proj = l.proj /\ l.win \subseteq Cells
          /\ UNCHANGED <<pub, inputs, events, settings, policyRev, covered>>
      BY <2>0, <2>10 DEF RowsReplaced, SameWork, Contexts
    <3>6. /\ m.put \subseteq m.win
          /\ m.put = m.win \/ m.del = {}
      BY <3>2, <3>3, <3>4, <3>5
    <3>7. ASSUME NEW c \in m.win \ m.put PROVE rows'[c] = Projection(m.read, c)
      <4>1. CASE c \in b.put
        BY <3>2, <3>5, <3>7, <4>1
      <4>2. CASE c \notin b.put
        <5>1. c \in l.win \ l.put /\ c \notin b.del
          BY <3>2, <3>3, <3>4, <3>5, <3>7, <4>2
        <5> QED BY <3>2, <3>4, <3>5, <4>2, <5>1
      <4> QED BY <4>1, <4>2
    <3>8. ASSUME NEW c \in Cells \ m.win
          PROVE  IF c \in m.del THEN m.clearAll
                 ELSE rows'[c] = IF c \in covered /\ ~m.clearAll THEN Projection(m.read, c) ELSE None
      <4>1. c \notin b.put /\ c \in Cells \ l.win
        BY <3>3, <3>4, <3>5, <3>8
      <4>2. rows'[c] = IF c \in b.del THEN None ELSE rows[c]
        BY <3>2, <4>1
      <4>3. IF c \in l.del THEN l.clearAll
            ELSE rows[c] = IF c \in covered /\ ~l.clearAll THEN Projection(l.read, c) ELSE None
        BY <3>4, <4>1
      <4> QED BY <3>2, <3>3, <3>5, <4>2, <4>3
    <3>9. WriterSound(l)'
      BY <3>5, <3>6, <3>7, <3>8 DEF WriterSound, Projection
    <3>10. ReadSound(l)'
      BY <1>1, <3>5 DEF ReadSound
    <3> QED BY <1>0, <2>0, <2>8, <3>1, <3>5, <3>9, <3>10 DEF InStep, Replacing
  <2>11. CASE RowsErased(p)
    <3>1. pub \in Gate /\ pub.id = l.proj /\ pub.lease = "live" /\ ~pub.ready
      BY <1>0, <2>11, Fenced DEF RowsErased, Erasing, ControlsSound
    <3>2. UNCHANGED <<local, pub, inputs, events, settings, policyRev>> /\ l.pc = "erasing" /\ m = l
      BY <2>11 DEF RowsErased
    <3>3. ReadSound(l)' /\ WriterSound(l)'
      BY <2>1, <3>2
    <3> QED BY <1>0, <2>0, <2>8, <3>1, <3>2, <3>3 DEF InStep, Erasing
  <2>12. CASE ReplaceFinished(p)
    <3>1. l.cap \in Capture /\ l.pc = "rows" /\ l.del = {} /\ l.put = {} /\ Fence(l) /\ l.win \subseteq Cells
      BY <2>0, <2>12 DEF ReplaceFinished, Contexts
    <3>2. l.cap.policy = policyRev /\ l.cap.private = inputs.id /\ pub \in Gate /\ pub.id = l.proj
          /\ l.proj # None
      BY <1>0, <2>0, <3>1, Fenced DEF Replacing, InStep
    <3>3. \A c \in Cells : Projection(l.read, c) = Projection(Current, c)
      BY <1>0, <1>1, <3>1, <3>2, ReadsCurrent
    <3>4. /\ \A c \in l.win : rows[c] = Projection(l.read, c)
          /\ \A c \in Cells \ l.win :
                rows[c] = IF c \in covered /\ ~l.clearAll THEN Projection(l.read, c) ELSE None
      BY <1>0, <1>1, <3>1, <3>2 DEF WriterSound
    <3>5. covered' = l.win \cup (IF l.clearAll THEN {} ELSE covered)
          /\ UNCHANGED <<rows, settings, events, inputs, policyRev>>
      BY <2>12 DEF ReplaceFinished
    <3>6. RowsAreCurrent'
      <4>1. \A c \in Cells : rows[c] = IF c \in covered' THEN Projection(Current, c) ELSE None
        BY <3>1, <3>3, <3>4, <3>5
      <4>2. rows = [c \in Cells |-> IF c \in covered' THEN Projection(Current, c) ELSE None]
        BY <4>1 DEF TypeOK, Rows
      <4> QED BY <3>5, <4>2 DEF RowsAreCurrent, Current, Projection
    <3>7. m.pc \notin {"events", "scan", "recheck", "overrides", "write", "rows"}
      BY <2>12 DEF ReplaceFinished
    <3>8. ASSUME NEW q \in Procs, q # p PROVE ReadSound(local[q])' /\ WriterSound(local[q])'
      <4>1. pub'.id # local[q].proj
        BY <2>12, <3>2, <3>8 DEF IdsApart, ReplaceFinished
      <4>2. ReadSound(local[q])'
        BY <1>1, <2>0, <3>5, <3>8 DEF ReadSound
      <4>3. WriterSound(local[q])'
        BY <1>1, <2>0, <3>8, <4>1, WriterGoesOn
      <4> QED BY <4>2, <4>3
    <3> QED BY <2>1, <3>6, <3>7, <3>8 DEF RowsSound
  <2>13. CASE WriteAbandoned(p)
    <3>1. m.pc \notin {"events", "scan", "recheck", "overrides", "write", "rows"}
      BY <2>13 DEF WriteAbandoned, Returned
    <3>2. /\ UNCHANGED <<rows, covered, settings, events, policyRev>> /\ inputs'.id = inputs.id
          /\ pub' # None => pub # None /\ pub'.id = pub.id /\ pub'.ready = pub.ready
                            /\ pub'.policy = pub.policy /\ pub'.private = pub.private
      BY <1>0, <2>13 DEF WriteAbandoned
    <3> QED BY <1>2, <2>0, <2>1, <3>1, <3>2 DEF RowsSound
  <2>14. CASE EraseBegun(p) \/ EraseFinished(p)
    <3>1. m.pc \notin {"events", "scan", "recheck", "overrides", "write", "rows"}
      BY <2>14 DEF EraseBegun, EraseFinished
    <3>2. pub' # None /\ ~pub'.ready /\ UNCHANGED <<inputs, events, settings, policyRev>>
          /\ (pub'.id = NewPublication \/ (pub'.id = l.proj /\ l.proj # None))
      BY <1>0, <2>0, <2>14 DEF EraseBegun, EraseFinished, InStep, Erasing
    <3> QED BY <2>1, <2>8, <3>1, <3>2
  <2>15. CASE Released(p)
    <3>1. block \in Block /\ block.inProgress /\ l.cleanup # None /\ block.id = l.cleanup
      BY <2>0, <2>15, Fenced DEF Released, InStep
    <3>2. inputs.id = l.obs /\ inputs'.id = l.obs
      BY <1>0, <2>15, <3>1 DEF Released, InputsSound, ContextInputsSound
    <3>3. m.pc \notin {"events", "scan", "recheck", "overrides", "write", "rows"}
          /\ UNCHANGED <<rows, covered, settings, events, policyRev, pub>>
      BY <2>15 DEF Released
    <3> QED BY <1>2, <2>0, <2>1, <3>2, <3>3 DEF RowsSound
  <2> QED BY <1>7, <2>2, <2>3, <2>4, <2>5, <2>6, <2>7, <2>9, <2>10, <2>11, <2>12, <2>13,
             <2>14, <2>15 DEF StepOf
<1> QED BY <1>3, <1>4, <1>6, <1>7 DEF Happens

-----------------------------------------------------------------------------
(* Erasure.                                                                *)

LEMMA ErasureStep ==
    ASSUME Ground, TypeOK', ContextsSound', ErasureSound, Happens
    PROVE  ErasureSound'
<1> USE DEF Ground
<1>0. \A x \in Ids \cup Connection \cup Gate \cup Block \cup Capture : x # None
  BY NoneApart
<1>1. DisconnectedIsErased /\ \A q \in Procs : EraserSound(local[q])
  BY DEF ErasureSound
\* Nothing is stored that was not, and the connection and the block say what they said.
<1>2. ASSUME Held(rows') \subseteq Held(rows), Held(events') \subseteq Held(events),
             conn' = None => conn = None,
             block' # None => block # None /\ block'.id = block.id /\ block'.inProgress = block.inProgress
      PROVE  /\ DisconnectedIsErased'
             /\ \A q \in Procs : local'[q] = local[q] => EraserSound(local[q])'
  <2>1. Held(rows)' = Held(rows') /\ Held(events)' = Held(events')
    BY DEF Held
  <2>2. DisconnectedIsErased'
    BY <1>1, <1>2, <2>1 DEF DisconnectedIsErased
  <2>3. ASSUME NEW q \in Procs, local'[q] = local[q] PROVE EraserSound(local[q])'
    BY <1>1, <1>2, <2>1, <2>3 DEF EraserSound
  <2> QED BY <2>2, <2>3
<1>3. CASE Untouched \/ Overridden
  BY <1>2, <1>3 DEF Untouched, Overridden, documents, ErasureSound
<1>4. CASE Connected
  BY <1>0, <1>2, <1>4 DEF Connected, ErasureSound
<1>5. CASE Aged
  <2>1. /\ conn' = None => conn = None
        /\ block' # None => block # None /\ block'.id = block.id /\ block'.inProgress = block.inProgress
        /\ UNCHANGED <<rows, events, local>>
    BY <1>0, <1>5 DEF Aged
  <2> QED BY <1>2, <2>1 DEF ErasureSound
<1>6. ASSUME NEW p \in Procs, StepOf(p)
      PROVE  ErasureSound'
  <2> DEFINE l == local[p]
             m == local'[p]
  <2>0. /\ \A q \in Procs : q # p => local'[q] = local[q]
        /\ InStep(p, l) /\ InStep(p, m)
        /\ p \in Syncers => p \notin Editors /\ p \notin Disconnecters
        /\ p \in Disconnecters => p \notin Syncers /\ p \notin Editors
    BY <1>6, IdsGoOn, ProcsApart DEF Others, ContextsSound
  <2>1. m.pc \notin {"eraseEvents", "release"} => EraserSound(l)'
    BY DEF EraserSound
  <2>2. CASE \/ Stopped(p) \/ Fetched(p) \/ ImportBegun(p) \/ ImportFinished(p) \/ ImportAbandoned(p)
             \/ PolicyCaptured(p) \/ InputsCaptured(p) \/ Gathered(p) \/ DefaultCreated(p) \/ ReplaceBegun(p)
             \/ ReplaceFinished(p) \/ WriteAbandoned(p) \/ EraseBegun(p) \/ PolicyPut(p)
    <3>1. UNCHANGED <<conn, block, rows, events>> /\ m.pc \notin {"eraseEvents", "release"}
      BY <2>2 DEF Stopped, Leftover, Dropped, Returned, documents, Fetched, ImportBegun, ImportFinished,
         ImportAbandoned, PolicyCaptured, InputsCaptured, Gathered, DefaultCreated, ReplaceBegun,
         ReplaceFinished, WriteAbandoned, EraseBegun, PolicyPut
    <3> QED BY <1>2, <2>0, <2>1, <3>1 DEF ErasureSound
  <2>3. CASE SyncAcquired(p) \/ FailureMarked(p) \/ SyncCommitted(p)
    <3>1. UNCHANGED <<rows, events>> /\ m.pc \notin {"eraseEvents", "release"}
          /\ block' \in {block, None} /\ (conn' = None => conn = None)
      BY <1>0, <2>3 DEF SyncAcquired, FailureMarked, SyncCommitted
    <3> QED BY <1>2, <2>0, <2>1, <3>1 DEF ErasureSound
  <2>4. CASE EventsWiped(p)
    <3>1. Held(events') \subseteq Held(events) /\ UNCHANGED <<conn, block, rows>>
      BY <2>4 DEF EventsWiped, Held
    <3>2. EraserSound(l)'
      <4>1. CASE p \in Disconnecters
        <5>1. l.pc = "eraseEvents" /\ m.cleanup = l.cleanup /\ (m.pc = "release" => Held(events) = {})
          BY <2>0, <2>4, <4>1 DEF EventsWiped, SameBut, SameLeases
        <5>2. block # None /\ block.inProgress /\ block.id = l.cleanup => Held(rows) = {}
          BY <1>1, <5>1 DEF EraserSound
        <5>3. Held(rows)' = Held(rows) /\ Held(events)' \subseteq Held(events)
          BY <3>1 DEF Held
        <5> QED BY <3>1, <5>1, <5>2, <5>3 DEF EraserSound
      <4>2. CASE p \notin Disconnecters
        BY <2>1, <2>4, <4>2 DEF EventsWiped
      <4> QED BY <4>1, <4>2
    <3> QED BY <1>2, <2>0, <3>1, <3>2 DEF ErasureSound
  \* Whoever writes events or rows has a connection, or no calendar at all.
  <2>5. ASSUME conn # None \/ block = None, block # None /\ block.inProgress => conn = None /\ ~inputs.ready,
               conn # None \/ inputs.ready, UNCHANGED <<conn, block>>, m.pc \notin {"eraseEvents", "release"}
        PROVE  ErasureSound'
    <3>1. ~(block' # None /\ block'.inProgress)
      BY <2>5
    <3>2. DisconnectedIsErased'
      BY <2>5 DEF DisconnectedIsErased
    <3>3. \A q \in Procs : EraserSound(local[q])'
      BY <3>1 DEF EraserSound
    <3> QED BY <3>2, <3>3 DEF ErasureSound
  <2>6. CASE ChangesApplied(p)
    <3>1. conn # None
      BY <1>0, <2>6, Fenced DEF ChangesApplied
    <3> QED BY <2>5, <2>6, <3>1 DEF ChangesApplied, ControlsSound
  <2>7. CASE RowsReplaced(p)
    <3>1. l.cap # None /\ Fence(l)
      BY <2>0, <2>7 DEF RowsReplaced, InStep, Replacing
    <3>2. inputs.ready /\ Rebuildable(l)
      BY <3>1 DEF Fence, ProjectionInputsFence
    <3>3. conn # None \/ block = None
      BY <3>2 DEF Rebuildable, Managed, Committed
    <3> QED BY <2>5, <2>7, <3>2, <3>3 DEF RowsReplaced, ControlsSound
  <2>8. CASE RowsErased(p)
    <3>1. Held(rows') \subseteq Held(rows) /\ UNCHANGED <<conn, block, events, local>> /\ l.pc = "erasing"
      BY <2>8 DEF RowsErased, Held
    <3> QED BY <1>2, <3>1 DEF ErasureSound
  <2>9. CASE EraseFinished(p)
    <3>1. Held(rows) = {} /\ UNCHANGED <<conn, block, rows, events>> /\ m.pc \in {"eraseEvents", "idle"}
      BY <2>9 DEF EraseFinished
    <3>2. EraserSound(l)'
      BY <3>1 DEF EraserSound, Held
    <3> QED BY <1>2, <2>0, <3>1, <3>2 DEF ErasureSound
  <2>10. CASE Revoked(p)
    <3>1. /\ block' # None /\ block'.id = NewLease /\ block'.inProgress /\ m.pc = "erase"
      BY <1>0, <2>10 DEF Revoked
    <3>2. DisconnectedIsErased'
      BY <3>1 DEF DisconnectedIsErased
    <3>3. \A q \in Procs : q # p => EraserSound(local[q])'
      BY <2>0, <3>1, NewLeaseFresh DEF EraserSound
    <3> QED BY <2>1, <3>1, <3>2, <3>3 DEF ErasureSound
  <2>11. CASE Released(p)
    <3>1. block # None /\ block.inProgress /\ block.id = l.cleanup /\ l.pc = "release"
      BY <1>0, <2>11, Fenced DEF Released
    <3>2. Held(rows) = {} /\ Held(events) = {}
      BY <1>1, <3>1 DEF EraserSound
    <3>3. ~block'.inProgress /\ UNCHANGED <<rows, events>>
      BY <2>11 DEF Released
    <3>4. DisconnectedIsErased'
      BY <3>2, <3>3 DEF DisconnectedIsErased, Held
    <3>5. \A q \in Procs : EraserSound(local[q])'
      BY <3>3 DEF EraserSound
    <3> QED BY <3>4, <3>5 DEF ErasureSound
  <2> QED BY <1>6, <2>2, <2>3, <2>4, <2>6, <2>7, <2>8, <2>9, <2>10, <2>11 DEF StepOf
<1> QED BY <1>3, <1>4, <1>5, <1>6 DEF Happens

-----------------------------------------------------------------------------
(* What the cache, the rows and an erasure promise.                        *)

Settled == Ground /\ CacheSound /\ RowsSound /\ ErasureSound

LEMMA SettledInit ==
    ASSUME Init
    PROVE  Settled
<1>1. \A p \in Procs : local[p] = Nothing /\ Nothing.pc = "idle" /\ Nothing.cap = None
  BY DEF Init, Nothing
<1>2. Syncers \subseteq Procs
  BY DEF Procs
<1>3. CacheSound
  BY <1>1, <1>2 DEF Init, CacheSound, CommittedIsSnapshot, ImportSound, Importing, Imported, Rebuilding,
                    Gathering, Replacing
<1>4. RowsSound
  BY <1>1 DEF Init, RowsSound, ReadSound, WriterSound
<1>5. ErasureSound
  BY <1>1 DEF Init, ErasureSound, DisconnectedIsErased, EraserSound
<1> QED BY <1>3, <1>4, <1>5, GroundInit DEF Settled

LEMMA SettledStep ==
    ASSUME Settled, [Next]_vars
    PROVE  Settled'
<1>1. Ground' /\ Happens /\ TypeOK' /\ ContextsSound'
  BY GroundStep DEF Settled, Ground
<1> QED BY <1>1, CacheStep, RowsStep, ErasureStep DEF Settled

LEMMA SettledAlways == Spec => []Settled
<1>1. Init => Settled
  BY SettledInit
<1>2. Settled /\ [Next]_vars => Settled'
  BY SettledStep
<1> QED BY <1>1, <1>2, PTL DEF Spec

\* A committed cache is what its cursor stands for, whatever synchronizations
\* died, were overtaken or left half an update before.
THEOREM PublicationCommittedIsSnapshot == Spec => []CommittedIsSnapshot
<1>1. Settled => CommittedIsSnapshot
  BY DEF Settled, CacheSound
<1> QED BY <1>1, SettledAlways, PTL

LEMMA VisibleIsCurrent ==
    ASSUME Settled, Visible
    PROVE  RowsAreCurrent
<1>1. Shown
  BY Shows DEF Settled, Ground
<1>2. CASE pub = None
  <2>1. rows = NoRows /\ covered = {}
    BY <1>2 DEF Settled, Ground, ControlsSound
  <2> QED BY <2>1 DEF RowsAreCurrent, NoRows
<1>3. CASE pub # None
  BY <1>1, <1>3 DEF Shown, Settled, RowsSound
<1> QED BY <1>2, <1>3

\* Rows that are visible are the complete projection of the present policy,
\* override and events: no batch, edit or import in between is ever shown.
THEOREM PublicationPublishedIsCurrent == Spec => []PublishedIsCurrent
<1>1. Settled => PublishedIsCurrent
  BY VisibleIsCurrent DEF PublishedIsCurrent
<1> QED BY <1>1, SettledAlways, PTL

\* No row of an account that was replaced or disconnected is visible.
THEOREM PublicationNoFormerAccount == Spec => []NoFormerAccount
<1>1. Settled => NoFormerAccount
  <2> SUFFICES ASSUME Settled, Visible, NEW c \in Held(rows), rows[c].event # None
               PROVE  conn # None /\ rows[c].event = conn.account
    BY DEF NoFormerAccount
  <2>1. Shown /\ RowsAreCurrent /\ ControlsSound
    BY Shows, VisibleIsCurrent DEF Settled, Ground
  <2>2. c \in Cells /\ rows[c].event = events[c]
    BY <2>1 DEF RowsAreCurrent, Held, Projection, Current
  <2>3. events # NoEvents
    BY <2>2 DEF NoEvents
  <2>4. conn \in Connection /\ conn # None /\ conn.last = inputs.id /\ inputs.id # None
        /\ inputs.source = "fresh" /\ inputs.ready /\ inputs.lease = "none"
    BY <2>1, <2>3, NoneApart DEF Shown, ControlsSound
  <2>5. events = conn.token
    BY <2>4 DEF Settled, CacheSound, CommittedIsSnapshot, Snapshot
  <2>6. conn.token # None
    BY <2>5, NoneApart DEF Settled, Ground, TypeOK
  <2> QED BY <2>2, <2>4, <2>5, <2>6 DEF Settled, CacheSound, AccountOf
<1> QED BY <1>1, SettledAlways, PTL

\* After a disconnection nothing of the calendar is stored, and nothing that
\* was running brings anything back.
THEOREM PublicationDisconnectedIsErased == Spec => []DisconnectedIsErased
<1>1. Settled => DisconnectedIsErased
  BY DEF Settled, ErasureSound
<1> QED BY <1>1, SettledAlways, PTL

-----------------------------------------------------------------------------
(* The documents and the one document they implement.                      *)

AccountNow == IF conn = None THEN None ELSE conn.account

\* No step from what is shown to what is shown changes anything of it.
LEMMA ShownStays ==
    ASSUME TypeOK, TypeOK', ContextsSound, ControlsSound, ControlsSound', Happens, Visible, Visible'
    PROVE  UNCHANGED <<settings, events, rows, AccountNow>>
<1>0. \A x \in Ids \cup Connection \cup Gate \cup Block : x # None
  BY NoneApart
<1>1. Shown /\ Shown'
  <2>1. Shown
    BY Shows
  <2>2. Shown'
    BY Shows, PTL
  <2> QED BY <2>1, <2>2
<1>2. events' = events /\ rows' = rows
  BY <1>1, WritesStep DEF Shown
<1>3. policyRev' # NewPolicyRevision \/ pub' # pub
  BY <1>0, <1>1, NewPolicyRevisionFresh DEF Shown
<1>4. settings' = settings
  <2>1. CASE Untouched \/ Overridden \/ Connected \/ Aged
    BY <1>3, <2>1 DEF Untouched, Overridden, Connected, Aged, documents
  <2>2. ASSUME NEW p \in Procs, StepOf(p) PROVE settings' = settings
    <3>1. CASE DefaultCreated(p) \/ PolicyPut(p)
      BY <1>3, <3>1 DEF DefaultCreated, PolicyPut
    <3>2. CASE Stopped(p) \/ Fetched(p) \/ PolicyCaptured(p) \/ InputsCaptured(p) \/ Gathered(p)
      BY <3>2 DEF Stopped, Fetched, PolicyCaptured, InputsCaptured, Gathered, documents
    <3>3. CASE SyncAcquired(p) \/ ImportBegun(p) \/ EventsWiped(p) \/ ChangesApplied(p) \/ ImportFinished(p)
               \/ ImportAbandoned(p) \/ SyncCommitted(p) \/ FailureMarked(p)
      BY <3>3 DEF SyncAcquired, ImportBegun, EventsWiped, ChangesApplied, ImportFinished, ImportAbandoned,
         SyncCommitted, FailureMarked
    <3>4. CASE ReplaceBegun(p) \/ RowsReplaced(p) \/ ReplaceFinished(p) \/ WriteAbandoned(p) \/ EraseBegun(p)
               \/ RowsErased(p) \/ EraseFinished(p) \/ Revoked(p) \/ Released(p)
      BY <3>4 DEF ReplaceBegun, RowsReplaced, ReplaceFinished, WriteAbandoned, EraseBegun, RowsErased,
         EraseFinished, Revoked, Released
    <3> QED BY <2>2, <3>1, <3>2, <3>3, <3>4 DEF StepOf
  <2> QED BY <2>1, <2>2 DEF Happens
<1>5. AccountNow' = AccountNow
  <2>1. CASE Connected
    <3>1. inputs'.id # None /\ conn'.last = inputs'.id
      BY <1>0, <1>1, <2>1 DEF Connected, Shown
    <3> QED BY <2>1, <3>1 DEF Connected
  <2>2. CASE Untouched \/ Overridden \/ Aged
    BY <1>0, <2>2 DEF Untouched, Overridden, Aged, documents, AccountNow
  <2>3. ASSUME NEW p \in Procs, StepOf(p) PROVE AccountNow' = AccountNow
    <3>1. CASE Revoked(p)
      BY <1>0, <1>1, <3>1 DEF Revoked, Shown
    <3>2. CASE SyncAcquired(p) \/ SyncCommitted(p) \/ FailureMarked(p)
      BY <1>0, <3>2 DEF SyncAcquired, SyncCommitted, FailureMarked, AccountNow
    <3>3. CASE Stopped(p) \/ Fetched(p) \/ PolicyCaptured(p) \/ InputsCaptured(p) \/ Gathered(p)
      BY <3>3 DEF Stopped, Fetched, PolicyCaptured, InputsCaptured, Gathered, documents, AccountNow
    <3>4. CASE ImportBegun(p) \/ EventsWiped(p) \/ ChangesApplied(p) \/ ImportFinished(p)
               \/ ImportAbandoned(p) \/ DefaultCreated(p) \/ PolicyPut(p)
      BY <3>4 DEF ImportBegun, EventsWiped, ChangesApplied, ImportFinished, ImportAbandoned, DefaultCreated,
         PolicyPut, AccountNow
    <3>5. CASE ReplaceBegun(p) \/ RowsReplaced(p) \/ ReplaceFinished(p) \/ WriteAbandoned(p) \/ EraseBegun(p)
               \/ RowsErased(p) \/ EraseFinished(p) \/ Released(p)
      BY <3>5 DEF ReplaceBegun, RowsReplaced, ReplaceFinished, WriteAbandoned, EraseBegun, RowsErased,
         EraseFinished, Released, AccountNow
    <3> QED BY <2>3, <3>1, <3>2, <3>3, <3>4, <3>5 DEF StepOf
  <2> QED BY <2>1, <2>2, <2>3 DEF Happens
<1> QED BY <1>2, <1>4, <1>5

\* The completions that open the gate again change nothing of it either.
LEMMA OpenedStays ==
    ASSUME NEW p \in Procs, ReplaceFinished(p) \/ SyncCommitted(p)
    PROVE  UNCHANGED <<settings, events, rows, AccountNow>>
<1>1. \A x \in Connection : x # None
  BY NoneApart
<1> QED BY <1>1 DEF ReplaceFinished, SyncCommitted, AccountNow

\* Where anything is shown every event is of the account that is connected.
LEMMA VisibleIsOwn ==
    ASSUME Settled, Visible
    PROVE  AccountOf(events, AccountNow)
<1>1. Shown /\ ControlsSound /\ TypeOK
  BY Shows DEF Settled, Ground
<1>2. CASE conn = None
  BY <1>1, <1>2 DEF Shown, ControlsSound, NoEvents, AccountOf
<1>3. CASE conn # None
  <2>1. conn.last = inputs.id /\ Snapshot = inputs.id /\ Snapshot # None
    BY <1>1, <1>3 DEF Shown, Snapshot
  <2>2. events = conn.token
    BY <1>3, <2>1 DEF Settled, CacheSound, CommittedIsSnapshot
  <2>3. conn.token # None
    BY <1>1, <2>2, NoneApart DEF TypeOK
  <2> QED BY <1>3, <2>2, <2>3 DEF Settled, CacheSound, AccountNow
<1> QED BY <1>2, <1>3

LEMMA VisibleIsSound == Settled /\ Visible => RowsAreCurrent /\ AccountOf(events, AccountNow)
BY VisibleIsCurrent, VisibleIsOwn

LEMMA SourceIs ==
    /\ Source = [policy |-> settings.policy, override |-> settings.override, events |-> events,
                 account |-> AccountNow]
    /\ Source' = [policy |-> settings'.policy, override |-> settings'.override, events |-> events',
                  account |-> AccountNow']
BY DEF Source, AccountNow

LEMMA ShownStep ==
    ASSUME Settled, Settled', Happens
    PROVE  Promise!AvailabilityNext \/ UNCHANGED <<Source, RowsShown>>
<1>1. /\ TypeOK /\ ContextsSound /\ ControlsSound /\ InputsSound
      /\ TypeOK' /\ ControlsSound'
  BY DEF Settled, Ground
<1>2. CASE ~Visible'
  <2>1. RowsShown' = None
    BY <1>2 DEF RowsShown
  <2>2. AccountNow' \in Maybe(Accounts)
    BY <1>1 DEF TypeOK, AccountNow, Maybe, Connection
  <2>3. Source' \in Sources
    BY <1>1, <2>2, SourceIs DEF TypeOK, Sources
  <2> QED BY <2>1, <2>3 DEF Promise!AvailabilityNext, Promise!Change
<1>3. CASE Visible /\ Visible'
  <2>1. UNCHANGED <<settings, events, rows, AccountNow>>
    BY <1>1, <1>3, ShownStays
  <2> QED BY <1>3, <2>1, SourceIs DEF RowsShown
<1>4. CASE ~Visible /\ Visible'
  <2>1. PICK p \in Procs : ReplaceFinished(p) \/ SyncCommitted(p)
    BY <1>1, <1>4, OpensStep
  <2>2. UNCHANGED <<settings, events, rows, AccountNow>>
    BY <2>1, OpenedStays
  <2>3. (RowsAreCurrent /\ AccountOf(events, AccountNow))'
    BY <1>4, VisibleIsSound, PTL
  <2>4. RowsShown = None /\ RowsShown' = rows'
    BY <1>4 DEF RowsShown
  <2>5. Source' = Source
    BY <2>2, SourceIs
  <2>6. Promise!Connected
    BY <2>2, <2>3, SourceIs DEF Promise!Connected, AccountOf
  <2>7. rows' = Promise!Complete(covered')
    BY <2>2, <2>3, SourceIs DEF RowsAreCurrent, Current, Projection, Promise!Complete
  <2>8. covered' \in SUBSET Cells
    BY <1>1 DEF TypeOK
  <2> QED BY <2>4, <2>5, <2>6, <2>7, <2>8 DEF Promise!AvailabilityNext, Promise!Show
<1> QED BY <1>2, <1>3, <1>4

LEMMA ShownFirst ==
    ASSUME Init
    PROVE  Promise!AvailabilityInit
<1>1. Visible
  BY DEF Init, Visible, GateOpen, PublishedBy, Readable, Managed
<1> QED BY <1>1 DEF Init, Promise!AvailabilityInit, Source, RowsShown, NoRows

\* What is shown is replaced whole, from nothing, and hidden by whatever changes
\* what it is made from: Replace, BeginPrivateInputs, the edits of the settings
\* and the disconnection implement one document.
THEOREM PublicationImplementsAvailability == Spec => ImplementsAvailability
<1>1. Init => Promise!AvailabilityInit
  BY ShownFirst
<1>2. Settled /\ [Next]_vars => [Promise!AvailabilityNext]_<<Source, RowsShown>>
  BY SettledStep, GroundStep, ShownStep DEF Settled
<1> QED BY <1>1, <1>2, SettledAlways, PTL DEF Spec, ImplementsAvailability, Promise!AvailabilitySpec

-----------------------------------------------------------------------------
(* A reader, document by document.                                         *)

\* What a step may make of the gate,
LEMMA GateGoesOn ==
    ASSUME Ground, Happens
    PROVE  /\ pub # None => pub' # None
           /\ pub' # None => pub'.id = NewPublication \/ (pub # None /\ pub'.id = pub.id)
           /\ pub # None /\ pub' # None /\ pub'.id = pub.id /\ pub.ready =>
                pub'.ready /\ pub'.policy = pub.policy /\ pub'.private = pub.private
<1> USE DEF Ground
<1>0. /\ \A x \in Gate : x # None
      /\ pub # None => NewPublication # pub.id
  BY NoneApart, NewPublicationFresh
<1>1. CASE UNCHANGED pub
  BY <1>1
<1>2. CASE Aged
  BY <1>0, <1>2 DEF Aged
<1>3. ASSUME NEW p \in Procs, ReplaceBegun(p) \/ EraseBegun(p)
      PROVE  pub' # None /\ pub'.id = NewPublication
  BY <1>0, <1>3 DEF ReplaceBegun, EraseBegun
<1>4. ASSUME NEW p \in Procs, ReplaceFinished(p) \/ EraseFinished(p)
      PROVE  pub' # None /\ pub # None /\ pub'.id = pub.id /\ ~pub.ready
  <2>1. pub \in Gate /\ pub.id = local[p].proj /\ pub.lease = "live"
    BY <1>4, Fenced DEF ReplaceFinished, EraseFinished, Replacing, Erasing
  <2> QED BY <1>0, <1>4, <2>1 DEF ReplaceFinished, EraseFinished, ControlsSound
<1>5. ASSUME NEW p \in Procs, WriteAbandoned(p), pub' # pub
      PROVE  /\ pub' # None /\ pub # None /\ pub'.id = pub.id /\ pub'.ready = pub.ready
             /\ pub'.policy = pub.policy /\ pub'.private = pub.private
  BY <1>0, <1>5 DEF WriteAbandoned
<1>6. ASSUME NEW p \in Procs, StepOf(p), ~ReplaceBegun(p), ~EraseBegun(p), ~ReplaceFinished(p),
             ~EraseFinished(p), ~WriteAbandoned(p)
      PROVE  UNCHANGED pub
  BY <1>6 DEF StepOf, Stopped, SyncAcquired, Fetched, ImportBegun, EventsWiped, ChangesApplied, ImportFinished,
              ImportAbandoned, SyncCommitted, FailureMarked, PolicyCaptured, InputsCaptured, Gathered,
              DefaultCreated, RowsReplaced, RowsErased, PolicyPut, Revoked, Released, documents
<1> QED BY <1>0, <1>1, <1>2, <1>3, <1>4, <1>5, <1>6 DEF Happens, Untouched, Overridden, Connected, documents

\* of the revisions,
LEMMA RevisionsGoOn ==
    ASSUME Ground, TypeOK', Happens
    PROVE  /\ policyRev' \in {policyRev, NewPolicyRevision}
           /\ inputs'.id \in {inputs.id, NewInputs}
           /\ inputs.source # "fresh" /\ inputs'.source = "fresh" => inputs'.id = NewInputs
<1> USE DEF Ground
<1>1. CASE Untouched \/ Overridden \/ Connected \/ Aged
  BY <1>1 DEF Untouched, Overridden, Connected, Aged, documents
<1>2. ASSUME NEW p \in Procs, StepOf(p)
      PROVE  /\ policyRev' \in {policyRev, NewPolicyRevision}
             /\ inputs'.id \in {inputs.id, NewInputs}
             /\ inputs.source # "fresh" /\ inputs'.source = "fresh" => inputs'.id = NewInputs
  <2>1. CASE ImportFinished(p) \/ ImportAbandoned(p)
    BY <2>1 DEF ImportFinished, ImportAbandoned, TypeOK
  <2>2. CASE Released(p)
    <3>1. /\ block \in Block /\ block.inProgress /\ local[p].cleanup # None /\ block.id = local[p].cleanup
      BY <2>2, Fenced DEF Released, ContextsSound, InStep
    <3>2. block # None
      BY <3>1, NoneApart
    <3> QED BY <2>2, <3>1, <3>2 DEF Released, InputsSound, ContextInputsSound
  <2> QED BY <1>2, <2>1, <2>2
          DEF StepOf, documents, Stopped, SyncAcquired, Fetched, ImportBegun, EventsWiped, ChangesApplied,
              SyncCommitted, FailureMarked, PolicyCaptured, InputsCaptured, Gathered, DefaultCreated,
              ReplaceBegun, RowsReplaced, ReplaceFinished, WriteAbandoned, EraseBegun, RowsErased,
              EraseFinished, PolicyPut, Revoked
<1> QED BY <1>1, <1>2 DEF Happens

\* and of a revision that nobody is about to prove.
ProvenAfter(revision) ==
    conn' # None /\ ~conn'.reconnect /\ ~conn'.failed /\ conn'.lease = None /\ conn'.last = revision
NotAheadAfter(revision) == \A p \in Syncers : local'[p].obs # revision

LEMMA UnprovenGoesOn ==
    ASSUME Ground, Happens, NEW revision, revision # None, revision # NewInputs, NotAhead(revision)
    PROVE  NotAheadAfter(revision) /\ (ProvenAfter(revision) => Proven(revision))
<1> USE DEF Ground
<1>0. /\ \A x \in Ids \cup Connection : x # None
      /\ NewLease \in Ids /\ Syncers \subseteq Procs
  BY NoneApart, NewLeaseFresh DEF Procs
<1>1. CASE Untouched \/ Overridden
  BY <1>1 DEF Untouched, Overridden, documents, NotAhead, NotAheadAfter, Proven, ProvenAfter
<1>2. CASE Connected \/ Aged
  BY <1>0, <1>2 DEF Connected, Aged, NotAhead, NotAheadAfter, Proven, ProvenAfter
<1>3. ASSUME NEW p \in Procs, StepOf(p)
      PROVE  NotAheadAfter(revision) /\ (ProvenAfter(revision) => Proven(revision))
  <2>1. NotAheadAfter(revision)
    BY <1>0, <1>3, IdsGoOn DEF Others, NotAhead, NotAheadAfter
  <2>2. CASE UNCHANGED conn \/ conn' = None
    BY <2>1, <2>2 DEF Proven, ProvenAfter
  <2>3. CASE SyncAcquired(p) \/ FailureMarked(p)
    BY <1>0, <2>1, <2>3 DEF SyncAcquired, FailureMarked, Proven, ProvenAfter
  <2>4. CASE SyncCommitted(p)
    BY <2>1, <2>4 DEF SyncCommitted, NotAhead, ProvenAfter
  <2> QED BY <1>3, <2>2, <2>3, <2>4
          DEF StepOf, documents, Stopped, Fetched, ImportBegun, EventsWiped, ChangesApplied, ImportFinished,
              ImportAbandoned, PolicyCaptured, InputsCaptured, Gathered, DefaultCreated,
              ReplaceBegun, RowsReplaced, ReplaceFinished, WriteAbandoned, EraseBegun, RowsErased,
              EraseFinished, PolicyPut, Revoked, Released
<1> QED BY <1>1, <1>2, <1>3 DEF Happens

\* What a reader knows stays true while the documents change,
LEMMA ReaderWaits ==
    ASSUME Ground, TypeOK', ReaderSound, Happens, UNCHANGED reader
    PROVE  ReaderSound'
<1> USE DEF Ground
<1>0. /\ reader.gate # None => reader.gate \in GateView
      /\ pub # None => NewInputs # pub.private /\ NewPolicyRevision # pub.policy
      /\ reader.gate # None => /\ NewInputs # reader.gate.private /\ NewPolicyRevision # reader.gate.policy
                               /\ NewPublication # reader.gate.id
      /\ NewPublication # reader.id
  BY NewInputsFresh, NewPolicyRevisionFresh, NewPublicationFresh DEF TypeOK, Readers, Maybe
<1>1. /\ pub # None => pub' # None
      /\ pub' # None => pub'.id = NewPublication \/ (pub # None /\ pub'.id = pub.id)
      /\ pub # None /\ pub' # None /\ pub'.id = pub.id /\ pub.ready =>
           pub'.ready /\ pub'.policy = pub.policy /\ pub'.private = pub.private
  BY GateGoesOn
<1>2. /\ policyRev' \in {policyRev, NewPolicyRevision}
      /\ inputs'.id \in {inputs.id, NewInputs}
      /\ inputs.source # "fresh" /\ inputs'.source = "fresh" => inputs'.id = NewInputs
  BY RevisionsGoOn
<1>3. \A revision : revision # None /\ revision # NewInputs /\ NotAhead(revision) =>
         NotAheadAfter(revision) /\ (ProvenAfter(revision) => Proven(revision))
  BY UnprovenGoesOn
<1>4. SameGate' => SameGate
  BY <1>0, <1>1 DEF SameGate
<1>5. (reader.pc = "answered" => reader.sound)'
  BY DEF ReaderSound
<1>6. (reader.pc \in {"policy", "inputs", "source", "blockAgain"} /\ reader.gate # None =>
        /\ pub # None
        /\ pub.id = reader.gate.id /\ reader.gate.ready => pub.ready /\ pub.private = reader.gate.private)'
  BY <1>0, <1>1 DEF ReaderSound
<1>7. (/\ reader.pc \in {"inputs", "source", "blockAgain"} /\ reader.gate # None => reader.gate.ready
       /\ reader.pc \in {"source", "blockAgain"} => reader.private = PublishedBy(reader.gate))'
  BY DEF ReaderSound, PublishedBy
<1>8. (reader.pc = "rows" \/ (reader.pass = 2 /\ reader.pc \in {"block", "gate"}) =>
        (SameGate /\ pub # None => pub.ready /\ (pub.private # None => NotAhead(pub.private))))'
  <2> SUFFICES ASSUME reader.pc = "rows" \/ (reader.pass = 2 /\ reader.pc \in {"block", "gate"}),
                      SameGate', pub' # None
               PROVE  pub'.ready /\ (pub'.private # None => NotAheadAfter(pub'.private))
    BY DEF NotAhead, NotAheadAfter
  <2>1. pub # None /\ pub'.id = pub.id
    BY <1>0, <1>1 DEF SameGate
  <2>2. pub.ready /\ (pub.private # None => NotAhead(pub.private))
    BY <1>4, <2>1 DEF ReaderSound
  <2> QED BY <1>0, <1>1, <1>3, <2>1, <2>2
<1>9. (reader.pass = 2 /\ reader.pc \in {"block", "gate"} /\ ~reader.sound /\ SameGate =>
        pub # None /\ (policyRev # pub.policy \/ inputs.id # pub.private \/ Unproven(pub.private)))'
  <2> SUFFICES ASSUME reader.pass = 2, reader.pc \in {"block", "gate"}, ~reader.sound, SameGate'
               PROVE  /\ pub' # None
                      /\ \/ policyRev' # pub'.policy \/ inputs'.id # pub'.private
                         \/ /\ pub'.private # None
                            /\ inputs'.source # "fresh" \/ ~ProvenAfter(pub'.private)
    BY DEF Unproven, Proven, ProvenAfter
  <2>1. /\ pub # None
        /\ policyRev # pub.policy \/ inputs.id # pub.private
           \/ (pub.private # None /\ (inputs.source # "fresh" \/ ~Proven(pub.private)))
    BY <1>4 DEF ReaderSound, Unproven
  <2>2. pub' # None /\ pub'.id = pub.id
    BY <1>0, <1>1, <2>1 DEF SameGate
  <2>3. pub.ready /\ (pub.private # None => NotAhead(pub.private))
    BY <1>4, <2>1 DEF ReaderSound
  <2> QED BY <1>0, <1>1, <1>2, <1>3, <2>1, <2>2, <2>3
<1>10. (reader.pass = 2 /\ reader.pc \in {"policy", "inputs", "source", "blockAgain"} /\ ~reader.sound /\ SameGateRead =>
        /\ reader.gate # None
        /\ reader.gate.private # None => NotAhead(reader.gate.private)
        /\ CASE reader.pc = "policy" ->
                  \/ ~reader.gate.ready \/ policyRev # reader.gate.policy
                  \/ inputs.id # reader.gate.private \/ Unproven(reader.gate.private)
             [] reader.pc = "inputs" -> inputs.id # reader.gate.private \/ Unproven(reader.gate.private)
             [] OTHER -> /\ reader.gate.private # None
                         /\ reader.source # "fresh" \/ ~Proven(reader.gate.private))'
  <2> DEFINE r == reader.gate.private
  <2> SUFFICES ASSUME reader.pass = 2, reader.pc \in {"policy", "inputs", "source", "blockAgain"},
                      ~reader.sound, SameGateRead
               PROVE  /\ reader.gate # None
                      /\ r # None => NotAheadAfter(r)
                      /\ reader.pc = "policy" =>
                           \/ ~reader.gate.ready \/ policyRev' # reader.gate.policy
                           \/ inputs'.id # r \/ (r # None /\ (inputs'.source # "fresh" \/ ~ProvenAfter(r)))
                      /\ reader.pc = "inputs" =>
                           inputs'.id # r \/ (r # None /\ (inputs'.source # "fresh" \/ ~ProvenAfter(r)))
                      /\ reader.pc \in {"source", "blockAgain"} =>
                           r # None /\ (reader.source # "fresh" \/ ~ProvenAfter(r))
    BY DEF SameGateRead, Unproven, Proven, ProvenAfter, NotAhead, NotAheadAfter
  <2>1. /\ reader.gate # None
        /\ r # None => NotAhead(r)
        /\ reader.pc = "policy" =>
             \/ ~reader.gate.ready \/ policyRev # reader.gate.policy
             \/ inputs.id # r \/ (r # None /\ (inputs.source # "fresh" \/ ~Proven(r)))
        /\ reader.pc = "inputs" =>
             inputs.id # r \/ (r # None /\ (inputs.source # "fresh" \/ ~Proven(r)))
        /\ reader.pc \in {"source", "blockAgain"} =>
             r # None /\ (reader.source # "fresh" \/ ~Proven(r))
    BY DEF ReaderSound, Unproven
  <2>2. r # NewInputs /\ reader.gate.policy # NewPolicyRevision
    BY <1>0, <2>1
  <2> HIDE DEF r
  <2> QED BY <1>2, <1>3, <2>1, <2>2
<1> QED BY <1>5, <1>6, <1>7, <1>8, <1>9, <1>10 DEF ReaderSound

\* while they stay, what it reads next,
GateOf(id) == IF id = None THEN pub = None ELSE pub # None /\ pub.id = id
GateReadOf(r) == IF r.id = None THEN r.gate = None ELSE r.gate # None /\ r.gate.id = r.id

KnowsGate(r) ==
    /\ r.pc \in {"policy", "inputs", "source", "blockAgain"} /\ r.gate # None =>
        /\ pub # None
        /\ pub.id = r.gate.id /\ r.gate.ready => pub.ready /\ pub.private = r.gate.private
    /\ r.pc \in {"inputs", "source", "blockAgain"} /\ r.gate # None => r.gate.ready
    /\ r.pc \in {"source", "blockAgain"} => r.private = PublishedBy(r.gate)

KnowsFirst(r) ==
    r.pc = "rows" \/ (r.pass = 2 /\ r.pc \in {"block", "gate"}) =>
        (GateOf(r.id) /\ pub # None => pub.ready /\ (pub.private # None => NotAhead(pub.private)))

\* An unsound query will not pass the second time.
KnowsUnsound(r) ==
    /\ r.pc = "answered" => r.sound
    /\ r.pass = 2 /\ r.pc \in {"block", "gate"} /\ ~r.sound /\ GateOf(r.id) =>
        pub # None /\ (policyRev # pub.policy \/ inputs.id # pub.private \/ Unproven(pub.private))
    /\ r.pass = 2 /\ r.pc \in {"policy", "inputs", "source", "blockAgain"} /\ ~r.sound /\ GateReadOf(r) =>
        /\ r.gate # None
        /\ r.gate.private # None => NotAhead(r.gate.private)
        /\ r.pc = "policy" =>
             \/ ~r.gate.ready \/ policyRev # r.gate.policy
             \/ inputs.id # r.gate.private \/ Unproven(r.gate.private)
        /\ r.pc = "inputs" => inputs.id # r.gate.private \/ Unproven(r.gate.private)
        /\ r.pc \in {"source", "blockAgain"} =>
             r.gate.private # None /\ (r.source # "fresh" \/ ~Proven(r.gate.private))

Knows(r) == KnowsGate(r) /\ KnowsFirst(r) /\ KnowsUnsound(r)

LEMMA ReaderKnows == ReaderSound => Knows(reader)
<1> SUFFICES ASSUME ReaderSound PROVE Knows(reader)
  OBVIOUS
<1>1. KnowsGate(reader)
  BY DEF ReaderSound, KnowsGate
<1>2. KnowsFirst(reader)
  BY DEF ReaderSound, KnowsFirst, GateOf, SameGate
<1>3. KnowsUnsound(reader)
  BY DEF ReaderSound, KnowsUnsound, GateOf, SameGate, GateReadOf, SameGateRead
<1> QED BY <1>1, <1>2, <1>3 DEF Knows

LEMMA KnowsReader ==
    ASSUME UNCHANGED <<documents, local>>, Knows(reader')
    PROVE  ReaderSound'
<1> USE DEF documents
<1>1. /\ UNCHANGED <<pub, policyRev, inputs, conn, local>>
      /\ \A revision : NotAhead(revision)' <=> NotAhead(revision)
      /\ \A revision : Proven(revision)' <=> Proven(revision)
      /\ \A revision : Unproven(revision)' <=> Unproven(revision)
  BY DEF NotAhead, Proven, Unproven
<1>2. SameGate' <=> GateOf(reader'.id)
  BY <1>1 DEF SameGate, GateOf
<1>3. SameGateRead' <=> GateReadOf(reader')
  BY DEF SameGateRead, GateReadOf
<1> QED BY <1>1, <1>2, <1>3 DEF ReaderSound, Knows, KnowsGate, KnowsFirst, KnowsUnsound, PublishedBy

LEMMA ReadsDocument ==
    ASSUME Settled, Knows(reader), ReadBlock \/ ReadGate \/ ReadPolicyRevision \/ ReadInputs
    PROVE  Knows(reader')
<1>0. /\ reader \in Readers /\ ~NoReader.sound /\ NoReader.pc = "idle" /\ NoReader.pass = 1
      /\ pub # None => pub \in Gate /\ pub.id # None
      /\ \A x \in Gate \cup GateView : x # None
  BY NoneApart DEF Settled, Ground, TypeOK, NoReader, Maybe, Gate
<1>1. Knows(NoReader)
  BY <1>0 DEF Knows, KnowsGate, KnowsFirst, KnowsUnsound
<1>2. CASE ReadBlock
  <2>1. CASE reader' = NoReader
    BY <1>1, <2>1
  <2>2. CASE reader' = [reader EXCEPT !.pc = "gate"]
    <3>1. /\ reader'.pc = "gate" /\ reader.pc = "block" /\ reader'.pass = reader.pass
          /\ reader'.id = reader.id /\ reader'.sound = reader.sound
      BY <1>0, <1>2, <2>2 DEF Readers, ReadBlock
    <3> QED BY <3>1 DEF Knows, KnowsGate, KnowsFirst, KnowsUnsound
  <2> QED BY <1>2, <2>1, <2>2 DEF ReadBlock, NextRead, ReaderGoes
<1>3. CASE ReadGate
  <2> DEFINE g == IF pub = None THEN None
                  ELSE [id |-> pub.id, ready |-> pub.ready, dirty |-> pub.dirty,
                        lease |-> pub.lease, policy |-> pub.policy, private |-> pub.private]
  <2>1. /\ pub = None => g = None
        /\ pub # None => g # None /\ g.id = pub.id /\ g.ready = pub.ready /\ g.policy = pub.policy
                         /\ g.private = pub.private
    BY <1>0 DEF Gate, GateView, Maybe
  <2>2. reader' = [reader EXCEPT !.pc = "policy", !.gate = g]
    BY <1>3 DEF ReadGate, NextRead, ReaderGoes
  <2> HIDE DEF g
  <2>3. /\ reader'.pc = "policy" /\ reader.pc = "gate" /\ reader'.pass = reader.pass
        /\ reader'.id = reader.id /\ reader'.sound = reader.sound /\ reader'.gate = g
    BY <1>0, <1>3, <2>2 DEF Readers, ReadGate
  <2>4. KnowsGate(reader') /\ KnowsFirst(reader')
    BY <2>1, <2>3 DEF KnowsGate, KnowsFirst
  <2>5. KnowsUnsound(reader')
    <3> SUFFICES ASSUME reader.pass = 2, ~reader.sound, GateReadOf(reader')
                 PROVE  /\ g # None
                        /\ g.private # None => NotAhead(g.private)
                        /\ \/ ~g.ready \/ policyRev # g.policy
                           \/ inputs.id # g.private \/ Unproven(g.private)
      BY <2>3 DEF KnowsUnsound
    <3>1. GateOf(reader.id)
      BY <1>0, <2>1, <2>3 DEF GateReadOf, GateOf
    <3> QED BY <2>1, <2>3, <3>1 DEF Knows, KnowsUnsound, KnowsFirst
  <2> QED BY <2>4, <2>5 DEF Knows
<1>4. CASE ReadPolicyRevision
  <2>1. CASE reader' = NoReader
    BY <1>1, <2>1
  <2>2. CASE reader' = [reader EXCEPT !.pc = "inputs"] /\ GateOpen(reader.gate, policyRev)
    <3>1. /\ reader'.pc = "inputs" /\ reader.pc = "policy" /\ reader'.pass = reader.pass
          /\ reader'.id = reader.id /\ reader'.sound = reader.sound /\ reader'.gate = reader.gate
      BY <1>0, <1>4, <2>2 DEF Readers, ReadPolicyRevision
    <3>2. reader.gate # None => reader.gate.ready /\ reader.gate.policy = policyRev
      BY <2>2 DEF GateOpen
    <3>3. KnowsGate(reader') /\ KnowsFirst(reader')
      BY <3>1, <3>2 DEF Knows, KnowsGate, KnowsFirst
    <3>4. KnowsUnsound(reader')
      BY <3>1, <3>2 DEF Knows, KnowsUnsound, GateReadOf
    <3> QED BY <3>3, <3>4 DEF Knows
  <2> QED BY <1>4, <2>1, <2>2 DEF ReadPolicyRevision, NextRead, ReaderGoes
<1>5. CASE ReadInputs
  <2>1. CASE reader' = NoReader
    BY <1>1, <2>1
  <2>2. CASE /\ reader' = [reader EXCEPT !.pc = "source", !.source = inputs.source, !.private = inputs.id]
             /\ PublishedBy(reader.gate) = inputs.id
    <3>1. /\ reader'.pc = "source" /\ reader.pc = "inputs" /\ reader'.pass = reader.pass
          /\ reader'.id = reader.id /\ reader'.sound = reader.sound /\ reader'.gate = reader.gate
          /\ reader'.source = inputs.source /\ reader'.private = inputs.id
      BY <1>0, <1>5, <2>2 DEF Readers, ReadInputs
    <3>2. KnowsGate(reader') /\ KnowsFirst(reader')
      BY <2>2, <3>1 DEF Knows, KnowsGate, KnowsFirst
    <3>3. KnowsUnsound(reader')
      BY <2>2, <3>1 DEF Knows, KnowsUnsound, GateReadOf, PublishedBy, Unproven
    <3> QED BY <3>2, <3>3 DEF Knows
  <2> QED BY <1>5, <2>1, <2>2 DEF ReadInputs, NextRead, ReaderGoes
<1> QED BY <1>2, <1>3, <1>4, <1>5

\* at the end of a pass,
LEMMA PassPasses ==
    ASSUME Settled, Knows(reader), NEW ok, PassEnds(ok), reader.pc \in {"source", "blockAgain"},
           ok => \/ PublishedBy(reader.gate) = None
                 \/ /\ conn # None /\ conn.last = reader.private
                    /\ reader.source = "fresh" /\ Proven(reader.private)
    PROVE  Knows(reader')
<1> DEFINE id == IF reader.gate = None THEN None ELSE reader.gate.id
<1>0. /\ reader \in Readers
      /\ reader.gate # None => reader.gate \in GateView
      /\ pub # None => pub \in Gate
      /\ ControlsSound /\ InputsSound
  BY DEF Settled, Ground, TypeOK, Readers, Maybe
<1>1. reader.gate # None => id # None /\ id = reader.gate.id
  BY <1>0, NoneApart DEF GateView
<1>2. /\ reader.gate # None => pub # None /\ reader.gate.ready
      /\ reader.gate # None /\ pub.id = reader.gate.id => pub.ready /\ pub.private = reader.gate.private
      /\ reader.private = PublishedBy(reader.gate)
  BY DEF Knows, KnowsGate
<1>3. CASE reader' = NoReader
  BY <1>3 DEF NoReader, Knows, KnowsGate, KnowsFirst, KnowsUnsound
<1>4. CASE ok /\ reader' = [NoReader EXCEPT !.pc = "rows", !.id = id]
  <2>1. reader'.pc = "rows" /\ reader'.id = id /\ reader'.pass = 1
    BY <1>4 DEF NoReader
  <2>2. ASSUME GateOf(id), pub # None
        PROVE  pub.ready /\ (pub.private # None => NotAhead(pub.private))
    <3>1. reader.gate # None /\ pub.id = reader.gate.id
      BY <1>1, <2>2 DEF GateOf
    <3>2. pub.ready /\ pub.private = reader.gate.private /\ PublishedBy(reader.gate) = pub.private
      BY <1>2, <3>1 DEF PublishedBy
    <3>3. ASSUME pub.private # None
          PROVE  NotAhead(pub.private)
      <4>1. conn # None /\ conn.last = pub.private
        BY <1>2, <1>4, <3>2, <3>3
      <4> QED BY <1>0, <3>3, <4>1 DEF InputsSound, ContextInputsSound, NotAhead, Procs
    <3> QED BY <3>2, <3>3
  <2> QED BY <2>1, <2>2 DEF Knows, KnowsGate, KnowsFirst, KnowsUnsound
<1>5. CASE reader.pass = 2 /\ ok /\ id = reader.id /\ reader' = [NoReader EXCEPT !.pc = "answered", !.sound = reader.sound]
  <2>1. reader'.pc = "answered" /\ reader'.sound = reader.sound /\ reader'.pass = 1
    BY <1>5 DEF NoReader
  <2>2. reader.sound
    <3> SUFFICES ASSUME ~reader.sound PROVE FALSE
      OBVIOUS
    <3>1. GateReadOf(reader)
      BY <1>1, <1>5 DEF GateReadOf
    <3>2. /\ reader.gate # None /\ reader.gate.private # None
          /\ reader.source # "fresh" \/ ~Proven(reader.gate.private)
      BY <1>5, <3>1 DEF Knows, KnowsUnsound
    <3> QED BY <1>2, <1>5, <3>2 DEF PublishedBy
  <2> QED BY <2>1, <2>2 DEF Knows, KnowsGate, KnowsFirst, KnowsUnsound
<1>6. reader.pass \in {1, 2}
  BY <1>0 DEF Readers
<1> QED BY <1>3, <1>4, <1>5, <1>6 DEF PassEnds, NextRead, ReaderGoes

LEMMA ReadsSource ==
    ASSUME Settled, Knows(reader), ReadConnection \/ ReadBlockAgain
    PROVE  Knows(reader')
<1>1. ASSUME NEW blocked,
             Readable(reader.source, reader.private, conn, blocked, PublishedBy(reader.gate))
      PROVE  \/ PublishedBy(reader.gate) = None
             \/ /\ conn # None /\ conn.last = reader.private
                /\ reader.source = "fresh" /\ Proven(reader.private)
  BY <1>1 DEF Readable, Committed, Proven
<1>2. ASSUME NEW blocked,
             Readable(reader.source, reader.private, None, blocked, PublishedBy(reader.gate))
      PROVE  PublishedBy(reader.gate) = None
  BY <1>2 DEF Readable, Committed
<1>3. CASE ReadConnection /\ conn # None
  BY <1>1, <1>3, PassPasses DEF ReadConnection
<1>4. CASE ReadConnection /\ conn = None
  <2>1. reader \in Readers
    BY DEF Settled, Ground, TypeOK
  <2>2. /\ reader'.pc = "blockAgain" /\ reader.pc = "source" /\ reader'.pass = reader.pass
        /\ reader'.id = reader.id /\ reader'.sound = reader.sound /\ reader'.gate = reader.gate
        /\ reader'.source = reader.source /\ reader'.private = reader.private
    BY <1>4, <2>1 DEF Readers, ReadConnection, NextRead, ReaderGoes
  <2> QED BY <2>2 DEF Knows, KnowsGate, KnowsFirst, KnowsUnsound, GateReadOf
<1>5. CASE ReadBlockAgain
  BY <1>2, <1>5, PassPasses DEF ReadBlockAgain
<1> QED BY <1>3, <1>4, <1>5

\* and at its query.
LEMMA QueriesRows ==
    ASSUME Settled, Knows(reader), QueryRows
    PROVE  Knows(reader')
<1>1. PICK sound : /\ reader' = [reader EXCEPT !.pc = "block", !.pass = 2, !.sound = sound]
                   /\ sound = (RowsAreCurrent /\ (PublishedBy(pub) # None => Visible))
  BY DEF QueryRows, NextRead, ReaderGoes
<1>2. /\ reader'.pc = "block" /\ reader.pc = "rows" /\ reader'.pass = 2
      /\ reader'.id = reader.id /\ reader'.sound = sound
  BY <1>1 DEF QueryRows, Settled, Ground, TypeOK, Readers
<1>3. KnowsGate(reader') /\ KnowsFirst(reader')
  BY <1>2 DEF Knows, KnowsGate, KnowsFirst
<1>4. ASSUME GateOf(reader.id), pub # None, policyRev = pub.policy, inputs.id = pub.private,
             ~Unproven(pub.private)
      PROVE  sound
  <2>1. ControlsSound /\ InputsSound /\ pub \in Gate /\ (conn # None => conn \in Connection)
    BY <1>4 DEF Settled, Ground, TypeOK, Maybe
  <2>2. pub.ready /\ ~pub.dirty /\ pub.lease = "none"
    BY <1>2, <1>4, <2>1 DEF Knows, KnowsFirst, ControlsSound, Gate, LeaseState
  <2>3. RowsAreCurrent
    BY <1>4, <2>2 DEF Settled, RowsSound
  <2>4. ASSUME pub.private # None
        PROVE  Visible
    <3>1. inputs.source = "fresh" /\ Proven(inputs.id) /\ inputs.id # None
      BY <1>4, <2>4 DEF Unproven
    <3>2. inputs.ready
      BY <1>4, <2>1 DEF InputsSound
    <3>3. inputs.lease = "none" /\ block = None
      BY <2>1, <3>1, <3>2 DEF ControlsSound, Proven
    <3>4. Shown
      BY <1>4, <2>1, <2>2, <3>1, <3>2, <3>3 DEF Shown, Proven
    <3> QED BY <3>4, Hides
  <2> QED BY <1>1, <1>4, <2>3, <2>4 DEF PublishedBy
<1>5. ASSUME GateOf(reader.id), pub = None
      PROVE  sound
  <2>1. rows = NoRows /\ covered = {}
    BY <1>5 DEF Settled, Ground, ControlsSound
  <2>2. RowsAreCurrent
    BY <2>1 DEF RowsAreCurrent, NoRows
  <2> QED BY <1>1, <1>5, <2>2 DEF PublishedBy
<1>6. KnowsUnsound(reader')
  BY <1>2, <1>4, <1>5 DEF KnowsUnsound
<1> QED BY <1>3, <1>6 DEF Knows

LEMMA ReaderReads ==
    ASSUME Settled, ReaderSound, Read
    PROVE  ReaderSound'
<1>1. Knows(reader)
  BY ReaderKnows
<1>2. CASE StartRead
  <2>1. reader'.pc = "block" /\ reader'.pass = 1
    BY <1>2 DEF StartRead, ReaderGoes, NoReader
  <2> QED BY <2>1, ReaderOnly, KnowsReader DEF Knows, KnowsGate, KnowsFirst, KnowsUnsound
<1> QED BY <1>1, <1>2, ReadsDocument, ReadsSource, QueriesRows, ReaderOnly, KnowsReader DEF Read

\* The system does not move the reader.
LEMMA ReaderStays ==
    ASSUME [Next]_vars, ~Read
    PROVE  UNCHANGED reader
<1>1. CASE UNCHANGED vars
  BY <1>1 DEF vars
<1>2. ASSUME NEW p \in Procs, Step(p)
      PROVE  UNCHANGED reader
  <2>1. CASE Synchronize(p)
    BY <2>1 DEF Synchronize, Fetch, BeginPrivateInputs, WipeEvents, ApplyChanges, FinishPrivateInputs,
               AbandonPrivateInputs, MarkSyncSuccess, MarkSyncFailure
  <2>2. CASE Rebuild(p)
    BY <2>2 DEF Rebuild, CapturePolicyRevision, CaptureInputs, ReadPolicy, CreateDefaultPolicy,
               CheckEventsBefore, ReadEvents, CheckEventsAfter, ReadOverrides, Steady, BeginReplace, ReplaceRows,
               FinishReplace, AbandonProjectionWrite
  <2>3. CASE DeleteForUser(p) \/ Disconnect(p)
    BY <2>3 DEF DeleteForUser, BeginErase, EraseRows, FinishErase, Disconnect, DeleteEvents, FinishDisconnection
  <2> QED BY <1>2, <2>1, <2>2, <2>3 DEF Step
<1>3. ASSUME NEW p, AcquireSync(p) \/ PutSharingPolicy(p) \/ RevokeConnection(p) \/ Fault(p) \/ Crash(p)
      PROVE  UNCHANGED reader
  BY <1>3 DEF AcquireSync, PutSharingPolicy, RevokeConnection, Fault, Crash
<1>4. CASE CreateOverride \/ SaveConnection \/ ProviderChanges \/ Age \/ Expire
  BY <1>4 DEF CreateOverride, SaveConnection, ProviderChanges, Age, Expire
<1> QED BY <1>1, <1>2, <1>3, <1>4 DEF Next

\* A read that passes both of its passes returns what was complete and current
\* at its query, and visible if it shows a calendar: the documents it reads one
\* by one, before and after, leave no gap.
THEOREM PublicationAnswersAreConsistent == Spec => []AnswersAreConsistent
<1> DEFINE IInv == Settled /\ ReaderSound
<1>1. Init => IInv
  <2> SUFFICES ASSUME Init PROVE ReaderSound
    BY SettledInit
  <2>1. reader.pc = "idle"
    BY DEF Init, NoReader
  <2> QED BY <2>1 DEF ReaderSound
<1>2. IInv /\ [Next]_vars => IInv'
  <2> SUFFICES ASSUME Settled, ReaderSound, [Next]_vars PROVE ReaderSound'
    BY SettledStep
  <2>1. CASE Read
    BY <2>1, ReaderReads
  <2>2. CASE ~Read
    <3>1. Ground /\ TypeOK' /\ Happens
      BY SettledStep, Outcome DEF Settled, Ground
    <3> QED BY <2>2, <3>1, ReaderStays, ReaderWaits
  <2> QED BY <2>1, <2>2
<1>3. IInv => AnswersAreConsistent
  BY DEF ReaderSound, AnswersAreConsistent
<1> QED BY <1>1, <1>2, <1>3, PTL DEF Spec

=============================================================================
