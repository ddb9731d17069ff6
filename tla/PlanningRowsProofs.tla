------------------------- MODULE PlanningRowsProofs -------------------------
(***************************************************************************)
(* Proofs about Planning: the rows of a target stay true to its settings,  *)
(* and the view shows what the rows say.                                   *)
(***************************************************************************)
EXTENDS Planning, FiniteSetTheorems, TLAPS

-----------------------------------------------------------------------------
(* Induction, over sets of numbers and of finite sets.                     *)

\* A set of naturals has a least element.
LEMMA Least ==
    ASSUME NEW T \in SUBSET Nat, T # {}
    PROVE  \E x \in T : \A y \in T : x <= y
<1> DEFINE R == {p \in Nat \X Nat : p[1] < p[2]}
<1>1. OpToRel(<, Nat) = R
  BY Zenon DEF OpToRel
<1>2. \E x \in T : \A y \in T : ~(<<y, x>> \in R)
  <2> HIDE DEF R
  <2>1. IsWellFoundedOn(R, Nat)
    BY <1>1, NatLessThanWellFounded, Zenon
  <2> QED
    BY <2>1, WFMin
<1>3. PICK x \in T : \A y \in T : ~(<<y, x>> \in R)
  BY <1>2
<1>4. ASSUME NEW y \in T PROVE x <= y
  <2>1. <<y, x>> \notin R /\ x \in Nat /\ y \in Nat
    BY <1>3
  <2> QED
    BY <2>1
<1> QED
  BY <1>4

\* What holds of 0 and passes on from each number to the next holds of all: G is the set
\* of numbers of which it holds.
LEMMA Induct ==
    ASSUME NEW G, 0 \in G, \A n \in Nat : n \in G => n + 1 \in G
    PROVE  Nat \subseteq G
<1> SUFFICES ASSUME NEW k \in Nat, k \notin G PROVE FALSE
  OBVIOUS
<1>1. PICK m \in Nat \ G : \A y \in Nat \ G : m <= y
  BY Least
<1>2. m - 1 \in Nat /\ m - 1 \in G /\ (m - 1) + 1 = m
  BY <1>1
<1> QED
  BY <1>1, <1>2

\* The same up to a limit.
LEMMA InductUpTo ==
    ASSUME NEW n \in Nat, NEW G, 0 \in G, \A k \in 0 .. n - 1 : k \in G => k + 1 \in G
    PROVE  0 .. n \subseteq G
<1> DEFINE H == {k \in Nat : k <= n => k \in G}
<1>1. 0 \in H
  OBVIOUS
<1>2. \A k \in Nat : k \in H => k + 1 \in H
  OBVIOUS
<1>3. Nat \subseteq H
  <2> HIDE DEF H
  <2> QED
    BY <1>1, <1>2, Induct
<1> QED
  BY <1>3

\* What holds of a subset as soon as it holds of its proper subsets holds of all.
LEMMA InductSubsets ==
    ASSUME NEW S, IsFiniteSet(S), NEW F,
           \A s \in SUBSET S : (\A t \in SUBSET s : t # s => t \in F) => s \in F
    PROVE  SUBSET S \subseteq F
<1> DEFINE G == {n \in Nat : \A s \in SUBSET S : Cardinality(s) <= n => s \in F}
<1>0. \A s \in SUBSET S : IsFiniteSet(s) /\ Cardinality(s) \in Nat
  BY FS_Subset, FS_CardinalityType
<1>1. \A s \in SUBSET S : \A t \in SUBSET s : t # s => Cardinality(t) < Cardinality(s) /\ Cardinality(t) \in Nat
  <2> TAKE s \in SUBSET S
  <2> TAKE t \in SUBSET s
  <2>1. Cardinality(t) <= Cardinality(s) /\ (Cardinality(s) = Cardinality(t) => s = t)
    BY <1>0, FS_Subset
  <2>2. t \in SUBSET S
    OBVIOUS
  <2> QED
    BY <1>0, <2>1, <2>2
<1>2. 0 \in G
  BY <1>0, <1>1
<1>3. ASSUME NEW n \in Nat, n \in G PROVE n + 1 \in G
  <2>1. ASSUME NEW s \in SUBSET S, Cardinality(s) <= n + 1 PROVE s \in F
    <3>1. \A t \in SUBSET s : t # s => t \in SUBSET S /\ Cardinality(t) <= n
      BY <1>0, <1>1, <2>1
    <3> QED
      BY <1>3, <3>1
  <2> QED
    BY <2>1
<1>4. Nat \subseteq G
  <2> HIDE DEF G
  <2> QED
    BY <1>2, <1>3, Induct
<1> QED
  BY <1>0, <1>4

-----------------------------------------------------------------------------
(* The least and the greatest element of a finite set.                     *)

LEMMA MaxOfSet ==
    ASSUME NEW S \in SUBSET Int, IsFiniteSet(S), S # {}
    PROVE  Max(S) \in S /\ \A y \in S : y <= Max(S)
<1> DEFINE F == {s \in SUBSET S : s = {} \/ \E x \in s : \A y \in s : x >= y}
<1>1. ASSUME NEW s \in SUBSET S, \A t \in SUBSET s : t # s => t \in F
      PROVE  s \in F
  <2> SUFFICES ASSUME NEW z \in s PROVE \E x \in s : \A y \in s : x >= y
    OBVIOUS
  <2>1. s \ {z} \in F
    BY <1>1
  <2>2. CASE s \ {z} = {}
    BY <2>2
  <2>3. CASE \E x \in s \ {z} : \A y \in s \ {z} : x >= y
    <3>1. PICK x \in s \ {z} : \A y \in s \ {z} : x >= y
      BY <2>3
    <3>2. x \in Int /\ z \in Int /\ s \subseteq Int
      OBVIOUS
    <3>3. CASE x >= z
      BY <3>1, <3>2, <3>3
    <3>4. CASE z > x
      <4>1. \A y \in s : z >= y
        BY <3>1, <3>2, <3>4
      <4> QED
        BY <4>1
    <3> QED
      BY <3>2, <3>3, <3>4
  <2> QED
    BY <2>1, <2>2, <2>3
<1>2. S \in F
  <2>1. SUBSET S \subseteq F
    <3> HIDE DEF F
    <3> QED
      BY <1>1, InductSubsets
  <2> QED
    BY <2>1
<1>3. \E x \in S : \A y \in S : x >= y
  BY <1>2
<1> QED
  BY <1>3 DEF Max

LEMMA MinOfSet ==
    ASSUME NEW S \in SUBSET Int, IsFiniteSet(S), S # {}
    PROVE  Min(S) \in S /\ \A y \in S : Min(S) <= y
<1> DEFINE F == {s \in SUBSET S : s = {} \/ \E x \in s : \A y \in s : x <= y}
<1>1. ASSUME NEW s \in SUBSET S, \A t \in SUBSET s : t # s => t \in F
      PROVE  s \in F
  <2> SUFFICES ASSUME NEW z \in s PROVE \E x \in s : \A y \in s : x <= y
    OBVIOUS
  <2>1. s \ {z} \in F
    BY <1>1
  <2>2. CASE s \ {z} = {}
    BY <2>2
  <2>3. CASE \E x \in s \ {z} : \A y \in s \ {z} : x <= y
    <3>1. PICK x \in s \ {z} : \A y \in s \ {z} : x <= y
      BY <2>3
    <3>2. x \in Int /\ z \in Int /\ s \subseteq Int
      OBVIOUS
    <3>3. CASE x <= z
      BY <3>1, <3>2, <3>3
    <3>4. CASE z < x
      <4>1. \A y \in s : z <= y
        BY <3>1, <3>2, <3>4
      <4> QED
        BY <4>1
    <3> QED
      BY <3>2, <3>3, <3>4
  <2> QED
    BY <2>1, <2>2, <2>3
<1>2. S \in F
  <2>1. SUBSET S \subseteq F
    <3> HIDE DEF F
    <3> QED
      BY <1>1, InductSubsets
  <2> QED
    BY <2>1
<1>3. \E x \in S : \A y \in S : x <= y
  BY <1>2
<1> QED
  BY <1>3 DEF Min

LEMMA MaxOfTwo ==
    ASSUME NEW a \in Int, NEW b \in Int
    PROVE  Max({a, b}) = IF a >= b THEN a ELSE b
BY DEF Max

LEMMA MinOfTwo ==
    ASSUME NEW a \in Int, NEW b \in Int
    PROVE  Min({a, b}) = IF a <= b THEN a ELSE b
BY DEF Min

LEMMA MaxOfInterval ==
    ASSUME NEW k \in Nat \ {0}
    PROVE  Max(1 .. k) = k /\ (1 .. k) \ {Max(1 .. k)} = 1 .. k - 1
<1>1. \A x \in 1 .. k : (\A y \in 1 .. k : x >= y) <=> x = k
  OBVIOUS
<1>2. Max(1 .. k) = CHOOSE x \in 1 .. k : \A y \in 1 .. k : x >= y
  BY DEF Max
<1>3. Max(1 .. k) = k
  BY <1>1, <1>2
<1> QED
  BY <1>3
\* The image of a finite set.
LEMMA FiniteImage ==
    ASSUME NEW S, IsFiniteSet(S), NEW f
    PROVE  IsFiniteSet({f[x] : x \in S}) /\ Cardinality({f[x] : x \in S}) <= Cardinality(S)
<1>1. PICK g, T : g = [x \in S |-> f[x]] /\ T = {f[x] : x \in S}
  OBVIOUS
<1>2. g \in Surjection(S, T)
  BY <1>1, Zenon DEF Surjection
<1> QED
  BY <1>1, <1>2, FS_Surjection

-----------------------------------------------------------------------------
(* Sorting.                                                                *)

StrictlyOrders(R, S) ==
    /\ \A x \in S : <<x, x>> \notin R
    /\ \A x, y \in S : x # y => <<x, y>> \in R \/ <<y, x>> \in R
    /\ \A x, y, z \in S : <<x, y>> \in R /\ <<y, z>> \in R => <<x, z>> \in R

\* The sequence s lists S in the order R.
Lists(s, S, R) ==
    /\ s \in Seq(S)
    /\ Len(s) = Cardinality(S)
    /\ \A x \in S : \E i \in 1 .. Len(s) : s[i] = x
    /\ \A i, j \in 1 .. Len(s) : i < j => <<s[i], s[j]>> \in R

\* How many elements come before x.
Rank(x, S, R) == Cardinality({y \in S : <<y, x>> \in R})

\* An element that comes before another has fewer before it.
LEMMA RankGrows ==
    ASSUME NEW S, IsFiniteSet(S), NEW R, StrictlyOrders(R, S), NEW x \in S
    PROVE  /\ Rank(x, S, R) \in Nat /\ Rank(x, S, R) < Cardinality(S)
           /\ \A z \in S : <<x, z>> \in R => Rank(x, S, R) < Rank(z, S, R)
<1> DEFINE B(z) == {y \in S : <<y, z>> \in R}
<1>0. \A z \in S : /\ B(z) \in SUBSET S /\ IsFiniteSet(B(z)) /\ Cardinality(B(z)) \in Nat
                   /\ Cardinality(S) \in Nat
  BY FS_Subset, FS_CardinalityType
<1>1. Cardinality(B(x)) < Cardinality(S)
  <2>1. x \notin B(x)
    BY DEF StrictlyOrders
  <2>2. Cardinality(B(x)) <= Cardinality(S) /\ (Cardinality(S) = Cardinality(B(x)) => S = B(x))
    BY <1>0, FS_Subset
  <2> HIDE DEF B
  <2> QED
    BY <1>0, <2>1, <2>2
<1>2. ASSUME NEW z \in S, <<x, z>> \in R
      PROVE  Cardinality(B(x)) < Cardinality(B(z))
  <2>1. B(x) \in SUBSET B(z)
    BY <1>2 DEF StrictlyOrders
  <2>2. x \in B(z) /\ x \notin B(x)
    BY <1>2 DEF StrictlyOrders
  <2>3. /\ Cardinality(B(x)) <= Cardinality(B(z))
        /\ Cardinality(B(z)) = Cardinality(B(x)) => B(z) = B(x)
    BY <1>0, <2>1, FS_Subset
  <2> HIDE DEF B
  <2> QED
    BY <1>0, <2>2, <2>3
<1>3. \A z \in S : Rank(z, S, R) = Cardinality(B(z))
  BY DEF Rank
<1> HIDE DEF B
<1> QED
  BY <1>0, <1>1, <1>2, <1>3

\* InOrder lists a finite set in a strict and total order.
LEMMA InOrderLists ==
    ASSUME NEW S, IsFiniteSet(S), NEW R, StrictlyOrders(R, S)
    PROVE  Lists(InOrder(S, R), S, R)
<1> DEFINE n == Cardinality(S)
           rank == [x \in S |-> Rank(x, S, R) + 1]
<1>0. n \in Nat
  BY FS_CardinalityType
<1>1. rank \in [S -> 1 .. n]
  BY <1>0, RankGrows
<1>2. \A x, z \in S : <<x, z>> \in R => rank[x] < rank[z]
  <2> TAKE x, z \in S
  <2> HAVE <<x, z>> \in R
  <2>1. Rank(x, S, R) < Rank(z, S, R) /\ Rank(x, S, R) \in Nat /\ Rank(z, S, R) \in Nat
    BY RankGrows
  <2> QED
    BY <2>1
<1>3. \A x, z \in S : x # z => rank[x] # rank[z]
  <2>1. \A x \in S : rank[x] \in Nat
    BY <1>0, <1>1
  <2> HIDE DEF rank
  <2> TAKE x, z \in S
  <2> HAVE x # z
  <2>2. <<x, z>> \in R \/ <<z, x>> \in R
    BY DEF StrictlyOrders
  <2> QED
    BY <1>2, <2>1, <2>2
<1>4. \A i \in 1 .. n : \E x \in S : rank[x] = i
  <2> HIDE DEF rank
  <2>1. rank \in Injection(S, 1 .. n)
    BY <1>1, <1>3 DEF Injection, IsInjective
  <2>2. IsFiniteSet(1 .. n) /\ Cardinality(1 .. n) = n
    BY <1>0, FS_Interval
  <2>3. rank \in Surjection(S, 1 .. n)
    BY <2>1, <2>2, FS_Injection
  <2> QED
    BY <2>3 DEF Surjection
<1>5. \A x \in S : rank[x] \in 1 .. n /\ (\A i \in 1 .. n : rank[x] = i <=> Rank(x, S, R) = i - 1)
  <2>1. \A x \in S : Rank(x, S, R) \in Int
    BY <1>0, RankGrows
  <2> QED
    BY <1>1, <2>1
<1> DEFINE s == InOrder(S, R)
<1>6. s = [i \in 1 .. n |-> CHOOSE x \in S : Rank(x, S, R) = i - 1]
  BY DEF InOrder, Rank
<1>7. \A i \in 1 .. n : s[i] \in S /\ rank[s[i]] = i
  <2> TAKE i \in 1 .. n
  <2>1. PICK x \in S : rank[x] = i
    BY <1>4
  <2>2. s[i] = CHOOSE z \in S : Rank(z, S, R) = i - 1
    BY <1>6
  <2>3. Rank(x, S, R) = i - 1
    BY <1>5, <2>1
  <2>4. s[i] \in S /\ Rank(s[i], S, R) = i - 1
    <3> HIDE DEF s
    <3> QED
      BY <2>2, <2>3
  <2> HIDE DEF s, rank
  <2> QED
    BY <1>5, <2>4
<1>8. s \in Seq(S) /\ Len(s) = n
  <2>1. DOMAIN s = 1 .. n
    BY <1>6
  <2>2. s \in [1 .. n -> S]
    <3> HIDE DEF rank
    <3> QED
      BY <1>6, <1>7
  <2> HIDE DEF s
  <2> QED
    BY <1>0, <2>1, <2>2
<1> HIDE DEF s, rank
<1>9. \A x \in S : \E i \in 1 .. n : s[i] = x
  <2> TAKE x \in S
  <2>1. rank[x] \in 1 .. n /\ s[rank[x]] \in S /\ rank[s[rank[x]]] = rank[x]
    BY <1>5, <1>7
  <2>2. s[rank[x]] = x
    BY <1>3, <2>1
  <2> QED
    BY <2>1, <2>2
<1>10. \A i, j \in 1 .. n : i < j => <<s[i], s[j]>> \in R
  <2> TAKE i, j \in 1 .. n
  <2> HAVE i < j
  <2>1. s[i] \in S /\ s[j] \in S /\ rank[s[i]] = i /\ rank[s[j]] = j
    BY <1>7
  <2>2. ~(<<s[j], s[i]>> \in R)
    BY <1>2, <2>1
  <2>3. s[i] # s[j]
    BY <2>1
  <2> QED
    BY <2>1, <2>2, <2>3 DEF StrictlyOrders
<1> QED
  BY <1>8, <1>9, <1>10 DEF Lists, s

-----------------------------------------------------------------------------
(* Folds.  The community modules define a fold by a function on the        *)
(* subsets of the places of a sequence, or of a set, that exists when each *)
(* step stays in a set of results: h chooses the element that is last.     *)

Recursive(S, Acc, base, h, step) ==
    /\ IsFiniteSet(S)
    /\ base \in Acc
    /\ \A s \in SUBSET S : s # {} => h[s] \in s
    /\ step \in [S \X Acc -> Acc]

Iterates(iter, S, Acc, base, h, step) ==
    /\ iter \in [SUBSET S -> Acc]
    /\ \A s \in SUBSET S : iter[s] = IF s = {} THEN base ELSE step[<<h[s], iter[s \ {h[s]}]>>]

LEMMA Recursion ==
    ASSUME NEW S, NEW Acc, NEW base, NEW h, NEW step, Recursive(S, Acc, base, h, step)
    PROVE  \E iter : Iterates(iter, S, Acc, base, h, step)
<1> USE DEF Recursive
<1> DEFINE Sub(n) == {s \in SUBSET S : Cardinality(s) <= n}
           Is(g, n) == /\ g \in [Sub(n) -> Acc]
                       /\ \A s \in Sub(n) : g[s] = IF s = {} THEN base ELSE step[<<h[s], g[s \ {h[s]}]>>]
           G == {n \in Nat : \E g : Is(g, n)}
<1>0. \A s \in SUBSET S : IsFiniteSet(s) /\ Cardinality(s) \in Nat
  BY FS_Subset, FS_CardinalityType
<1>1. \E g : Is(g, 0)
  <2>1. \A s \in Sub(0) : s = {}
    BY <1>0, FS_EmptySet
  <2>2. Is([s \in Sub(0) |-> base], 0)
    BY <2>1
  <2> HIDE DEF Is
  <2> QED
    BY <2>2
<1>2. ASSUME NEW n \in Nat, \E g : Is(g, n) PROVE \E g : Is(g, n + 1)
  <2>1. PICK g : Is(g, n)
    BY <1>2
  <2> DEFINE k == [s \in Sub(n + 1) |-> IF s = {} THEN base ELSE step[<<h[s], g[s \ {h[s]}]>>]]
  <2>2. \A s \in Sub(n + 1) : s # {} => h[s] \in S /\ s \ {h[s]} \in Sub(n)
    BY <1>0, FS_RemoveElement
  <2>3. k \in [Sub(n + 1) -> Acc]
    BY <2>1, <2>2
  <2>4. \A s \in Sub(n) : s \in Sub(n + 1) /\ k[s] = g[s]
    BY <1>0, <2>1
  <2>5. \A s \in Sub(n + 1) : k[s] = IF s = {} THEN base ELSE step[<<h[s], k[s \ {h[s]}]>>]
    BY <2>2, <2>4
  <2> HIDE DEF k
  <2>6. Is(k, n + 1)
    BY <2>3, <2>5
  <2> HIDE DEF Is
  <2> QED
    BY <2>6
<1>3. Nat \subseteq G
  <2>1. 0 \in G
    BY <1>1
  <2>2. \A n \in Nat : n \in G => n + 1 \in G
    <3> HIDE DEF Is
    <3> QED
      BY <1>2
  <2> HIDE DEF G
  <2> QED
    BY <2>1, <2>2, Induct
<1>4. PICK g : Is(g, Cardinality(S))
  <2>1. Cardinality(S) \in G
    <3> HIDE DEF G
    <3> QED
      BY <1>0, <1>3
  <2> HIDE DEF Is
  <2> QED
    BY <2>1
<1>5. Sub(Cardinality(S)) = SUBSET S
  BY <1>0, FS_Subset
<1>6. /\ g \in [SUBSET S -> Acc]
      /\ \A s \in SUBSET S : g[s] = IF s = {} THEN base ELSE step[<<h[s], g[s \ {h[s]}]>>]
  BY <1>4, <1>5
<1> HIDE DEF Is, Sub, G
<1> QED
  BY <1>6 DEF Iterates

LEMMA MaxOfPlaces ==
    ASSUME NEW n \in Nat, NEW s \in SUBSET (1 .. n), s # {}
    PROVE  Max(s) \in s /\ Max(s) \in 1 .. n
<1>1. IsFiniteSet(1 .. n)
  BY FS_Interval
<1>2. IsFiniteSet(s)
  BY <1>1, FS_Subset
<1>3. s \in SUBSET Int
  OBVIOUS
<1> QED
  BY <1>2, <1>3, MaxOfSet

\* The same for the places of a sequence, as FoldLeft goes through them.
RecursiveOver(n, Acc, base, step) == n \in Nat /\ base \in Acc /\ step \in [(1 .. n) \X Acc -> Acc]

IteratesOver(iter, n, Acc, base, step) ==
    /\ iter \in [SUBSET (1 .. n) -> Acc]
    /\ \A s \in SUBSET (1 .. n) :
           iter[s] = IF s = {} THEN base ELSE step[<<Max(s), iter[s \ {Max(s)}]>>]

LEMMA RecursionOverPlaces ==
    ASSUME NEW n, NEW Acc, NEW base, NEW step, RecursiveOver(n, Acc, base, step)
    PROVE  \E iter : IteratesOver(iter, n, Acc, base, step)
<1> USE DEF RecursiveOver
<1>0. PICK h : h = [s \in SUBSET (1 .. n) |-> Max(s)]
  OBVIOUS
<1>1. IsFiniteSet(1 .. n)
  BY FS_Interval
<1>2. \A s \in SUBSET (1 .. n) : s # {} => h[s] \in s
  BY <1>0, MaxOfPlaces
<1>3. Recursive(1 .. n, Acc, base, h, step)
  BY <1>1, <1>2 DEF Recursive
<1>4. PICK iter : Iterates(iter, 1 .. n, Acc, base, h, step)
  BY <1>3, Recursion
<1> QED
  BY <1>0, <1>4 DEF Iterates, IteratesOver

-----------------------------------------------------------------------------
(* The rules.                                                              *)

Fallback(event) == [state |-> P!FallbackState(event), rank |-> -1, priority |-> -1]
BetterRule(best, rule, event) ==
    LET rank == P!RuleRank(rule, event)
    IN  IF /\ rule.enabled /\ rank > 0
           /\ rank > best.rank \/ (rank = best.rank /\ rule.priority >= best.priority)
        THEN [state |-> rule.state, rank |-> rank, priority |-> rule.priority]
        ELSE best

LEMMA FallbackIsState ==
    ASSUME NEW event
    PROVE  P!FallbackState(event) \in P!States
BY DEF P!FallbackState, P!OpenState, P!ClosedState, P!States

LEMMA RanksOfRules ==
    ASSUME NEW rule, NEW event
    PROVE  P!RuleRank(rule, event) \in 0 .. 3
BY DEF P!RuleRank

\* The rules are gone through from the first to the last.
LEMMA RulesInTurn ==
    ASSUME P!ValidSettings(settings), NEW event
    PROVE  \E acc : /\ acc[0] = Fallback(event)
                    /\ \A k \in 1 .. Len(settings.rules) :
                           acc[k] = BetterRule(acc[k - 1], settings.rules[k], event)
                    /\ P!StateForEvent(event) = acc[Len(settings.rules)].state
<1> DEFINE seq == settings.rules
           base == Fallback(event)
<1>1. PICK n \in Nat : n = Len(seq) /\ DOMAIN seq = 1 .. n
  BY DEF P!ValidSettings, P!ValidPolicy
<1>2. PICK Acc : Acc = [state : P!States, rank : Int, priority : Int]
  OBVIOUS
<1>3. PICK step : step = [p \in (1 .. n) \X Acc |-> BetterRule(p[2], seq[p[1]], event)]
  OBVIOUS
<1>4. RecursiveOver(n, Acc, base, step)
  <2>1. \A i \in 1 .. n : seq[i].state \in P!States /\ seq[i].priority \in Int
    BY <1>1 DEF P!ValidSettings, P!ValidPolicy, P!ValidRule
  <2>2. base \in Acc
    BY <1>2, FallbackIsState DEF Fallback
  <2> HIDE DEF seq, base
  <2>3. ASSUME NEW p \in (1 .. n) \X Acc PROVE BetterRule(p[2], seq[p[1]], event) \in Acc
    BY <1>2, <2>1, RanksOfRules DEF BetterRule
  <2> QED
    BY <1>1, <1>3, <2>2, <2>3 DEF RecursiveOver
<1>5. PICK it : IteratesOver(it, n, Acc, base, step)
  BY <1>4, RecursionOverPlaces
<1> DEFINE Is(f) == f = [s \in SUBSET DOMAIN seq |->
                             IF s = {} THEN base ELSE BetterRule(f[s \ {Max(s)}], seq[Max(s)], event)]
<1>6. Is(it)
  <2>1. \A s \in SUBSET (1 .. n) : s # {} => Max(s) \in 1 .. n /\ it[s \ {Max(s)}] \in Acc
    BY <1>1, <1>5, MaxOfPlaces DEF IteratesOver
  <2>2. \A s \in SUBSET (1 .. n) : s # {} =>
            step[<<Max(s), it[s \ {Max(s)}]>>] = BetterRule(it[s \ {Max(s)}], seq[Max(s)], event)
    BY <2>1, <1>3
  <2> HIDE DEF seq, base
  <2> QED
    BY <1>1, <1>5, <2>2 DEF IteratesOver
<1>7. PICK f : Is(f) /\ P!StateForEvent(event) = f[DOMAIN seq].state
  <2>1. P!StateForEvent(event) = (CHOOSE f : Is(f))[DOMAIN seq].state
    BY Zenon DEF P!StateForEvent, BetterRule, Fallback, P!FoldLeft, P!MapThenFoldSet, P!Max, Max
  <2> HIDE DEF Is
  <2> QED
    BY <1>6, <2>1, Zenon
<1> HIDE DEF seq, base
<1>8. PICK acc : acc = [k \in 0 .. n |-> f[1 .. k]]
  OBVIOUS
<1>9. acc[0] = base /\ P!StateForEvent(event) = acc[n].state
  BY <1>1, <1>7, <1>8
<1>10. ASSUME NEW k \in 1 .. n PROVE acc[k] = BetterRule(acc[k - 1], seq[k], event)
  <2>1. Max(1 .. k) = k /\ (1 .. k) \ {Max(1 .. k)} = 1 .. k - 1 /\ k \in 1 .. k
    BY <1>1, MaxOfInterval
  <2>2. 1 .. k \in SUBSET (1 .. n)
    BY <1>1
  <2>3. 1 .. k # {} /\ k - 1 \in 0 .. n /\ k \in 0 .. n
    BY <1>1, <2>1
  <2> QED
    BY <1>1, <1>7, <1>8, <2>1, <2>2, <2>3
<1> QED
  BY <1>1, <1>9, <1>10 DEF seq, base
\* Rule i counts for the event, and gives way to rule j.
Counts(i, event) == settings.rules[i].enabled /\ P!RuleRank(settings.rules[i], event) > 0
GivesWay(i, j, event) ==
    LET ri == P!RuleRank(settings.rules[i], event)
        rj == P!RuleRank(settings.rules[j], event)
        pi == settings.rules[i].priority
        pj == settings.rules[j].priority
    IN  ri < rj \/ (ri = rj /\ (pi < pj \/ (pi = pj /\ i < j)))

\* The fold over the rules finds the foremost one.
LEMMA ForemostDecides ==
    ASSUME P!ValidSettings(settings), NEW event
    PROVE  P!StateForEvent(event) = P!Foremost(event) /\ P!Foremost(event) \in P!States
<1> DEFINE seq == settings.rules
           rank(i) == P!RuleRank(seq[i], event)
           Upto(k) == {i \in 1 .. k : Counts(i, event)}
           First(j, k) == j \in Upto(k) /\ \A i \in Upto(k) \ {j} : GivesWay(i, j, event)
           Found(b, j) == b = [state |-> seq[j].state, rank |-> rank(j), priority |-> seq[j].priority]
<1>1. PICK n \in Nat : n = Len(seq) /\ DOMAIN seq = 1 .. n
  BY DEF P!ValidSettings, P!ValidPolicy
<1>2. PICK acc : /\ acc[0] = Fallback(event)
                 /\ \A k \in 1 .. n : acc[k] = BetterRule(acc[k - 1], seq[k], event)
                 /\ P!StateForEvent(event) = acc[n].state
  BY <1>1, RulesInTurn
<1>3. \A i \in 1 .. n : rank(i) \in Int /\ seq[i].priority \in Nat /\ seq[i].state \in P!States
  BY <1>1, RanksOfRules DEF P!ValidSettings, P!ValidPolicy, P!ValidRule
<1> DEFINE G == {k \in 0 .. n : IF Upto(k) = {} THEN acc[k] = Fallback(event)
                                ELSE \E j \in Upto(k) : First(j, k) /\ Found(acc[k], j)}
<1>4. 0 \in G
  BY <1>2
<1>5. ASSUME NEW k \in 0 .. n - 1, k \in G PROVE k + 1 \in G
  <2>1. k + 1 \in 1 .. n /\ (k + 1) - 1 = k /\ k \in Nat
    BY <1>1
  <2>2. acc[k + 1] = BetterRule(acc[k], seq[k + 1], event)
    BY <1>2, <2>1
  <2>3. CASE ~Counts(k + 1, event)
    <3>1. Upto(k + 1) = Upto(k)
      BY <2>1, <2>3
    <3>2. acc[k + 1] = acc[k]
      BY <2>2, <2>3 DEF BetterRule, Counts
    <3> HIDE DEF Upto, Found
    <3> QED
      BY <1>5, <2>1, <3>1, <3>2
  <2>4. CASE Counts(k + 1, event)
    <3>1. Upto(k + 1) = Upto(k) \cup {k + 1} /\ k + 1 \notin Upto(k)
      BY <2>1, <2>4
    <3>2. CASE Upto(k) = {}
      <4>1. Found(acc[k + 1], k + 1)
        BY <1>5, <3>2, <2>2, <2>4, <1>3, <2>1 DEF BetterRule, Counts, Fallback
      <4>2. First(k + 1, k + 1)
        BY <3>1, <3>2
      <4> HIDE DEF First, Found
      <4> QED
        BY <2>1, <3>1, <4>1, <4>2
    <3>3. CASE Upto(k) # {}
      <4>1. PICK j \in Upto(k) : First(j, k) /\ Found(acc[k], j)
        BY <1>5, <3>3
      <4>2. j \in 1 .. n /\ j < k + 1
        BY <2>1, <4>1
      <4>3. CASE GivesWay(j, k + 1, event)
        <5>1. Found(acc[k + 1], k + 1)
          BY <4>1, <4>2, <4>3, <2>2, <2>4, <1>3, <2>1 DEF BetterRule, Counts, GivesWay
        <5>2. ASSUME NEW i \in Upto(k + 1) \ {k + 1} PROVE GivesWay(i, k + 1, event)
          <6>1. i \in Upto(k) /\ i \in 1 .. n
            BY <2>1, <3>1, <5>2
          <6>2. i = j \/ GivesWay(i, j, event)
            BY <4>1, <6>1
          <6> QED
            BY <6>1, <6>2, <4>2, <4>3, <1>3, <2>1 DEF GivesWay
        <5>3. First(k + 1, k + 1)
          BY <3>1, <5>2
        <5> HIDE DEF First, Found
        <5> QED
          BY <2>1, <3>1, <5>1, <5>3
      <4>4. CASE ~GivesWay(j, k + 1, event)
        <5>1. acc[k + 1] = acc[k]
          BY <4>1, <4>2, <4>4, <2>2, <2>4, <1>3, <2>1 DEF BetterRule, Counts, GivesWay
        <5>2. GivesWay(k + 1, j, event)
          BY <4>2, <4>4, <1>3, <2>1 DEF GivesWay
        <5>3. First(j, k + 1)
          BY <3>1, <4>1, <5>2
        <5> HIDE DEF First, Found
        <5> QED
          BY <2>1, <3>1, <4>1, <5>1, <5>3
      <4> QED
        BY <4>3, <4>4
    <3> QED
      BY <3>2, <3>3
  <2> QED
    BY <2>3, <2>4
<1>6. n \in G
  <2>1. 0 .. n \subseteq G
    <3> HIDE DEF G
    <3> QED
      BY <1>1, <1>4, <1>5, InductUpTo
  <2> HIDE DEF G
  <2> QED
    BY <1>1, <2>1
<1>7. P!Foremost(event) = IF Upto(n) = {} THEN P!FallbackState(event)
                          ELSE seq[CHOOSE j \in Upto(n) : \A i \in Upto(n) \ {j} : GivesWay(i, j, event)].state
  BY <1>1 DEF P!Foremost, Counts, GivesWay
<1>8. CASE Upto(n) = {}
  <2>1. acc[n] = Fallback(event)
    BY <1>6, <1>8
  <2> QED
    BY <1>2, <1>7, <1>8, <2>1, FallbackIsState DEF Fallback
<1>9. CASE Upto(n) # {}
  <2>1. PICK j \in Upto(n) : First(j, n) /\ Found(acc[n], j)
    BY <1>6, <1>9
  <2>2. ASSUME NEW l \in Upto(n), \A i \in Upto(n) \ {l} : GivesWay(i, l, event)
        PROVE  l = j
    <3> SUFFICES ASSUME l # j PROVE FALSE
      OBVIOUS
    <3>1. GivesWay(j, l, event) /\ GivesWay(l, j, event) /\ j \in 1 .. n /\ l \in 1 .. n
      BY <2>1, <2>2
    <3> QED
      BY <3>1, <1>1, <1>3 DEF GivesWay
  <2>3. (CHOOSE l \in Upto(n) : \A i \in Upto(n) \ {l} : GivesWay(i, l, event)) = j
    <3>1. j \in Upto(n) /\ \A i \in Upto(n) \ {j} : GivesWay(i, j, event)
      BY <2>1
    <3> HIDE DEF Upto
    <3> QED
      BY <3>1, <2>2
  <2>4. P!Foremost(event) = seq[j].state
    BY <1>7, <1>9, <2>3
  <2>5. acc[n].state = seq[j].state /\ j \in 1 .. n
    BY <2>1
  <2> QED
    BY <1>2, <1>3, <2>4, <2>5
<1> QED
  BY <1>8, <1>9

-----------------------------------------------------------------------------
(* The events of a bucket.                                                 *)

LEMMA SameCounts ==
    ASSUME NEW S
    PROVE  /\ P!IsFiniteSet(S) = IsFiniteSet(S)
           /\ P!Cardinality(S) = Cardinality(S)
BY DEF P!IsFiniteSet, IsFiniteSet, P!Cardinality, Cardinality

LEMMA SameExtremes ==
    ASSUME NEW S
    PROVE  P!Max(S) = Max(S) /\ P!Min(S) = Min(S)
BY DEF P!Max, Max, P!Min, Min

LEMMA ExtremesOfTwo ==
    ASSUME NEW a \in Int, NEW b \in Int
    PROVE  /\ P!Max({a, b}) = IF a >= b THEN a ELSE b
           /\ P!Min({a, b}) = IF a <= b THEN a ELSE b
BY DEF P!Max, P!Min

MostClosed(S) == [d \in P!Dimensions |-> Max({s[d] : s \in S})]

\* One state more closes what it closes.
LEMMA MostClosedOfMore ==
    ASSUME NEW S \in SUBSET P!States, S # {}, NEW x \in P!States
    PROVE  /\ MostClosed(S) \in P!States
           /\ MostClosed(S \cup {x}) = P!Restrictive(MostClosed(S), x)
<1> DEFINE V(T, d) == {s[d] : s \in T}
<1>1. ASSUME NEW T \in SUBSET P!States, T # {}, NEW d \in P!Dimensions
      PROVE  V(T, d) \in SUBSET Int /\ Max(V(T, d)) \in V(T, d) /\ \A y \in V(T, d) : y <= Max(V(T, d))
  <2>1. V(T, d) \in SUBSET (0 .. 3)
    BY <1>1 DEF P!States
  <2>2. IsFiniteSet(0 .. 3)
    <3>1. PICK a, b \in Int : a = 0 /\ b = 3
      OBVIOUS
    <3>2. IsFiniteSet(a .. b)
      BY FS_Interval
    <3> QED
      BY <3>1, <3>2
  <2>3. IsFiniteSet(V(T, d))
    BY <2>1, <2>2, FS_Subset
  <2>4. V(T, d) \in SUBSET Int /\ V(T, d) # {}
    BY <1>1, <2>1
  <2> HIDE DEF V
  <2> QED
    BY <2>3, <2>4, MaxOfSet
<1>2. ASSUME NEW d \in P!Dimensions
      PROVE  /\ Max(V(S, d)) \in 0 .. 3
             /\ Max(V(S \cup {x}, d)) = P!Max({Max(V(S, d)), x[d]})
  <2>1. V(S \cup {x}, d) = V(S, d) \cup {x[d]} /\ V(S, d) \subseteq 0 .. 3 /\ x[d] \in 0 .. 3
    BY <1>2 DEF P!States
  <2>2. /\ Max(V(S, d)) \in V(S, d) /\ \A y \in V(S, d) : y <= Max(V(S, d))
        /\ Max(V(S \cup {x}, d)) \in V(S \cup {x}, d)
        /\ \A y \in V(S \cup {x}, d) : y <= Max(V(S \cup {x}, d))
    BY <1>1, <1>2
  <2>3. P!Max({Max(V(S, d)), x[d]}) = IF Max(V(S, d)) >= x[d] THEN Max(V(S, d)) ELSE x[d]
    <3>1. Max(V(S, d)) \in Int /\ x[d] \in Int
      BY <2>1, <2>2
    <3> HIDE DEF V
    <3> QED
      BY <3>1, ExtremesOfTwo
  <2> HIDE DEF V
  <2> QED
    BY <2>1, <2>2, <2>3
<1>3. MostClosed(S) \in P!States
  BY <1>2 DEF MostClosed, P!States
<1>4. \A d \in P!Dimensions : MostClosed(S)[d] = Max(V(S, d))
  BY DEF MostClosed
<1>5. MostClosed(S \cup {x}) = [d \in P!Dimensions |-> Max(V(S \cup {x}, d))]
  BY DEF MostClosed
<1> HIDE DEF V
<1> QED
  BY <1>2, <1>3, <1>4, <1>5 DEF P!Restrictive

\* The fold over the events closes what any of them closes.
LEMMA EventsClose ==
    ASSUME P!ValidSettings(settings), NEW E \in SUBSET settings.events
    PROVE  /\ P!FoldSet(LAMBDA e, state : P!Restrictive(state, P!StateForEvent(e)), settings.default, E)
                  = MostClosed({settings.default} \cup {P!Foremost(e) : e \in E})
           /\ MostClosed({settings.default} \cup {P!Foremost(e) : e \in E}) \in P!States
<1> DEFINE base == settings.default
           op(e, a) == P!Restrictive(a, P!StateForEvent(e))
           Of(s) == {base} \cup {P!Foremost(e) : e \in s}
<1>1. IsFiniteSet(E)
  <2>1. IsFiniteSet(settings.events)
    BY SameCounts DEF P!ValidSettings
  <2> QED
    BY <2>1, FS_Subset
<1>2. base \in P!States
  BY DEF P!ValidSettings, P!ValidPolicy
<1>3. \A e : P!StateForEvent(e) = P!Foremost(e) /\ P!Foremost(e) \in P!States
  BY ForemostDecides
<1>4. ASSUME NEW a \in P!States, NEW e PROVE op(e, a) \in P!States
  <2>1. a = MostClosed({a})
    <3>1. \A d \in P!Dimensions : Max({s[d] : s \in {a}}) = a[d]
      <4> TAKE d \in P!Dimensions
      <4>1. {s[d] : s \in {a}} = {a[d], a[d]} /\ a[d] \in Int
        BY DEF P!States
      <4> QED
        BY <4>1, MaxOfTwo
    <3> QED
      BY <3>1 DEF MostClosed, P!States
  <2>2. MostClosed({a} \cup {P!Foremost(e)}) = P!Restrictive(a, P!Foremost(e))
    BY <1>3, <2>1, MostClosedOfMore
  <2>3. MostClosed({a} \cup {P!Foremost(e)}) \in P!States
    <3>1. {a} \cup {P!Foremost(e)} \in SUBSET P!States /\ {a} \cup {P!Foremost(e)} # {}
      BY <1>3
    <3> QED
      BY <1>3, <3>1, MostClosedOfMore
  <2> QED
    BY <1>3, <2>2, <2>3
<1>5. PICK h : h = [s \in SUBSET E |-> CHOOSE x \in s : TRUE]
  OBVIOUS
<1>6. PICK step : step = [p \in E \X P!States |-> op(p[1], p[2])]
  OBVIOUS
<1>7. \A s \in SUBSET E : s # {} => h[s] \in s
  BY <1>5
<1>8. Recursive(E, P!States, base, h, step)
  <2>1. step \in [E \X P!States -> P!States]
    <3> HIDE DEF op
    <3> QED
      BY <1>4, <1>6
  <2> QED
    BY <1>1, <1>2, <1>7, <2>1 DEF Recursive
<1>9. PICK it : Iterates(it, E, P!States, base, h, step)
  BY <1>8, Recursion
<1> DEFINE Is(f) == f = [s \in SUBSET E |->
                IF s = {} THEN base ELSE op(CHOOSE x \in s : TRUE, f[s \ {CHOOSE x \in s : TRUE}])]
<1>10. Is(it)
  <2>1. \A s \in SUBSET E : s # {} => h[s] \in E /\ it[s \ {h[s]}] \in P!States
    BY <1>7, <1>9 DEF Iterates
  <2>2. \A s \in SUBSET E : s # {} => step[<<h[s], it[s \ {h[s]}]>>] = op(h[s], it[s \ {h[s]}])
    <3> HIDE DEF op
    <3> QED
      BY <2>1, <1>6
  <2>3. \A s \in SUBSET E : h[s] = CHOOSE x \in s : TRUE
    BY <1>5
  <2>4. it = [s \in SUBSET E |-> IF s = {} THEN base ELSE op(h[s], it[s \ {h[s]}])]
    <3> HIDE DEF op, base
    <3> QED
      BY <1>9, <2>2 DEF Iterates
  <2> HIDE DEF op, base
  <2> QED
    BY <2>3, <2>4
<1>11. PICK f : Is(f) /\ P!FoldSet(LAMBDA e, state : P!Restrictive(state, P!StateForEvent(e)), base, E) = f[E]
  <2>1. P!FoldSet(LAMBDA e, state : P!Restrictive(state, P!StateForEvent(e)), base, E) = (CHOOSE f : Is(f))[E]
    BY Zenon DEF P!FoldSet, P!MapThenFoldSet
  <2> HIDE DEF Is
  <2> QED
    BY <1>10, <2>1, Zenon
<1>12. \A s \in SUBSET E : f[s] = IF s = {} THEN base ELSE op(h[s], f[s \ {h[s]}])
  <2> HIDE DEF op, base
  <2> QED
    BY <1>5, <1>11
<1> DEFINE F == {s \in SUBSET E : f[s] = MostClosed(Of(s))}
<1>13. ASSUME NEW s \in SUBSET E, \A t \in SUBSET s : t # s => t \in F
       PROVE  s \in F
  <2>1. CASE s = {}
    <3>1. Of(s) = {base} /\ f[s] = base
      BY <2>1, <1>12
    <3>2. MostClosed({base}) = base
      <4>1. \A d \in P!Dimensions : Max({x[d] : x \in {base}}) = base[d]
        <5> HIDE DEF base
        <5> TAKE d \in P!Dimensions
        <5>1. {x[d] : x \in {base}} = {base[d], base[d]} /\ base[d] \in Int
          BY <1>2 DEF P!States
        <5> QED
          BY <5>1, MaxOfTwo
      <4> HIDE DEF base
      <4> QED
        BY <1>2, <4>1 DEF MostClosed, P!States
    <3> QED
      BY <3>1, <3>2
  <2>2. CASE s # {}
    <3>1. h[s] \in s /\ s \ {h[s]} \in SUBSET s /\ s \ {h[s]} # s
      BY <2>2, <1>7
    <3>2. f[s \ {h[s]}] = MostClosed(Of(s \ {h[s]}))
      BY <1>13, <3>1
    <3>3. f[s] = P!Restrictive(MostClosed(Of(s \ {h[s]})), P!Foremost(h[s]))
      <4> HIDE DEF Of
      <4> QED
        BY <2>2, <1>3, <1>12, <3>2
    <3>4. Of(s) = Of(s \ {h[s]}) \cup {P!Foremost(h[s])}
      BY <3>1
    <3>5. Of(s \ {h[s]}) \in SUBSET P!States /\ Of(s \ {h[s]}) # {}
      BY <1>2, <1>3
    <3> HIDE DEF Of
    <3>6. f[s] = MostClosed(Of(s))
      BY <1>3, <3>3, <3>4, <3>5, MostClosedOfMore
    <3> QED
      BY <3>6
  <2> QED
    BY <2>1, <2>2
<1>14. SUBSET E \subseteq F
  <2> HIDE DEF F
  <2> QED
    BY <1>1, <1>13, InductSubsets
<1>15. f[E] = MostClosed(Of(E))
  BY <1>14
<1>16. MostClosed(Of(E)) \in P!States
  <2>1. Of(E) \in SUBSET P!States /\ Of(E) # {}
    BY <1>2, <1>3
  <2> HIDE DEF Of, base
  <2> QED
    BY <1>2, <2>1, MostClosedOfMore
<1> QED
  BY <1>11, <1>15, <1>16

-----------------------------------------------------------------------------
(* The overrides of a bucket.                                              *)

Active(t) == {o \in settings.overrides : o.end > t /\ o.expires > t}

LEMMA SameOrder ==
    ASSUME NEW S, NEW R
    PROVE  P!InOrder(S, R) = InOrder(S, R)
BY DEF P!InOrder, InOrder, P!Cardinality, Cardinality

\* Overrides are applied from the oldest to the newest.
LEMMA ActiveInOrder ==
    ASSUME P!ValidSettings(settings), NEW t
    PROVE  Lists(P!ActiveOverrides(t), Active(t), {p \in Active(t) \X Active(t) : P!Older(p[1], p[2])})
<1> DEFINE S == Active(t)
           R == {p \in S \X S : P!Older(p[1], p[2])}
<1>1. IsFiniteSet(S)
  <2>1. IsFiniteSet(settings.overrides)
    BY SameCounts DEF P!ValidSettings
  <2>2. S \in SUBSET settings.overrides
    BY DEF Active
  <2> QED
    BY <2>1, <2>2, FS_Subset
<1>2. \A o \in S : o.id \in Int /\ o.created \in Int
  BY DEF Active, P!ValidSettings, P!ValidOverride
<1>3. \A o, p \in S : o.id = p.id => o = p
  BY DEF Active, P!ValidSettings
<1>4. \A o, p \in S : <<o, p>> \in R <=> P!Older(o, p)
  <2> HIDE DEF S
  <2> QED
    OBVIOUS
<1>5. StrictlyOrders(R, S)
  <2> HIDE DEF S, R
  <2>1. \A o, p, q \in S : P!Older(o, p) /\ P!Older(p, q) => P!Older(o, q)
    BY <1>2 DEF P!Older
  <2>2. \A o, p \in S : o # p => P!Older(o, p) \/ P!Older(p, o)
    BY <1>2, <1>3 DEF P!Older
  <2>3. \A o \in S : ~P!Older(o, o)
    BY <1>2 DEF P!Older
  <2> QED
    BY <1>4, <2>1, <2>2, <2>3 DEF StrictlyOrders
<1>6. P!ActiveOverrides(t) = InOrder(S, R)
  BY SameOrder DEF P!ActiveOverrides, Active
<1> HIDE DEF S, R
<1>7. Lists(InOrder(S, R), S, R)
  BY <1>1, <1>5, InOrderLists
<1> QED
  BY <1>6, <1>7 DEF S, R

Bucket(b) == [start |-> b, end |-> b + Step]
FreshRow(b, t) ==
    [start |-> b, end |-> b + Step, generated |-> t, expires |-> t + ProjectionTTL, state |-> P!BaseState(Bucket(b))]
Apply(row, o) == IF P!Overlap(o, row) THEN P!Participates(row, o) ELSE row
BucketRow(b, t) == P!FoldLeft(LAMBDA row, o : Apply(row, o), FreshRow(b, t), P!ActiveOverrides(t))

Rows == [start : Int, end : Int, generated : Int, expires : Int, state : P!States]

\* What is known of a bucket without overrides.
LEMMA BaseStateMeans ==
    ASSUME P!ValidSettings(settings), NEW bucket
    PROVE  /\ P!BaseState(bucket) \in P!States
           /\ P!BaseState(bucket) =
                  IF P!InsideWorkingHours(bucket)
                  THEN MostClosed({settings.default} \cup
                           {P!Foremost(e) : e \in {e \in settings.events : P!Overlap(e, bucket)}})
                  ELSE P!ClosedState
<1>1. PICK E : E = {e \in settings.events : P!Overlap(e, bucket)} /\ E \in SUBSET settings.events
  OBVIOUS
<1>2. P!FoldSet(LAMBDA e, state : P!Restrictive(state, P!StateForEvent(e)), settings.default, E) =
          P!FoldSet(LAMBDA e, state : P!Restrictive(state, P!StateForEvent(e)), settings.default,
                    {e \in settings.events : P!Overlap(e, bucket)})
  BY <1>1, Zenon
<1>3. P!BaseState(bucket) =
          IF P!InsideWorkingHours(bucket)
          THEN P!FoldSet(LAMBDA e, state : P!Restrictive(state, P!StateForEvent(e)), settings.default, E)
          ELSE P!ClosedState
  BY <1>2, Zenon DEF P!BaseState
<1>4. P!ClosedState \in P!States
  BY DEF P!ClosedState, P!States
<1> QED
  BY <1>1, <1>3, <1>4, EventsClose

LEMMA OverridesInTurn ==
    ASSUME P!ValidSettings(settings), NEW t \in Int, NEW b \in Int
    PROVE  \E acc : /\ acc[0] = FreshRow(b, t)
                    /\ \A k \in 1 .. Len(P!ActiveOverrides(t)) :
                           acc[k] = Apply(acc[k - 1], P!ActiveOverrides(t)[k])
                    /\ BucketRow(b, t) = acc[Len(P!ActiveOverrides(t))]
<1> DEFINE seq == P!ActiveOverrides(t)
           base == FreshRow(b, t)
<1>1. PICK n \in Nat : n = Len(seq) /\ DOMAIN seq = 1 .. n
  BY ActiveInOrder DEF Lists
<1>2. PICK Acc : Acc = Rows
  OBVIOUS
<1>3. PICK step : step = [p \in (1 .. n) \X Acc |-> Apply(p[2], seq[p[1]])]
  OBVIOUS
<1>4. RecursiveOver(n, Acc, base, step)
  <2>1. \A i \in 1 .. n : seq[i].state \in P!States /\ seq[i].expires \in Int
    <3>1. \A i \in 1 .. n : seq[i] \in Active(t)
      BY <1>1, ActiveInOrder DEF Lists
    <3>2. \A o \in Active(t) : o.state \in P!States /\ o.expires \in Int
      BY DEF Active, P!ValidSettings, P!ValidOverride
    <3> HIDE DEF seq
    <3> QED
      BY <3>1, <3>2
  <2>2. base \in Acc
    <3>1. P!BaseState(Bucket(b)) \in P!States
      BY BaseStateMeans
    <3>2. Step \in Nat /\ ProjectionTTL \in Nat
      BY CandidatesAssumption, PlanningAssumption
    <3> QED
      BY <1>2, <3>1, <3>2 DEF FreshRow, Rows
  <2> HIDE DEF seq, base
  <2>3. ASSUME NEW p \in (1 .. n) \X Acc PROVE Apply(p[2], seq[p[1]]) \in Acc
    BY <1>2, <2>1, ExtremesOfTwo DEF Apply, Rows, P!Participates
  <2> QED
    BY <1>1, <1>3, <2>2, <2>3 DEF RecursiveOver
<1>5. PICK it : IteratesOver(it, n, Acc, base, step)
  BY <1>4, RecursionOverPlaces
<1> DEFINE Is(f) == f = [s \in SUBSET DOMAIN seq |->
                             IF s = {} THEN base ELSE Apply(f[s \ {Max(s)}], seq[Max(s)])]
<1>6. Is(it)
  <2>1. \A s \in SUBSET (1 .. n) : s # {} => Max(s) \in 1 .. n /\ it[s \ {Max(s)}] \in Acc
    BY <1>1, <1>5, MaxOfPlaces DEF IteratesOver
  <2>2. \A s \in SUBSET (1 .. n) : s # {} =>
            step[<<Max(s), it[s \ {Max(s)}]>>] = Apply(it[s \ {Max(s)}], seq[Max(s)])
    BY <2>1, <1>3
  <2> HIDE DEF seq, base
  <2> QED
    BY <1>1, <1>5, <2>2 DEF IteratesOver
<1>7. PICK f : Is(f) /\ BucketRow(b, t) = f[DOMAIN seq]
  <2>1. BucketRow(b, t) = (CHOOSE f : Is(f))[DOMAIN seq]
    BY Zenon DEF BucketRow, P!FoldLeft, P!MapThenFoldSet, P!Max, Max
  <2> HIDE DEF Is
  <2> QED
    BY <1>6, <2>1, Zenon
<1> HIDE DEF seq, base
<1>8. PICK acc : acc = [k \in 0 .. n |-> f[1 .. k]]
  OBVIOUS
<1>9. acc[0] = base /\ BucketRow(b, t) = acc[n]
  BY <1>1, <1>7, <1>8
<1>10. ASSUME NEW k \in 1 .. n PROVE acc[k] = Apply(acc[k - 1], seq[k])
  <2>1. Max(1 .. k) = k /\ (1 .. k) \ {Max(1 .. k)} = 1 .. k - 1 /\ k \in 1 .. k
    BY <1>1, MaxOfInterval
  <2>2. 1 .. k \in SUBSET (1 .. n)
    BY <1>1
  <2>3. 1 .. k # {} /\ k - 1 \in 0 .. n /\ k \in 0 .. n
    BY <1>1, <2>1
  <2> QED
    BY <1>1, <1>7, <1>8, <2>1, <2>2, <2>3
<1> QED
  BY <1>1, <1>9, <1>10 DEF seq, base

Over(b, t) == {o \in Active(t) : P!Overlap(o, Bucket(b))}

\* A row has the state of the newest override over its bucket, and ends with the first.
LEMMA BucketRowSays ==
    ASSUME P!ValidSettings(settings), NEW t \in Int, NEW b \in Int
    PROVE  /\ BucketRow(b, t) \in Rows
           /\ BucketRow(b, t).start = b /\ BucketRow(b, t).end = b + Step
           /\ BucketRow(b, t).generated = t
           /\ BucketRow(b, t).expires <= t + ProjectionTTL
           /\ \A o \in Over(b, t) : BucketRow(b, t).expires <= o.expires
           /\ \/ BucketRow(b, t).expires = t + ProjectionTTL
              \/ \E o \in Over(b, t) : BucketRow(b, t).expires = o.expires
           /\ IF Over(b, t) = {} THEN BucketRow(b, t).state = P!BaseState(Bucket(b))
              ELSE \E o \in Over(b, t) : /\ \A p \in Over(b, t) \ {o} : P!Older(p, o)
                                         /\ BucketRow(b, t).state = o.state
<1>1. PICK seq : seq = P!ActiveOverrides(t)
  OBVIOUS
<1>2. PICK n \in Nat : n = Len(seq) /\ DOMAIN seq = 1 .. n
  BY <1>1, ActiveInOrder DEF Lists
<1>3. \A i \in 1 .. n : seq[i] \in Active(t)
  BY <1>1, <1>2, ActiveInOrder DEF Lists
<1>4. \A o \in Active(t) : \E i \in 1 .. n : seq[i] = o
  BY <1>1, <1>2, ActiveInOrder DEF Lists
<1>5. \A i, j \in 1 .. n : i < j => P!Older(seq[i], seq[j])
  <2> TAKE i, j \in 1 .. n
  <2> HAVE i < j
  <2>1. <<seq[i], seq[j]>> \in {p \in Active(t) \X Active(t) : P!Older(p[1], p[2])}
    BY <1>1, <1>2, ActiveInOrder DEF Lists
  <2> QED
    BY <2>1
<1>6. \A o \in Active(t) : o.state \in P!States /\ o.expires \in Int
  BY DEF Active, P!ValidSettings, P!ValidOverride
<1>7. PICK acc : /\ acc[0] = FreshRow(b, t)
                 /\ \A k \in 1 .. n : acc[k] = Apply(acc[k - 1], seq[k])
                 /\ BucketRow(b, t) = acc[n]
  BY <1>1, <1>2, OverridesInTurn
<1> DEFINE Upto(k) == {i \in 1 .. k : P!Overlap(seq[i], Bucket(b))}
           Says(row, k) ==
               /\ row \in Rows
               /\ row.start = b /\ row.end = b + Step /\ row.generated = t
               /\ row.expires <= t + ProjectionTTL
               /\ \A i \in Upto(k) : row.expires <= seq[i].expires
               /\ row.expires = t + ProjectionTTL \/ \E i \in Upto(k) : row.expires = seq[i].expires
               /\ IF Upto(k) = {} THEN row.state = P!BaseState(Bucket(b))
                  ELSE \E j \in Upto(k) : (\A i \in Upto(k) : i <= j) /\ row.state = seq[j].state
           G == {k \in 0 .. n : Says(acc[k], k)}
<1>8. Step \in Nat /\ ProjectionTTL \in Nat
  BY CandidatesAssumption, PlanningAssumption
<1>9. 0 \in G
  <2>1. Upto(0) = {}
    OBVIOUS
  <2>2. P!BaseState(Bucket(b)) \in P!States
    BY BaseStateMeans
  <2>3. Says(acc[0], 0)
    <3> HIDE DEF Upto
    <3> QED
      BY <1>7, <1>8, <2>1, <2>2 DEF FreshRow, Rows
  <2> HIDE DEF Says
  <2> QED
    BY <2>3
<1>10. ASSUME NEW k \in 0 .. n - 1, k \in G PROVE k + 1 \in G
  <2>1. k + 1 \in 1 .. n /\ (k + 1) - 1 = k /\ k \in Nat
    BY <1>2
  <2>2. Says(acc[k], k)
    BY <1>10
  <2>3. acc[k + 1] = Apply(acc[k], seq[k + 1])
    BY <1>7, <2>1
  <2>4. P!Overlap(seq[k + 1], acc[k]) <=> P!Overlap(seq[k + 1], Bucket(b))
    BY <2>2 DEF P!Overlap, Bucket
  <2>5. CASE ~P!Overlap(seq[k + 1], Bucket(b))
    <3>1. Upto(k + 1) = Upto(k)
      BY <2>1, <2>5
    <3>2. acc[k + 1] = acc[k]
      BY <2>3, <2>4, <2>5 DEF Apply
    <3> HIDE DEF Upto
    <3>3. Says(acc[k + 1], k + 1)
      BY <2>2, <3>1, <3>2
    <3> HIDE DEF Says
    <3> QED
      BY <2>1, <3>3
  <2>6. CASE P!Overlap(seq[k + 1], Bucket(b))
    <3>1. Upto(k + 1) = Upto(k) \cup {k + 1} /\ \A i \in Upto(k) : i <= k + 1
      BY <2>1, <2>6
    <3>2. acc[k + 1] = P!Participates(acc[k], seq[k + 1])
      BY <2>3, <2>4, <2>6 DEF Apply
    <3>3. acc[k] \in Rows /\ seq[k + 1].state \in P!States /\ seq[k + 1].expires \in Int
      BY <2>2, <2>1, <1>3, <1>6
    <3>4. /\ acc[k + 1] \in Rows
          /\ acc[k + 1].start = acc[k].start /\ acc[k + 1].end = acc[k].end
          /\ acc[k + 1].generated = acc[k].generated
          /\ acc[k + 1].state = seq[k + 1].state
          /\ acc[k + 1].expires = IF acc[k].expires <= seq[k + 1].expires THEN acc[k].expires
                                  ELSE seq[k + 1].expires
      BY <3>2, <3>3, ExtremesOfTwo DEF P!Participates, Rows
    <3>5. \A i \in Upto(k) : seq[i].expires \in Int
      BY <1>3, <1>6, <2>1
    <3>6. acc[k].expires \in Int
      BY <3>3 DEF Rows
    <3> HIDE DEF Upto
    <3>7. Says(acc[k + 1], k + 1)
      <4>1. /\ acc[k + 1].expires <= t + ProjectionTTL
            /\ \A i \in Upto(k + 1) : acc[k + 1].expires <= seq[i].expires
        BY <1>8, <2>2, <3>1, <3>3, <3>4, <3>5, <3>6
      <4>2. acc[k + 1].expires = t + ProjectionTTL \/ \E i \in Upto(k + 1) : acc[k + 1].expires = seq[i].expires
        BY <2>2, <3>1, <3>4
      <4>3. \E j \in Upto(k + 1) : (\A i \in Upto(k + 1) : i <= j) /\ acc[k + 1].state = seq[j].state
        <5>1. k + 1 \in Upto(k + 1) /\ \A i \in Upto(k + 1) : i <= k + 1
          BY <2>1, <3>1
        <5> QED
          BY <3>4, <5>1
      <4> QED
        BY <2>2, <3>1, <3>4, <4>1, <4>2, <4>3
    <3> HIDE DEF Says
    <3> QED
      BY <2>1, <3>7
  <2> QED
    BY <2>5, <2>6
<1>11. Says(acc[n], n)
  <2>1. 0 .. n \subseteq G
    <3> HIDE DEF G
    <3> QED
      BY <1>2, <1>9, <1>10, InductUpTo
  <2> HIDE DEF Says
  <2> QED
    BY <1>2, <2>1
<1>12. \A i \in 1 .. n : i \in Upto(n) <=> seq[i] \in Over(b, t)
  BY <1>3 DEF Over
<1>13. \A o \in Over(b, t) : \E i \in Upto(n) : seq[i] = o
  BY <1>4 DEF Over
<1> HIDE DEF Upto
<1>14. Upto(n) \subseteq 1 .. n
  BY DEF Upto
<1>15. (Upto(n) = {}) <=> (Over(b, t) = {})
  BY <1>12, <1>13, <1>14
<1>16. ASSUME Upto(n) # {}
       PROVE  \E o \in Over(b, t) : /\ \A p \in Over(b, t) \ {o} : P!Older(p, o)
                                    /\ BucketRow(b, t).state = o.state
  <2>1. PICK j \in Upto(n) : (\A i \in Upto(n) : i <= j) /\ acc[n].state = seq[j].state
    BY <1>11, <1>16
  <2>2. seq[j] \in Over(b, t)
    BY <1>12, <1>14
  <2>3. ASSUME NEW p \in Over(b, t) \ {seq[j]} PROVE P!Older(p, seq[j])
    <3>1. PICK i \in Upto(n) : seq[i] = p
      BY <1>13
    <3>2. i # j /\ i <= j /\ i \in 1 .. n /\ j \in 1 .. n
      BY <2>1, <2>3, <3>1, <1>14
    <3>3. i < j
      BY <3>2
    <3> QED
      BY <1>5, <3>1, <3>2, <3>3
  <2> QED
    BY <1>7, <2>1, <2>2, <2>3
<1>17. \A o \in Over(b, t) : acc[n].expires <= o.expires
  BY <1>11, <1>13
<1>18. acc[n].expires = t + ProjectionTTL \/ \E o \in Over(b, t) : acc[n].expires = o.expires
  BY <1>11, <1>12, <1>14
<1> QED
  BY <1>7, <1>11, <1>15, <1>16, <1>17, <1>18

-----------------------------------------------------------------------------
(* Buckets.                                                                *)

LEMMA StepIsPositive == Step \in Nat /\ Step > 0
BY CandidatesAssumption

LEMMA Division ==
    ASSUME NEW t \in Int
    PROVE  /\ t \div Step \in Int /\ t % Step \in 0 .. Step - 1
           /\ t = Step * (t \div Step) + (t % Step)
BY StepIsPositive

\* A multiple of the step that is less than another is less by a step.
LEMMA MultiplesApart ==
    ASSUME NEW i \in Int, NEW j \in Int, i * Step < j * Step
    PROVE  i < j /\ i * Step + Step <= j * Step
<1>0. Step \in Nat /\ Step > 0
  BY StepIsPositive
<1>1. PICK d \in Int : d = j - i
  OBVIOUS
<1>2. j * Step = i * Step + d * Step
  BY <1>0, <1>1
<1>3. d * Step > 0
  BY <1>0, <1>2
<1>4. d >= 1
  <2> SUFFICES ASSUME d <= 0 PROVE FALSE
    OBVIOUS
  <2>1. d * Step <= 0
    BY <1>0
  <2> QED
    BY <1>0, <1>3, <2>1
<1>5. d * Step >= Step
  BY <1>0, <1>4
<1> QED
  BY <1>0, <1>1, <1>2, <1>4, <1>5

IsMultiple(t) == \E i \in Int : t = i * Step

LEMMA FloorAndCeil ==
    ASSUME NEW t \in Int
    PROVE  /\ P!FloorBucket(t) \in Int /\ IsMultiple(P!FloorBucket(t))
           /\ P!FloorBucket(t) <= t /\ t < P!FloorBucket(t) + Step
           /\ P!CeilBucket(t) \in Int /\ IsMultiple(P!CeilBucket(t))
           /\ t <= P!CeilBucket(t) /\ P!CeilBucket(t) < t + Step
<1>0. Step \in Nat /\ Step > 0
  BY StepIsPositive
<1>1. PICK i \in Int : i = t \div Step
  BY Division
<1>2. P!FloorBucket(t) = i * Step
  BY <1>1 DEF P!FloorBucket
<1>3. i * Step <= t /\ t < i * Step + Step /\ i * Step \in Int
  BY <1>0, <1>1, Division
<1>4. i * Step + Step = (i + 1) * Step
  BY <1>0
<1>5. P!CeilBucket(t) = i * Step \/ P!CeilBucket(t) = (i + 1) * Step
  BY <1>2, <1>4 DEF P!CeilBucket
<1>6. IsMultiple(P!CeilBucket(t)) /\ IsMultiple(P!FloorBucket(t))
  BY <1>2, <1>5 DEF IsMultiple
<1>7. P!CeilBucket(t) = IF i * Step = t THEN t ELSE i * Step + Step
  BY <1>2 DEF P!CeilBucket
<1> QED
  BY <1>0, <1>2, <1>3, <1>6, <1>7

LEMMA MultipleOfStep ==
    ASSUME NEW t \in Int
    PROVE  t % Step = 0 <=> IsMultiple(t)
<1>0. Step \in Nat /\ Step > 0
  BY StepIsPositive
<1>1. ASSUME t % Step = 0 PROVE IsMultiple(t)
  BY <1>0, <1>1, Division DEF IsMultiple
<1>2. ASSUME NEW i \in Int, t = i * Step PROVE t % Step = 0
  BY <1>0, <1>2
<1> QED
  BY <1>1, <1>2 DEF IsMultiple

LEMMA BucketsApart ==
    ASSUME NEW s \in Int, NEW t \in Int, IsMultiple(s), IsMultiple(t), s < t
    PROVE  s + Step <= t
BY MultiplesApart DEF IsMultiple

Buckets == {b \in P!FloorBucket(settings.from) .. P!CeilBucket(settings.to) - 1 : b % Step = 0}

\* The buckets fill the window.
LEMMA BucketsFillWindow ==
    ASSUME P!ValidSettings(settings)
    PROVE  /\ Buckets \in SUBSET Int
           /\ \A b \in Buckets : /\ IsMultiple(b)
                                 /\ P!FloorBucket(settings.from) <= b /\ b + Step <= P!CeilBucket(settings.to)
                                 /\ settings.from < b + Step /\ b < settings.to
           /\ \A b, c \in Buckets : b < c => b + Step <= c
           /\ \A x \in P!FloorBucket(settings.from) .. P!CeilBucket(settings.to) - 1 :
                  P!FloorBucket(x) \in Buckets
<1>0. Step \in Nat /\ Step > 0
  BY StepIsPositive
<1>1. PICK f \in Int, g \in Int : f = settings.from /\ g = settings.to
  BY DEF P!ValidSettings
<1>2. /\ P!FloorBucket(f) \in Int /\ IsMultiple(P!FloorBucket(f))
      /\ P!FloorBucket(f) <= f /\ f < P!FloorBucket(f) + Step
      /\ P!CeilBucket(g) \in Int /\ IsMultiple(P!CeilBucket(g))
      /\ g <= P!CeilBucket(g) /\ P!CeilBucket(g) < g + Step
  BY FloorAndCeil
<1>3. PICK lo \in Int, hi \in Int : lo = P!FloorBucket(f) /\ hi = P!CeilBucket(g)
  BY <1>2
<1>4. Buckets = {b \in lo .. hi - 1 : b % Step = 0}
  BY <1>1, <1>3 DEF Buckets
<1>5. \A b \in Buckets : b \in Int /\ lo <= b /\ b < hi /\ IsMultiple(b)
  BY <1>4, MultipleOfStep
<1>6. \A b \in Buckets : b + Step <= hi
  BY <1>2, <1>3, <1>5, BucketsApart
<1>7. \A b, c \in Buckets : b < c => b + Step <= c
  BY <1>5, BucketsApart
<1>8. \A b \in Buckets : f < b + Step /\ b < g
  BY <1>0, <1>2, <1>3, <1>5, <1>6
<1>9. ASSUME NEW x \in lo .. hi - 1 PROVE P!FloorBucket(x) \in Buckets
  <2>1. /\ P!FloorBucket(x) \in Int /\ IsMultiple(P!FloorBucket(x))
        /\ P!FloorBucket(x) <= x /\ x < P!FloorBucket(x) + Step
    BY FloorAndCeil
  <2>2. lo <= P!FloorBucket(x)
    <3> SUFFICES ASSUME P!FloorBucket(x) < lo PROVE FALSE
      BY <2>1
    <3>1. P!FloorBucket(x) + Step <= lo
      BY <1>2, <1>3, <2>1, BucketsApart
    <3> QED
      BY <1>0, <2>1, <3>1
  <2>3. P!FloorBucket(x) % Step = 0
    BY <2>1, MultipleOfStep
  <2> QED
    BY <1>4, <2>1, <2>2, <2>3
<1> QED
  BY <1>1, <1>3, <1>5, <1>6, <1>7, <1>8, <1>9

-----------------------------------------------------------------------------
(* The rows of one rebuild.                                                *)

LEMMA GenerateIs ==
    ASSUME NEW t
    PROVE  P!Generate(t) = {BucketRow(b, t) : b \in Buckets}
BY Zenon DEF P!Generate, BucketRow, Apply, FreshRow, Bucket, Buckets

\* The row of a bucket in a rebuild at time t, as it is published.
Published(row) ==
    IF settings.source.managed
    THEN [row EXCEPT !.expires = P!Min({@, settings.source.observed + SourceMaxAge})]
    ELSE row
InSource(row) == settings.source.managed => settings.source.from <= row.start /\ row.end <= settings.source.to

LEMMA BoundToSourceIs ==
    ASSUME P!ValidSettings(settings), NEW S
    PROVE  P!BoundToSource(S) = {Published(r) : r \in {r \in S : InSource(r)}}
BY DEF P!BoundToSource, Published, InSource, P!ValidSettings

LEMMA PublishedIs ==
    ASSUME P!ValidSettings(settings), NEW row \in Rows
    PROVE  /\ Published(row) \in Rows
           /\ Published(row).start = row.start /\ Published(row).end = row.end
           /\ Published(row).state = row.state /\ Published(row).generated = row.generated
           /\ Published(row).expires =
                  IF settings.source.managed /\ ~(row.expires <= settings.source.observed + SourceMaxAge)
                  THEN settings.source.observed + SourceMaxAge ELSE row.expires
<1>1. settings.source.observed \in Int /\ settings.source.managed \in BOOLEAN
  BY DEF P!ValidSettings
<1>2. SourceMaxAge \in Nat
  BY CandidatesAssumption
<1>3. PICK x \in Int : x = settings.source.observed + SourceMaxAge
  BY <1>1, <1>2
<1>4. row.expires \in Int
  BY DEF Rows
<1>5. P!Min({row.expires, x}) = IF row.expires <= x THEN row.expires ELSE x
  BY <1>3, <1>4, ExtremesOfTwo
<1> QED
  BY <1>1, <1>3, <1>4, <1>5 DEF Published, Rows

\* The row of bucket b.
RowOf(b, t) == Published(BucketRow(b, t))

LEMMA RebuiltRows ==
    ASSUME P!ValidSettings(settings), NEW t \in Int
    PROVE  P!BoundToSource(P!Generate(t)) = {RowOf(b, t) : b \in {b \in Buckets : InSource(Bucket(b))}}
<1>1. P!BoundToSource(P!Generate(t)) = {Published(r) : r \in {r \in {BucketRow(b, t) : b \in Buckets} : InSource(r)}}
  BY GenerateIs, BoundToSourceIs
<1>2. \A b \in Buckets : InSource(BucketRow(b, t)) <=> InSource(Bucket(b))
  <2> TAKE b \in Buckets
  <2>1. b \in Int
    BY BucketsFillWindow
  <2>2. BucketRow(b, t).start = b /\ BucketRow(b, t).end = b + Step
    BY <2>1, BucketRowSays
  <2> QED
    BY <2>2 DEF InSource, Bucket
<1> QED
  BY <1>1, <1>2 DEF RowOf

LEMMA RowOfSays ==
    ASSUME P!ValidSettings(settings), NEW t \in Int, NEW b \in Buckets
    PROVE  /\ RowOf(b, t) \in Rows
           /\ RowOf(b, t).start = b /\ RowOf(b, t).end = b + Step /\ RowOf(b, t).generated = t
           /\ RowOf(b, t).state = BucketRow(b, t).state
           /\ RowOf(b, t).expires <= BucketRow(b, t).expires
           /\ settings.source.managed => RowOf(b, t).expires <= settings.source.observed + SourceMaxAge
           /\ \/ RowOf(b, t).expires = BucketRow(b, t).expires
              \/ settings.source.managed /\ RowOf(b, t).expires = settings.source.observed + SourceMaxAge
<1>1. b \in Int
  BY BucketsFillWindow
<1>2. PICK row \in Rows : /\ row = BucketRow(b, t)
                          /\ row.start = b /\ row.end = b + Step /\ row.generated = t
  BY <1>1, BucketRowSays
<1>3. RowOf(b, t) = Published(row)
  BY <1>2 DEF RowOf
<1>4. row.expires \in Int /\ settings.source.observed \in Int /\ SourceMaxAge \in Nat
  BY CandidatesAssumption DEF Rows, P!ValidSettings
<1>5. /\ Published(row) \in Rows
      /\ Published(row).start = row.start /\ Published(row).end = row.end
      /\ Published(row).state = row.state /\ Published(row).generated = row.generated
      /\ Published(row).expires =
             IF settings.source.managed /\ ~(row.expires <= settings.source.observed + SourceMaxAge)
             THEN settings.source.observed + SourceMaxAge ELSE row.expires
  BY PublishedIs
<1> QED
  BY <1>2, <1>3, <1>4, <1>5

-----------------------------------------------------------------------------
(* What a row says is what the settings say.                               *)

\* Working hours are meant as they are computed.
LEMMA HoursMean ==
    ASSUME P!ValidSettings(settings), NEW b \in Buckets
    PROVE  P!InsideWorkingHours(Bucket(b)) <=>
               ~ \E x \in b .. (b + Step) - 1 : \A w \in settings.windows :
                     w.day # settings.zone[x].day \/ settings.zone[x].minute \notin w.from .. w.to - 1
<1>1. b \in Int /\ Step \in Nat
  BY BucketsFillWindow, StepIsPositive
<1>2. PICK lo \in Int, hi \in Int : lo = P!FloorBucket(settings.from) /\ hi = P!CeilBucket(settings.to)
  BY FloorAndCeil DEF P!ValidSettings
<1>3. \A x \in b .. (b + Step) - 1 : x \in lo .. hi - 1
  BY <1>1, <1>2, BucketsFillWindow
<1>4. \A x \in b .. (b + Step) - 1 : settings.zone[x].minute \in Nat
  BY <1>2, <1>3 DEF P!ValidSettings
<1>5. \A w \in settings.windows : w.from \in Nat /\ w.to \in Nat
  BY DEF P!ValidSettings, P!ValidPolicy, P!ValidWindow
<1>6. \A x \in b .. (b + Step) - 1 : \A w \in settings.windows :
          (w.from <= settings.zone[x].minute /\ settings.zone[x].minute < w.to) <=>
              settings.zone[x].minute \in w.from .. w.to - 1
  BY <1>4, <1>5
<1>7. P!InsideWorkingHours(Bucket(b)) <=>
          \A x \in b .. (b + Step) - 1 : \E w \in settings.windows :
              w.day = settings.zone[x].day /\ w.from <= settings.zone[x].minute /\ settings.zone[x].minute < w.to
  <2>1. b .. (b + Step) - 1 = Bucket(b).start .. Bucket(b).end - 1
    <3>1. Bucket(b).start = b /\ Bucket(b).end = b + Step
      BY DEF Bucket
    <3> QED
      BY <3>1, Zenon
  <2>2. P!InsideWorkingHours(Bucket(b)) <=>
          \A x \in Bucket(b).start .. Bucket(b).end - 1 : \E w \in settings.windows :
              w.day = settings.zone[x].day /\ w.from <= settings.zone[x].minute /\ settings.zone[x].minute < w.to
    BY Zenon DEF P!InsideWorkingHours
  <2> QED
    BY <2>1, <2>2, Zenon
<1> QED
  BY <1>6, <1>7

\* Where no override is in force.
LEMMA BaseMeans ==
    ASSUME P!ValidSettings(settings), NEW b \in Buckets, NEW t, NEW F,
           F = {o \in settings.overrides : o.expires > t /\ P!Overlap(o, Bucket(b))}, F = {}
    PROVE  P!Meaning(Bucket(b), t) = P!BaseState(Bucket(b))
<1> DEFINE outside == \E x \in b .. (b + Step) - 1 : \A w \in settings.windows :
                     w.day # settings.zone[x].day \/ settings.zone[x].minute \notin w.from .. w.to - 1
           states == {settings.default} \cup
                         {P!Foremost(e) : e \in {e \in settings.events : P!Overlap(e, Bucket(b))}}
<1>1. P!Meaning(Bucket(b), t) = IF outside THEN P!ClosedState ELSE [d \in P!Dimensions |-> P!Max({s[d] : s \in states})]
  <2>1. b .. (b + Step) - 1 = Bucket(b).start .. Bucket(b).end - 1
    <3>1. Bucket(b).start = b /\ Bucket(b).end = b + Step
      BY DEF Bucket
    <3> QED
      BY <3>1, Zenon
  <2>2. P!Meaning(Bucket(b), t) =
            IF \E x \in Bucket(b).start .. Bucket(b).end - 1 : \A w \in settings.windows :
                     w.day # settings.zone[x].day \/ settings.zone[x].minute \notin w.from .. w.to - 1
            THEN P!ClosedState ELSE [d \in P!Dimensions |-> P!Max({s[d] : s \in states})]
    <3>1. ~({o \in settings.overrides : o.expires > t /\ P!Overlap(o, Bucket(b))} # {})
      OBVIOUS
    <3> QED
      BY <3>1, Zenon DEF P!Meaning
  <2> QED
    BY <2>1, <2>2, Zenon
<1>2. [d \in P!Dimensions |-> P!Max({s[d] : s \in states})] = MostClosed(states)
  <2> HIDE DEF states
  <2>1. \A d \in P!Dimensions : P!Max({s[d] : s \in states}) = Max({s[d] : s \in states})
    BY SameExtremes
  <2> QED
    BY <2>1 DEF MostClosed
<1>3. P!InsideWorkingHours(Bucket(b)) <=> ~outside
  BY HoursMean
<1>4. P!BaseState(Bucket(b)) = IF P!InsideWorkingHours(Bucket(b)) THEN MostClosed(states) ELSE P!ClosedState
  BY BaseStateMeans
<1> HIDE DEF outside, states
<1> QED
  BY <1>1, <1>2, <1>3, <1>4

\* Where one is, the newest decides.
LEMMA OverrideMeans ==
    ASSUME P!ValidSettings(settings), NEW bucket, NEW t, NEW F,
           F = {o \in settings.overrides : o.expires > t /\ P!Overlap(o, bucket)},
           NEW o \in F, \A p \in F \ {o} : P!Older(p, o)
    PROVE  P!Meaning(bucket, t) = o.state
<1>1. \A p \in F : p.created \in Int /\ p.id \in Int
  BY DEF P!ValidSettings, P!ValidOverride
<1>2. ASSUME NEW p \in F, \A q \in F \ {p} : P!Older(q, p) PROVE p = o
  <2> SUFFICES ASSUME p # o PROVE FALSE
    OBVIOUS
  <2>1. P!Older(p, o) /\ P!Older(o, p)
    BY <1>2
  <2> QED
    BY <1>1, <2>1 DEF P!Older
<1>3. (CHOOSE p \in F : \A q \in F \ {p} : P!Older(q, p)) = o
  BY <1>2
<1>4. P!Meaning(bucket, t) = (CHOOSE p \in F : \A q \in F \ {p} : P!Older(q, p)).state
  BY DEF P!Meaning, P!Older
<1> QED
  BY <1>3, <1>4

\* A row that has neither begun nor expired rests on the overrides that are in force.
LEMMA RowMeans ==
    ASSUME P!ValidSettings(settings), NEW t \in Int, NEW now_ \in Int, t <= now_,
           NEW b \in Buckets, now_ <= b, now_ < BucketRow(b, t).expires
    PROVE  P!Meaning(Bucket(b), now_) = BucketRow(b, t).state
<1> DEFINE F == {o \in settings.overrides : o.expires > now_ /\ P!Overlap(o, Bucket(b))}
<1>1. b \in Int /\ Step \in Nat
  BY BucketsFillWindow, StepIsPositive
<1>2. BucketRow(b, t).expires \in Int
  BY <1>1, BucketRowSays DEF Rows
<1>3. \A o \in settings.overrides : o.expires \in Int /\ o.start \in Int /\ o.end \in Int
  BY DEF P!ValidSettings, P!ValidOverride
<1>4. F \subseteq Over(b, t)
  BY <1>1, <1>3 DEF Over, Active, P!Overlap, Bucket
<1>5. Over(b, t) \subseteq F
  <2> SUFFICES ASSUME NEW o \in Over(b, t) PROVE o \in F
    OBVIOUS
  <2>1. BucketRow(b, t).expires <= o.expires
    BY <1>1, BucketRowSays
  <2>2. o \in settings.overrides /\ P!Overlap(o, Bucket(b))
    BY DEF Over, Active
  <2> QED
    BY <1>2, <1>3, <2>1, <2>2
<1>6. F = Over(b, t)
  BY <1>4, <1>5
<1>7. CASE F = {}
  <2>1. PICK S : S = F
    OBVIOUS
  <2>2. P!Meaning(Bucket(b), now_) = P!BaseState(Bucket(b))
    BY <1>7, <2>1, BaseMeans
  <2> HIDE DEF F
  <2> QED
    BY <1>1, <1>6, <1>7, <2>2, BucketRowSays
<1>8. CASE F # {}
  <2>1. PICK o \in Over(b, t) : /\ \A p \in Over(b, t) \ {o} : P!Older(p, o)
                                /\ BucketRow(b, t).state = o.state
    BY <1>1, <1>6, <1>8, BucketRowSays
  <2>2. PICK S : S = F
    OBVIOUS
  <2>3. o \in S /\ \A p \in S \ {o} : P!Older(p, o)
    BY <1>6, <2>1, <2>2
  <2>4. P!Meaning(Bucket(b), now_) = o.state
    BY <2>2, <2>3, OverrideMeans
  <2> QED
    BY <2>1, <2>4
<1> QED
  BY <1>7, <1>8

-----------------------------------------------------------------------------
(* The invariant about rows: they are those of one rebuild.                *)

Rebuilt(t) == P!BoundToSource(P!Generate(t))

RowsOfOneRebuild ==
    /\ case \in Cases /\ settings = case.settings /\ clock \in Int
    /\ settings # None => rows = {} \/ \E t \in Int : t <= clock /\ rows = Rebuilt(t)

LEMMA SettingsAreValid ==
    ASSUME RowsOfOneRebuild, settings # None
    PROVE  P!ValidSettings(settings)
BY CasesAssumption DEF RowsOfOneRebuild

\* What a rebuild yields depends on the settings and the time alone.
LEMMA SameSettingsSameRows ==
    ASSUME settings' = settings, NEW CONSTANT t
    PROVE  Rebuilt(t)' = Rebuilt(t)
BY DEF Rebuilt, P!BoundToSource, P!Generate, P!ActiveOverrides, P!BaseState, P!InsideWorkingHours,
       P!StateForEvent, P!FoldLeft, P!FoldSet, P!MapThenFoldSet, P!RuleRank, P!FallbackState

LEMMA InitRowsOfOneRebuild ==
    ASSUME Init
    PROVE  RowsOfOneRebuild
BY CasesAssumption DEF Init, RowsOfOneRebuild

LEMMA NextRowsOfOneRebuild ==
    ASSUME RowsOfOneRebuild, [Next]_vars
    PROVE  RowsOfOneRebuild'
<1> USE DEF RowsOfOneRebuild
<1>1. CASE UNCHANGED <<case, settings, rows>> /\ clock <= clock' /\ clock' \in Int
  <2>1. ASSUME NEW t \in Int PROVE Rebuilt(t)' = Rebuilt(t)
    BY <1>1, SameSettingsSameRows
  <2>2. case' = case /\ settings' = settings /\ rows' = rows
    BY <1>1
  <2>3. ASSUME settings # None, rows # {} PROVE \E t \in Int : t <= clock' /\ rows' = Rebuilt(t)'
    <3>1. PICK t \in Int : t <= clock /\ rows = Rebuilt(t)
      BY <2>3
    <3> QED
      BY <1>1, <2>1, <2>2, <3>1
  <2> QED
    BY <1>1, <2>2, <2>3
<1>2. CASE Rebuild
  <2>1. settings' = settings /\ clock' = clock /\ case' = case /\ rows' = Rebuilt(clock)
    BY <1>2 DEF Rebuild, P!Rebuild, Rebuilt
  <2>2. PICK t \in Int : t = clock
    OBVIOUS
  <2>3. Rebuilt(t)' = Rebuilt(t)
    BY <2>1, SameSettingsSameRows
  <2>4. t <= clock' /\ rows' = Rebuilt(t)'
    BY <2>1, <2>2, <2>3
  <2> QED
    BY <2>1, <2>4
<1>3. CASE Tick
  BY <1>1, <1>3 DEF Tick
<1>4. CASE Receive /\ UNCHANGED settings
  BY <1>1, <1>4 DEF Receive
<1>5. CASE ReadRows /\ UNCHANGED settings
  BY <1>1, <1>5 DEF ReadRows
<1>6. CASE ReadReservations /\ UNCHANGED settings
  BY <1>1, <1>6 DEF ReadReservations
<1>7. CASE ReadCalendar /\ UNCHANGED settings
  BY <1>1, <1>7 DEF ReadCalendar
<1>8. CASE Plan /\ UNCHANGED settings
  BY <1>1, <1>8 DEF Plan
<1>9. CASE UNCHANGED vars
  BY <1>1, <1>9 DEF vars
<1> QED
  BY <1>2, <1>3, <1>4, <1>5, <1>6, <1>7, <1>8, <1>9 DEF Next

\* The rows are those of one rebuild, at a time that has come: no reader sees rows of two
\* rebuilds beside each other (Rebuilder, ReplaceProjections).
THEOREM RowsComeTogether == Spec => []RowsOfOneRebuild
<1>1. Init => RowsOfOneRebuild
  BY InitRowsOfOneRebuild
<1>2. RowsOfOneRebuild /\ [Next]_vars => RowsOfOneRebuild'
  BY NextRowsOfOneRebuild
<1> QED
  BY <1>1, <1>2, PTL DEF Spec

\* A row of a rebuild that has neither begun nor expired is as true as it was then.
LEMMA RowsSayTheSettings ==
    ASSUME P!ValidSettings(settings), NEW t \in Int, NEW c \in Int, t <= c,
           NEW r \in Rebuilt(t), r.start >= c, c < r.expires
    PROVE  /\ r.state = P!Meaning(r, c)
           /\ settings.source.managed => c < settings.source.observed + SourceMaxAge
<1>1. PICK b \in Buckets : r = RowOf(b, t)
  BY RebuiltRows DEF Rebuilt
<1>2. /\ r \in Rows /\ r.start = b /\ r.end = b + Step
      /\ r.state = BucketRow(b, t).state /\ r.expires <= BucketRow(b, t).expires
      /\ settings.source.managed => r.expires <= settings.source.observed + SourceMaxAge
  BY <1>1, RowOfSays
<1>3. /\ r.expires \in Int /\ BucketRow(b, t).expires \in Int /\ b \in Int
      /\ settings.source.observed \in Int /\ SourceMaxAge \in Nat
  BY <1>2, BucketsFillWindow, BucketRowSays, CandidatesAssumption DEF Rows, P!ValidSettings
<1>4. P!Meaning(Bucket(b), c) = r.state
  <2>1. c <= b /\ c < BucketRow(b, t).expires
    BY <1>2, <1>3
  <2> QED
    BY <1>2, <2>1, RowMeans
<1>5. P!Meaning(r, c) = P!Meaning(Bucket(b), c)
  <2>1. r.start = Bucket(b).start /\ r.end = Bucket(b).end
    BY <1>2 DEF Bucket
  <2> QED
    BY <2>1 DEF P!Meaning, P!Overlap
<1> QED
  BY <1>2, <1>3, <1>4, <1>5

\* A row that has neither expired nor begun says what the settings say at this time, not
\* only when it was computed: for any rules, events and overrides that Validate lets in,
\* any wall clock, bucket size and lifetime (Engine.Generate, stateForEvent, BoundToSource).
THEOREM RowsAreTrue == Spec => []RowsStayTrue
<1>1. RowsOfOneRebuild => RowsStayTrue
  <2> SUFFICES ASSUME RowsOfOneRebuild, settings # None,
                      NEW r \in rows, r.start >= clock, clock < r.expires
               PROVE  /\ r.state = P!Meaning(r, clock)
                      /\ settings.source.managed => clock < settings.source.observed + SourceMaxAge
    BY DEF RowsStayTrue, P!RowsStayTrue
  <2>1. PICK t \in Int : t <= clock /\ rows = Rebuilt(t)
    BY DEF RowsOfOneRebuild
  <2> QED
    BY <2>1, SettingsAreValid, RowsSayTheSettings DEF RowsOfOneRebuild
<1> QED
  BY <1>1, RowsComeTogether, PTL

-----------------------------------------------------------------------------
(* The view.                                                               *)

\* Replacing the last element of a sequence.
ReplacesLast(r, s, e) ==
    /\ Len(r) = Len(s) /\ Len(s) \in Nat \ {0}
    /\ \A i \in 1 .. Len(s) - 1 : r[i] = s[i]
    /\ r[Len(s)] = e

LEMMA ReplaceLast ==
    ASSUME NEW S, NEW s \in Seq(S), s # <<>>, NEW e \in S, NEW r, r = Append(Front(s), e)
    PROVE  r \in Seq(S) /\ ReplacesLast(r, s, e)
<1>1. Len(s) \in Nat \ {0}
  OBVIOUS
<1>2. PICK f : f = SubSeq(s, 1, Len(s) - 1)
  OBVIOUS
<1>3. f \in Seq(S) /\ Len(f) = Len(s) - 1 /\ \A i \in 1 .. Len(s) - 1 : f[i] = s[i]
  <2>1. PICK n \in Nat : n = Len(s) - 1
    BY <1>1
  <2>2. f = [i \in 1 .. n |-> s[i]]
    BY <1>2, <2>1
  <2>3. \A i \in 1 .. n : s[i] \in S
    BY <1>1, <2>1
  <2> QED
    BY <2>1, <2>2, <2>3
<1>4. Append(f, e) \in Seq(S) /\ Len(Append(f, e)) = Len(s)
  BY <1>1, <1>3
<1>5. (\A i \in 1 .. Len(s) - 1 : Append(f, e)[i] = s[i]) /\ Append(f, e)[Len(s)] = e
  BY <1>1, <1>3
<1>6. r = Append(f, e)
  BY <1>2 DEF Front
<1> QED
  BY <1>1, <1>4, <1>5, <1>6 DEF ReplacesLast

LEMMA LastOf ==
    ASSUME NEW S, NEW s \in Seq(S), s # <<>>
    PROVE  /\ Len(s) \in Nat \ {0} /\ s[Len(s)] \in S
           /\ Last(s) = s[Len(s)] /\ P!Last(s) = s[Len(s)] /\ P!Front(s) = Front(s)
<1>1. Len(s) \in Nat \ {0} /\ s[Len(s)] \in S
  OBVIOUS
<1> QED
  BY <1>1 DEF Last, P!Last, Front, P!Front

Segments == [start : Int, end : Int, state : P!States, response : {"within_window", "unknown"}]
AddRow(segments, row) ==
    LET next == P!Segment(row)
    IN  IF segments # <<>> /\ P!Joins(P!Last(segments), next)
        THEN Append(P!Front(segments), [P!Last(segments) EXCEPT !.end = next.end])
        ELSE Append(segments, next)

ByStart(V) == P!InOrder(V, {p \in V \X V : p[1].start < p[2].start})

LEMMA SegmentsAreTyped ==
    ASSUME NEW row \in Rows
    PROVE  P!Segment(row) \in Segments
BY DEF Rows, Segments, P!Segment, P!ResponseBucket

LEMMA AddRowTyped ==
    ASSUME NEW s \in Seq(Segments), NEW row \in Rows
    PROVE  AddRow(s, row) \in Seq(Segments)
<1>1. P!Segment(row) \in Segments
  BY SegmentsAreTyped
<1>2. CASE s # <<>> /\ P!Joins(P!Last(s), P!Segment(row))
  <2>1. P!Last(s) = Last(s) /\ P!Front(s) = Front(s) /\ Last(s) \in Segments
    BY <1>2, <1>1, LastOf
  <2>2. PICK e \in Segments : e = [Last(s) EXCEPT !.end = P!Segment(row).end]
    BY <1>1, <2>1 DEF Segments
  <2>3. AddRow(s, row) = Append(Front(s), e)
    BY <1>2, <2>1, <2>2 DEF AddRow
  <2> QED
    BY <1>2, <2>3, ReplaceLast
<1>3. CASE ~(s # <<>> /\ P!Joins(P!Last(s), P!Segment(row)))
  BY <1>1, <1>3 DEF AddRow
<1> QED
  BY <1>2, <1>3

LEMMA RowsInTurn ==
    ASSUME NEW V, NEW n \in Nat, ByStart(V) \in Seq(Rows), n = Len(ByStart(V))
    PROVE  \E acc : /\ acc[0] = <<>>
                    /\ \A k \in 1 .. n : acc[k] = AddRow(acc[k - 1], ByStart(V)[k])
                    /\ P!NewView(V) = acc[n]
<1> DEFINE seq == ByStart(V)
<1>1. DOMAIN seq = 1 .. n
  OBVIOUS
<1>2. PICK Acc : Acc = Seq(Segments)
  OBVIOUS
<1>3. PICK step : step = [p \in (1 .. n) \X Acc |-> AddRow(p[2], seq[p[1]])]
  OBVIOUS
<1>4. RecursiveOver(n, Acc, <<>>, step)
  <2>1. \A i \in 1 .. n : seq[i] \in Rows
    OBVIOUS
  <2>2. <<>> \in Acc
    BY <1>2
  <2> HIDE DEF seq
  <2>3. ASSUME NEW p \in (1 .. n) \X Acc PROVE AddRow(p[2], seq[p[1]]) \in Acc
    BY <1>2, <2>1, AddRowTyped
  <2> QED
    BY <1>3, <2>2, <2>3 DEF RecursiveOver
<1>5. PICK it : IteratesOver(it, n, Acc, <<>>, step)
  BY <1>4, RecursionOverPlaces
<1> DEFINE Is(f) == f = [s \in SUBSET DOMAIN seq |->
                             IF s = {} THEN <<>> ELSE AddRow(f[s \ {Max(s)}], seq[Max(s)])]
<1>6. Is(it)
  <2>1. \A s \in SUBSET (1 .. n) : s # {} => Max(s) \in 1 .. n /\ it[s \ {Max(s)}] \in Acc
    BY <1>5, MaxOfPlaces DEF IteratesOver
  <2>2. \A s \in SUBSET (1 .. n) : s # {} =>
            step[<<Max(s), it[s \ {Max(s)}]>>] = AddRow(it[s \ {Max(s)}], seq[Max(s)])
    BY <2>1, <1>3
  <2> HIDE DEF seq
  <2> QED
    BY <1>1, <1>5, <2>2 DEF IteratesOver
<1>7. PICK f : Is(f) /\ P!NewView(V) = f[DOMAIN seq]
  <2>1. P!NewView(V) = (CHOOSE f : Is(f))[DOMAIN seq]
    BY Zenon DEF ByStart, P!NewView, AddRow, P!FoldLeft, P!MapThenFoldSet, P!Max, Max
  <2> HIDE DEF Is
  <2> QED
    BY <1>6, <2>1, Zenon
<1> HIDE DEF seq
<1>8. PICK acc : acc = [k \in 0 .. n |-> f[1 .. k]]
  OBVIOUS
<1>9. acc[0] = <<>> /\ P!NewView(V) = acc[n]
  BY <1>1, <1>7, <1>8
<1>10. ASSUME NEW k \in 1 .. n PROVE acc[k] = AddRow(acc[k - 1], seq[k])
  <2>1. Max(1 .. k) = k /\ (1 .. k) \ {Max(1 .. k)} = 1 .. k - 1 /\ k \in 1 .. k
    BY MaxOfInterval
  <2>2. 1 .. k \in SUBSET (1 .. n)
    OBVIOUS
  <2>3. 1 .. k # {} /\ k - 1 \in 0 .. n /\ k \in 0 .. n
    <3>1. k \in 1 .. n /\ n \in Nat
      OBVIOUS
    <3>2. k \in Int /\ 1 <= k /\ k <= n
      BY <3>1
    <3>3. k - 1 \in 0 .. n /\ k \in 0 .. n /\ k \in 1 .. k
      BY <3>1, <3>2
    <3> QED
      BY <3>3
  <2> QED
    BY <1>1, <1>7, <1>8, <2>1, <2>2, <2>3
<1> QED
  BY <1>9, <1>10 DEF seq

\* What a sequence of segments shows, that it is cut only where something changes, and
\* that its segments are not empty.
Shown(s, x, v) == \E i \in 1 .. Len(s) : s[i].start <= x /\ x < s[i].end /\ s[i].state = v
Cut(s) ==
    \A i \in 1 .. Len(s) - 1 :
        s[i].end <= s[i + 1].start /\ (s[i].end = s[i + 1].start => s[i].state # s[i + 1].state)
Whole(s) == \A i \in 1 .. Len(s) : s[i].start < s[i].end /\ s[i].response = P!ResponseBucket(s[i].state)
Shows(row, x, v) == row.start <= x /\ x < row.end /\ row.state = v

\* A row that joins the last segment.
LEMMA RowJoins ==
    ASSUME NEW s \in Seq(Segments), NEW row \in Rows, Whole(s), Cut(s), row.start < row.end,
           s # <<>>, P!Joins(P!Last(s), P!Segment(row)), NEW r, r = AddRow(s, row)
    PROVE  /\ r \in Seq(Segments) /\ r # <<>> /\ Whole(r) /\ Cut(r) /\ r[Len(r)].end = row.end
           /\ \A x \in Int, v \in P!States : Shown(r, x, v) <=> Shown(s, x, v) \/ Shows(row, x, v)
<1>1. PICK n : n = Len(s)
  OBVIOUS
<1>2. PICK e : e = [s[n] EXCEPT !.end = row.end]
  OBVIOUS
<1>3. /\ n \in Nat \ {0} /\ s[n] \in Segments
      /\ s[n].end = row.start /\ s[n].state = row.state /\ s[n].start < s[n].end
  <2>1. n \in Nat \ {0} /\ s[n] \in Segments /\ P!Last(s) = s[n]
    BY <1>1, LastOf
  <2>2. s[n].end = P!Segment(row).start /\ s[n].state = P!Segment(row).state
    BY <2>1 DEF P!Joins
  <2> QED
    BY <1>1, <2>1, <2>2 DEF P!Segment, Whole
<1>4. /\ e \in Segments /\ e.start = s[n].start /\ e.end = row.end /\ e.state = s[n].state
      /\ e.response = s[n].response
  BY <1>2, <1>3 DEF Segments, Rows
<1>5. r = Append(Front(s), e)
  <2>1. P!Last(s) = s[n] /\ P!Front(s) = Front(s)
    BY <1>1, LastOf
  <2>2. P!Segment(row).end = row.end
    BY DEF P!Segment
  <2> QED
    BY <1>2, <2>1, <2>2 DEF AddRow
<1>6. /\ r \in Seq(Segments) /\ Len(r) = n
      /\ \A i \in 1 .. n - 1 : r[i] = s[i]
      /\ r[n] = e
  <2>1. e \in Segments
    BY <1>4
  <2>2. r \in Seq(Segments) /\ ReplacesLast(r, s, e)
    BY <1>5, <2>1, ReplaceLast
  <2> QED
    BY <1>1, <2>2 DEF ReplacesLast
<1>7. \A i \in 1 .. n : s[i] \in Segments
  BY <1>1
<1>8. \A i \in 1 .. n : i \in 1 .. n - 1 \/ i = n
  BY <1>3
<1>9. Whole(r)
  <2>1. e.start < e.end
    BY <1>3, <1>4 DEF Segments, Rows
  <2> QED
    BY <1>1, <1>3, <1>4, <1>6, <1>8, <2>1 DEF Whole
<1>10. Cut(r)
  <2> SUFFICES ASSUME NEW i \in 1 .. n - 1
               PROVE  r[i].end <= r[i + 1].start /\ (r[i].end = r[i + 1].start => r[i].state # r[i + 1].state)
    BY <1>6 DEF Cut
  <2>1. r[i] = s[i] /\ i + 1 \in 1 .. n
    BY <1>3, <1>6
  <2>2. r[i + 1].start = s[i + 1].start /\ r[i + 1].state = s[i + 1].state
    BY <1>4, <1>6, <1>8, <2>1
  <2> QED
    BY <1>1, <2>1, <2>2 DEF Cut
<1>11. ASSUME NEW x \in Int, NEW v \in P!States
       PROVE  Shown(r, x, v) <=> Shown(s, x, v) \/ Shows(row, x, v)
  <2>1. e.start <= x /\ x < e.end <=> (s[n].start <= x /\ x < s[n].end) \/ (row.start <= x /\ x < row.end)
    BY <1>3, <1>4 DEF Segments, Rows
  <2>2. Shown(r, x, v) <=> (\E i \in 1 .. n - 1 : Shows(s[i], x, v)) \/ Shows(e, x, v)
    <3>1. Shown(r, x, v) <=> \E i \in 1 .. n : Shows(r[i], x, v)
      BY <1>6 DEF Shown, Shows
    <3> QED
      BY <1>3, <1>6, <1>8, <3>1
  <2>3. Shown(s, x, v) <=> (\E i \in 1 .. n - 1 : Shows(s[i], x, v)) \/ Shows(s[n], x, v)
    BY <1>1, <1>3, <1>8 DEF Shown, Shows
  <2> QED
    BY <1>3, <1>4, <2>1, <2>2, <2>3 DEF Shows
<1> QED
  BY <1>3, <1>4, <1>6, <1>9, <1>10, <1>11

\* A row that begins a segment of its own.
LEMMA RowFollows ==
    ASSUME NEW s \in Seq(Segments), NEW row \in Rows, Whole(s), Cut(s), row.start < row.end,
           s # <<>> => s[Len(s)].end <= row.start /\ ~P!Joins(P!Last(s), P!Segment(row)),
           NEW r, r = AddRow(s, row)
    PROVE  /\ r \in Seq(Segments) /\ r # <<>> /\ Whole(r) /\ Cut(r) /\ r[Len(r)].end = row.end
           /\ \A x \in Int, v \in P!States : Shown(r, x, v) <=> Shown(s, x, v) \/ Shows(row, x, v)
<1>1. PICK n \in Nat : n = Len(s)
  OBVIOUS
<1>2. PICK e : e = P!Segment(row)
  OBVIOUS
<1>3. /\ e \in Segments /\ e.start = row.start /\ e.end = row.end /\ e.state = row.state
      /\ e.response = P!ResponseBucket(row.state)
  BY <1>2, SegmentsAreTyped DEF P!Segment
<1>4. r = Append(s, e)
  BY <1>2 DEF AddRow
<1>5. r \in Seq(Segments) /\ Len(r) = n + 1 /\ (\A i \in 1 .. n : r[i] = s[i]) /\ r[n + 1] = e
  BY <1>1, <1>3, <1>4
<1>6. \A i \in 1 .. n + 1 : i \in 1 .. n \/ i = n + 1
  BY <1>1
<1>7. n # 0 => s[n].state # row.state \/ s[n].end # row.start
  <2> HAVE n # 0
  <2>1. s # <<>> /\ P!Last(s) = s[n] /\ n \in 1 .. n
    <3>1. s # <<>>
      BY <1>1
    <3> QED
      BY <1>1, <3>1, LastOf
  <2>2. s[n].response = P!ResponseBucket(s[n].state)
    BY <1>1, <2>1 DEF Whole
  <2> QED
    BY <1>2, <1>3, <2>1, <2>2 DEF P!Joins
<1>8. Whole(r)
  BY <1>1, <1>3, <1>5, <1>6 DEF Whole
<1>9. Cut(r)
  <2> SUFFICES ASSUME NEW i \in 1 .. n
               PROVE  r[i].end <= r[i + 1].start /\ (r[i].end = r[i + 1].start => r[i].state # r[i + 1].state)
    BY <1>1, <1>5 DEF Cut
  <2>1. CASE i = n
    <3>1. s # <<>> /\ n # 0 /\ r[i] = s[n] /\ r[i + 1] = e
      BY <1>1, <1>5, <2>1
    <3> QED
      BY <1>1, <1>3, <1>7, <3>1
  <2>2. CASE i # n
    <3>1. i \in 1 .. n - 1 /\ i + 1 \in 1 .. n
      BY <1>1, <2>2
    <3> QED
      BY <1>1, <1>5, <3>1 DEF Cut
  <2> QED
    BY <2>1, <2>2
<1>10. ASSUME NEW x \in Int, NEW v \in P!States
       PROVE  Shown(r, x, v) <=> Shown(s, x, v) \/ Shows(row, x, v)
  <2>1. Shown(r, x, v) <=> (\E i \in 1 .. n : Shows(s[i], x, v)) \/ Shows(e, x, v)
    BY <1>1, <1>5, <1>6 DEF Shown, Shows
  <2>2. Shown(s, x, v) <=> \E i \in 1 .. n : Shows(s[i], x, v)
    BY <1>1 DEF Shown, Shows
  <2> QED
    BY <1>3, <2>1, <2>2 DEF Shows
<1> QED
  BY <1>1, <1>3, <1>5, <1>8, <1>9, <1>10

\* The rows in their order, one by one.
LEMMA ViewOfRows ==
    ASSUME NEW V, IsFiniteSet(V), V \in SUBSET Rows,
           \A a \in V : a.start < a.end,
           \A a, b \in V : a # b => a.end <= b.start \/ b.end <= a.start
    PROVE  LET view == P!NewView(V)
           IN  /\ view \in Seq(Segments) /\ Cut(view)
               /\ \A x \in Int, v \in P!States : Shown(view, x, v) <=> \E row \in V : Shows(row, x, v)
<1>1. PICK R : R = {p \in V \X V : p[1].start < p[2].start}
  OBVIOUS
<1>2. \A a, b \in V : <<a, b>> \in R <=> a.start < b.start
  BY <1>1
<1>3. \A a \in V : a.start \in Int /\ a.end \in Int
  BY DEF Rows
<1>4. StrictlyOrders(R, V)
  BY <1>2, <1>3 DEF StrictlyOrders
<1>5. PICK seq : seq = ByStart(V)
  OBVIOUS
<1>6. Lists(seq, V, R)
  <2>1. seq = InOrder(V, R)
    BY <1>1, <1>5, SameOrder DEF ByStart
  <2> QED
    BY <1>4, <2>1, InOrderLists
<1>7. PICK n \in Nat : n = Len(seq) /\ seq \in Seq(V) /\ seq \in Seq(Rows)
  BY <1>6 DEF Lists
<1>8. \A i \in 1 .. n : seq[i] \in V /\ seq[i] \in Rows /\ seq[i].start < seq[i].end
  BY <1>7
<1>9. \A i, j \in 1 .. n : i < j => seq[i].end <= seq[j].start
  <2> SUFFICES ASSUME NEW i \in 1 .. n, NEW j \in 1 .. n, i < j
               PROVE  seq[i].end <= seq[j].start
    OBVIOUS
  <2>1. seq[i].start < seq[j].start
    BY <1>2, <1>6, <1>7, <1>8 DEF Lists
  <2> QED
    BY <1>3, <1>8, <2>1
<1>10. PICK acc : /\ acc[0] = <<>>
                  /\ \A k \in 1 .. n : acc[k] = AddRow(acc[k - 1], seq[k])
                  /\ P!NewView(V) = acc[n]
  BY <1>5, <1>7, RowsInTurn
<1> DEFINE Good(s, k) ==
        /\ s \in Seq(Segments) /\ Whole(s) /\ Cut(s)
        /\ s # <<>> => k \in 1 .. n /\ s[Len(s)].end = seq[k].end
        /\ \A x \in Int, v \in P!States : Shown(s, x, v) <=> \E i \in 1 .. k : Shows(seq[i], x, v)
<1>11. PICK G : G = {k \in 0 .. n : Good(acc[k], k)}
  OBVIOUS
<1>12. 0 \in G
  <2>1. Good(acc[0], 0)
    BY <1>10 DEF Shown, Cut, Whole
  <2> QED
    BY <1>7, <1>11, <2>1
<1>13. ASSUME NEW k \in 0 .. n - 1, k \in G PROVE k + 1 \in G
  <2>1. Good(acc[k], k) /\ k + 1 \in 1 .. n /\ k + 1 \in 0 .. n
    <3> HIDE DEF Good
    <3>1. k + 1 \in 1 .. n /\ k + 1 \in 0 .. n
      BY <1>7
    <3>2. Good(acc[k], k)
      BY <1>11, <1>13
    <3> QED
      BY <3>1, <3>2
  <2>2. PICK s, row, r : s = acc[k] /\ row = seq[k + 1] /\ r = acc[k + 1]
    OBVIOUS
  <2>3. r = AddRow(s, row) /\ row \in Rows /\ row.start < row.end
    BY <1>8, <1>10, <2>1, <2>2
  <2>4. s # <<>> => s[Len(s)].end <= row.start
    BY <1>9, <2>1, <2>2
  <2>5. Good(s, k)
    BY <2>1, <2>2
  <2>6. /\ r \in Seq(Segments) /\ r # <<>> /\ Whole(r) /\ Cut(r) /\ r[Len(r)].end = row.end
        /\ \A x \in Int, v \in P!States : Shown(r, x, v) <=> Shown(s, x, v) \/ Shows(row, x, v)
    <3>1. CASE s # <<>> /\ P!Joins(P!Last(s), P!Segment(row))
      BY <2>3, <2>5, <3>1, RowJoins
    <3>2. CASE ~(s # <<>> /\ P!Joins(P!Last(s), P!Segment(row)))
      <4>1. s # <<>> => s[Len(s)].end <= row.start /\ ~P!Joins(P!Last(s), P!Segment(row))
        BY <2>4, <3>2
      <4> QED
        BY <2>3, <2>5, <4>1, RowFollows
    <3> QED
      BY <3>1, <3>2
  <2>7. \A x \in Int, v \in P!States : Shown(r, x, v) <=> \E i \in 1 .. k + 1 : Shows(seq[i], x, v)
    <3>1. \A i \in 1 .. k + 1 : i \in 1 .. k \/ i = k + 1
      OBVIOUS
    <3>2. 1 .. k \subseteq 1 .. k + 1 /\ k + 1 \in 1 .. k + 1
      OBVIOUS
    <3> QED
      BY <2>2, <2>5, <2>6, <3>1, <3>2
  <2>8. Good(r, k + 1)
    BY <2>1, <2>2, <2>6, <2>7
  <2> QED
    BY <1>11, <2>1, <2>2, <2>8
<1>14. Good(acc[n], n)
  <2> HIDE DEF Good
  <2>1. 0 .. n \subseteq G
    BY <1>7, <1>12, <1>13, InductUpTo
  <2> QED
    BY <1>7, <1>11, <2>1
<1>15. \A row \in V : \E i \in 1 .. n : seq[i] = row
  BY <1>6, <1>7 DEF Lists
<1>16. \A x \in Int, v \in P!States :
           (\E i \in 1 .. n : Shows(seq[i], x, v)) <=> \E row \in V : Shows(row, x, v)
  BY <1>8, <1>15
<1> QED
  BY <1>10, <1>14, <1>16

\* The rows a reader is given are those of the rebuild that have not expired.
LEMMA ListIs ==
    ASSUME P!ValidSettings(settings), NEW t \in Int, rows = Rebuilt(t), NEW c
    PROVE  P!List(c) = {r \in rows : r.expires > c}
<1>1. PICK window : window = [start |-> settings.from, end |-> settings.to]
  OBVIOUS
<1>2. ASSUME NEW r \in rows
      PROVE  /\ r \in Rows /\ InSource(r) /\ P!Overlap(r, window) /\ Published(r) = r
  <2>1. PICK b \in Buckets : r = RowOf(b, t) /\ InSource(Bucket(b))
    BY RebuiltRows DEF Rebuilt
  <2>2. /\ r \in Rows /\ r.start = b /\ r.end = b + Step
        /\ settings.source.managed => r.expires <= settings.source.observed + SourceMaxAge
    BY <2>1, RowOfSays
  <2>3. InSource(r)
    BY <2>1, <2>2 DEF InSource, Bucket
  <2>4. P!Overlap(r, window)
    BY <1>1, <2>1, <2>2, BucketsFillWindow DEF P!Overlap
  <2>5. Published(r) = r
    <3>1. CASE settings.source.managed
      <4>1. settings.source.observed + SourceMaxAge \in Int /\ r.expires \in Int
        BY <2>2, CandidatesAssumption DEF Rows, P!ValidSettings
      <4>2. P!Min({r.expires, settings.source.observed + SourceMaxAge}) = r.expires
        BY <2>2, <3>1, <4>1, ExtremesOfTwo
      <4> QED
        BY <2>2, <3>1, <4>2 DEF Published, Rows
    <3>2. CASE ~settings.source.managed
      BY <3>2 DEF Published
    <3> QED
      BY <3>1, <3>2
  <2> QED
    BY <2>2, <2>3, <2>4, <2>5
<1>3. P!List(c) = P!BoundToSource({r \in rows : r.expires > c /\ P!Overlap(r, window)})
  BY <1>1, Zenon DEF P!List
<1>4. PICK S : S = {r \in rows : r.expires > c /\ P!Overlap(r, window)}
  OBVIOUS
<1>5. P!List(c) = {Published(r) : r \in {r \in S : InSource(r)}}
  BY <1>3, <1>4, BoundToSourceIs
<1>6. S = {r \in rows : r.expires > c}
  BY <1>2, <1>4
<1>7. {r \in S : InSource(r)} = S
  BY <1>2, <1>6
<1>8. \A r \in S : Published(r) = r
  BY <1>2, <1>6
<1> QED
  BY <1>5, <1>6, <1>7, <1>8

\* The view shows what the rows of a rebuild say.
LEMMA RebuildIsShown ==
    ASSUME P!ValidSettings(settings), NEW t \in Int, rows = {} \/ rows = Rebuilt(t), NEW V,
           V = {r \in rows : r.expires > clock}
    PROVE  /\ P!List(clock) = V
           /\ V \in SUBSET Rows /\ IsFiniteSet(V)
           /\ \A a \in V : a.start < a.end
           /\ \A a, b \in V : a # b => a.end <= b.start \/ b.end <= a.start
<1>1. CASE rows = {}
  <2>1. P!List(clock) = {}
    BY <1>1, BoundToSourceIs DEF P!List
  <2> QED
    BY <1>1, <2>1, FS_EmptySet
<1>2. CASE rows = Rebuilt(t)
  <2>1. P!List(clock) = V
    BY <1>2, ListIs
  <2>2. IsFiniteSet(Buckets)
    <3>1. PICK lo \in Int, hi \in Int : lo = P!FloorBucket(settings.from) /\ hi = P!CeilBucket(settings.to) - 1
      BY FloorAndCeil DEF P!ValidSettings
    <3>2. IsFiniteSet(lo .. hi)
      BY FS_Interval
    <3>3. Buckets \subseteq lo .. hi
      BY <3>1 DEF Buckets
    <3> QED
      BY <3>2, <3>3, FS_Subset
  <2>3. IsFiniteSet(V)
    <3>1. PICK B : B = {b \in Buckets : InSource(Bucket(b))}
      OBVIOUS
    <3>2. IsFiniteSet(B)
      BY <2>2, <3>1, FS_Subset
    <3>3. PICK row : row = [b \in B |-> RowOf(b, t)]
      OBVIOUS
    <3>4. rows = {row[b] : b \in B}
      BY <1>2, <3>1, <3>3, RebuiltRows DEF Rebuilt
    <3>5. IsFiniteSet(rows)
      BY <3>2, <3>4, FiniteImage
    <3> QED
      BY <3>5, FS_Subset
  <2>4. \A a \in V : \E b \in Buckets : a = RowOf(b, t)
    BY <1>2, RebuiltRows DEF Rebuilt
  <2>5. \A a \in V : a \in Rows /\ a.start < a.end
    BY <2>4, RowOfSays, StepIsPositive, BucketsFillWindow
  <2>6. ASSUME NEW a \in V, NEW b \in V, a # b PROVE a.end <= b.start \/ b.end <= a.start
    <3>1. PICK i, j \in Buckets : a = RowOf(i, t) /\ b = RowOf(j, t)
      BY <2>4
    <3>2. a.start = i /\ a.end = i + Step /\ b.start = j /\ b.end = j + Step
      BY <3>1, RowOfSays
    <3>3. i # j /\ i \in Int /\ j \in Int
      BY <2>6, <3>1, BucketsFillWindow
    <3>4. i < j \/ j < i
      BY <3>3
    <3> QED
      BY <3>2, <3>4, BucketsFillWindow
  <2> QED
    BY <2>1, <2>3, <2>5, <2>6
<1> QED
  BY <1>1, <1>2

\* The view of a rebuild shows at every instant what the row there says and nothing where
\* no row counts, and it is cut only where there is a change, for any buckets, settings
\* and time (Projection.list, NewView, canMerge).
THEOREM ViewIsTrue == Spec => []ViewShowsRows
<1>1. RowsOfOneRebuild => ViewShowsRows
  <2> SUFFICES ASSUME RowsOfOneRebuild, settings # None
               PROVE  ViewShowsRows
    BY DEF ViewShowsRows, P!ViewShowsRows
  <2>1. PICK V : V = {r \in rows : r.expires > clock}
    OBVIOUS
  <2>2. /\ P!List(clock) = V
        /\ V \in SUBSET Rows /\ IsFiniteSet(V)
        /\ \A a \in V : a.start < a.end
        /\ \A a, b \in V : a # b => a.end <= b.start \/ b.end <= a.start
    <3>1. PICK t \in Int : rows = {} \/ rows = Rebuilt(t)
      BY DEF RowsOfOneRebuild
    <3> QED
      BY <2>1, <3>1, SettingsAreValid, RebuildIsShown
  <2>3. PICK view : view = P!NewView(P!List(clock))
    OBVIOUS
  <2>4. /\ view \in Seq(Segments) /\ Cut(view)
        /\ \A x \in Int, v \in P!States : Shown(view, x, v) <=> \E row \in V : Shows(row, x, v)
    BY <2>2, <2>3, ViewOfRows
  <2>5. ASSUME NEW x \in P!FloorBucket(settings.from) .. P!CeilBucket(settings.to) - 1
        PROVE  {s.state : s \in {s \in P!Range(view) : s.start <= x /\ x < s.end}} =
               {r.state : r \in {r \in V : r.start <= x /\ x < r.end}}
    <3>1. x \in Int
      BY FloorAndCeil, SettingsAreValid DEF P!ValidSettings
    <3>2. P!Range(view) = {view[i] : i \in 1 .. Len(view)} /\ \A i \in 1 .. Len(view) : view[i] \in Segments
      BY <2>4 DEF P!Range
    <3>3. \A v : v \in {s.state : s \in {s \in P!Range(view) : s.start <= x /\ x < s.end}} <=>
                     v \in P!States /\ Shown(view, x, v)
      BY <3>2 DEF Shown, Segments
    <3>4. \A v : v \in {r.state : r \in {r \in V : r.start <= x /\ x < r.end}} <=>
                     v \in P!States /\ \E row \in V : Shows(row, x, v)
      BY <2>2 DEF Shows, Rows
    <3> QED
      BY <2>4, <3>1, <3>3, <3>4
  <2>6. \A i \in 1 .. Len(view) - 1 :
            /\ view[i].end <= view[i + 1].start
            /\ view[i].end = view[i + 1].start => view[i].state # view[i + 1].state
    BY <2>4 DEF Cut
  <2> QED
    BY <2>1, <2>3, <2>5, <2>6 DEF ViewShowsRows, P!ViewShowsRows
<1> QED
  BY <1>1, RowsComeTogether, PTL

=============================================================================
