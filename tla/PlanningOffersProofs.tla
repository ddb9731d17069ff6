------------------------ MODULE PlanningOffersProofs ------------------------
(***************************************************************************)
(* Proofs about Planning: a meeting that is offered can be confirmed, the  *)
(* offers are the best of all that could be, and the target's settings     *)
(* themselves welcome them.                                                *)
(*                                                                         *)
(* First what each algorithm of Candidates computes, in the terms of the   *)
(* instants it is about: merged ranges and the search in them, the walk    *)
(* over the rows a meeting touches, the sweep over end points, the runs,   *)
(* and the ranking that retains the best so far.  Then what the handler    *)
(* has read and when, as an invariant, and what follows for the offers.    *)
(***************************************************************************)
EXTENDS PlanningRowsProofs

-----------------------------------------------------------------------------
(* Ranges.                                                                 *)

Spans == [start : Int, end : Int]
Includes(r, x) == r.start <= x /\ x < r.end
AreRanges(S) == IsFiniteSet(S) /\ \A r \in S : r.start \in Int /\ r.end \in Int /\ r.start < r.end

\* The ranges of S in the order of their starts, with nothing but start and end.
ListsRanges(seq, S) ==
    /\ seq \in Seq(Spans)
    /\ \A i \in 1 .. Len(seq) : \E r \in S : seq[i].start = r.start /\ seq[i].end = r.end
    /\ \A r \in S : \E i \in 1 .. Len(seq) : seq[i].start = r.start /\ seq[i].end = r.end
    /\ \A i, j \in 1 .. Len(seq) : i < j => seq[i].start <= seq[j].start

LEMMA SortedIs ==
    ASSUME NEW S, AreRanges(S)
    PROVE  ListsRanges(Sorted(S), S)
<1>1. PICK span : span = [r \in S |-> [start |-> r.start, end |-> r.end]]
  OBVIOUS
<1>2. PICK T : T = {span[r] : r \in S}
  OBVIOUS
<1>3. IsFiniteSet(T) /\ T \subseteq Spans
  <2>1. IsFiniteSet(T)
    BY <1>2, FiniteImage DEF AreRanges
  <2>2. \A r \in S : span[r] \in Spans
    BY <1>1 DEF AreRanges, Spans
  <2> QED
    BY <1>2, <2>1, <2>2
<1>4. PICK R : R = {p \in T \X T : Earlier(p[1], p[2])}
  OBVIOUS
<1>5. Sorted(S) = InOrder(T, R)
  <2>1. T = {[start |-> r.start, end |-> r.end] : r \in S}
    BY <1>1, <1>2
  <2> QED
    BY <1>4, <2>1, Zenon DEF Sorted
<1>6. StrictlyOrders(R, T)
  <2>1. \A a, b \in T : <<a, b>> \in R <=> Earlier(a, b)
    BY <1>4
  <2>2. \A a \in T : a.start \in Int /\ a.end \in Int /\ a = [start |-> a.start, end |-> a.end]
    BY <1>3 DEF Spans
  <2>3. \A a, b \in T : a # b => a.start # b.start \/ a.end # b.end
    BY <2>2
  <2> QED
    BY <2>1, <2>2, <2>3 DEF StrictlyOrders, Earlier
<1>7. PICK seq : seq = Sorted(S) /\ Lists(seq, T, R)
  BY <1>3, <1>5, <1>6, InOrderLists
<1>8. seq \in Seq(Spans) /\ \A i \in 1 .. Len(seq) : seq[i] \in T
  BY <1>3, <1>7 DEF Lists
<1>9. \A i, j \in 1 .. Len(seq) : i < j => seq[i].start <= seq[j].start
  <2> SUFFICES ASSUME NEW i \in 1 .. Len(seq), NEW j \in 1 .. Len(seq), i < j
               PROVE  seq[i].start <= seq[j].start
    OBVIOUS
  <2>1. <<seq[i], seq[j]>> \in R
    BY <1>7 DEF Lists
  <2>2. Earlier(seq[i], seq[j]) /\ seq[i] \in Spans /\ seq[j] \in Spans
    BY <1>4, <1>8, <2>1
  <2> QED
    BY <2>2 DEF Earlier, Spans
<1>10. \A i \in 1 .. Len(seq) : \E r \in S : seq[i].start = r.start /\ seq[i].end = r.end
  BY <1>1, <1>2, <1>8
<1>11. \A r \in S : \E i \in 1 .. Len(seq) : seq[i].start = r.start /\ seq[i].end = r.end
  <2> SUFFICES ASSUME NEW r \in S
               PROVE  \E i \in 1 .. Len(seq) : seq[i].start = r.start /\ seq[i].end = r.end
    OBVIOUS
  <2>1. span[r] \in T /\ span[r].start = r.start /\ span[r].end = r.end
    BY <1>1, <1>2
  <2> QED
    BY <1>7, <2>1 DEF Lists
<1> QED
  BY <1>7, <1>8, <1>9, <1>10, <1>11 DEF ListsRanges

-----------------------------------------------------------------------------
(* Merged ranges, and the search in them.                                  *)

\* Ranges in their order, with a gap between each and the next.
Apart(s) ==
    /\ \A i \in 1 .. Len(s) : s[i].start < s[i].end
    /\ \A i \in 1 .. Len(s) - 1 : s[i].end < s[i + 1].start
Holds(s, x) == \E i \in 1 .. Len(s) : Includes(s[i], x)

LEMMA SpansApart ==
    ASSUME NEW s \in Seq(Spans), Apart(s)
    PROVE  \A i, j \in 1 .. Len(s) : i < j => s[i].end < s[j].start
<1>1. PICK n \in Nat : n = Len(s)
  OBVIOUS
<1> SUFFICES ASSUME NEW i \in 1 .. n
             PROVE  \A j \in 1 .. n : i < j => s[i].end < s[j].start
  BY <1>1
<1>2. \A k \in 1 .. n : s[k].start \in Int /\ s[k].end \in Int
  <2>1. \A k \in 1 .. n : s[k] \in Spans
    BY <1>1
  <2> QED
    BY <2>1 DEF Spans
<1>3. PICK G : G = {k \in 0 .. n : i < k => s[i].end < s[k].start}
  OBVIOUS
<1>4. 0 \in G
  BY <1>1, <1>3
<1>5. ASSUME NEW k \in 0 .. n - 1, k \in G PROVE k + 1 \in G
  <2>1. k + 1 \in 0 .. n
    BY <1>1
  <2>2. CASE i < k
    <3>1. k \in 1 .. n - 1 /\ s[k].end < s[k + 1].start /\ s[k].start < s[k].end
      BY <1>1, <2>2 DEF Apart
    <3>2. s[i].end < s[k].start
      BY <1>3, <1>5, <2>2
    <3> QED
      BY <1>1, <1>2, <1>3, <2>1, <3>1, <3>2
  <2>3. CASE i = k
    <3>1. s[k].end < s[k + 1].start
      BY <1>1, <2>3 DEF Apart
    <3> QED
      BY <1>3, <2>1, <2>3, <3>1
  <2>4. CASE k < i
    BY <1>1, <1>3, <2>1, <2>4
  <2> QED
    BY <1>1, <2>2, <2>3, <2>4
<1>6. 0 .. n \subseteq G
  BY <1>1, <1>4, <1>5, InductUpTo
<1> QED
  BY <1>1, <1>3, <1>6

\* One range more, that begins no earlier than the last.
LEMMA MergeOne ==
    ASSUME NEW s \in Seq(Spans), NEW r \in Spans, r.start < r.end, Apart(s),
           s # <<>> => s[Len(s)].start <= r.start, NEW t, t = MergeInto(s, r)
    PROVE  /\ t \in Seq(Spans) /\ Apart(t) /\ t # <<>> /\ t[Len(t)].start <= r.start
           /\ \A x \in Int : Holds(t, x) <=> Holds(s, x) \/ Includes(r, x)
<1>1. PICK n \in Nat : n = Len(s)
  OBVIOUS
<1>2. r.start \in Int /\ r.end \in Int /\ \A i \in 1 .. n : s[i] \in Spans /\ s[i].start \in Int /\ s[i].end \in Int
  <2>1. \A i \in 1 .. n : s[i] \in Spans
    BY <1>1
  <2> QED
    BY <2>1 DEF Spans
<1>3. CASE s = <<>> \/ Last(s).end < r.start
  <2>1. t = Append(s, r)
    BY <1>3 DEF MergeInto
  <2>2. t \in Seq(Spans) /\ Len(t) = n + 1 /\ (\A i \in 1 .. n : t[i] = s[i]) /\ t[n + 1] = r
    BY <1>1, <2>1
  <2>3. \A i \in 1 .. n + 1 : i \in 1 .. n \/ i = n + 1
    BY <1>1
  <2>4. n # 0 => s[n].end < r.start
    BY <1>1, <1>3, LastOf
  <2>5. Apart(t)
    <3>1. \A i \in 1 .. n + 1 : t[i].start < t[i].end
      BY <1>1, <2>2, <2>3 DEF Apart
    <3>2. ASSUME NEW i \in 1 .. n PROVE t[i].end < t[i + 1].start
      <4>1. CASE i = n
        BY <2>2, <2>4, <4>1
      <4>2. CASE i # n
        <5>1. i \in 1 .. n - 1 /\ i + 1 \in 1 .. n
          BY <1>1, <4>2
        <5> QED
          BY <1>1, <2>2, <5>1 DEF Apart
      <4> QED
        BY <4>1, <4>2
    <3> QED
      BY <1>1, <2>2, <3>1, <3>2 DEF Apart
  <2>6. \A x \in Int : Holds(t, x) <=> Holds(s, x) \/ Includes(r, x)
    BY <1>1, <2>2, <2>3 DEF Holds
  <2> QED
    BY <1>1, <1>2, <2>2, <2>5, <2>6
<1>4. CASE ~(s = <<>> \/ Last(s).end < r.start)
  <2>1. n \in Nat \ {0} /\ Last(s) = s[n] /\ s[n] \in Spans /\ n \in 1 .. n
    BY <1>1, <1>4, LastOf
  <2>2. r.start <= s[n].end /\ s[n].start <= r.start /\ s[n].start < s[n].end
    BY <1>1, <1>2, <1>4, <2>1 DEF Apart
  <2>3. PICK e : e = [s[n] EXCEPT !.end = Max({s[n].end, r.end})]
    OBVIOUS
  <2>4. Max({s[n].end, r.end}) = IF s[n].end >= r.end THEN s[n].end ELSE r.end
    BY <1>2, <2>1, MaxOfTwo
  <2>5. e \in Spans /\ e.start = s[n].start /\ e.end = IF s[n].end >= r.end THEN s[n].end ELSE r.end
    BY <1>2, <2>1, <2>3, <2>4 DEF Spans
  <2>6. t = Append(Front(s), e)
    BY <1>4, <2>1, <2>3 DEF MergeInto
  <2>7. t \in Seq(Spans) /\ ReplacesLast(t, s, e)
    BY <1>4, <2>5, <2>6, ReplaceLast
  <2>8. Len(t) = n /\ (\A i \in 1 .. n - 1 : t[i] = s[i]) /\ t[n] = e
    BY <1>1, <2>7 DEF ReplacesLast
  <2>9. \A i \in 1 .. n : i \in 1 .. n - 1 \/ i = n
    BY <2>1
  <2>10. Apart(t)
    <3>1. \A i \in 1 .. n : t[i].start < t[i].end
      BY <1>1, <1>2, <2>1, <2>2, <2>5, <2>8, <2>9 DEF Apart
    <3>2. ASSUME NEW i \in 1 .. n - 1 PROVE t[i].end < t[i + 1].start
      <4>1. t[i] = s[i] /\ i + 1 \in 1 .. n /\ s[i].end < s[i + 1].start
        BY <1>1, <2>1, <2>8 DEF Apart
      <4>2. t[i + 1].start = s[i + 1].start
        BY <2>5, <2>8, <2>9, <4>1
      <4> QED
        BY <4>1, <4>2
    <3> QED
      BY <2>8, <3>1, <3>2 DEF Apart
  <2>11. ASSUME NEW x \in Int PROVE Holds(t, x) <=> Holds(s, x) \/ Includes(r, x)
    <3>1. Includes(e, x) <=> Includes(s[n], x) \/ Includes(r, x)
      BY <1>2, <2>1, <2>2, <2>5 DEF Includes
    <3>2. Holds(t, x) <=> (\E i \in 1 .. n - 1 : Includes(s[i], x)) \/ Includes(e, x)
      BY <2>1, <2>8, <2>9 DEF Holds
    <3>3. Holds(s, x) <=> (\E i \in 1 .. n - 1 : Includes(s[i], x)) \/ Includes(s[n], x)
      BY <1>1, <2>1, <2>9 DEF Holds
    <3> QED
      BY <3>1, <3>2, <3>3
  <2>12. t # <<>> /\ t[Len(t)].start <= r.start
    BY <2>1, <2>2, <2>5, <2>8
  <2> QED
    BY <2>7, <2>10, <2>11, <2>12
<1> QED
  BY <1>3, <1>4

LEMMA MergeTyped ==
    ASSUME NEW s \in Seq(Spans), NEW r \in Spans
    PROVE  MergeInto(s, r) \in Seq(Spans)
<1>1. CASE s = <<>> \/ Last(s).end < r.start
  BY <1>1 DEF MergeInto
<1>2. CASE ~(s = <<>> \/ Last(s).end < r.start)
  <2>1. Last(s) \in Spans /\ Last(s).end \in Int /\ r.end \in Int
    <3>1. Last(s) \in Spans
      BY <1>2, LastOf
    <3> QED
      BY <3>1 DEF Spans
  <2>2. PICK e : e = [Last(s) EXCEPT !.end = Max({Last(s).end, r.end})]
    OBVIOUS
  <2>3. Max({Last(s).end, r.end}) \in Int
    BY <2>1, MaxOfTwo
  <2>4. e \in Spans
    BY <2>1, <2>2, <2>3 DEF Spans
  <2>5. MergeInto(s, r) = Append(Front(s), e)
    BY <1>2, <2>2 DEF MergeInto
  <2> QED
    BY <1>2, <2>4, <2>5, ReplaceLast
<1> QED
  BY <1>1, <1>2

LEMMA Places ==
    ASSUME NEW n \in Nat, NEW k \in 1 .. n
    PROVE  k - 1 \in 0 .. n /\ k \in 0 .. n /\ k \in 1 .. k
OBVIOUS

LEMMA MergesInTurn ==
    ASSUME NEW S, NEW n \in Nat, Sorted(S) \in Seq(Spans), n = Len(Sorted(S))
    PROVE  \E acc : /\ acc[0] = <<>>
                    /\ \A k \in 1 .. n : acc[k] = MergeInto(acc[k - 1], Sorted(S)[k])
                    /\ Merged(S) = acc[n]
<1> DEFINE seq == Sorted(S)
<1>1. DOMAIN seq = 1 .. n
  OBVIOUS
<1>2. PICK Acc : Acc = Seq(Spans)
  OBVIOUS
<1>3. PICK step : step = [p \in (1 .. n) \X Acc |-> MergeInto(p[2], seq[p[1]])]
  OBVIOUS
<1>4. RecursiveOver(n, Acc, <<>>, step)
  <2>1. \A i \in 1 .. n : seq[i] \in Spans
    OBVIOUS
  <2>2. <<>> \in Acc
    BY <1>2
  <2> HIDE DEF seq
  <2>3. ASSUME NEW p \in (1 .. n) \X Acc PROVE MergeInto(p[2], seq[p[1]]) \in Acc
    BY <1>2, <2>1, MergeTyped
  <2> QED
    BY <1>3, <2>2, <2>3 DEF RecursiveOver
<1>5. PICK it : IteratesOver(it, n, Acc, <<>>, step)
  BY <1>4, RecursionOverPlaces
<1> DEFINE Is(f) == f = [s \in SUBSET DOMAIN seq |->
                             IF s = {} THEN <<>> ELSE MergeInto(f[s \ {Max(s)}], seq[Max(s)])]
<1>6. Is(it)
  <2>1. \A s \in SUBSET (1 .. n) : s # {} => Max(s) \in 1 .. n /\ it[s \ {Max(s)}] \in Acc
    BY <1>5, MaxOfPlaces DEF IteratesOver
  <2>2. \A s \in SUBSET (1 .. n) : s # {} =>
            step[<<Max(s), it[s \ {Max(s)}]>>] = MergeInto(it[s \ {Max(s)}], seq[Max(s)])
    BY <2>1, <1>3
  <2> HIDE DEF seq
  <2> QED
    BY <1>1, <1>5, <2>2 DEF IteratesOver
<1>7. PICK f : Is(f) /\ Merged(S) = f[DOMAIN seq]
  <2>1. Merged(S) = (CHOOSE f : Is(f))[DOMAIN seq]
    BY Zenon DEF Merged, FoldLeft, MapThenFoldSet, Max
  <2> HIDE DEF Is
  <2> QED
    BY <1>6, <2>1, Zenon
<1> HIDE DEF seq
<1>8. PICK acc : acc = [k \in 0 .. n |-> f[1 .. k]]
  OBVIOUS
<1>9. acc[0] = <<>> /\ Merged(S) = acc[n]
  BY <1>1, <1>7, <1>8
<1>10. ASSUME NEW k \in 1 .. n PROVE acc[k] = MergeInto(acc[k - 1], seq[k])
  <2>1. Max(1 .. k) = k /\ (1 .. k) \ {Max(1 .. k)} = 1 .. k - 1 /\ k \in 1 .. k
    BY MaxOfInterval
  <2>2. 1 .. k \in SUBSET (1 .. n)
    OBVIOUS
  <2>3. 1 .. k # {} /\ k - 1 \in 0 .. n /\ k \in 0 .. n
    BY <2>1, Places
  <2> QED
    BY <1>1, <1>7, <1>8, <2>1, <2>2, <2>3
<1> QED
  BY <1>9, <1>10 DEF seq

\* The merged ranges lie apart and are the same time as the ranges.
LEMMA MergedIs ==
    ASSUME NEW S, AreRanges(S)
    PROVE  /\ Merged(S) \in Seq(Spans) /\ Apart(Merged(S))
           /\ \A x \in Int : Holds(Merged(S), x) <=> \E r \in S : Includes(r, x)
<1>1. PICK seq : seq = Sorted(S)
  OBVIOUS
<1>2. ListsRanges(seq, S)
  BY <1>1, SortedIs
<1>3. PICK n \in Nat : n = Len(seq) /\ seq \in Seq(Spans)
  BY <1>2 DEF ListsRanges
<1>4. \A i \in 1 .. n : seq[i] \in Spans
  BY <1>3
<1>5. \A i \in 1 .. n : seq[i].start \in Int /\ seq[i].end \in Int /\ seq[i].start < seq[i].end
  BY <1>2, <1>3 DEF ListsRanges, AreRanges
<1>6. \A i, j \in 1 .. n : i < j => seq[i].start <= seq[j].start
  BY <1>2, <1>3 DEF ListsRanges
<1>7. PICK acc : /\ acc[0] = <<>>
                 /\ \A k \in 1 .. n : acc[k] = MergeInto(acc[k - 1], seq[k])
                 /\ Merged(S) = acc[n]
  BY <1>1, <1>3, MergesInTurn
<1> DEFINE Good(s, k) ==
        /\ s \in Seq(Spans) /\ Apart(s)
        /\ s # <<>> => k \in 1 .. n /\ s[Len(s)].start <= seq[k].start
        /\ \A x \in Int : Holds(s, x) <=> \E i \in 1 .. k : Includes(seq[i], x)
<1>8. PICK G : G = {k \in 0 .. n : Good(acc[k], k)}
  OBVIOUS
<1>9. 0 \in G
  <2>1. Good(acc[0], 0)
    BY <1>7 DEF Holds, Apart
  <2> HIDE DEF Good
  <2> QED
    BY <1>8, <2>1
<1>10. ASSUME NEW k \in 0 .. n - 1, k \in G PROVE k + 1 \in G
  <2>1. k + 1 \in 1 .. n /\ k + 1 \in 0 .. n
    OBVIOUS
  <2>2. Good(acc[k], k)
    <3> HIDE DEF Good
    <3> QED
      BY <1>8, <1>10
  <2>3. PICK s, r, t : s = acc[k] /\ r = seq[k + 1] /\ t = acc[k + 1]
    OBVIOUS
  <2>4. t = MergeInto(s, r) /\ r \in Spans /\ r.start < r.end
    BY <1>4, <1>5, <1>7, <2>1, <2>3
  <2>5. s \in Seq(Spans) /\ Apart(s)
    BY <2>2, <2>3
  <2>6. s # <<>> => s[Len(s)].start <= r.start
    <3> SUFFICES ASSUME s # <<>> PROVE s[Len(s)].start <= r.start
      OBVIOUS
    <3>1. k \in 1 .. n /\ s[Len(s)].start <= seq[k].start
      BY <2>2, <2>3
    <3>2. seq[k].start <= r.start
      BY <1>6, <2>1, <2>3, <3>1
    <3>3. s[Len(s)].start \in Int /\ seq[k].start \in Int /\ r.start \in Int
      <4>1. s[Len(s)] \in Spans
        BY <2>5, LastOf
      <4> QED
        BY <1>4, <2>4, <3>1, <4>1 DEF Spans
    <3> QED
      BY <3>1, <3>2, <3>3
  <2>7. /\ t \in Seq(Spans) /\ Apart(t) /\ t # <<>> /\ t[Len(t)].start <= r.start
        /\ \A x \in Int : Holds(t, x) <=> Holds(s, x) \/ Includes(r, x)
    BY <2>4, <2>5, <2>6, MergeOne
  <2>8. \A x \in Int : Holds(t, x) <=> \E i \in 1 .. k + 1 : Includes(seq[i], x)
    <3>1. \A i \in 1 .. k + 1 : i \in 1 .. k \/ i = k + 1
      OBVIOUS
    <3>2. 1 .. k \subseteq 1 .. k + 1 /\ k + 1 \in 1 .. k + 1
      OBVIOUS
    <3> QED
      BY <2>2, <2>3, <2>7, <3>1, <3>2
  <2>9. Good(t, k + 1)
    BY <2>1, <2>3, <2>7, <2>8
  <2> HIDE DEF Good
  <2> QED
    BY <1>8, <2>1, <2>3, <2>9
<1>11. Good(acc[n], n)
  <2> HIDE DEF Good
  <2>1. 0 .. n \subseteq G
    BY <1>9, <1>10, InductUpTo
  <2> QED
    BY <1>8, <2>1
<1>12. \A x \in Int : (\E i \in 1 .. n : Includes(seq[i], x)) <=> \E r \in S : Includes(r, x)
  BY <1>2, <1>3 DEF ListsRanges, Includes
<1> QED
  BY <1>7, <1>11, <1>12

\* The first of the ranges i .. j - 1 that ends after t, or j.
FirstAfter(s, t, k, i, j) ==
    /\ k \in i .. j
    /\ \A l \in i .. k - 1 : s[l].end <= t
    /\ k < j => s[k].end > t

LEMMA FirstAfterUnique ==
    ASSUME NEW s \in Seq(Spans), NEW t \in Int, NEW i \in 1 .. Len(s) + 1, NEW j \in 1 .. Len(s) + 1,
           NEW k, NEW l, FirstAfter(s, t, k, i, j), FirstAfter(s, t, l, i, j)
    PROVE  k = l
<1>1. PICK n \in Nat : n = Len(s)
  OBVIOUS
<1>2. k \in Int /\ l \in Int
  BY <1>1 DEF FirstAfter
<1>3. \A m \in 1 .. n : s[m].end \in Int
  <2>1. \A m \in 1 .. n : s[m] \in Spans
    BY <1>1
  <2> QED
    BY <2>1 DEF Spans
<1>4. ~(k < l)
  BY <1>1, <1>2, <1>3 DEF FirstAfter
<1>5. ~(l < k)
  BY <1>1, <1>2, <1>3 DEF FirstAfter
<1> QED
  BY <1>2, <1>4, <1>5

LEMMA Halving ==
    ASSUME NEW s \in Seq(Spans), Apart(s), NEW t \in Int,
           NEW i \in 1 .. Len(s) + 1, NEW j \in 1 .. Len(s) + 1, i < j,
           NEW m, m = (i + j) \div 2
    PROVE  /\ m \in i .. j - 1 /\ m \in 1 .. Len(s)
           /\ \A k : /\ s[m].end > t /\ FirstAfter(s, t, k, i, m) => FirstAfter(s, t, k, i, j)
                     /\ ~(s[m].end > t) /\ FirstAfter(s, t, k, m + 1, j) => FirstAfter(s, t, k, i, j)
<1>1. PICK n \in Nat : n = Len(s)
  OBVIOUS
<1>2. m \in Int /\ i <= m /\ m < j
  BY <1>1
<1>3. m \in i .. j - 1 /\ m \in 1 .. n
  BY <1>1, <1>2
<1>4. \A l \in 1 .. n : s[l].start \in Int /\ s[l].end \in Int
  <2>1. \A l \in 1 .. n : s[l] \in Spans
    BY <1>1
  <2> QED
    BY <2>1 DEF Spans
<1>5. \A l \in i .. m : s[l].end <= s[m].end
  <2> SUFFICES ASSUME NEW l \in i .. m PROVE s[l].end <= s[m].end
    OBVIOUS
  <2>1. l \in 1 .. n
    BY <1>1, <1>3
  <2>2. CASE l = m
    BY <1>4, <2>1, <2>2
  <2>3. CASE l # m
    <3>1. s[l].end < s[m].start
      <4>1. l \in 1 .. Len(s) /\ m \in 1 .. Len(s) /\ l < m
        BY <1>1, <1>2, <1>3, <2>1, <2>3
      <4> QED
        BY <4>1, SpansApart
    <3>2. s[m].start < s[m].end
      BY <1>1, <1>3 DEF Apart
    <3>3. s[l].end \in Int /\ s[m].start \in Int /\ s[m].end \in Int
      BY <1>3, <1>4, <2>1
    <3> QED
      BY <3>1, <3>2, <3>3
  <2> QED
    BY <2>2, <2>3
<1>6. ASSUME NEW k, s[m].end > t, FirstAfter(s, t, k, i, m) PROVE FirstAfter(s, t, k, i, j)
  BY <1>1, <1>3, <1>6 DEF FirstAfter
<1>7. ASSUME NEW k, ~(s[m].end > t), FirstAfter(s, t, k, m + 1, j) PROVE FirstAfter(s, t, k, i, j)
  <2>1. s[m].end <= t
    BY <1>3, <1>4, <1>7
  <2>2. k \in m + 1 .. j /\ k \in i .. j
    BY <1>1, <1>3, <1>7 DEF FirstAfter
  <2>3. ASSUME NEW l \in i .. k - 1 PROVE s[l].end <= t
    <3>1. CASE l \in i .. m
      <4>1. s[l].end <= s[m].end /\ l \in 1 .. n
        BY <1>1, <1>3, <1>5, <3>1
      <4>2. s[l].end \in Int /\ s[m].end \in Int
        BY <1>3, <1>4, <4>1
      <4> QED
        BY <2>1, <4>1, <4>2
    <3>2. CASE l \notin i .. m
      <4>1. l \in m + 1 .. k - 1
        BY <1>1, <1>3, <2>2, <3>2
      <4> QED
        BY <1>7, <4>1 DEF FirstAfter
    <3> QED
      BY <3>1, <3>2
  <2> QED
    BY <1>7, <2>2, <2>3 DEF FirstAfter
<1> QED
  BY <1>1, <1>3, <1>6, <1>7

LEMMA FirstAfterExists ==
    ASSUME NEW s \in Seq(Spans), NEW t \in Int,
           NEW i \in 1 .. Len(s) + 1, NEW j \in 1 .. Len(s) + 1, i <= j
    PROVE  \E k \in 1 .. Len(s) + 1 : FirstAfter(s, t, k, i, j)
<1>1. PICK n \in Nat : n = Len(s)
  OBVIOUS
<1>2. PICK T : T = {k \in i .. j : k = j \/ s[k].end > t}
  OBVIOUS
<1>3. T \in SUBSET Nat /\ j \in T
  BY <1>1, <1>2
<1>4. PICK k \in T : \A l \in T : k <= l
  BY <1>3, Least
<1>5. k \in i .. j /\ k \in 1 .. n + 1 /\ k \in Int
  BY <1>1, <1>2, <1>4
<1>6. ASSUME NEW l \in i .. k - 1 PROVE s[l].end <= t
  <2>1. l \in i .. j /\ l < k /\ l \in 1 .. n
    BY <1>1, <1>5
  <2>2. l \notin T
    BY <1>4, <1>5, <2>1
  <2>3. s[l] \in Spans
    BY <1>1, <2>1
  <2>4. s[l].end \in Int /\ ~(s[l].end > t)
    BY <1>2, <2>1, <2>2, <2>3 DEF Spans
  <2> QED
    BY <2>4
<1> QED
  BY <1>1, <1>2, <1>4, <1>5, <1>6 DEF FirstAfter

\* The halving search finds the first range that ends after t.
LEMMA FirstEndingAfterIs ==
    ASSUME NEW s \in Seq(Spans), Apart(s), NEW t \in Int
    PROVE  FirstAfter(s, t, FirstEndingAfter(s, t), 1, Len(s) + 1)
<1>1. PICK n \in Nat : n = Len(s)
  OBVIOUS
<1>2. PICK D : D = 1 .. Len(s) + 1
  OBVIOUS
<1> DEFINE Halves(f) ==
        f = [p \in (1 .. Len(s) + 1) \X (1 .. Len(s) + 1) |->
                IF p[1] >= p[2] THEN p[1]
                ELSE IF s[(p[1] + p[2]) \div 2].end > t THEN f[<<p[1], (p[1] + p[2]) \div 2>>]
                ELSE f[<<(p[1] + p[2]) \div 2 + 1, p[2]>>]]
<1>3. FirstEndingAfter(s, t) = (CHOOSE f : Halves(f))[<<1, Len(s) + 1>>]
  BY Zenon DEF FirstEndingAfter
<1>4. \E f : Halves(f)
  <2>1. PICK f : f = [p \in D \X D |-> IF p[1] >= p[2] THEN p[1]
                                        ELSE CHOOSE k \in D : FirstAfter(s, t, k, p[1], p[2])]
    OBVIOUS
  <2>2. ASSUME NEW i \in D, NEW j \in D, i <= j PROVE FirstAfter(s, t, f[<<i, j>>], i, j)
    <3>1. CASE i = j
      BY <1>1, <1>2, <2>1, <3>1 DEF FirstAfter
    <3>2. CASE i # j
      <4>1. ~(i >= j)
        BY <1>1, <1>2, <2>2, <3>2
      <4>2. f[<<i, j>>] = CHOOSE k \in D : FirstAfter(s, t, k, i, j)
        BY <2>1, <4>1
      <4>3. \E k \in D : FirstAfter(s, t, k, i, j)
        BY <1>2, <2>2, FirstAfterExists
      <4> QED
        BY <4>2, <4>3, Zenon
    <3> QED
      BY <3>1, <3>2
  <2>3. ASSUME NEW i \in D, NEW j \in D
        PROVE  f[<<i, j>>] = IF i >= j THEN i
                             ELSE IF s[(i + j) \div 2].end > t THEN f[<<i, (i + j) \div 2>>]
                             ELSE f[<<(i + j) \div 2 + 1, j>>]
    <3>1. CASE i >= j
      BY <2>1, <3>1
    <3>2. CASE ~(i >= j)
      <4>1. PICK m : m = (i + j) \div 2
        OBVIOUS
      <4>2. i < j /\ i <= j
        BY <1>1, <1>2, <3>2
      <4>3. m \in i .. j - 1 /\ m \in 1 .. Len(s)
        BY <1>2, <4>1, <4>2, Halving
      <4>4. m \in D /\ m + 1 \in D /\ i <= m /\ m + 1 <= j
        BY <1>1, <1>2, <4>3
      <4>5. FirstAfter(s, t, f[<<i, j>>], i, j)
        BY <2>2, <4>2
      <4>6. CASE s[m].end > t
        <5>1. FirstAfter(s, t, f[<<i, m>>], i, j)
          BY <1>2, <2>2, <4>1, <4>2, <4>4, <4>6, Halving
        <5>2. f[<<i, j>>] = f[<<i, m>>]
          BY <1>2, <4>5, <5>1, FirstAfterUnique
        <5> QED
          BY <3>2, <4>1, <4>6, <5>2
      <4>7. CASE ~(s[m].end > t)
        <5>1. FirstAfter(s, t, f[<<m + 1, j>>], i, j)
          BY <1>2, <2>2, <4>1, <4>2, <4>4, <4>7, Halving
        <5>2. f[<<i, j>>] = f[<<m + 1, j>>]
          BY <1>2, <4>5, <5>1, FirstAfterUnique
        <5> QED
          BY <3>2, <4>1, <4>7, <5>2
      <4> QED
        BY <4>6, <4>7
    <3> QED
      BY <3>1, <3>2
  <2>4. Halves(f)
    <3>1. f = [p \in D \X D |-> f[p]]
      BY <2>1
    <3>2. \A p \in D \X D : f[p] = IF p[1] >= p[2] THEN p[1]
                ELSE IF s[(p[1] + p[2]) \div 2].end > t THEN f[<<p[1], (p[1] + p[2]) \div 2>>]
                ELSE f[<<(p[1] + p[2]) \div 2 + 1, p[2]>>]
      <4> SUFFICES ASSUME NEW p \in D \X D
                   PROVE  f[p] = IF p[1] >= p[2] THEN p[1]
                ELSE IF s[(p[1] + p[2]) \div 2].end > t THEN f[<<p[1], (p[1] + p[2]) \div 2>>]
                ELSE f[<<(p[1] + p[2]) \div 2 + 1, p[2]>>]
        OBVIOUS
      <4>1. p = <<p[1], p[2]>> /\ p[1] \in D /\ p[2] \in D
        OBVIOUS
      <4> QED
        BY <2>3, <4>1, Zenon
    <3> QED
      BY <1>2, <3>1, <3>2
  <2> QED
    BY <2>4
<1>5. PICK f : Halves(f) /\ FirstEndingAfter(s, t) = f[<<1, Len(s) + 1>>]
  <2> HIDE DEF Halves
  <2> QED
    BY <1>3, <1>4, Zenon
<1>6. ASSUME NEW i \in D, NEW j \in D
      PROVE  f[<<i, j>>] = IF i >= j THEN i
                           ELSE IF s[(i + j) \div 2].end > t THEN f[<<i, (i + j) \div 2>>]
                           ELSE f[<<(i + j) \div 2 + 1, j>>]
  BY <1>2, <1>5
<1> HIDE DEF Halves
<1>7. PICK G : G = {d \in 0 .. n : \A i, j \in D : i <= j /\ j <= i + d => FirstAfter(s, t, f[<<i, j>>], i, j)}
  OBVIOUS
<1>8. ASSUME NEW i \in D, NEW j \in D, i = j PROVE FirstAfter(s, t, f[<<i, j>>], i, j)
  <2>1. i \in Int /\ i >= j
    BY <1>1, <1>2, <1>8
  <2>2. f[<<i, j>>] = i
    BY <1>6, <2>1
  <2> QED
    BY <1>8, <2>1, <2>2 DEF FirstAfter
<1>9. 0 \in G
  <2>1. \A i, j \in D : i <= j /\ j <= i + 0 => i = j
    BY <1>1, <1>2
  <2> QED
    BY <1>7, <1>8, <2>1
<1>10. ASSUME NEW d \in 0 .. n - 1, d \in G PROVE d + 1 \in G
  <2>1. ASSUME NEW i \in D, NEW j \in D, i <= j, j <= i + (d + 1) PROVE FirstAfter(s, t, f[<<i, j>>], i, j)
    <3>1. CASE i = j
      BY <1>8, <3>1
    <3>2. CASE i # j
      <4>1. PICK m : m = (i + j) \div 2
        OBVIOUS
      <4>2. i < j /\ ~(i >= j)
        BY <1>1, <1>2, <2>1, <3>2
      <4>3. m \in i .. j - 1 /\ m \in 1 .. Len(s)
        BY <1>2, <4>1, <4>2, Halving
      <4>4. m \in D /\ m + 1 \in D /\ i <= m /\ m + 1 <= j /\ m <= i + d /\ j <= (m + 1) + d
        BY <1>1, <1>2, <2>1, <4>3
      <4>5. CASE s[m].end > t
        <5>1. f[<<i, j>>] = f[<<i, m>>]
          BY <1>6, <4>1, <4>2, <4>5
        <5>2. FirstAfter(s, t, f[<<i, m>>], i, m)
          BY <1>7, <1>10, <4>4
        <5> QED
          BY <1>2, <4>1, <4>2, <4>5, <5>1, <5>2, Halving
      <4>6. CASE ~(s[m].end > t)
        <5>1. f[<<i, j>>] = f[<<m + 1, j>>]
          BY <1>6, <4>1, <4>2, <4>6
        <5>2. FirstAfter(s, t, f[<<m + 1, j>>], m + 1, j)
          BY <1>7, <1>10, <4>4
        <5> QED
          BY <1>2, <4>1, <4>2, <4>6, <5>1, <5>2, Halving
      <4> QED
        BY <4>5, <4>6
    <3> QED
      BY <3>1, <3>2
  <2> QED
    BY <1>7, <2>1
<1>11. n \in G
  <2>1. 0 .. n \subseteq G
    BY <1>9, <1>10, InductUpTo
  <2> QED
    BY <2>1
<1>12. 1 \in D /\ n + 1 \in D /\ 1 <= n + 1 /\ n + 1 <= 1 + n
  BY <1>1, <1>2
<1> QED
  BY <1>1, <1>5, <1>7, <1>11, <1>12

\* A range meets the merged ranges where it meets one of those they were merged from.
LEMMA HitIs ==
    ASSUME NEW S, AreRanges(S), NEW r, r.start \in Int, r.end \in Int, r.start < r.end
    PROVE  Hit(Merged(S), r) <=> \E s \in S : Overlap(s, r)
<1>1. PICK m : m = Merged(S)
  OBVIOUS
<1>2. m \in Seq(Spans) /\ Apart(m) /\ \A x \in Int : Holds(m, x) <=> \E s \in S : Includes(s, x)
  BY <1>1, MergedIs
<1>3. PICK n \in Nat : n = Len(m)
  BY <1>2
<1>4. \A i \in 1 .. n : m[i].start \in Int /\ m[i].end \in Int /\ m[i].start < m[i].end
  <2>1. \A i \in 1 .. n : m[i] \in Spans
    BY <1>2, <1>3
  <2> QED
    BY <1>2, <1>3, <2>1 DEF Spans, Apart
<1>5. PICK f : f = FirstEndingAfter(m, r.start)
  OBVIOUS
<1>6. FirstAfter(m, r.start, f, 1, n + 1)
  BY <1>2, <1>3, <1>5, FirstEndingAfterIs
<1>7. Hit(m, r) <=> f <= n /\ m[f].start < r.end
  BY <1>3, <1>5 DEF Hit
<1>8. ASSUME Hit(m, r) PROVE \E s \in S : Overlap(s, r)
  <2>1. f \in 1 .. n /\ m[f].start < r.end /\ m[f].end > r.start
    BY <1>3, <1>6, <1>7, <1>8 DEF FirstAfter
  <2>2. PICK x \in Int : Includes(m[f], x) /\ Includes(r, x)
    <3>1. PICK x \in Int : x = IF m[f].start <= r.start THEN r.start ELSE m[f].start
      BY <1>4, <2>1
    <3> QED
      BY <1>4, <2>1, <3>1 DEF Includes
  <2>3. PICK s \in S : Includes(s, x)
    BY <1>2, <1>3, <2>1, <2>2 DEF Holds
  <2> QED
    BY <2>2, <2>3 DEF Includes, Overlap, AreRanges
<1>9. ASSUME NEW s \in S, Overlap(s, r) PROVE Hit(m, r)
  <2>1. PICK x \in Int : Includes(s, x) /\ Includes(r, x)
    <3>1. PICK x \in Int : x = IF s.start <= r.start THEN r.start ELSE s.start
      BY DEF AreRanges
    <3> QED
      BY <1>9, <3>1 DEF Includes, Overlap, AreRanges
  <2>2. PICK i \in 1 .. n : Includes(m[i], x)
    BY <1>2, <1>3, <2>1 DEF Holds
  <2>3. m[i].end > r.start /\ m[i].start < r.end
    BY <1>4, <2>1, <2>2 DEF Includes
  <2>4. f \in Int /\ f <= i
    <3>1. f \in 1 .. n + 1
      BY <1>6 DEF FirstAfter
    <3>2. i <= f - 1 => m[i].end <= r.start
      BY <1>3, <1>6, <3>1 DEF FirstAfter
    <3> QED
      BY <1>3, <1>4, <2>3, <3>1, <3>2
  <2>5. f \in 1 .. n
    BY <1>3, <1>6, <2>4 DEF FirstAfter
  <2>6. m[f].start <= m[i].start
    <3>1. CASE f = i
      BY <1>4, <3>1
    <3>2. CASE f # i
      <4>1. m[f].end < m[i].start
        BY <1>2, <1>3, <2>4, <2>5, <3>2, SpansApart
      <4> QED
        BY <1>4, <2>5, <4>1
    <3> QED
      BY <3>1, <3>2
  <2> QED
    BY <1>4, <1>7, <2>3, <2>4, <2>5, <2>6
<1> QED
  BY <1>1, <1>8, <1>9

-----------------------------------------------------------------------------
(* What a confirmation finds covered.                                      *)

Cover(to, r) == IF r.start > to THEN to ELSE Max({to, r.end})
Reach(S, from) == FoldLeft(LAMBDA to, r : Cover(to, r), from, Sorted(S))

CoversTo(acc, S, from, n) ==
    /\ acc[0] = from
    /\ \A k \in 1 .. n : acc[k] = Cover(acc[k - 1], Sorted(S)[k])
    /\ Reach(S, from) = acc[n]

LEMMA CoversInTurn ==
    ASSUME NEW S, NEW from \in Int, NEW n \in Nat, Sorted(S) \in Seq(Spans), n = Len(Sorted(S))
    PROVE  \E acc : CoversTo(acc, S, from, n)
<1> DEFINE seq == Sorted(S)
<1>1. DOMAIN seq = 1 .. n
  OBVIOUS
<1>2. PICK Acc : Acc = Int
  OBVIOUS
<1>3. PICK step : step = [p \in (1 .. n) \X Acc |-> Cover(p[2], seq[p[1]])]
  OBVIOUS
<1>4. RecursiveOver(n, Acc, from, step)
  <2>1. \A i \in 1 .. n : seq[i] \in Spans
    OBVIOUS
  <2> HIDE DEF seq
  <2>2. ASSUME NEW p \in (1 .. n) \X Acc PROVE Cover(p[2], seq[p[1]]) \in Acc
    <3>1. p[2] \in Int /\ seq[p[1]].end \in Int
      BY <1>2, <2>1 DEF Spans
    <3>2. Max({p[2], seq[p[1]].end}) \in Int
      BY <3>1, MaxOfTwo
    <3> QED
      BY <1>2, <3>1, <3>2 DEF Cover
  <2> QED
    BY <1>2, <1>3, <2>2 DEF RecursiveOver
<1>5. PICK it : IteratesOver(it, n, Acc, from, step)
  BY <1>4, RecursionOverPlaces
<1> DEFINE Is(f) == f = [s \in SUBSET DOMAIN seq |->
                             IF s = {} THEN from ELSE Cover(f[s \ {Max(s)}], seq[Max(s)])]
<1>6. Is(it)
  <2>1. \A s \in SUBSET (1 .. n) : s # {} => Max(s) \in 1 .. n /\ it[s \ {Max(s)}] \in Acc
    BY <1>5, MaxOfPlaces DEF IteratesOver
  <2>2. \A s \in SUBSET (1 .. n) : s # {} =>
            step[<<Max(s), it[s \ {Max(s)}]>>] = Cover(it[s \ {Max(s)}], seq[Max(s)])
    BY <2>1, <1>3
  <2> HIDE DEF seq
  <2> QED
    BY <1>1, <1>5, <2>2 DEF IteratesOver
<1>7. PICK f : Is(f) /\ Reach(S, from) = f[DOMAIN seq]
  <2>1. Reach(S, from) = (CHOOSE f : Is(f))[DOMAIN seq]
    BY Zenon DEF Reach, FoldLeft, MapThenFoldSet, Max
  <2> HIDE DEF Is
  <2> QED
    BY <1>6, <2>1, Zenon
<1> HIDE DEF seq
<1>8. PICK acc : acc = [k \in 0 .. n |-> f[1 .. k]]
  OBVIOUS
<1>9. acc[0] = from /\ Reach(S, from) = acc[n]
  BY <1>1, <1>7, <1>8
<1>10. ASSUME NEW k \in 1 .. n PROVE acc[k] = Cover(acc[k - 1], seq[k])
  <2>1. Max(1 .. k) = k /\ (1 .. k) \ {Max(1 .. k)} = 1 .. k - 1 /\ k \in 1 .. k
    BY MaxOfInterval
  <2>2. 1 .. k \in SUBSET (1 .. n)
    OBVIOUS
  <2>3. 1 .. k # {} /\ k - 1 \in 0 .. n /\ k \in 0 .. n
    BY <2>1, Places
  <2> QED
    BY <1>1, <1>7, <1>8, <2>1, <2>2, <2>3
<1> QED
  BY <1>9, <1>10 DEF seq, CoversTo

\* The ranges reach as far as they cover without a gap.
LEMMA ReachIs ==
    ASSUME NEW S, AreRanges(S), NEW from \in Int
    PROVE  /\ Reach(S, from) \in Int
           /\ \A x \in from .. Reach(S, from) - 1 : \E r \in S : Includes(r, x)
           /\ ~ \E r \in S : Includes(r, Reach(S, from))
           /\ from <= Reach(S, from)
<1>1. PICK seq : seq = Sorted(S)
  OBVIOUS
<1>2. ListsRanges(seq, S)
  BY <1>1, SortedIs
<1>3. PICK n \in Nat : n = Len(seq) /\ seq \in Seq(Spans)
  BY <1>2 DEF ListsRanges
<1>4. \A i \in 1 .. n : seq[i] \in Spans
  BY <1>3
<1>5. \A i \in 1 .. n : seq[i].start \in Int /\ seq[i].end \in Int
  BY <1>4 DEF Spans
<1>6. \A i, j \in 1 .. n : i < j => seq[i].start <= seq[j].start
  BY <1>2, <1>3 DEF ListsRanges
<1>7. PICK acc : /\ acc[0] = from
                 /\ \A k \in 1 .. n : acc[k] = Cover(acc[k - 1], seq[k])
                 /\ Reach(S, from) = acc[n]
  <2>1. Sorted(S) \in Seq(Spans) /\ n = Len(Sorted(S))
    BY <1>1, <1>3
  <2>2. PICK acc : CoversTo(acc, S, from, n)
    BY <2>1, CoversInTurn
  <2> QED
    BY <1>1, <2>2, Zenon DEF CoversTo
<1> DEFINE Good(to, k) ==
        /\ to \in Int /\ from <= to
        /\ \A x \in from .. to - 1 : \E i \in 1 .. k : Includes(seq[i], x)
        /\ \A i \in 1 .. k : seq[i].end <= to \/ to < seq[i].start
<1>8. PICK G : G = {k \in 0 .. n : Good(acc[k], k)}
  OBVIOUS
<1>9. 0 \in G
  <2>1. Good(acc[0], 0)
    BY <1>7
  <2> HIDE DEF Good
  <2> QED
    BY <1>8, <2>1
<1>10. ASSUME NEW k \in 0 .. n - 1, k \in G PROVE k + 1 \in G
  <2>1. k + 1 \in 1 .. n /\ k + 1 \in 0 .. n
    OBVIOUS
  <2>2. Good(acc[k], k)
    <3> HIDE DEF Good
    <3> QED
      BY <1>8, <1>10
  <2>3. PICK to, r, next : to = acc[k] /\ r = seq[k + 1] /\ next = acc[k + 1]
    OBVIOUS
  <2>4. next = Cover(to, r) /\ to \in Int /\ from <= to /\ r.start \in Int /\ r.end \in Int
    BY <1>5, <1>7, <2>1, <2>2, <2>3
  <2>5. next = IF r.start > to THEN to ELSE IF to >= r.end THEN to ELSE r.end
    BY <2>4, MaxOfTwo DEF Cover
  <2>6. \A i \in 1 .. k + 1 : i \in 1 .. k \/ i = k + 1
    OBVIOUS
  <2>7. \A i \in 1 .. k : i \in 1 .. k + 1 /\ i \in 1 .. n /\ i < k + 1
    OBVIOUS
  <2>8. k + 1 \in 1 .. k + 1
    OBVIOUS
  <2>9. next \in Int /\ from <= next
    BY <2>4, <2>5
  <2>10. ASSUME NEW x \in from .. next - 1 PROVE \E i \in 1 .. k + 1 : Includes(seq[i], x)
    <3>1. CASE x < to
      <4>1. x \in from .. to - 1
        BY <2>4, <2>9, <3>1
      <4>2. PICK i \in 1 .. k : Includes(seq[i], x)
        BY <2>2, <2>3, <4>1
      <4> QED
        BY <2>7, <4>2
    <3>2. CASE ~(x < to)
      <4>1. Includes(r, x)
        BY <2>4, <2>5, <2>9, <3>2 DEF Includes
      <4> QED
        BY <2>3, <2>8, <4>1
    <3> QED
      BY <3>1, <3>2
  <2>11. ASSUME NEW i \in 1 .. k + 1 PROVE seq[i].end <= next \/ next < seq[i].start
    <3>1. CASE i = k + 1
      BY <2>3, <2>4, <2>5, <3>1
    <3>2. CASE i \in 1 .. k
      <4>1. seq[i].end <= to \/ to < seq[i].start
        BY <2>2, <2>3, <3>2
      <4>2. seq[i].start <= r.start /\ seq[i].start \in Int /\ seq[i].end \in Int
        BY <1>5, <1>6, <2>1, <2>3, <2>7, <3>2
      <4> QED
        BY <2>4, <2>5, <4>1, <4>2
    <3> QED
      BY <2>6, <3>1, <3>2
  <2>12. Good(next, k + 1)
    BY <2>9, <2>10, <2>11
  <2> HIDE DEF Good
  <2> QED
    BY <1>8, <2>1, <2>3, <2>12
<1>11. Good(acc[n], n)
  <2> HIDE DEF Good
  <2>1. 0 .. n \subseteq G
    BY <1>9, <1>10, InductUpTo
  <2> QED
    BY <1>8, <2>1
<1>12. \A x \in Int : (\E i \in 1 .. n : Includes(seq[i], x)) <=> \E r \in S : Includes(r, x)
  BY <1>2, <1>3 DEF ListsRanges, Includes
<1>13. ~ \E i \in 1 .. n : Includes(seq[i], acc[n])
  BY <1>5, <1>11 DEF Includes
<1>14. acc[n] \in Int /\ from <= acc[n] /\ \A x \in from .. acc[n] - 1 : \E i \in 1 .. n : Includes(seq[i], x)
  BY <1>11
<1> QED
  BY <1>7, <1>12, <1>13, <1>14

\* A confirmation finds a meeting covered when every instant lies in a row, and every row
\* it touches can be used.
LEMMA CoveredIs ==
    ASSUME NEW S, AreRanges(S), NEW m, m.start \in Int, m.end \in Int, NEW t
    PROVE  Covered(S, m, t) <=>
               /\ \A r \in S : Overlap(r, m) => ~Unusable(r, t)
               /\ \A x \in m.start .. m.end - 1 : \E r \in S : Includes(r, x)
<1>1. PICK T : T = {r \in S : Overlap(r, m)}
  OBVIOUS
<1>2. AreRanges(T)
  BY <1>1, FS_Subset DEF AreRanges
<1>3. Covered(S, m, t) <=> (\A r \in T : ~Unusable(r, t)) /\ Reach(T, m.start) >= m.end
  BY <1>1, Zenon DEF Covered, Reach, Cover
<1>4. PICK to : to = Reach(T, m.start)
  OBVIOUS
<1>5. /\ to \in Int /\ m.start <= to
      /\ \A x \in m.start .. to - 1 : \E r \in T : Includes(r, x)
      /\ ~ \E r \in T : Includes(r, to)
  BY <1>2, <1>4, ReachIs
<1>6. ASSUME to >= m.end, NEW x \in m.start .. m.end - 1 PROVE \E r \in S : Includes(r, x)
  <2>1. x \in m.start .. to - 1
    BY <1>5, <1>6
  <2> QED
    BY <1>1, <1>5, <2>1
<1>7. ASSUME \A x \in m.start .. m.end - 1 : \E r \in S : Includes(r, x) PROVE to >= m.end
  <2> SUFFICES ASSUME to < m.end PROVE FALSE
    BY <1>5
  <2>1. to \in m.start .. m.end - 1
    BY <1>5
  <2>2. PICK r \in S : Includes(r, to)
    BY <1>7, <2>1
  <2>3. Overlap(r, m)
    BY <1>5, <2>1, <2>2 DEF Overlap, Includes, AreRanges
  <2> QED
    BY <1>1, <1>5, <2>2, <2>3
<1>8. (\A r \in T : ~Unusable(r, t)) <=> \A r \in S : Overlap(r, m) => ~Unusable(r, t)
  BY <1>1
<1> QED
  BY <1>3, <1>4, <1>6, <1>7, <1>8

-----------------------------------------------------------------------------
(* The end points of rows, in their order.                                 *)

Points(V) == {r.start : r \in V} \cup {r.end : r \in V}
Times(V) == InOrder(Points(V), {p \in Points(V) \X Points(V) : p[1] < p[2]})

AreTimes(times, V) ==
    /\ times \in Seq(Int)
    /\ \A i \in 1 .. Len(times) : times[i] \in Points(V)
    /\ \A x \in Points(V) : \E i \in 1 .. Len(times) : times[i] = x
    /\ \A i, j \in 1 .. Len(times) : i < j => times[i] < times[j]

LEMMA SeqOfMore ==
    ASSUME NEW S, NEW T, S \subseteq T, NEW s \in Seq(S)
    PROVE  s \in Seq(T)
<1>1. PICK n \in Nat : n = Len(s)
  OBVIOUS
<1>2. s \in [1 .. n -> S]
  BY <1>1
<1>3. s \in [1 .. n -> T]
  BY <1>2
<1> QED
  BY <1>3

LEMMA TimesAre ==
    ASSUME NEW V, AreRanges(V)
    PROVE  AreTimes(Times(V), V) /\ IsFiniteSet(Points(V)) /\ Points(V) \subseteq Int
<1>1. PICK Q, R : Q = Points(V) /\ R = {p \in Q \X Q : p[1] < p[2]}
  OBVIOUS
<1>2. Q \subseteq Int
  BY <1>1 DEF Points, AreRanges
<1>3. IsFiniteSet(Q)
  <2>1. PICK start, end : start = [r \in V |-> r.start] /\ end = [r \in V |-> r.end]
    OBVIOUS
  <2>2. IsFiniteSet({start[r] : r \in V}) /\ IsFiniteSet({end[r] : r \in V})
    BY FiniteImage DEF AreRanges
  <2>3. Q = {start[r] : r \in V} \cup {end[r] : r \in V}
    BY <1>1, <2>1 DEF Points
  <2> QED
    BY <2>2, <2>3, FS_Union
<1>4. \A x, y \in Q : <<x, y>> \in R <=> x < y
  BY <1>1
<1>5. StrictlyOrders(R, Q)
  BY <1>2, <1>4 DEF StrictlyOrders
<1>6. PICK times : times = Times(V) /\ Lists(times, Q, R)
  BY <1>1, <1>3, <1>5, InOrderLists DEF Times
<1>7. times \in Seq(Int) /\ \A i \in 1 .. Len(times) : times[i] \in Q
  <2>1. times \in Seq(Q)
    BY <1>6 DEF Lists
  <2>2. \A i \in 1 .. Len(times) : times[i] \in Q
    BY <2>1
  <2>3. times \in Seq(Int)
    BY <1>2, <2>1, SeqOfMore
  <2> QED
    BY <2>2, <2>3
<1>8. \A i, j \in 1 .. Len(times) : i < j => times[i] < times[j]
  BY <1>4, <1>6, <1>7 DEF Lists
<1>9. \A x \in Q : \E i \in 1 .. Len(times) : times[i] = x
  BY <1>6 DEF Lists
<1> QED
  BY <1>1, <1>2, <1>3, <1>6, <1>7, <1>8, <1>9 DEF AreTimes

\* Nothing begins or ends between one of the times and the next.
LEMMA NothingBetween ==
    ASSUME NEW V, AreRanges(V), NEW times, AreTimes(times, V), NEW i \in 1 .. Len(times) - 1
    PROVE  /\ times[i] \in Int /\ times[i + 1] \in Int /\ times[i] < times[i + 1]
           /\ times[i] \in Points(V) /\ times[i + 1] \in Points(V)
           /\ \A y \in Points(V) : y <= times[i] \/ times[i + 1] <= y
<1>1. PICK n \in Nat : n = Len(times)
  BY DEF AreTimes
<1>2. i \in 1 .. n /\ i + 1 \in 1 .. n /\ i < i + 1
  BY <1>1
<1>3. \A j \in 1 .. n : times[j] \in Int /\ times[j] \in Points(V)
  BY <1>1 DEF AreTimes
<1>4. times[i] < times[i + 1]
  BY <1>1, <1>2 DEF AreTimes
<1>5. ASSUME NEW y \in Points(V) PROVE y <= times[i] \/ times[i + 1] <= y
  <2>1. PICK j \in 1 .. n : times[j] = y
    BY <1>1 DEF AreTimes
  <2>2. CASE j = i \/ j = i + 1
    BY <1>2, <1>3, <2>1, <2>2
  <2>3. CASE j < i
    BY <1>1, <1>2, <1>3, <2>1, <2>3 DEF AreTimes
  <2>4. CASE j > i + 1
    BY <1>1, <1>2, <1>3, <2>1, <2>4 DEF AreTimes
  <2> QED
    BY <1>2, <2>1, <2>2, <2>3, <2>4
<1> QED
  BY <1>2, <1>3, <1>4, <1>5

LEMMA FirstAndLastTime ==
    ASSUME NEW V, AreRanges(V), NEW times, AreTimes(times, V), times # <<>>
    PROVE  \A y \in Points(V) : times[1] <= y /\ y <= times[Len(times)]
<1>1. PICK n \in Nat : n = Len(times)
  BY DEF AreTimes
<1>2. n # 0 /\ 1 \in 1 .. n /\ n \in 1 .. n
  BY <1>1 DEF AreTimes
<1>3. \A j \in 1 .. n : times[j] \in Int
  BY <1>1 DEF AreTimes
<1> SUFFICES ASSUME NEW y \in Points(V) PROVE times[1] <= y /\ y <= times[n]
  BY <1>1
<1>4. PICK j \in 1 .. n : times[j] = y
  BY <1>1 DEF AreTimes
<1>5. j = 1 \/ times[1] < times[j]
  BY <1>1, <1>2 DEF AreTimes
<1>6. j = n \/ times[j] < times[n]
  BY <1>1, <1>2 DEF AreTimes
<1> QED
  BY <1>2, <1>3, <1>4, <1>5, <1>6

\* Counting the ranges around a time.
Count(S, x) == Cardinality({r \in S : Includes(r, x)})
Opens(S, x) == Cardinality({r \in S : r.start = x})
Ends(S, x) == Cardinality({r \in S : r.end = x})

LEMMA Counted ==
    ASSUME NEW S, IsFiniteSet(S), NEW x
    PROVE  Count(S, x) \in Nat /\ Opens(S, x) \in Nat /\ Ends(S, x) \in Nat
<1>1. /\ IsFiniteSet({r \in S : Includes(r, x)})
      /\ IsFiniteSet({r \in S : r.start = x})
      /\ IsFiniteSet({r \in S : r.end = x})
  BY FS_Subset
<1> QED
  BY <1>1, FS_CardinalityType DEF Count, Opens, Ends

LEMMA CountedSome ==
    ASSUME NEW S, IsFiniteSet(S), NEW x
    PROVE  Count(S, x) > 0 <=> \E r \in S : Includes(r, x)
<1>1. PICK A : A = {r \in S : Includes(r, x)}
  OBVIOUS
<1>2. IsFiniteSet(A) /\ Cardinality(A) \in Nat /\ Count(S, x) = Cardinality(A)
  BY <1>1, FS_Subset, FS_CardinalityType DEF Count
<1>3. Cardinality(A) = 0 <=> A = {}
  BY <1>2, FS_EmptySet
<1> QED
  BY <1>1, <1>2, <1>3

LEMMA CountApart ==
    ASSUME NEW A, NEW B, IsFiniteSet(A), IsFiniteSet(B), A \cap B = {}, NEW C, C = A \cup B
    PROVE  Cardinality(C) = Cardinality(A) + Cardinality(B)
<1>1. Cardinality(C) = Cardinality(A) + Cardinality(B) - Cardinality(A \cap B)
  BY FS_Union
<1>2. Cardinality(A \cap B) = 0
  BY FS_EmptySet
<1>3. Cardinality(A) \in Nat /\ Cardinality(B) \in Nat
  BY FS_CardinalityType
<1> QED
  BY <1>1, <1>2, <1>3

LEMMA CountGoesOn ==
    ASSUME NEW S, AreRanges(S), NEW a \in Int, NEW b \in Int, a < b,
           \A r \in S : (r.start <= a \/ b <= r.start) /\ (r.end <= a \/ b <= r.end)
    PROVE  Count(S, b) = Count(S, a) + Opens(S, b) - Ends(S, b)
<1>1. PICK A, B, O, E : /\ A = {r \in S : Includes(r, a)} /\ B = {r \in S : Includes(r, b)}
                        /\ O = {r \in S : r.start = b} /\ E = {r \in S : r.end = b}
  OBVIOUS
<1>2. \A r \in S : r.start \in Int /\ r.end \in Int /\ r.start < r.end
  BY DEF AreRanges
<1>3. A = (A \ E) \cup E /\ (A \ E) \cap E = {}
  BY <1>1, <1>2 DEF Includes
<1>4. B = (A \ E) \cup O /\ (A \ E) \cap O = {}
  BY <1>1, <1>2 DEF Includes
<1>5. IsFiniteSet(A) /\ IsFiniteSet(A \ E) /\ IsFiniteSet(E) /\ IsFiniteSet(O) /\ IsFiniteSet(B)
  BY <1>1, FS_Subset DEF AreRanges
<1>6. PICK D : D = A \ E
  OBVIOUS
<1>7. Cardinality(A) = Cardinality(D) + Cardinality(E)
  BY <1>3, <1>5, <1>6, CountApart
<1>8. Cardinality(B) = Cardinality(D) + Cardinality(O)
  BY <1>4, <1>5, <1>6, CountApart
<1>9. {Cardinality(D), Cardinality(E), Cardinality(O)} \subseteq Int
  BY <1>5, <1>6, FS_CardinalityType
<1> QED
  BY <1>1, <1>7, <1>8, <1>9 DEF Count, Opens, Ends

LEMMA CountBegins ==
    ASSUME NEW S, AreRanges(S), NEW b \in Int, \A r \in S : b <= r.start
    PROVE  Count(S, b) = 0 + Opens(S, b) - Ends(S, b)
<1>1. \A r \in S : r.start \in Int /\ r.end \in Int /\ r.start < r.end
  BY DEF AreRanges
<1>2. {r \in S : r.end = b} = {}
  BY <1>1
<1>3. {r \in S : Includes(r, b)} = {r \in S : r.start = b}
  BY <1>1 DEF Includes
<1>4. Opens(S, b) \in Nat
  BY Counted DEF AreRanges
<1>5. Count(S, b) = Opens(S, b)
  BY <1>3 DEF Count, Opens
<1>6. Ends(S, b) = 0
  BY <1>2, FS_EmptySet DEF Ends
<1> QED
  BY <1>4, <1>5, <1>6

-----------------------------------------------------------------------------
(* The spans of the sweep, one by one.                                     *)

Stretches == [start : Int, end : Int, score : Int]
AddSpan(s, from, to, score) ==
    IF s # <<>> /\ Last(s).end = from /\ Last(s).score = score
    THEN Append(Front(s), [Last(s) EXCEPT !.end = to])
    ELSE Append(s, [start |-> from, end |-> to, score |-> score])

\* Spans in their order, which may touch, that begin and end at some of the points.
Laid(s, points) ==
    /\ s \in Seq(Stretches)
    /\ \A i \in 1 .. Len(s) : s[i].start < s[i].end /\ s[i].start \in points /\ s[i].end \in points
    /\ \A i \in 1 .. Len(s) - 1 : s[i].end <= s[i + 1].start
Marks(span, x, v) == Includes(span, x) /\ span.score = v
Marked(s, x, v) == \E i \in 1 .. Len(s) : Marks(s[i], x, v)

LEMMA AddSpanTyped ==
    ASSUME NEW s \in Seq(Stretches), NEW from \in Int, NEW to \in Int, NEW score \in Int
    PROVE  AddSpan(s, from, to, score) \in Seq(Stretches)
<1>1. CASE s # <<>> /\ Last(s).end = from /\ Last(s).score = score
  <2>1. Last(s) \in Stretches
    BY <1>1, LastOf
  <2>2. PICK e \in Stretches : e = [Last(s) EXCEPT !.end = to]
    BY <2>1 DEF Stretches
  <2>3. AddSpan(s, from, to, score) = Append(Front(s), e)
    BY <1>1, <2>2 DEF AddSpan
  <2> QED
    BY <1>1, <2>3, ReplaceLast
<1>2. CASE ~(s # <<>> /\ Last(s).end = from /\ Last(s).score = score)
  <2>1. [start |-> from, end |-> to, score |-> score] \in Stretches
    BY DEF Stretches
  <2>2. AddSpan(s, from, to, score) = Append(s, [start |-> from, end |-> to, score |-> score])
    BY <1>2 DEF AddSpan
  <2> QED
    BY <2>1, <2>2
<1> QED
  BY <1>1, <1>2

\* A stretch of time that joins the last span.
LEMMA SpanJoins ==
    ASSUME NEW points \in SUBSET Int, NEW s, Laid(s, points), s # <<>>,
           NEW from \in points, NEW to \in points, NEW score \in Int, from < to,
           Last(s).end = from, Last(s).score = score, NEW r, r = AddSpan(s, from, to, score)
    PROVE  /\ Laid(r, points) /\ r # <<>> /\ Last(r).end = to
           /\ \A x \in Int, v \in Int :
                  Marked(r, x, v) <=> Marked(s, x, v) \/ (from <= x /\ x < to /\ v = score)
<1>1. PICK n : n = Len(s)
  OBVIOUS
<1>2. PICK e : e = [s[n] EXCEPT !.end = to]
  OBVIOUS
<1>3. s \in Seq(Stretches) /\ from \in Int /\ to \in Int
  BY DEF Laid
<1>4. n \in Nat \ {0} /\ s[n] \in Stretches /\ Last(s) = s[n]
  BY <1>1, <1>3, LastOf
<1>5. n \in 1 .. n /\ s[n].start < s[n].end /\ s[n].start \in points
  BY <1>1, <1>4 DEF Laid
<1>6. e \in Stretches /\ e.start = s[n].start /\ e.end = to /\ e.score = score
  BY <1>2, <1>3, <1>4 DEF Stretches
<1>7. r = Append(Front(s), e)
  BY <1>2, <1>4 DEF AddSpan
<1>8. r \in Seq(Stretches) /\ ReplacesLast(r, s, e)
  BY <1>3, <1>6, <1>7, ReplaceLast
<1>9. Len(r) = n /\ (\A i \in 1 .. n - 1 : r[i] = s[i]) /\ r[n] = e
  BY <1>1, <1>8 DEF ReplacesLast
<1>10. \A i \in 1 .. n : i \in 1 .. n - 1 \/ i = n
  BY <1>4
<1>11. s[n].start \in Int /\ s[n].end = from
  BY <1>4 DEF Stretches
<1>12. \A i \in 1 .. n : r[i].start < r[i].end /\ r[i].start \in points /\ r[i].end \in points
  BY <1>1, <1>3, <1>5, <1>6, <1>9, <1>10, <1>11 DEF Laid
<1>13. \A i \in 1 .. n - 1 : r[i].end <= r[i + 1].start
  <2> SUFFICES ASSUME NEW i \in 1 .. n - 1
               PROVE  r[i].end <= r[i + 1].start
    OBVIOUS
  <2>1. r[i] = s[i] /\ i + 1 \in 1 .. n
    BY <1>4, <1>9
  <2>2. r[i + 1].start = s[i + 1].start
    BY <1>6, <1>9, <1>10, <2>1
  <2> QED
    BY <1>1, <2>1, <2>2 DEF Laid
<1>14. Laid(r, points)
  BY <1>8, <1>9, <1>12, <1>13 DEF Laid
<1>15. ASSUME NEW x \in Int, NEW v \in Int
       PROVE  Marked(r, x, v) <=> Marked(s, x, v) \/ (from <= x /\ x < to /\ v = score)
  <2>1. Marks(e, x, v) <=> Marks(s[n], x, v) \/ (from <= x /\ x < to /\ v = score)
    BY <1>3, <1>4, <1>5, <1>6, <1>11 DEF Marks, Includes
  <2>2. Marked(r, x, v) <=> (\E i \in 1 .. n - 1 : Marks(s[i], x, v)) \/ Marks(e, x, v)
    <3>1. Marked(r, x, v) <=> \E i \in 1 .. n : Marks(r[i], x, v)
      BY <1>9 DEF Marked
    <3> QED
      BY <1>4, <1>9, <1>10, <3>1
  <2>3. Marked(s, x, v) <=> (\E i \in 1 .. n - 1 : Marks(s[i], x, v)) \/ Marks(s[n], x, v)
    BY <1>1, <1>4, <1>10 DEF Marked
  <2> QED
    BY <2>1, <2>2, <2>3
<1>16. r # <<>> /\ Last(r).end = to
  <2>1. r # <<>>
    BY <1>4, <1>9
  <2> QED
    BY <1>6, <1>8, <1>9, <2>1, LastOf
<1> QED
  BY <1>14, <1>15, <1>16

\* A stretch of time that is a span of its own.
LEMMA SpanFollows ==
    ASSUME NEW points \in SUBSET Int, NEW s, Laid(s, points),
           NEW from \in points, NEW to \in points, NEW score \in Int, from < to,
           s # <<>> => Last(s).end <= from, ~(s # <<>> /\ Last(s).end = from /\ Last(s).score = score),
           NEW r, r = AddSpan(s, from, to, score)
    PROVE  /\ Laid(r, points) /\ r # <<>> /\ Last(r).end = to
           /\ \A x \in Int, v \in Int :
                  Marked(r, x, v) <=> Marked(s, x, v) \/ (from <= x /\ x < to /\ v = score)
<1>1. s \in Seq(Stretches) /\ from \in Int /\ to \in Int
  BY DEF Laid
<1>2. PICK n \in Nat : n = Len(s)
  BY <1>1
<1>3. PICK e : e = [start |-> from, end |-> to, score |-> score]
  OBVIOUS
<1>4. e \in Stretches /\ e.start = from /\ e.end = to /\ e.score = score
  BY <1>1, <1>3 DEF Stretches
<1>5. r = Append(s, e)
  BY <1>3 DEF AddSpan
<1>6. r \in Seq(Stretches) /\ Len(r) = n + 1 /\ (\A i \in 1 .. n : r[i] = s[i]) /\ r[n + 1] = e
  BY <1>1, <1>2, <1>4, <1>5
<1>7. \A i \in 1 .. n + 1 : i \in 1 .. n \/ i = n + 1
  BY <1>2
<1>8. n # 0 => s[n].end <= from
  <2> HAVE n # 0
  <2>1. s # <<>>
    BY <1>2
  <2> QED
    BY <1>1, <1>2, <2>1, LastOf
<1>9. \A i \in 1 .. n + 1 : r[i].start < r[i].end /\ r[i].start \in points /\ r[i].end \in points
  BY <1>2, <1>4, <1>6, <1>7 DEF Laid
<1>10. \A i \in 1 .. n : r[i].end <= r[i + 1].start
  <2> SUFFICES ASSUME NEW i \in 1 .. n PROVE r[i].end <= r[i + 1].start
    OBVIOUS
  <2>1. CASE i = n
    <3>1. n # 0 /\ r[i] = s[n] /\ r[i + 1] = e
      BY <1>2, <1>6, <2>1
    <3> QED
      BY <1>4, <1>8, <3>1
  <2>2. CASE i # n
    <3>1. i \in 1 .. n - 1 /\ i + 1 \in 1 .. n
      BY <1>2, <2>2
    <3> QED
      BY <1>2, <1>6, <3>1 DEF Laid
  <2> QED
    BY <2>1, <2>2
<1>11. Laid(r, points)
  <2>1. \A i \in 1 .. Len(r) - 1 : r[i].end <= r[i + 1].start
    BY <1>2, <1>6, <1>10
  <2> QED
    BY <1>6, <1>9, <2>1 DEF Laid
<1>12. ASSUME NEW x \in Int, NEW v \in Int
       PROVE  Marked(r, x, v) <=> Marked(s, x, v) \/ (from <= x /\ x < to /\ v = score)
  <2>1. Marked(r, x, v) <=> (\E i \in 1 .. n : Marks(s[i], x, v)) \/ Marks(e, x, v)
    <3>1. Marked(r, x, v) <=> \E i \in 1 .. n + 1 : Marks(r[i], x, v)
      BY <1>6 DEF Marked
    <3>2. n + 1 \in 1 .. n + 1 /\ \A i \in 1 .. n : i \in 1 .. n + 1
      BY <1>2
    <3> QED
      BY <1>6, <1>7, <3>1, <3>2
  <2>2. Marked(s, x, v) <=> \E i \in 1 .. n : Marks(s[i], x, v)
    BY <1>2 DEF Marked
  <2>3. Marks(e, x, v) <=> from <= x /\ x < to /\ v = score
    BY <1>4 DEF Marks, Includes
  <2> QED
    BY <2>1, <2>2, <2>3
<1>13. r # <<>> /\ Last(r).end = to
  <2>1. r # <<>>
    BY <1>2, <1>6
  <2> QED
    BY <1>4, <1>6, <2>1, LastOf
<1> QED
  BY <1>11, <1>12, <1>13

-----------------------------------------------------------------------------
(* One step of the sweep, and all of them.                                 *)

Unusables(V) == {r \in V : Unusable(r, now)}
OfQuality(V, q) == {r \in V \ Unusables(V) : Quality(r) = q}
Qualities(V) == {Quality(r) : r \in V}
Sweeps(V) == [blocked : Int, active : [Qualities(V) -> Int], spans : Seq(Stretches)]

Present(V, sweep) == {q \in Qualities(V) : sweep.active[q] > 0}
Steps(V, times, sweep, i, next) ==
    /\ next.blocked = sweep.blocked + Opens(Unusables(V), times[i]) - Ends(Unusables(V), times[i])
    /\ \A q \in Qualities(V) :
           next.active[q] = sweep.active[q] + Opens(OfQuality(V, q), times[i]) - Ends(OfQuality(V, q), times[i])
    /\ next.spans =
           IF i = Len(times) \/ next.blocked > 0 \/ Present(V, next) = {} THEN sweep.spans
           ELSE AddSpan(sweep.spans, times[i], times[i + 1], Min(Present(V, next)))

LEMMA QualityTyped ==
    ASSUME NEW row \in Rows
    PROVE  Quality(row) \in Int
<1>1. row.state \in [P!Dimensions -> 0 .. 3]
  BY DEF Rows, P!States
<1>2. row.state.availability \in 0 .. 3 /\ row.state.reschedulability \in 0 .. 3
  BY <1>1 DEF P!Dimensions
<1>3. \A k \in 0 .. 3 : <<100, 40, -100, 0>>[k + 1] \in Int /\ <<30, 10, -20, -100>>[k + 1] \in Int
  <2>1. \A k \in 0 .. 3 : k = 0 \/ k = 1 \/ k = 2 \/ k = 3
    OBVIOUS
  <2> QED
    BY <2>1
<1> QED
  BY <1>2, <1>3 DEF Quality

LEMMA QualitiesTyped ==
    ASSUME NEW V \in SUBSET Rows, IsFiniteSet(V)
    PROVE  Qualities(V) \in SUBSET Int /\ IsFiniteSet(Qualities(V))
<1>1. \A r \in V : Quality(r) \in Int
  BY QualityTyped
<1>2. PICK f : f = [r \in V |-> Quality(r)]
  OBVIOUS
<1>3. IsFiniteSet({f[r] : r \in V}) /\ Qualities(V) = {f[r] : r \in V}
  BY <1>2, FiniteImage DEF Qualities
<1> QED
  BY <1>1, <1>3 DEF Qualities

LEMMA SweepStepIs ==
    ASSUME NEW V \in SUBSET Rows, IsFiniteSet(V), NEW times \in Seq(Int), NEW i \in 1 .. Len(times),
           NEW sweep \in Sweeps(V), NEW next, next = SweepStep(V, times, sweep, i)
    PROVE  next \in Sweeps(V) /\ Steps(V, times, sweep, i, next)
<1>1. sweep.blocked \in Int /\ sweep.active \in [Qualities(V) -> Int] /\ sweep.spans \in Seq(Stretches)
  BY DEF Sweeps
<1>2. PICK blocked : blocked = sweep.blocked + Opens(Unusables(V), times[i]) - Ends(Unusables(V), times[i])
  OBVIOUS
<1>3. PICK active : active = [q \in DOMAIN sweep.active |->
          sweep.active[q] + Opens(OfQuality(V, q), times[i]) - Ends(OfQuality(V, q), times[i])]
  OBVIOUS
<1>4. PICK present : present = {q \in DOMAIN active : active[q] > 0}
  OBVIOUS
<1>5. PICK same : same = [blocked |-> blocked, active |-> active, spans |-> sweep.spans]
  OBVIOUS
<1>6. next = IF i = Len(times) \/ blocked > 0 \/ present = {} THEN same
             ELSE IF sweep.spans # <<>> /\ Last(sweep.spans).end = times[i] /\ Last(sweep.spans).score = Min(present)
             THEN [same EXCEPT !.spans = Append(Front(@), [Last(@) EXCEPT !.end = times[i + 1]])]
             ELSE [same EXCEPT !.spans = Append(@, [start |-> times[i], end |-> times[i + 1], score |-> Min(present)])]
  BY <1>2, <1>3, <1>4, <1>5, Zenon DEF SweepStep, Opens, Ends, Unusables, OfQuality
<1>7. next = [blocked |-> blocked, active |-> active, spans |-> next.spans]
  <2>1. PICK a, b : /\ a = Append(Front(same.spans), [Last(same.spans) EXCEPT !.end = times[i + 1]])
                    /\ b = Append(same.spans, [start |-> times[i], end |-> times[i + 1], score |-> Min(present)])
    OBVIOUS
  <2>2. next = same \/ next = [same EXCEPT !.spans = a] \/ next = [same EXCEPT !.spans = b]
    BY <1>6, <2>1, Zenon
  <2>3. \A x : [same EXCEPT !.spans = x] = [blocked |-> blocked, active |-> active, spans |-> x]
    BY <1>5
  <2>4. \A x : [blocked |-> blocked, active |-> active, spans |-> x].spans = x
    OBVIOUS
  <2>5. PICK x : next = [blocked |-> blocked, active |-> active, spans |-> x]
    BY <1>5, <2>2, <2>3
  <2> QED
    BY <2>4, <2>5
<1>15. next.spans = IF i = Len(times) \/ blocked > 0 \/ present = {} THEN sweep.spans
                    ELSE AddSpan(sweep.spans, times[i], times[i + 1], Min(present))
  <2>1. CASE i = Len(times) \/ blocked > 0 \/ present = {}
    BY <1>5, <1>6, <2>1
  <2>2. CASE ~(i = Len(times) \/ blocked > 0 \/ present = {})
    <3>1. CASE sweep.spans # <<>> /\ Last(sweep.spans).end = times[i] /\ Last(sweep.spans).score = Min(present)
      BY <1>5, <1>6, <2>2, <3>1 DEF AddSpan
    <3>2. CASE ~(sweep.spans # <<>> /\ Last(sweep.spans).end = times[i] /\ Last(sweep.spans).score = Min(present))
      BY <1>5, <1>6, <2>2, <3>2 DEF AddSpan
    <3> QED
      BY <3>1, <3>2
  <2> QED
    BY <2>1, <2>2
<1>16. next.blocked = blocked /\ next.active = active
  BY <1>7
<1>8. IsFiniteSet(Unusables(V)) /\ \A q : IsFiniteSet(OfQuality(V, q))
  <2>1. IsFiniteSet(Unusables(V)) /\ IsFiniteSet(V \ Unusables(V))
    BY FS_Subset DEF Unusables
  <2>2. \A q : OfQuality(V, q) \subseteq V
    BY DEF OfQuality
  <2> QED
    BY <2>1, <2>2, FS_Subset
<1>9. blocked \in Int
  BY <1>1, <1>2, <1>8, Counted
<1>10. active \in [Qualities(V) -> Int]
  <2>1. \A q \in Qualities(V) :
            sweep.active[q] + Opens(OfQuality(V, q), times[i]) - Ends(OfQuality(V, q), times[i]) \in Int
    <3> TAKE q \in Qualities(V)
    <3>1. Opens(OfQuality(V, q), times[i]) \in Nat /\ Ends(OfQuality(V, q), times[i]) \in Nat
      BY <1>8, Counted
    <3> QED
      BY <1>1, <3>1
  <2> QED
    BY <1>1, <1>3, <2>1
<1>11. present = Present(V, next)
  BY <1>4, <1>10, <1>16 DEF Present
<1>12. next.spans \in Seq(Stretches)
  <2>1. CASE i = Len(times) \/ blocked > 0 \/ present = {}
    BY <1>1, <1>15, <2>1
  <2>2. CASE ~(i = Len(times) \/ blocked > 0 \/ present = {})
    <3>1. Min(present) \in Int
      <4>1. present \subseteq Qualities(V)
        BY <1>11 DEF Present
      <4>2. present \in SUBSET Int /\ IsFiniteSet(present)
        BY <4>1, QualitiesTyped, FS_Subset
      <4>3. Min(present) \in present
        BY <2>2, <4>2, MinOfSet
      <4> QED
        BY <4>2, <4>3
    <3>2. times[i] \in Int /\ times[i + 1] \in Int
      <4>1. i + 1 \in 1 .. Len(times)
        BY <2>2
      <4> QED
        BY <4>1
    <3>3. next.spans = AddSpan(sweep.spans, times[i], times[i + 1], Min(present))
      BY <1>15, <2>2
    <3> QED
      BY <1>1, <3>1, <3>2, <3>3, AddSpanTyped
  <2> QED
    BY <2>1, <2>2
<1>13. next \in Sweeps(V)
  BY <1>7, <1>9, <1>10, <1>12 DEF Sweeps
<1>14. \A q \in Qualities(V) :
           next.active[q] = sweep.active[q] + Opens(OfQuality(V, q), times[i]) - Ends(OfQuality(V, q), times[i])
  BY <1>1, <1>3, <1>16
<1>17. next.blocked = sweep.blocked + Opens(Unusables(V), times[i]) - Ends(Unusables(V), times[i])
  BY <1>2, <1>16
<1>18. next.spans = IF i = Len(times) \/ next.blocked > 0 \/ Present(V, next) = {} THEN sweep.spans
                    ELSE AddSpan(sweep.spans, times[i], times[i + 1], Min(Present(V, next)))
  BY <1>11, <1>15, <1>16
<1> QED
  BY <1>13, <1>14, <1>17, <1>18 DEF Steps

Nought(V) == [blocked |-> 0, active |-> [q \in Qualities(V) |-> 0], spans |-> <<>>]
SweepsTo(acc, V, n) ==
    /\ acc[0] = Nought(V)
    /\ \A k \in 1 .. n : acc[k] = SweepStep(V, Times(V), acc[k - 1], k)
    /\ CandidateSpans(V) = acc[n].spans

LEMMA NoughtTyped ==
    ASSUME NEW V
    PROVE  Nought(V) \in Sweeps(V)
<1>1. [q \in Qualities(V) |-> 0] \in [Qualities(V) -> Int] /\ <<>> \in Seq(Stretches) /\ 0 \in Int
  OBVIOUS
<1> QED
  BY <1>1 DEF Nought, Sweeps

LEMMA SweepsInTurn ==
    ASSUME NEW V \in SUBSET Rows, IsFiniteSet(V), NEW n \in Nat, Times(V) \in Seq(Int), n = Len(Times(V))
    PROVE  \E acc : SweepsTo(acc, V, n)
<1> DEFINE seq == [i \in 1 .. n |-> i]
           times == Times(V)
<1>1. DOMAIN seq = 1 .. n /\ \A i \in 1 .. n : seq[i] = i
  OBVIOUS
<1>2. PICK Acc : Acc = Sweeps(V)
  OBVIOUS
<1>3. PICK step : step = [p \in (1 .. n) \X Acc |-> SweepStep(V, times, p[2], p[1])]
  OBVIOUS
<1>4. RecursiveOver(n, Acc, Nought(V), step)
  <2>1. Nought(V) \in Acc
    BY <1>2, NoughtTyped
  <2>2. times \in Seq(Int) /\ n = Len(times)
    OBVIOUS
  <2> HIDE DEF seq, times
  <2>3. ASSUME NEW p \in (1 .. n) \X Acc PROVE SweepStep(V, times, p[2], p[1]) \in Acc
    <3>1. p[1] \in 1 .. Len(times) /\ p[2] \in Sweeps(V)
      BY <1>2, <2>2
    <3> QED
      BY <1>2, <2>2, <3>1, SweepStepIs
  <2> QED
    BY <1>3, <2>1, <2>3 DEF RecursiveOver
<1>5. PICK it : IteratesOver(it, n, Acc, Nought(V), step)
  BY <1>4, RecursionOverPlaces
<1> DEFINE Is(f) == f = [s \in SUBSET DOMAIN seq |->
                             IF s = {} THEN Nought(V) ELSE SweepStep(V, Times(V), f[s \ {Max(s)}], seq[Max(s)])]
<1>6. Is(it)
  <2>1. \A s \in SUBSET (1 .. n) : s # {} => Max(s) \in 1 .. n /\ it[s \ {Max(s)}] \in Acc
    BY <1>5, MaxOfPlaces DEF IteratesOver
  <2>2. \A s \in SUBSET (1 .. n) : s # {} =>
            step[<<Max(s), it[s \ {Max(s)}]>>] = SweepStep(V, times, it[s \ {Max(s)}], seq[Max(s)])
    BY <1>1, <2>1, <1>3
  <2> HIDE DEF seq
  <2> QED
    BY <1>1, <1>5, <2>2 DEF IteratesOver
<1>7. PICK f : Is(f) /\ CandidateSpans(V) = f[DOMAIN seq].spans
  <2>1. CandidateSpans(V) = (CHOOSE f : Is(f))[DOMAIN seq].spans
    <3>1. seq = [i \in 1 .. Len(Times(V)) |-> i]
      OBVIOUS
    <3> HIDE DEF seq, times
    <3>2. CandidateSpans(V) = FoldLeft(LAMBDA sweep, i : SweepStep(V, Times(V), sweep, i), Nought(V), seq).spans
      BY <3>1, Zenon DEF CandidateSpans, Nought, Qualities, Times, Points
    <3> QED
      BY <3>2, Zenon DEF FoldLeft, MapThenFoldSet, Max
  <2> HIDE DEF Is
  <2> QED
    BY <1>6, <2>1, Zenon
<1> HIDE DEF seq
<1>8. PICK acc : acc = [k \in 0 .. n |-> f[1 .. k]]
  OBVIOUS
<1>9. acc[0] = Nought(V) /\ CandidateSpans(V) = acc[n].spans
  BY <1>1, <1>7, <1>8
<1>10. ASSUME NEW k \in 1 .. n PROVE acc[k] = SweepStep(V, Times(V), acc[k - 1], k)
  <2>1. Max(1 .. k) = k /\ (1 .. k) \ {Max(1 .. k)} = 1 .. k - 1 /\ k \in 1 .. k
    BY MaxOfInterval
  <2>2. 1 .. k \in SUBSET (1 .. n)
    OBVIOUS
  <2>3. 1 .. k # {} /\ k - 1 \in 0 .. n /\ k \in 0 .. n
    BY <2>1, Places
  <2>4. f[1 .. k] = IF 1 .. k = {} THEN Nought(V)
                    ELSE SweepStep(V, Times(V), f[(1 .. k) \ {Max(1 .. k)}], seq[Max(1 .. k)])
    BY <1>1, <1>7, <2>2
  <2>5. f[1 .. k] = SweepStep(V, Times(V), f[1 .. k - 1], k)
    BY <1>1, <2>1, <2>3, <2>4
  <2>6. acc[k] = f[1 .. k] /\ acc[k - 1] = f[1 .. k - 1]
    BY <1>8, <2>3
  <2> QED
    BY <2>5, <2>6
<1> QED
  BY <1>9, <1>10 DEF SweepsTo

-----------------------------------------------------------------------------
(* What the counts say.                                                    *)

Timed(S, V, times) == AreRanges(V) /\ AreTimes(times, V) /\ S \in SUBSET V

LEMMA CountIsKept ==
    ASSUME NEW V, NEW times, NEW S, Timed(S, V, times), NEW k \in 1 .. Len(times)
    PROVE  /\ k = 1 => Count(S, times[k]) = 0 + Opens(S, times[k]) - Ends(S, times[k])
           /\ k # 1 => Count(S, times[k]) = Count(S, times[k - 1]) + Opens(S, times[k]) - Ends(S, times[k])
<1>0. AreRanges(V) /\ AreTimes(times, V) /\ S \in SUBSET V
  BY DEF Timed
<1>1. PICK n \in Nat : n = Len(times)
  BY <1>0 DEF AreTimes
<1>2. AreRanges(S)
  BY <1>0, FS_Subset DEF AreRanges
<1>3. times[k] \in Int /\ \A r \in S : r.start \in Points(V) /\ r.end \in Points(V)
  BY <1>0 DEF AreTimes, Points
<1>4. CASE k = 1
  <2>1. times # <<>>
    BY <1>1
  <2>2. \A y \in Points(V) : times[1] <= y
    BY <1>0, <2>1, FirstAndLastTime
  <2>3. \A r \in S : times[k] <= r.start
    BY <1>3, <1>4, <2>2
  <2> QED
    BY <1>2, <1>3, <1>4, <2>3, CountBegins
<1>5. CASE k # 1
  <2>1. PICK i : i = k - 1 /\ i \in 1 .. Len(times) - 1 /\ i + 1 = k
    BY <1>1, <1>5
  <2>2. /\ times[i] \in Int /\ times[k] \in Int /\ times[i] < times[k]
        /\ \A y \in Points(V) : y <= times[i] \/ times[k] <= y
    BY <1>0, <2>1, NothingBetween
  <2>3. \A r \in S : (r.start <= times[i] \/ times[k] <= r.start) /\ (r.end <= times[i] \/ times[k] <= r.end)
    BY <1>3, <2>2
  <2> QED
    BY <1>2, <1>5, <2>1, <2>2, <2>3, CountGoesOn
<1> QED
  BY <1>4, <1>5

\* Between one of the times and the next nothing changes.
LEMMA SameBetween ==
    ASSUME NEW V, AreRanges(V), NEW times, AreTimes(times, V), NEW k \in 1 .. Len(times) - 1,
           NEW x \in Int, times[k] <= x, x < times[k + 1]
    PROVE  \A r \in V : Includes(r, x) <=> Includes(r, times[k])
<1>1. /\ times[k] \in Int /\ times[k + 1] \in Int
      /\ \A y \in Points(V) : y <= times[k] \/ times[k + 1] <= y
  BY NothingBetween
<1>2. \A r \in V : /\ r.start \in Points(V) /\ r.end \in Points(V)
                   /\ r.start \in Int /\ r.end \in Int
  BY DEF AreRanges, Points
<1> QED
  BY <1>1, <1>2 DEF Includes

LEMMA NothingOutside ==
    ASSUME NEW V, AreRanges(V), NEW times, AreTimes(times, V), NEW x \in Int,
           times = <<>> \/ x < times[1] \/ times[Len(times)] <= x
    PROVE  ~ \E r \in V : Includes(r, x)
<1> SUFFICES ASSUME NEW r \in V, Includes(r, x) PROVE FALSE
  OBVIOUS
<1>1. r.start \in Points(V) /\ r.end \in Points(V) /\ r.start \in Int /\ r.end \in Int
  BY DEF AreRanges, Points
<1>2. times # <<>>
  BY <1>1 DEF AreTimes
<1>3. times[1] <= r.start /\ r.end <= times[Len(times)]
  BY <1>1, <1>2, FirstAndLastTime
<1>4. times[1] \in Int /\ times[Len(times)] \in Int
  <2>1. PICK n \in Nat : n = Len(times)
    BY DEF AreTimes
  <2>2. n # 0
    BY <1>2, <2>1 DEF AreTimes
  <2>3. 1 \in 1 .. n /\ n \in 1 .. n
    BY <2>2
  <2> QED
    BY <2>1, <2>3 DEF AreTimes
<1> QED
  BY <1>1, <1>2, <1>3, <1>4 DEF Includes

UsableAt(V, x) == (\E r \in V : Includes(r, x)) /\ \A r \in V : Includes(r, x) => ~Unusable(r, now)
Worst(V, x) == Min({Quality(r) : r \in {r \in V : Includes(r, x)}})

\* The rows around a time can be used when no unusable one is counted and some other is.
LEMMA CountsDecide ==
    ASSUME NEW V \in SUBSET Rows, AreRanges(V), NEW x \in Int, NEW sweep,
           sweep.blocked = Count(Unusables(V), x),
           \A q \in Qualities(V) : sweep.active[q] = Count(OfQuality(V, q), x)
    PROVE  /\ (sweep.blocked > 0 \/ Present(V, sweep) = {}) <=> ~UsableAt(V, x)
           /\ UsableAt(V, x) => Min(Present(V, sweep)) = Worst(V, x)
           /\ UsableAt(V, x) => Worst(V, x) \in Int
<1>1. IsFiniteSet(V)
  BY DEF AreRanges
<1>2. IsFiniteSet(Unusables(V)) /\ \A q : IsFiniteSet(OfQuality(V, q))
  <2>1. IsFiniteSet(Unusables(V)) /\ IsFiniteSet(V \ Unusables(V))
    BY <1>1, FS_Subset DEF Unusables
  <2>2. \A q : OfQuality(V, q) \subseteq V
    BY DEF OfQuality
  <2> QED
    BY <1>1, <2>1, <2>2, FS_Subset
<1>3. sweep.blocked > 0 <=> \E r \in V : Includes(r, x) /\ Unusable(r, now)
  <2>1. sweep.blocked > 0 <=> \E r \in Unusables(V) : Includes(r, x)
    BY <1>2, CountedSome
  <2> QED
    BY <2>1 DEF Unusables
<1>4. Present(V, sweep) = {Quality(r) : r \in {r \in V : Includes(r, x) /\ ~Unusable(r, now)}}
  <2>1. \A q \in Qualities(V) : sweep.active[q] > 0 <=> \E r \in OfQuality(V, q) : Includes(r, x)
    BY <1>2, CountedSome
  <2>2. \A q \in Qualities(V) :
            sweep.active[q] > 0 <=> \E r \in V : ~Unusable(r, now) /\ Quality(r) = q /\ Includes(r, x)
    BY <2>1 DEF OfQuality, Unusables
  <2> QED
    BY <2>2 DEF Present, Qualities
<1>5. Present(V, sweep) = {} <=> ~ \E r \in V : Includes(r, x) /\ ~Unusable(r, now)
  BY <1>4
<1>6. (sweep.blocked > 0 \/ Present(V, sweep) = {}) <=> ~UsableAt(V, x)
  BY <1>3, <1>5 DEF UsableAt
<1>7. ASSUME UsableAt(V, x) PROVE Min(Present(V, sweep)) = Worst(V, x) /\ Worst(V, x) \in Int
  <2>1. {r \in V : Includes(r, x) /\ ~Unusable(r, now)} = {r \in V : Includes(r, x)}
    BY <1>7 DEF UsableAt
  <2>2. Min(Present(V, sweep)) = Worst(V, x)
    BY <1>4, <2>1 DEF Worst
  <2>3. Present(V, sweep) # {}
    BY <1>6, <1>7
  <2>4. Present(V, sweep) \subseteq Qualities(V)
    BY DEF Present
  <2>5. Present(V, sweep) \in SUBSET Int /\ IsFiniteSet(Present(V, sweep))
    BY <1>1, <2>4, QualitiesTyped, FS_Subset
  <2>6. Min(Present(V, sweep)) \in Int
    BY <2>3, <2>5, MinOfSet
  <2> QED
    BY <2>2, <2>6
<1> QED
  BY <1>6, <1>7

-----------------------------------------------------------------------------
(* The spans of all steps.                                                 *)

\* What has been swept before time k + 1.
Before(times, k, x) == k # Len(times) => x < times[k + 1]
SweptTo(V, times, sweep, k) ==
    /\ sweep \in Sweeps(V)
    /\ sweep.blocked = IF k = 0 THEN 0 ELSE Count(Unusables(V), times[k])
    /\ \A q \in Qualities(V) : sweep.active[q] = IF k = 0 THEN 0 ELSE Count(OfQuality(V, q), times[k])
    /\ Laid(sweep.spans, Points(V))
    /\ sweep.spans # <<>> /\ k # Len(times) => Last(sweep.spans).end <= times[k + 1]
    /\ \A x \in Int, v \in Int :
           Marked(sweep.spans, x, v) <=> Before(times, k, x) /\ UsableAt(V, x) /\ v = Worst(V, x)

LEMMA SweepBegins ==
    ASSUME NEW V \in SUBSET Rows, AreRanges(V), NEW times, AreTimes(times, V)
    PROVE  SweptTo(V, times, Nought(V), 0)
<1>1. Nought(V) \in Sweeps(V)
  BY NoughtTyped
<1>2. Nought(V).spans = <<>> /\ Nought(V).blocked = 0 /\ \A q \in Qualities(V) : Nought(V).active[q] = 0
  BY DEF Nought
<1>3. Laid(Nought(V).spans, Points(V))
  BY <1>2 DEF Laid
<1>4. ASSUME NEW x \in Int, Before(times, 0, x) PROVE ~UsableAt(V, x)
  <2>1. times = <<>> \/ x < times[1]
    BY <1>4 DEF Before, AreTimes
  <2> QED
    BY <2>1, NothingOutside DEF UsableAt
<1>5. ~ \E x, v : Marked(Nought(V).spans, x, v)
  BY <1>2 DEF Marked
<1> QED
  BY <1>1, <1>2, <1>3, <1>4, <1>5 DEF SweptTo

LEMMA SweepGoesOn ==
    ASSUME NEW V \in SUBSET Rows, AreRanges(V), NEW times, AreTimes(times, V),
           NEW k \in 1 .. Len(times), NEW sweep, SweptTo(V, times, sweep, k - 1),
           NEW next, next = SweepStep(V, times, sweep, k)
    PROVE  SweptTo(V, times, next, k)
<1>1. PICK n \in Nat : n = Len(times)
  BY DEF AreTimes
<1>2. times \in Seq(Int) /\ \A i \in 1 .. n : times[i] \in Int /\ times[i] \in Points(V)
  BY <1>1 DEF AreTimes
<1>3. Points(V) \in SUBSET Int
  BY TimesAre
<1>4. IsFiniteSet(V)
  BY DEF AreRanges
<1>5. next \in Sweeps(V) /\ Steps(V, times, sweep, k, next)
  BY <1>2, <1>4, SweepStepIs DEF SweptTo
<1>6. Unusables(V) \in SUBSET V /\ \A q : OfQuality(V, q) \in SUBSET V
  BY DEF Unusables, OfQuality
<1>7. next.blocked = Count(Unusables(V), times[k])
  <2>1. PICK S : S = Unusables(V) /\ Timed(S, V, times)
    BY <1>6 DEF Timed
  <2>2. PICK c : c = sweep.blocked
    OBVIOUS
  <2>3. (k = 1 /\ c = 0) \/ (k # 1 /\ c = Count(S, times[k - 1]))
    BY <2>1, <2>2 DEF SweptTo
  <2>4. /\ k = 1 => Count(S, times[k]) = 0 + Opens(S, times[k]) - Ends(S, times[k])
        /\ k # 1 => Count(S, times[k]) = Count(S, times[k - 1]) + Opens(S, times[k]) - Ends(S, times[k])
    BY <2>1, CountIsKept
  <2> QED
    BY <1>5, <2>1, <2>2, <2>3, <2>4 DEF Steps
<1>8. ASSUME NEW q \in Qualities(V) PROVE next.active[q] = Count(OfQuality(V, q), times[k])
  <2>1. PICK S : S = OfQuality(V, q) /\ Timed(S, V, times)
    BY <1>6 DEF Timed
  <2>2. PICK c : c = sweep.active[q]
    OBVIOUS
  <2>3. (k = 1 /\ c = 0) \/ (k # 1 /\ c = Count(S, times[k - 1]))
    BY <2>1, <2>2 DEF SweptTo
  <2>4. /\ k = 1 => Count(S, times[k]) = 0 + Opens(S, times[k]) - Ends(S, times[k])
        /\ k # 1 => Count(S, times[k]) = Count(S, times[k - 1]) + Opens(S, times[k]) - Ends(S, times[k])
    BY <2>1, CountIsKept
  <2> QED
    BY <1>5, <2>1, <2>2, <2>3, <2>4 DEF Steps
<1>9. times[k] \in Int /\ times[k] \in Points(V)
  BY <1>1, <1>2
<1>10. /\ (next.blocked > 0 \/ Present(V, next) = {}) <=> ~UsableAt(V, times[k])
       /\ UsableAt(V, times[k]) => Min(Present(V, next)) = Worst(V, times[k]) /\ Worst(V, times[k]) \in Int
  BY <1>7, <1>8, <1>9, CountsDecide
<1>11. /\ Laid(sweep.spans, Points(V))
       /\ sweep.spans # <<>> => Last(sweep.spans).end <= times[k]
       /\ \A x \in Int, v \in Int :
              Marked(sweep.spans, x, v) <=> x < times[k] /\ UsableAt(V, x) /\ v = Worst(V, x)
  BY <1>1 DEF SweptTo, Before
<1>12. next.spans = IF k = n \/ ~UsableAt(V, times[k]) THEN sweep.spans
                    ELSE AddSpan(sweep.spans, times[k], times[k + 1], Worst(V, times[k]))
  BY <1>1, <1>5, <1>10 DEF Steps
<1>13. CASE k = n
  <2>1. next.spans = sweep.spans
    BY <1>12, <1>13
  <2>2. \A x \in Int : UsableAt(V, x) => x < times[k]
    BY <1>1, <1>9, <1>13, NothingOutside DEF UsableAt
  <2>3. \A x \in Int, v \in Int :
            Marked(next.spans, x, v) <=> Before(times, k, x) /\ UsableAt(V, x) /\ v = Worst(V, x)
    BY <1>1, <1>11, <1>13, <2>1, <2>2 DEF Before
  <2> QED
    BY <1>1, <1>5, <1>7, <1>8, <1>11, <1>13, <2>1, <2>3 DEF SweptTo
<1>14. CASE k # n
  <2>1. k \in 1 .. n - 1 /\ k + 1 \in 1 .. n
    BY <1>1, <1>14
  <2>2. times[k + 1] \in Int /\ times[k + 1] \in Points(V) /\ times[k] < times[k + 1]
    BY <1>1, <2>1, NothingBetween
  <2>3. ASSUME NEW x \in Int, times[k] <= x, x < times[k + 1]
        PROVE  /\ UsableAt(V, x) <=> UsableAt(V, times[k])
               /\ Worst(V, x) = Worst(V, times[k])
    <3>1. \A r \in V : Includes(r, x) <=> Includes(r, times[k])
      BY <1>1, <2>1, <2>3, SameBetween
    <3>2. {r \in V : Includes(r, x)} = {r \in V : Includes(r, times[k])}
      BY <3>1
    <3> QED
      BY <3>1, <3>2 DEF UsableAt, Worst
  <2>4. \A x \in Int : x < times[k + 1] <=> x < times[k] \/ (times[k] <= x /\ x < times[k + 1])
    BY <1>9, <2>2
  <2>5. CASE ~UsableAt(V, times[k])
    <3>1. next.spans = sweep.spans
      BY <1>12, <2>5
    <3>2. \A x \in Int, v \in Int :
              Marked(next.spans, x, v) <=> x < times[k + 1] /\ UsableAt(V, x) /\ v = Worst(V, x)
      BY <1>11, <2>3, <2>4, <2>5, <3>1
    <3>3. next.spans # <<>> => Last(next.spans).end <= times[k + 1]
      <4> HAVE next.spans # <<>>
      <4>1. Last(sweep.spans) \in Stretches
        BY <1>11, <3>1, LastOf DEF Laid
      <4>2. Last(sweep.spans).end \in Int /\ Last(sweep.spans).end <= times[k]
        BY <1>11, <3>1, <4>1 DEF Stretches
      <4> QED
        BY <1>9, <2>2, <3>1, <4>2
    <3> QED
      BY <1>1, <1>5, <1>7, <1>8, <1>11, <1>14, <3>1, <3>2, <3>3 DEF SweptTo, Before
  <2>6. CASE UsableAt(V, times[k])
    <3>1. PICK score \in Int : score = Worst(V, times[k])
      BY <1>10, <2>6
    <3>2. next.spans = AddSpan(sweep.spans, times[k], times[k + 1], score)
      BY <1>12, <1>14, <2>6, <3>1
    <3>3. /\ Laid(next.spans, Points(V)) /\ next.spans # <<>> /\ Last(next.spans).end = times[k + 1]
          /\ \A x \in Int, v \in Int :
                 Marked(next.spans, x, v) <=>
                     Marked(sweep.spans, x, v) \/ (times[k] <= x /\ x < times[k + 1] /\ v = score)
      <4>1. CASE sweep.spans # <<>> /\ Last(sweep.spans).end = times[k] /\ Last(sweep.spans).score = score
        BY <1>3, <1>9, <1>11, <2>2, <3>1, <3>2, <4>1, SpanJoins
      <4>2. CASE ~(sweep.spans # <<>> /\ Last(sweep.spans).end = times[k] /\ Last(sweep.spans).score = score)
        BY <1>3, <1>9, <1>11, <2>2, <3>1, <3>2, <4>2, SpanFollows
      <4> QED
        BY <4>1, <4>2
    <3>4. \A x \in Int, v \in Int :
              Marked(next.spans, x, v) <=> x < times[k + 1] /\ UsableAt(V, x) /\ v = Worst(V, x)
      BY <1>11, <2>3, <2>4, <2>6, <3>1, <3>3
    <3>5. Last(next.spans).end <= times[k + 1]
      BY <2>2, <3>3
    <3> QED
      BY <1>1, <1>5, <1>7, <1>8, <1>14, <3>3, <3>4, <3>5 DEF SweptTo, Before
  <2> QED
    BY <2>5, <2>6
<1> QED
  BY <1>13, <1>14

\* The spans are the instants at which rows can be used, with the least quality of the
\* rows around each.
Swept(spans, V) ==
    /\ Laid(spans, Points(V))
    /\ \A x \in Int, v \in Int : Marked(spans, x, v) <=> UsableAt(V, x) /\ v = Worst(V, x)

LEMMA SweepIs ==
    ASSUME NEW V \in SUBSET Rows, AreRanges(V)
    PROVE  Swept(CandidateSpans(V), V)
<1>1. PICK times : times = Times(V)
  OBVIOUS
<1>2. AreTimes(times, V)
  BY <1>1, TimesAre
<1>3. PICK n \in Nat : n = Len(times) /\ times \in Seq(Int)
  BY <1>2 DEF AreTimes
<1>4. PICK acc : SweepsTo(acc, V, n)
  <2>1. IsFiniteSet(V) /\ Times(V) \in Seq(Int) /\ n = Len(Times(V))
    BY <1>1, <1>3 DEF AreRanges
  <2> QED
    BY <2>1, SweepsInTurn
<1>5. PICK G : G = {k \in 0 .. n : SweptTo(V, times, acc[k], k)}
  OBVIOUS
<1>6. 0 \in G
  <2>1. acc[0] = Nought(V)
    BY <1>4 DEF SweepsTo
  <2>2. SweptTo(V, times, acc[0], 0)
    BY <1>2, <2>1, SweepBegins
  <2> QED
    BY <1>3, <1>5, <2>2
<1>7. ASSUME NEW k \in 0 .. n - 1, k \in G PROVE k + 1 \in G
  <2>1. k + 1 \in 1 .. Len(times) /\ k + 1 \in 1 .. n /\ k + 1 \in 0 .. n /\ (k + 1) - 1 = k
    BY <1>3
  <2>2. acc[k + 1] = SweepStep(V, times, acc[k], k + 1)
    BY <1>1, <1>4, <2>1 DEF SweepsTo
  <2>3. SweptTo(V, times, acc[k], (k + 1) - 1)
    BY <1>5, <1>7, <2>1
  <2>4. SweptTo(V, times, acc[k + 1], k + 1)
    BY <1>2, <2>1, <2>2, <2>3, SweepGoesOn
  <2> QED
    BY <1>5, <2>1, <2>4
<1>8. n \in G
  <2>1. 0 .. n \subseteq G
    BY <1>3, <1>6, <1>7, InductUpTo
  <2> QED
    BY <1>3, <2>1
<1>9. SweptTo(V, times, acc[n], n) /\ CandidateSpans(V) = acc[n].spans
  BY <1>4, <1>5, <1>8 DEF SweepsTo
<1> QED
  BY <1>3, <1>9 DEF SweptTo, Before, Swept

-----------------------------------------------------------------------------
(* Spans that touch are one run.                                           *)

LEMMA LaidTyped ==
    ASSUME NEW points \in SUBSET Int, NEW s, Laid(s, points)
    PROVE  /\ Len(s) \in Nat
           /\ \A i \in 1 .. Len(s) : /\ s[i] \in Stretches
                                     /\ s[i].start \in Int /\ s[i].end \in Int /\ s[i].score \in Int
                                     /\ s[i].start < s[i].end
<1>1. s \in Seq(Stretches) /\ \A i \in 1 .. Len(s) : s[i].start < s[i].end
  BY DEF Laid
<1>2. \A i \in 1 .. Len(s) : s[i] \in Stretches
  BY <1>1
<1> QED
  BY <1>1, <1>2 DEF Stretches

LEMMA SpansInOrder ==
    ASSUME NEW points \in SUBSET Int, NEW s, Laid(s, points)
    PROVE  \A i, j \in 1 .. Len(s) : i < j => s[i].end <= s[j].start
<1>1. PICK n \in Nat : n = Len(s)
  BY LaidTyped
<1> SUFFICES ASSUME NEW i \in 1 .. n
             PROVE  \A j \in 1 .. n : i < j => s[i].end <= s[j].start
  BY <1>1
<1>2. \A k \in 1 .. n : s[k].start \in Int /\ s[k].end \in Int /\ s[k].start < s[k].end
  BY <1>1, LaidTyped
<1>3. PICK G : G = {k \in 0 .. n : i < k => s[i].end <= s[k].start}
  OBVIOUS
<1>4. 0 \in G
  BY <1>1, <1>3
<1>5. ASSUME NEW k \in 0 .. n - 1, k \in G PROVE k + 1 \in G
  <2>1. k + 1 \in 0 .. n /\ (k # 0 => k \in 1 .. n - 1)
    BY <1>1
  <2>2. k # 0 => s[k].end <= s[k + 1].start
    BY <1>1, <2>1 DEF Laid
  <2>3. CASE i < k
    BY <1>2, <1>3, <1>5, <2>1, <2>2, <2>3
  <2>4. CASE i = k
    BY <1>2, <1>3, <2>1, <2>2, <2>4
  <2>5. CASE k < i
    BY <1>1, <1>3, <2>1, <2>5
  <2> QED
    BY <1>1, <2>3, <2>4, <2>5
<1>6. 0 .. n \subseteq G
  BY <1>1, <1>4, <1>5, InductUpTo
<1> QED
  BY <1>1, <1>3, <1>6

\* Spans from one to another, each touching the next, leave nothing out.
Touching(s, i, j) == \A k \in i .. j - 1 : s[k].end = s[k + 1].start

LEMMA TouchingCovers ==
    ASSUME NEW points \in SUBSET Int, NEW s, Laid(s, points),
           NEW i \in 1 .. Len(s), NEW j \in 1 .. Len(s), i <= j, Touching(s, i, j)
    PROVE  \A x \in s[i].start .. s[j].end - 1 : \E k \in i .. j : Includes(s[k], x)
<1>1. PICK n \in Nat : n = Len(s)
  BY LaidTyped
<1>2. \A k \in 1 .. n : s[k].start \in Int /\ s[k].end \in Int /\ s[k].start < s[k].end
  BY <1>1, LaidTyped
<1> DEFINE Good(m) == \A x \in s[i].start .. s[i + m].end - 1 : \E k \in i .. i + m : Includes(s[k], x)
<1>3. PICK G : G = {m \in 0 .. j - i : Good(m)}
  OBVIOUS
<1>4. 0 \in G
  <2>1. Good(0)
    <3> SUFFICES ASSUME NEW x \in s[i].start .. s[i].end - 1 PROVE Includes(s[i], x) /\ i \in i .. i + 0
      BY <1>1
    <3> QED
      BY <1>1, <1>2 DEF Includes
  <2> HIDE DEF Good
  <2> QED
    BY <1>3, <2>1
<1>5. ASSUME NEW m \in 0 .. (j - i) - 1, m \in G PROVE m + 1 \in G
  <2>1. Good(m)
    <3> HIDE DEF Good
    <3> QED
      BY <1>3, <1>5
  <2>2. /\ i + m \in 1 .. n /\ i + m \in i .. j - 1 /\ i + (m + 1) = (i + m) + 1 /\ (i + m) + 1 \in 1 .. n
        /\ i + (m + 1) \in i .. i + (m + 1)
    BY <1>1
  <2>3. s[i + m].end = s[i + (m + 1)].start
    BY <2>2 DEF Touching
  <2>4. ASSUME NEW x \in s[i].start .. s[i + (m + 1)].end - 1
        PROVE  \E k \in i .. i + (m + 1) : Includes(s[k], x)
    <3>1. CASE x < s[i + m].end
      <4>1. x \in s[i].start .. s[i + m].end - 1
        BY <1>1, <1>2, <2>2, <3>1
      <4>2. PICK k \in i .. i + m : Includes(s[k], x)
        BY <2>1, <4>1
      <4>3. k \in i .. i + (m + 1)
        BY <2>2
      <4> QED
        BY <4>2, <4>3
    <3>2. CASE ~(x < s[i + m].end)
      <4>1. Includes(s[i + (m + 1)], x)
        BY <1>1, <1>2, <2>2, <2>3, <3>2 DEF Includes
      <4> QED
        BY <2>2, <4>1
    <3> QED
      BY <3>1, <3>2
  <2>5. Good(m + 1)
    BY <2>4
  <2> HIDE DEF Good
  <2> QED
    BY <1>3, <2>5
<1>6. Good(j - i)
  <2> HIDE DEF Good
  <2>1. j - i \in Nat
    BY <1>1
  <2>2. 0 .. j - i \subseteq G
    BY <1>4, <1>5, <2>1, InductUpTo
  <2> QED
    BY <1>3, <2>1, <2>2
<1>7. i + (j - i) = j
  BY <1>1
<1> QED
  BY <1>6, <1>7

\* An unbroken stretch of time in which rows can be used.
Unbroken(V, w) ==
    /\ w.start \in Points(V) /\ w.end \in Points(V) /\ w.start < w.end
    /\ \A x \in w.start .. w.end - 1 : UsableAt(V, x)
    /\ ~UsableAt(V, w.start - 1) /\ ~UsableAt(V, w.end)

Extent(s, run) == [start |-> s[run[1]].start, end |-> s[run[2]].end]

LEMMA WorstTyped ==
    ASSUME NEW V \in SUBSET Rows, AreRanges(V), NEW x \in Int, UsableAt(V, x)
    PROVE  Worst(V, x) \in Int
<1>1. PICK S : S = {Quality(r) : r \in {r \in V : Includes(r, x)}}
  OBVIOUS
<1>2. S # {} /\ S \subseteq Qualities(V)
  BY <1>1 DEF UsableAt, Qualities
<1>3. S \in SUBSET Int /\ IsFiniteSet(S)
  BY <1>2, QualitiesTyped, FS_Subset DEF AreRanges
<1> QED
  BY <1>1, <1>2, <1>3, MinOfSet DEF Worst

LEMMA RunIs ==
    ASSUME NEW V \in SUBSET Rows, AreRanges(V), NEW s, Swept(s, V), NEW run \in Runs(s)
    PROVE  /\ Unbroken(V, Extent(s, run))
           /\ \A x \in Extent(s, run).start .. Extent(s, run).end - 1 :
                  \E k \in run[1] .. run[2] : Includes(s[k], x)
           /\ run[1] .. run[2] \subseteq 1 .. Len(s)
<1>0. Points(V) \in SUBSET Int /\ Laid(s, Points(V))
  BY TimesAre DEF Swept
<1>1. PICK n \in Nat : n = Len(s)
  BY <1>0, LaidTyped
<1>2. PICK i, j : i = run[1] /\ j = run[2]
  OBVIOUS
<1>3. /\ i \in 1 .. n /\ j \in 1 .. n /\ i <= j /\ Touching(s, i, j)
      /\ i = 1 \/ s[i - 1].end # s[i].start
      /\ j = n \/ s[j].end # s[j + 1].start
  BY <1>1, <1>2 DEF Runs, Touching
<1>4. \A k \in 1 .. n : /\ s[k] \in Stretches /\ s[k].start \in Int /\ s[k].end \in Int /\ s[k].score \in Int
                        /\ s[k].start < s[k].end /\ s[k].start \in Points(V) /\ s[k].end \in Points(V)
  BY <1>0, <1>1, LaidTyped DEF Laid
<1>5. \A a, b \in 1 .. n : a < b => s[a].end <= s[b].start
  BY <1>0, <1>1, SpansInOrder
<1>6. \A x \in Int : UsableAt(V, x) <=> \E k \in 1 .. n : Includes(s[k], x)
  <2> TAKE x \in Int
  <2>1. \A v \in Int : (\E k \in 1 .. n : Includes(s[k], x) /\ s[k].score = v) <=> UsableAt(V, x) /\ v = Worst(V, x)
    BY <1>1 DEF Swept, Marked, Marks
  <2>2. ASSUME NEW k \in 1 .. n, Includes(s[k], x) PROVE UsableAt(V, x)
    BY <1>4, <2>1, <2>2
  <2>3. ASSUME UsableAt(V, x) PROVE \E k \in 1 .. n : Includes(s[k], x)
    BY <1>1, <2>1, <2>3, WorstTyped
  <2> QED
    BY <2>2, <2>3
<1>7. s[i].start \in Int /\ s[j].end \in Int /\ s[i].start < s[j].end
  <2>1. CASE i = j
    BY <1>3, <1>4, <2>1
  <2>2. CASE i # j
    <3>1. s[i].end <= s[j].start
      BY <1>3, <1>5, <2>2
    <3> QED
      BY <1>3, <1>4, <3>1
  <2> QED
    BY <2>1, <2>2
<1>8. \A x \in s[i].start .. s[j].end - 1 : \E k \in i .. j : Includes(s[k], x)
  BY <1>0, <1>1, <1>3, TouchingCovers
<1>9. i .. j \subseteq 1 .. n
  BY <1>3
<1>10. \A x \in s[i].start .. s[j].end - 1 : UsableAt(V, x)
  BY <1>6, <1>7, <1>8, <1>9
<1>11. ~UsableAt(V, s[i].start - 1)
  <2> SUFFICES ASSUME NEW k \in 1 .. n, Includes(s[k], s[i].start - 1) PROVE FALSE
    BY <1>6, <1>7
  <2>1. s[k].start < s[i].start /\ s[i].start <= s[k].end
    BY <1>4, <1>7 DEF Includes
  <2>2. k < i
    <3>1. k > i => s[i].end <= s[k].start
      BY <1>3, <1>5
    <3> QED
      BY <1>3, <1>4, <2>1, <3>1
  <2>3. i - 1 \in 1 .. n
    BY <1>3, <2>2
  <2>4. s[i - 1].end <= s[i].start /\ s[i - 1].end # s[i].start
    BY <1>3, <1>5, <2>2, <2>3
  <2>5. k = i - 1 \/ s[k].end <= s[i - 1].start
    BY <1>3, <1>5, <2>2, <2>3
  <2> QED
    BY <1>3, <1>4, <2>1, <2>3, <2>4, <2>5
<1>12. ~UsableAt(V, s[j].end)
  <2> SUFFICES ASSUME NEW k \in 1 .. n, Includes(s[k], s[j].end) PROVE FALSE
    BY <1>6, <1>7
  <2>1. s[k].start <= s[j].end /\ s[j].end < s[k].end
    BY <1>4, <1>7 DEF Includes
  <2>2. k > j
    <3>1. k < j => s[k].end <= s[j].start
      BY <1>3, <1>5
    <3> QED
      BY <1>3, <1>4, <2>1, <3>1
  <2>3. j + 1 \in 1 .. n
    BY <1>3, <2>2
  <2>4. s[j].end <= s[j + 1].start /\ s[j].end # s[j + 1].start
    BY <1>3, <1>5, <2>2, <2>3
  <2>5. k = j + 1 \/ s[j + 1].end <= s[k].start
    BY <1>3, <1>5, <2>2, <2>3
  <2> QED
    BY <1>3, <1>4, <2>1, <2>3, <2>4, <2>5
<1>13. Extent(s, run).start = s[i].start /\ Extent(s, run).end = s[j].end
  BY <1>2 DEF Extent
<1>14. Unbroken(V, Extent(s, run))
  BY <1>3, <1>4, <1>7, <1>10, <1>11, <1>12, <1>13 DEF Unbroken
<1> QED
  BY <1>1, <1>2, <1>8, <1>9, <1>13, <1>14

\* Every instant at which rows can be used lies in a run.
LEMMA RunAround ==
    ASSUME NEW V \in SUBSET Rows, AreRanges(V), NEW s, Swept(s, V), NEW x \in Int, UsableAt(V, x)
    PROVE  \E run \in Runs(s) : Extent(s, run).start <= x /\ x < Extent(s, run).end
<1>0. Points(V) \in SUBSET Int /\ Laid(s, Points(V))
  BY TimesAre DEF Swept
<1>1. PICK n \in Nat : n = Len(s)
  BY <1>0, LaidTyped
<1>2. \A k \in 1 .. n : s[k].start \in Int /\ s[k].end \in Int /\ s[k].start < s[k].end
  BY <1>0, <1>1, LaidTyped
<1>3. \A a, b \in 1 .. n : a < b => s[a].end <= s[b].start
  BY <1>0, <1>1, SpansInOrder
<1>4. PICK k \in 1 .. n : Includes(s[k], x)
  <2>1. Marked(s, x, Worst(V, x))
    BY WorstTyped DEF Swept
  <2> QED
    BY <1>1, <2>1 DEF Marked, Marks
<1>5. PICK I, J : I = {i \in 1 .. k : Touching(s, i, k)} /\ J = {j \in k .. n : Touching(s, k, j)}
  OBVIOUS
<1>6. k \in I /\ k \in J
  BY <1>5 DEF Touching
<1>7. I \in SUBSET Int /\ IsFiniteSet(I) /\ J \in SUBSET Int /\ IsFiniteSet(J)
  <2>1. IsFiniteSet(1 .. k) /\ IsFiniteSet(k .. n)
    BY FS_Interval
  <2> QED
    BY <1>5, <2>1, FS_Subset
<1>8. PICK i \in I : \A y \in I : i <= y
  BY <1>6, <1>7, MinOfSet
<1>9. PICK j \in J : \A y \in J : y <= j
  BY <1>6, <1>7, MaxOfSet
<1>10. i \in 1 .. k /\ j \in k .. n /\ Touching(s, i, k) /\ Touching(s, k, j)
  BY <1>5
<1>11. i \in 1 .. n /\ j \in 1 .. n /\ i <= j
  BY <1>1, <1>10
<1>12. \A a \in i .. j - 1 : s[a].end = s[a + 1].start
  <2> TAKE a \in i .. j - 1
  <2>1. a \in i .. k - 1 \/ a \in k .. j - 1
    BY <1>10
  <2> QED
    BY <1>10, <2>1 DEF Touching
<1>13. i = 1 \/ s[i - 1].end # s[i].start
  <2> SUFFICES ASSUME i # 1, s[i - 1].end = s[i].start PROVE FALSE
    OBVIOUS
  <2>1. i - 1 \in 1 .. k
    BY <1>10
  <2>2. \A a \in i - 1 .. k - 1 : s[a].end = s[a + 1].start
    <3> TAKE a \in i - 1 .. k - 1
    <3>1. (a = i - 1 /\ a + 1 = i) \/ a \in i .. k - 1
      BY <1>10
    <3> QED
      BY <1>10, <3>1 DEF Touching
  <2>3. i - 1 \in I
    BY <1>5, <2>1, <2>2 DEF Touching
  <2> QED
    BY <1>8, <1>10, <2>3
<1>14. j = n \/ s[j].end # s[j + 1].start
  <2> SUFFICES ASSUME j # n, s[j].end = s[j + 1].start PROVE FALSE
    OBVIOUS
  <2>1. j + 1 \in k .. n
    BY <1>10
  <2>2. \A a \in k .. (j + 1) - 1 : s[a].end = s[a + 1].start
    <3> TAKE a \in k .. (j + 1) - 1
    <3>1. a = j \/ a \in k .. j - 1
      BY <1>10
    <3> QED
      BY <1>10, <3>1 DEF Touching
  <2>3. j + 1 \in J
    BY <1>5, <2>1, <2>2 DEF Touching
  <2> QED
    BY <1>9, <1>10, <2>3
<1>15. PICK run : run = <<i, j>>
  OBVIOUS
<1>16. run \in Runs(s) /\ run[1] = i /\ run[2] = j
  BY <1>1, <1>11, <1>12, <1>13, <1>14, <1>15 DEF Runs
<1>17. s[i].start <= x /\ x < s[j].end
  <2>1. i = k \/ s[i].end <= s[k].start
    BY <1>3, <1>10, <1>11
  <2>2. j = k \/ s[k].end <= s[j].start
    BY <1>3, <1>10, <1>11
  <2> QED
    BY <1>2, <1>4, <1>11, <2>1, <2>2 DEF Includes
<1> QED
  BY <1>16, <1>17 DEF Extent

\* There is only one unbroken stretch around an instant.
LEMMA UnbrokenOnce ==
    ASSUME NEW V, Points(V) \in SUBSET Int, NEW w, Unbroken(V, w), NEW u, Unbroken(V, u),
           NEW x \in Int, w.start <= x, x < w.end, u.start <= x, x < u.end
    PROVE  w.start = u.start /\ w.end = u.end
<1>1. w.start \in Int /\ w.end \in Int /\ u.start \in Int /\ u.end \in Int
  BY DEF Unbroken
<1>2. ~(w.start - 1 \in u.start .. u.end - 1) /\ ~(u.start - 1 \in w.start .. w.end - 1)
  BY DEF Unbroken
<1>3. ~(w.end \in u.start .. u.end - 1) /\ ~(u.end \in w.start .. w.end - 1)
  BY DEF Unbroken
<1> QED
  BY <1>1, <1>2, <1>3

\* A meeting within a run scores the least of what its instants are worth.
LEMMA ScoreIs ==
    ASSUME NEW V \in SUBSET Rows, AreRanges(V), NEW s, Swept(s, V), NEW run \in Runs(s),
           NEW m, m.start \in Int, m.end \in Int, m.start < m.end,
           Extent(s, run).start <= m.start, m.end <= Extent(s, run).end
    PROVE  {s[i].score : i \in {i \in run[1] .. run[2] : Overlap(s[i], m)}} =
               {Worst(V, x) : x \in m.start .. m.end - 1}
<1>0. Points(V) \in SUBSET Int /\ Laid(s, Points(V))
  BY TimesAre DEF Swept
<1>1. /\ Unbroken(V, Extent(s, run))
      /\ \A x \in Extent(s, run).start .. Extent(s, run).end - 1 :
             \E k \in run[1] .. run[2] : Includes(s[k], x)
      /\ run[1] .. run[2] \subseteq 1 .. Len(s)
  BY RunIs
<1>2. Extent(s, run).start \in Int /\ Extent(s, run).end \in Int
  BY <1>0, <1>1 DEF Unbroken
<1>3. \A k \in run[1] .. run[2] : s[k].start \in Int /\ s[k].end \in Int /\ s[k].score \in Int /\ s[k].start < s[k].end
  BY <1>0, <1>1, LaidTyped
<1>4. ASSUME NEW k \in run[1] .. run[2], NEW x \in Int, Includes(s[k], x)
      PROVE  s[k].score = Worst(V, x)
  <2>1. Marked(s, x, s[k].score)
    BY <1>1, <1>4 DEF Marked, Marks
  <2> QED
    BY <1>3, <2>1 DEF Swept
<1>5. ASSUME NEW k \in run[1] .. run[2], Overlap(s[k], m)
      PROVE  s[k].score \in {Worst(V, x) : x \in m.start .. m.end - 1}
  <2>1. PICK x \in m.start .. m.end - 1 : Includes(s[k], x)
    <3>1. s[k].start < m.end /\ m.start < s[k].end
      BY <1>5 DEF Overlap
    <3>2. CASE s[k].start <= m.start
      BY <1>3, <3>1, <3>2 DEF Includes
    <3>3. CASE ~(s[k].start <= m.start)
      BY <1>3, <3>1, <3>3 DEF Includes
    <3> QED
      BY <3>2, <3>3
  <2> QED
    BY <1>4, <2>1
<1>6. ASSUME NEW x \in m.start .. m.end - 1
      PROVE  Worst(V, x) \in {s[i].score : i \in {i \in run[1] .. run[2] : Overlap(s[i], m)}}
  <2>1. x \in Extent(s, run).start .. Extent(s, run).end - 1
    BY <1>2
  <2>2. PICK k \in run[1] .. run[2] : Includes(s[k], x)
    BY <1>1, <2>1
  <2>3. Overlap(s[k], m)
    BY <1>3, <2>2 DEF Overlap, Includes
  <2>4. s[k].score = Worst(V, x)
    BY <1>4, <2>2
  <2> QED
    BY <2>3, <2>4
<1> QED
  BY <1>5, <1>6

-----------------------------------------------------------------------------
(* The starts that are ranked.                                             *)

Asked == case.duration \in Nat \ {0} /\ case.deadline \in Int /\ now \in Int

LEMMA CeilStepIs ==
    ASSUME NEW t \in Int
    PROVE  CeilStep(t) \in Int /\ IsMultiple(CeilStep(t)) /\ t <= CeilStep(t) /\ CeilStep(t) < t + Step
<1>0. Step \in Nat /\ Step > 0
  BY StepIsPositive
<1>1. CASE t % Step = 0
  BY <1>0, <1>1, MultipleOfStep DEF CeilStep
<1>2. CASE t % Step # 0
  <2>1. PICK i \in Int : i = t \div Step
    BY Division
  <2>2. PICK q \in Int : q = i * Step
    BY <1>0
  <2>3. CeilStep(t) = (i + 1) * Step /\ (i + 1) * Step = q + Step
    BY <1>0, <1>2, <2>1, <2>2 DEF CeilStep
  <2>4. t = q + (t % Step) /\ t % Step \in 1 .. Step - 1
    BY <1>0, <1>2, <2>1, <2>2, Division
  <2>5. IsMultiple(CeilStep(t))
    BY <2>3 DEF IsMultiple
  <2> QED
    BY <1>0, <2>2, <2>3, <2>4, <2>5
<1> QED
  BY <1>1, <1>2

\* The first start is the least multiple of the step in the run and after now.
LEMMA FirstStartIs ==
    ASSUME now \in Int, NEW s \in Int, NEW t \in Int, t % Step = 0
    PROVE  FirstStart(s) \in Int /\ (FirstStart(s) <= t <=> s <= t /\ now < t)
<1>0. Step \in Nat /\ Step > 0 /\ IsMultiple(t)
  BY StepIsPositive, MultipleOfStep
<1>1. PICK c \in Int : c = CeilStep(s) /\ IsMultiple(c) /\ s <= c /\ c < s + Step
  BY CeilStepIs
<1>2. PICK k \in Int : k = CeilStep(now) /\ IsMultiple(k) /\ now <= k /\ k < now + Step
  BY CeilStepIs
<1>3. c <= t <=> s <= t
  <2>1. t < c => t + Step <= c
    BY <1>0, <1>1, BucketsApart
  <2> QED
    BY <1>0, <1>1, <2>1
<1>4. k < t => k + Step <= t
  BY <1>0, <1>2, BucketsApart
<1>5. t < k => t + Step <= k
  BY <1>0, <1>2, BucketsApart
<1>6. FirstStart(s) = IF c > now THEN c ELSE IF k > now THEN k ELSE k + Step
  BY <1>1, <1>2 DEF FirstStart
<1> QED
  BY <1>0, <1>1, <1>2, <1>3, <1>4, <1>5, <1>6

LEMMA MinIs ==
    ASSUME NEW S \in SUBSET Int, NEW e \in S, \A y \in S : e <= y
    PROVE  Min(S) = e
<1>1. \A x \in S : (\A y \in S : x <= y) => x = e
  BY SMT
<1> QED
  BY <1>1 DEF Min

LEMMA MaxIs ==
    ASSUME NEW S \in SUBSET Int, NEW e \in S, \A y \in S : y <= e
    PROVE  Max(S) = e
<1>1. \A x \in S : (\A y \in S : x >= y) => x = e
  BY SMT
<1> QED
  BY <1>1 DEF Max

\* The unbroken stretch around a meeting, from the points and the instants alone.
StretchAround(V, m) ==
    [start |-> Min({y \in Points(V) : y <= m.start /\ \A x \in y .. m.start : UsableAt(V, x)}),
     end |-> Max({y \in Points(V) : y >= m.end /\ \A x \in m.start .. y - 1 : UsableAt(V, x)})]

LEMMA StretchAroundIs ==
    ASSUME NEW V, Points(V) \in SUBSET Int, NEW w, Unbroken(V, w),
           NEW m, m.start \in Int, m.end \in Int, m.start < m.end, w.start <= m.start, m.end <= w.end
    PROVE  StretchAround(V, m) = [start |-> w.start, end |-> w.end]
<1>1. w.start \in Int /\ w.end \in Int /\ w.start \in Points(V) /\ w.end \in Points(V)
  BY DEF Unbroken
<1>2. /\ \A x \in w.start .. w.end - 1 : UsableAt(V, x)
      /\ ~UsableAt(V, w.start - 1) /\ ~UsableAt(V, w.end)
  BY DEF Unbroken
<1>3. PICK S : S = {y \in Points(V) : y <= m.start /\ \A x \in y .. m.start : UsableAt(V, x)}
  OBVIOUS
<1>4. Min(S) = w.start
  <2>1. S \in SUBSET Int
    BY <1>3
  <2>2. w.start \in S
    <3>1. \A x \in w.start .. m.start : UsableAt(V, x)
      BY <1>1, <1>2
    <3> QED
      BY <1>1, <1>3, <3>1
  <2>3. ASSUME NEW y \in S PROVE w.start <= y
    <3> SUFFICES ASSUME y < w.start PROVE FALSE
      BY <1>1, <2>1
    <3>1. w.start - 1 \in y .. m.start
      BY <1>1, <2>1
    <3> QED
      BY <1>2, <1>3, <3>1
  <2> QED
    BY <2>1, <2>2, <2>3, MinIs
<1>5. PICK E : E = {y \in Points(V) : y >= m.end /\ \A x \in m.start .. y - 1 : UsableAt(V, x)}
  OBVIOUS
<1>6. Max(E) = w.end
  <2>1. E \in SUBSET Int
    BY <1>5
  <2>2. w.end \in E
    <3>1. \A x \in m.start .. w.end - 1 : UsableAt(V, x)
      BY <1>1, <1>2
    <3> QED
      BY <1>1, <1>5, <3>1
  <2>3. ASSUME NEW y \in E PROVE y <= w.end
    <3> SUFFICES ASSUME w.end < y PROVE FALSE
      BY <1>1, <2>1
    <3>1. w.end \in m.start .. y - 1
      BY <1>1, <2>1
    <3> QED
      BY <1>2, <1>5, <3>1
  <2> QED
    BY <2>1, <2>2, <2>3, MaxIs
<1> QED
  BY <1>3, <1>4, <1>5, <1>6 DEF StretchAround

Allowed(reserved, calendar, t) == Allows(calendar, Meeting(t)) /\ ~Hit(reserved, Meeting(t))
Fits(V, reserved, calendar, t) ==
    /\ t % Step = 0 /\ now < t /\ t + case.duration <= case.deadline
    /\ \A x \in t .. t + case.duration - 1 : UsableAt(V, x)
    /\ Allowed(reserved, calendar, t)
Worth(V, t) ==
    Min({Worst(V, x) : x \in t .. t + case.duration - 1}) + FragmentPenalty(StretchAround(V, Meeting(t)), Meeting(t))
Candidate(V, t) == [start |-> t, score |-> Worth(V, t)]
AllCandidates(V, reserved, calendar) ==
    UNION {Scored(CandidateSpans(V), run, reserved, calendar) : run \in Runs(CandidateSpans(V))}

LEMMA MeetingIs ==
    ASSUME Asked, NEW t \in Int
    PROVE  /\ Meeting(t).start = t /\ Meeting(t).end = t + case.duration
           /\ Meeting(t).end \in Int /\ t < t + case.duration
BY DEF Meeting, Asked

LEMMA ScoredIs ==
    ASSUME Asked, NEW V \in SUBSET Rows, AreRanges(V), NEW s, Swept(s, V), NEW run \in Runs(s),
           NEW reserved, NEW calendar
    PROVE  Scored(s, run, reserved, calendar) =
               {Candidate(V, t) : t \in {t \in Int : /\ Fits(V, reserved, calendar, t)
                                                     /\ Extent(s, run).start <= t
                                                     /\ t + case.duration <= Extent(s, run).end}}
<1>0. Points(V) \in SUBSET Int
  BY TimesAre
<1>1. PICK w : w = Extent(s, run)
  OBVIOUS
<1>2. Unbroken(V, w)
  BY <1>1, RunIs
<1>3. w.start \in Int /\ w.end \in Int /\ \A x \in w.start .. w.end - 1 : UsableAt(V, x)
  BY <1>0, <1>2 DEF Unbroken
<1>4. PICK first, last : first = FirstStart(w.start) /\ last = Min({w.end, case.deadline}) - case.duration
  OBVIOUS
<1>5. PICK starts : starts = {t \in {t \in first .. last : t % Step = 0} :
                                  Allows(calendar, Meeting(t)) /\ ~Hit(reserved, Meeting(t))}
  OBVIOUS
<1> DEFINE score(r) == Min({s[i].score : i \in {i \in run[1] .. run[2] : Overlap(s[i], r)}})
           scored(t) == [start |-> t, score |-> score(Meeting(t)) + FragmentPenalty(w, Meeting(t))]
<1>6. Scored(s, run, reserved, calendar) = {scored(t) : t \in starts}
  BY <1>1, <1>4, <1>5, Zenon DEF Scored, Extent
<1>7. ASSUME NEW t \in Int, w.start <= t, t + case.duration <= w.end
      PROVE  scored(t) = Candidate(V, t)
  <2>1. PICK m : m = Meeting(t)
    OBVIOUS
  <2>2. m.start = t /\ m.end = t + case.duration /\ m.end \in Int /\ m.start < m.end
    BY <2>1, MeetingIs
  <2>3. {s[i].score : i \in {i \in run[1] .. run[2] : Overlap(s[i], m)}} = {Worst(V, x) : x \in m.start .. m.end - 1}
    <3>1. /\ m.start \in Int /\ m.end \in Int /\ m.start < m.end
          /\ Extent(s, run).start <= m.start /\ m.end <= Extent(s, run).end
      BY <1>1, <1>7, <2>2
    <3> HIDE DEF score, scored
    <3> QED
      BY <3>1, ScoreIs, Zenon
  <2>4. score(m) = Min({Worst(V, x) : x \in t .. t + case.duration - 1})
    <3>1. score(m) = Min({Worst(V, x) : x \in m.start .. m.end - 1})
      BY <2>3, Zenon
    <3> HIDE DEF score, scored
    <3>2. m.start .. m.end - 1 = t .. t + case.duration - 1
      <4>1. case.duration \in Int
        BY DEF Asked
      <4>2. m.end - 1 = t + case.duration - 1
        BY <1>7, <2>2, <4>1
      <4> QED
        BY <2>2, <4>2
    <3> QED
      BY <3>1, <3>2, Zenon
  <2>5. StretchAround(V, m) = w
    <3>1. StretchAround(V, m) = [start |-> w.start, end |-> w.end]
      BY <1>0, <1>2, <1>7, <2>2, StretchAroundIs
    <3>2. w = [start |-> w.start, end |-> w.end]
      BY <1>1 DEF Extent
    <3> QED
      BY <3>1, <3>2
  <2> QED
    BY <2>1, <2>4, <2>5 DEF Candidate, Worth
<1>8. ASSUME NEW t \in Int
      PROVE  t \in starts <=> /\ Fits(V, reserved, calendar, t)
                              /\ w.start <= t /\ t + case.duration <= w.end
  <2>1. CASE t % Step # 0
    BY <1>5, <2>1 DEF Fits
  <2>2. CASE t % Step = 0
    <3>1. first \in Int /\ (first <= t <=> w.start <= t /\ now < t)
      BY <1>3, <1>4, <2>2, FirstStartIs DEF Asked
    <3>2. last \in Int /\ (t <= last <=> t + case.duration <= w.end /\ t + case.duration <= case.deadline)
      <4>1. Min({w.end, case.deadline}) = IF w.end <= case.deadline THEN w.end ELSE case.deadline
        BY <1>3, MinOfTwo DEF Asked
      <4> QED
        BY <1>3, <1>4, <4>1 DEF Asked
    <3>3. t \in starts <=> first <= t /\ t <= last /\ Allowed(reserved, calendar, t)
      BY <1>5, <2>2, <3>1, <3>2 DEF Allowed
    <3>4. w.start <= t /\ t + case.duration <= w.end => \A x \in t .. t + case.duration - 1 : UsableAt(V, x)
      BY <1>3 DEF Asked
    <3> QED
      BY <2>2, <3>1, <3>2, <3>3, <3>4 DEF Fits
  <2> QED
    BY <2>1, <2>2
<1>9. starts \in SUBSET Int
  <2>1. first \in Int
    <3>1. 0 \in Int /\ 0 % Step = 0
      BY StepIsPositive
    <3> QED
      BY <1>3, <1>4, <3>1, FirstStartIs DEF Asked
  <2> QED
    BY <1>5
<1> HIDE DEF scored, score
<1>10. {scored(t) : t \in starts} = {Candidate(V, t) : t \in starts}
  BY <1>7, <1>8, <1>9
<1>11. starts = {t \in Int : Fits(V, reserved, calendar, t) /\ w.start <= t /\ t + case.duration <= w.end}
  BY <1>8, <1>9
<1> QED
  BY <1>1, <1>6, <1>10, <1>11

\* The candidates are the starts that fit.
LEMMA CandidatesAre ==
    ASSUME Asked, NEW V \in SUBSET Rows, AreRanges(V), NEW reserved, NEW calendar
    PROVE  AllCandidates(V, reserved, calendar) =
               {Candidate(V, t) : t \in {t \in Int : Fits(V, reserved, calendar, t)}}
<1>1. PICK s : s = CandidateSpans(V)
  OBVIOUS
<1>2. Swept(s, V)
  BY <1>1, SweepIs
<1>3. \A run \in Runs(s) :
          Scored(s, run, reserved, calendar) =
              {Candidate(V, t) : t \in {t \in Int : /\ Fits(V, reserved, calendar, t)
                                                    /\ Extent(s, run).start <= t
                                                    /\ t + case.duration <= Extent(s, run).end}}
  BY <1>2, ScoredIs
<1>4. AllCandidates(V, reserved, calendar) = UNION {Scored(s, run, reserved, calendar) : run \in Runs(s)}
  BY <1>1 DEF AllCandidates
<1>5. ASSUME NEW c \in AllCandidates(V, reserved, calendar)
      PROVE  \E t \in Int : Fits(V, reserved, calendar, t) /\ c = Candidate(V, t)
  <2>1. PICK run \in Runs(s) : c \in Scored(s, run, reserved, calendar)
    BY <1>4, <1>5
  <2> QED
    BY <1>3, <2>1
<1>6. ASSUME NEW t \in Int, Fits(V, reserved, calendar, t)
      PROVE  Candidate(V, t) \in AllCandidates(V, reserved, calendar)
  <2>1. UsableAt(V, t)
    BY <1>6, MeetingIs DEF Fits, Asked
  <2>2. PICK run \in Runs(s) : Extent(s, run).start <= t /\ t < Extent(s, run).end
    BY <1>2, <2>1, RunAround
  <2>3. Unbroken(V, Extent(s, run))
    BY <1>2, RunIs
  <2>4. t + case.duration <= Extent(s, run).end
    <3>1. Extent(s, run).end \in Int /\ ~UsableAt(V, Extent(s, run).end)
      BY <2>3, TimesAre DEF Unbroken
    <3>2. ~(Extent(s, run).end \in t .. t + case.duration - 1)
      BY <1>6, <3>1 DEF Fits
    <3> QED
      BY <2>2, <3>1, <3>2 DEF Asked
  <2>5. Candidate(V, t) \in Scored(s, run, reserved, calendar)
    BY <1>3, <1>6, <2>2, <2>4
  <2> QED
    BY <1>4, <2>5
<1> QED
  BY <1>5, <1>6

-----------------------------------------------------------------------------
(* The best of the candidates, one by one.                                 *)

Ranked == [start : Int, score : Int]

LEMMA BestIs ==
    ASSUME NEW S \in SUBSET Ranked, IsFiniteSet(S), NEW sorted, sorted = Best(S)
    PROVE  /\ sorted \in Seq(S) /\ Len(sorted) = Cardinality(S) /\ Len(sorted) \in Nat
           /\ \A c \in S : \E i \in 1 .. Len(sorted) : sorted[i] = c
           /\ \A i \in 1 .. Len(sorted) : sorted[i] \in S
           /\ \A i, j \in 1 .. Len(sorted) : i < j => Better(sorted[i], sorted[j])
<1>1. PICK R : R = {p \in S \X S : Better(p[1], p[2])}
  OBVIOUS
<1>2. \A x, y \in S : <<x, y>> \in R <=> Better(x, y)
  BY <1>1
<1>3. \A x \in S : x.start \in Int /\ x.score \in Int
  BY DEF Ranked
<1>4. \A x, y \in S : x # y => x.start # y.start \/ x.score # y.score
  BY DEF Ranked
<1>5. StrictlyOrders(R, S)
  BY <1>2, <1>3, <1>4 DEF StrictlyOrders, Better
<1>6. Lists(sorted, S, R)
  BY <1>1, <1>5, InOrderLists DEF Best
<1>7. \A i \in 1 .. Len(sorted) : sorted[i] \in S
  BY <1>6 DEF Lists
<1>8. \A i, j \in 1 .. Len(sorted) : i < j => Better(sorted[i], sorted[j])
  BY <1>2, <1>6, <1>7 DEF Lists
<1> QED
  BY <1>6, <1>7, <1>8 DEF Lists

LEMMA RangeOf ==
    ASSUME NEW S, NEW s \in Seq(S)
    PROVE  /\ Range(s) = {s[i] : i \in 1 .. Len(s)} /\ Range(s) \in SUBSET S /\ IsFiniteSet(Range(s))
<1>1. PICK n \in Nat : n = Len(s) /\ DOMAIN s = 1 .. n
  OBVIOUS
<1>2. Range(s) = {s[i] : i \in 1 .. n}
  BY <1>1 DEF Range
<1>3. IsFiniteSet({s[i] : i \in 1 .. n})
  <2>1. IsFiniteSet(1 .. n)
    BY FS_Interval
  <2> QED
    BY <2>1, FiniteImage
<1> QED
  BY <1>1, <1>2, <1>3

\* A new candidate takes its place among those retained.
LEMMA RetainSorts ==
    ASSUME NEW best \in Seq(Ranked), NEW c \in Ranked, NEW next, next = Retain(best, c)
    PROVE  \E sorted : /\ sorted = Best(Range(best) \cup {c})
                       /\ Range(best) \cup {c} \in SUBSET Ranked /\ IsFiniteSet(Range(best) \cup {c})
                       /\ next \in Seq(Range(best) \cup {c})
                       /\ Len(next) = IF MaxOffers <= Len(sorted) THEN MaxOffers ELSE Len(sorted)
                       /\ \A i \in 1 .. Len(next) : next[i] = sorted[i] /\ i \in 1 .. Len(sorted)
<1>1. PICK B : B = Range(best) \cup {c}
  OBVIOUS
<1>2. B \in SUBSET Ranked /\ IsFiniteSet(B)
  <2>1. IsFiniteSet({c})
    BY FS_Singleton
  <2> QED
    BY <1>1, <2>1, RangeOf, FS_Union
<1>3. PICK sorted : sorted = Best(B)
  OBVIOUS
<1>4. sorted \in Seq(B) /\ \A i \in 1 .. Len(sorted) : sorted[i] \in B
  BY <1>2, <1>3, BestIs
<1>5. PICK n \in Nat : n = Len(sorted)
  BY <1>4
<1>6. MaxOffers \in Nat
  BY CandidatesAssumption
<1>7. PICK k : k = Min({MaxOffers, Len(sorted)})
  OBVIOUS
<1>8. k = IF MaxOffers <= n THEN MaxOffers ELSE n
  BY <1>5, <1>6, <1>7, MinOfTwo
<1>9. k \in Nat /\ k <= n
  BY <1>6, <1>8
<1>10. next = SubSeq(sorted, 1, k)
  BY <1>1, <1>3, <1>7 DEF Retain
<1>11. next = [i \in 1 .. k |-> sorted[i]]
  BY <1>4, <1>5, <1>9, <1>10
<1>12. \A i \in 1 .. k : i \in 1 .. n /\ sorted[i] \in B
  BY <1>4, <1>5, <1>9
<1>13. next \in Seq(B) /\ Len(next) = k /\ \A i \in 1 .. k : next[i] = sorted[i]
  BY <1>9, <1>11, <1>12
<1> QED
  BY <1>1, <1>2, <1>3, <1>5, <1>8, <1>12, <1>13

\* The best of a set, as many as are offered.
Leading(best, A) ==
    /\ best \in Seq(A)
    /\ Len(best) <= MaxOffers
    /\ \A i, j \in 1 .. Len(best) : i < j => Better(best[i], best[j])
    /\ \A a \in A : \/ \E i \in 1 .. Len(best) : best[i] = a
                    \/ Len(best) = MaxOffers /\ \A i \in 1 .. Len(best) : Better(best[i], a)

LEMMA SortedDiffer ==
    ASSUME NEW A \in SUBSET Ranked, NEW best, Leading(best, A)
    PROVE  \A i, j \in 1 .. Len(best) : best[i] = best[j] => i = j
<1>1. PICK n \in Nat : n = Len(best)
  BY DEF Leading
<1>2. \A i \in 1 .. n : best[i] \in Ranked
  BY <1>1 DEF Leading
<1>3. \A i \in 1 .. n : best[i].start \in Int /\ best[i].score \in Int
  BY <1>2 DEF Ranked
<1>4. \A i, j \in 1 .. n : i < j => Better(best[i], best[j])
  BY <1>1 DEF Leading
<1> SUFFICES ASSUME NEW i \in 1 .. n, NEW j \in 1 .. n, best[i] = best[j], i # j PROVE FALSE
  BY <1>1
<1>5. ~Better(best[i], best[i])
  BY <1>3 DEF Better
<1> QED
  BY <1>4, <1>5

LEMMA CountRange ==
    ASSUME NEW S, NEW s \in Seq(S), \A i, j \in 1 .. Len(s) : s[i] = s[j] => i = j
    PROVE  Cardinality(Range(s)) = Len(s)
<1>1. PICK n \in Nat : n = Len(s) /\ DOMAIN s = 1 .. n
  OBVIOUS
<1>2. Range(s) = {s[i] : i \in 1 .. n}
  BY <1>1 DEF Range
<1>3. s \in [1 .. n -> Range(s)]
  BY <1>1, <1>2
<1>4. s \in Bijection(1 .. n, Range(s))
  BY <1>1, <1>2, <1>3 DEF Bijection, Injection, Surjection, IsInjective
<1>5. IsFiniteSet(1 .. n) /\ Cardinality(1 .. n) = n
  BY FS_Interval
<1>6. ExistsBijection(1 .. n, Range(s))
  BY <1>4 DEF ExistsBijection
<1> QED
  BY <1>1, <1>5, <1>6, FS_Bijection

LEMMA RetainIs ==
    ASSUME NEW A \in SUBSET Ranked, NEW best, Leading(best, A), NEW c \in Ranked,
           NEW next, next = Retain(best, c)
    PROVE  Leading(next, A \cup {c})
<1>0. MaxOffers \in Nat /\ MaxOffers > 0
  BY CandidatesAssumption
<1>1. best \in Seq(A) /\ best \in Seq(Ranked)
  BY SeqOfMore DEF Leading
<1>2. PICK n \in Nat : n = Len(best)
  BY <1>1
<1>3. PICK B : B = Range(best) \cup {c}
  OBVIOUS
<1>4. PICK sorted : /\ sorted = Best(B)
                    /\ B \in SUBSET Ranked /\ IsFiniteSet(B)
                    /\ next \in Seq(B)
                    /\ Len(next) = IF MaxOffers <= Len(sorted) THEN MaxOffers ELSE Len(sorted)
                    /\ \A i \in 1 .. Len(next) : next[i] = sorted[i] /\ i \in 1 .. Len(sorted)
  BY <1>1, <1>3, RetainSorts
<1>5. /\ Len(sorted) = Cardinality(B) /\ Len(sorted) \in Nat
      /\ \A b \in B : \E i \in 1 .. Len(sorted) : sorted[i] = b
      /\ \A i \in 1 .. Len(sorted) : sorted[i] \in B
      /\ \A i, j \in 1 .. Len(sorted) : i < j => Better(sorted[i], sorted[j])
  <2>1. B \in SUBSET Ranked /\ IsFiniteSet(B) /\ sorted = Best(B)
    BY <1>4
  <2> QED
    BY <2>1, BestIs, ZenonT(30)
<1>6. PICK m, k \in Nat : m = Len(sorted) /\ k = Len(next)
  BY <1>4, <1>5
<1>7. k <= m /\ k <= MaxOffers /\ (k = m \/ k = MaxOffers)
  BY <1>0, <1>4, <1>6
<1>8. Range(best) = {best[i] : i \in 1 .. n} /\ Range(best) \in SUBSET A /\ IsFiniteSet(Range(best))
  BY <1>1, <1>2, RangeOf
<1>9. B \subseteq A \cup {c}
  BY <1>3, <1>8
<1>10. next \in Seq(A \cup {c})
  BY <1>4, <1>9, SeqOfMore
<1>11. \A i, j \in 1 .. k : i < j => Better(next[i], next[j])
  BY <1>4, <1>5, <1>6
<1>12. Cardinality(Range(best)) = n
  BY <1>1, <1>2, SortedDiffer, CountRange
<1>13. ASSUME NEW a \in A \cup {c}
       PROVE  \/ \E i \in 1 .. k : next[i] = a
              \/ k = MaxOffers /\ \A i \in 1 .. k : Better(next[i], a)
  <2>1. CASE a \in B
    <3>1. PICK j \in 1 .. m : sorted[j] = a
      BY <1>5, <1>6, <2>1
    <3>2. CASE j <= k
      <4>1. j \in 1 .. k
        BY <1>6, <3>2
      <4> QED
        BY <1>4, <1>6, <3>1, <4>1
    <3>3. CASE ~(j <= k)
      <4>1. k = MaxOffers
        BY <1>6, <1>7, <3>3
      <4>2. \A i \in 1 .. k : i \in 1 .. m /\ i < j /\ next[i] = sorted[i]
        BY <1>4, <1>6, <3>3
      <4>3. \A i \in 1 .. k : Better(next[i], a)
        BY <1>5, <1>6, <3>1, <4>2
      <4> QED
        BY <4>1, <4>3
    <3> QED
      BY <3>2, <3>3
  <2>2. CASE a \notin B
    <3>1. a \in A /\ ~ \E i \in 1 .. n : best[i] = a
      BY <1>3, <1>8, <2>2
    <3>2. n = MaxOffers /\ \A i \in 1 .. n : Better(best[i], a)
      BY <1>2, <3>1 DEF Leading
    <3>3. Cardinality(B) = IF c \in Range(best) THEN n ELSE n + 1
      <4>1. CASE c \in Range(best)
        <5>1. B = Range(best)
          BY <1>3, <4>1
        <5> QED
          BY <1>12, <4>1, <5>1
      <4>2. CASE c \notin Range(best)
        BY <1>3, <1>8, <1>12, <4>2, FS_AddElement
      <4> QED
        BY <4>1, <4>2
    <3>4. k = MaxOffers /\ (c \notin Range(best) => m = k + 1)
      BY <1>5, <1>6, <1>7, <3>2, <3>3
    <3>5. ASSUME NEW i \in 1 .. k PROVE Better(next[i], a)
      <4>1. next[i] \in B /\ next[i] = sorted[i] /\ i \in 1 .. m
        BY <1>4, <1>5, <1>6
      <4>2. CASE next[i] \in Range(best)
        BY <1>8, <3>2, <4>2
      <4>3. CASE next[i] \notin Range(best)
        <5>1. next[i] = c /\ m = k + 1
          BY <1>3, <3>4, <4>1, <4>3
        <5>2. m \in 1 .. m /\ i < m
          BY <1>6, <5>1
        <5>3. sorted[m] \in B /\ Better(c, sorted[m])
          <6>1. i \in 1 .. Len(sorted) /\ m \in 1 .. Len(sorted) /\ i < m
            BY <1>6, <4>1, <5>2
          <6>2. sorted[m] \in B /\ Better(sorted[i], sorted[m])
            BY <1>5, <6>1
          <6> QED
            BY <4>1, <5>1, <6>2
        <5>4. c.start \in Int /\ c.score \in Int /\ a.start \in Int /\ a.score \in Int
              /\ sorted[m].start \in Int /\ sorted[m].score \in Int
          BY <1>4, <3>1, <5>3 DEF Ranked
        <5>5. sorted[m] # c
          BY <5>3, <5>4 DEF Better
        <5>6. sorted[m] \in Range(best)
          BY <1>3, <5>3, <5>5
        <5>7. Better(sorted[m], a)
          BY <1>8, <3>2, <5>6
        <5> QED
          BY <5>1, <5>3, <5>4, <5>7 DEF Better
      <4> QED
        BY <4>2, <4>3
    <3> QED
      BY <3>4, <3>5
  <2> QED
    BY <2>1, <2>2
<1> QED
  BY <1>6, <1>7, <1>10, <1>11, <1>13 DEF Leading

ByTurn(all) == InOrder(all, {p \in all \X all : p[1].start < p[2].start})
RetainsTo(acc, all, n) ==
    /\ acc[0] = <<>>
    /\ \A k \in 1 .. n : acc[k] = Retain(acc[k - 1], ByTurn(all)[k])
    /\ FoldLeft(Retain, <<>>, ByTurn(all)) = acc[n]

LEMMA RetainsInTurn ==
    ASSUME NEW all, NEW n \in Nat, ByTurn(all) \in Seq(Ranked), n = Len(ByTurn(all))
    PROVE  \E acc : RetainsTo(acc, all, n)
<1> DEFINE seq == ByTurn(all)
<1>1. DOMAIN seq = 1 .. n
  OBVIOUS
<1>2. PICK Acc : Acc = Seq(Ranked)
  OBVIOUS
<1>3. PICK step : step = [p \in (1 .. n) \X Acc |-> Retain(p[2], seq[p[1]])]
  OBVIOUS
<1>4. RecursiveOver(n, Acc, <<>>, step)
  <2>1. \A i \in 1 .. n : seq[i] \in Ranked
    OBVIOUS
  <2>2. <<>> \in Acc
    BY <1>2
  <2> HIDE DEF seq
  <2>3. ASSUME NEW p \in (1 .. n) \X Acc PROVE Retain(p[2], seq[p[1]]) \in Acc
    <3>1. p[2] \in Seq(Ranked) /\ seq[p[1]] \in Ranked
      BY <1>2, <2>1
    <3>2. PICK B : /\ B = Range(p[2]) \cup {seq[p[1]]}
                   /\ B \in SUBSET Ranked /\ Retain(p[2], seq[p[1]]) \in Seq(B)
      BY <3>1, RetainSorts
    <3> QED
      BY <1>2, <3>2, SeqOfMore
  <2> QED
    BY <1>3, <2>2, <2>3 DEF RecursiveOver
<1>5. PICK it : IteratesOver(it, n, Acc, <<>>, step)
  BY <1>4, RecursionOverPlaces
<1> DEFINE Is(f) == f = [s \in SUBSET DOMAIN seq |->
                             IF s = {} THEN <<>> ELSE Retain(f[s \ {Max(s)}], seq[Max(s)])]
<1>6. Is(it)
  <2>1. \A s \in SUBSET (1 .. n) : s # {} => Max(s) \in 1 .. n /\ it[s \ {Max(s)}] \in Acc
    BY <1>5, MaxOfPlaces DEF IteratesOver
  <2>2. \A s \in SUBSET (1 .. n) : s # {} =>
            step[<<Max(s), it[s \ {Max(s)}]>>] = Retain(it[s \ {Max(s)}], seq[Max(s)])
    BY <2>1, <1>3
  <2> HIDE DEF seq
  <2> QED
    BY <1>1, <1>5, <2>2 DEF IteratesOver
<1>7. PICK f : Is(f) /\ FoldLeft(Retain, <<>>, ByTurn(all)) = f[DOMAIN seq]
  <2>1. FoldLeft(Retain, <<>>, ByTurn(all)) = (CHOOSE f : Is(f))[DOMAIN seq]
    BY Zenon DEF FoldLeft, MapThenFoldSet, Max
  <2> HIDE DEF Is
  <2> QED
    BY <1>6, <2>1, Zenon
<1> HIDE DEF seq
<1>8. PICK acc : acc = [k \in 0 .. n |-> f[1 .. k]]
  OBVIOUS
<1>9. acc[0] = <<>> /\ FoldLeft(Retain, <<>>, ByTurn(all)) = acc[n]
  BY <1>1, <1>7, <1>8
<1>10. ASSUME NEW k \in 1 .. n PROVE acc[k] = Retain(acc[k - 1], seq[k])
  <2>1. Max(1 .. k) = k /\ (1 .. k) \ {Max(1 .. k)} = 1 .. k - 1 /\ k \in 1 .. k
    BY MaxOfInterval
  <2>2. 1 .. k \in SUBSET (1 .. n)
    OBVIOUS
  <2>3. 1 .. k # {} /\ k - 1 \in 0 .. n /\ k \in 0 .. n
    BY <2>1, Places
  <2> QED
    BY <1>1, <1>7, <1>8, <2>1, <2>2, <2>3
<1> QED
  BY <1>9, <1>10 DEF seq, RetainsTo

\* Those retained at last are the best of all.
LEMMA RetainedAre ==
    ASSUME NEW all \in SUBSET Ranked, IsFiniteSet(all), \A c, d \in all : c.start = d.start => c = d
    PROVE  Leading(FoldLeft(Retain, <<>>, ByTurn(all)), all)
<1>1. PICK R : R = {p \in all \X all : p[1].start < p[2].start}
  OBVIOUS
<1>2. \A x, y \in all : <<x, y>> \in R <=> x.start < y.start
  BY <1>1
<1>3. \A x \in all : x.start \in Int
  BY DEF Ranked
<1>4. StrictlyOrders(R, all)
  BY <1>2, <1>3 DEF StrictlyOrders
<1>5. PICK seq : seq = ByTurn(all) /\ Lists(seq, all, R)
  BY <1>1, <1>4, InOrderLists DEF ByTurn
<1>6. PICK n \in Nat : n = Len(seq) /\ seq \in Seq(all)
  BY <1>5 DEF Lists
<1>7. \A i \in 1 .. n : seq[i] \in all
  BY <1>6
<1>8. \A c \in all : \E i \in 1 .. n : seq[i] = c
  BY <1>5, <1>6 DEF Lists
<1>9. PICK acc : RetainsTo(acc, all, n)
  <2>1. ByTurn(all) \in Seq(Ranked) /\ n = Len(ByTurn(all))
    BY <1>5, <1>6, SeqOfMore
  <2> QED
    BY <2>1, RetainsInTurn
<1> DEFINE Upto(k) == {seq[i] : i \in 1 .. k}
<1>10. PICK G : G = {k \in 0 .. n : Leading(acc[k], Upto(k))}
  OBVIOUS
<1>11. 0 \in G
  <2>1. acc[0] = <<>> /\ Upto(0) = {}
    BY <1>9 DEF RetainsTo
  <2>2. <<>> \in Seq({}) /\ Len(<<>>) = 0 /\ MaxOffers \in Nat
    BY CandidatesAssumption
  <2>3. Leading(<<>>, {})
    BY <2>2 DEF Leading
  <2>4. Leading(acc[0], Upto(0))
    BY <2>1, <2>3
  <2> HIDE DEF Upto
  <2> QED
    BY <1>6, <1>10, <2>4
<1>12. ASSUME NEW k \in 0 .. n - 1, k \in G PROVE k + 1 \in G
  <2>1. k + 1 \in 1 .. n /\ k + 1 \in 0 .. n /\ (k + 1) - 1 = k
    BY <1>6
  <2>2. acc[k + 1] = Retain(acc[k], seq[k + 1])
    BY <1>5, <1>9, <2>1 DEF RetainsTo
  <2>3. Upto(k + 1) = Upto(k) \cup {seq[k + 1]}
    <3>1. \A i \in 1 .. k + 1 : i \in 1 .. k \/ i = k + 1
      BY <1>6
    <3>2. \A i \in 1 .. k : i \in 1 .. k + 1
      BY <1>6
    <3>3. k + 1 \in 1 .. k + 1
      BY <1>6
    <3> QED
      BY <3>1, <3>2, <3>3
  <2>4. Upto(k) \in SUBSET Ranked /\ seq[k + 1] \in Ranked
    BY <1>6, <1>7, <2>1
  <2>5. Leading(acc[k], Upto(k))
    BY <1>10, <1>12
  <2> HIDE DEF Upto
  <2>6. Leading(acc[k + 1], Upto(k) \cup {seq[k + 1]})
    BY <2>2, <2>4, <2>5, RetainIs
  <2> QED
    BY <1>10, <2>1, <2>3, <2>6
<1>13. Leading(acc[n], Upto(n))
  <2> HIDE DEF Upto
  <2>1. 0 .. n \subseteq G
    BY <1>6, <1>11, <1>12, InductUpTo
  <2> QED
    BY <1>6, <1>10, <2>1
<1>14. Upto(n) = all
  BY <1>7, <1>8
<1> QED
  BY <1>9, <1>13, <1>14 DEF RetainsTo

-----------------------------------------------------------------------------
(* The offers.                                                             *)

LEMMA WorthTyped ==
    ASSUME Asked, NEW V \in SUBSET Rows, AreRanges(V), NEW t \in Int,
           \A x \in t .. t + case.duration - 1 : UsableAt(V, x)
    PROVE  Candidate(V, t) \in Ranked
<1>1. PICK I : I = t .. t + case.duration - 1
  OBVIOUS
<1>2. t \in I /\ I \in SUBSET Int /\ IsFiniteSet(I)
  <2>1. t + case.duration - 1 \in Int /\ t <= t + case.duration - 1
    BY DEF Asked
  <2> QED
    BY <1>1, <2>1, FS_Interval
<1>3. \A x \in I : Worst(V, x) \in Int
  BY <1>1, <1>2, WorstTyped
<1>4. PICK f : f = [x \in I |-> Worst(V, x)]
  OBVIOUS
<1>5. PICK S : S = {Worst(V, x) : x \in I}
  OBVIOUS
<1>6. S = {f[x] : x \in I}
  BY <1>4, <1>5
<1>7. S \in SUBSET Int /\ IsFiniteSet(S) /\ S # {}
  <2>1. IsFiniteSet({f[x] : x \in I})
    BY <1>2, FiniteImage
  <2> QED
    BY <1>2, <1>3, <1>5, <1>6, <2>1
<1>8. Min(S) \in Int
  BY <1>7, MinOfSet
<1>9. \A w, m : FragmentPenalty(w, m) \in Int
  BY DEF FragmentPenalty
<1>10. Worth(V, t) \in Int
  BY <1>1, <1>5, <1>8, <1>9 DEF Worth
<1> QED
  BY <1>10 DEF Candidate, Ranked

\* The offers are the best of the starts that fit, as many as are offered, in order.
BestOfFits(o, V, reserved, calendar) ==
    /\ Len(o) \in Nat /\ Len(o) <= MaxOffers /\ DOMAIN o = 1 .. Len(o)
    /\ \A i \in 1 .. Len(o) : o[i] \in Int /\ Fits(V, reserved, calendar, o[i])
    /\ \A i, j \in 1 .. Len(o) : i < j => Better(Candidate(V, o[i]), Candidate(V, o[j]))
    /\ \A t \in Int : Fits(V, reserved, calendar, t) =>
           \/ \E i \in 1 .. Len(o) : o[i] = t
           \/ Len(o) = MaxOffers /\ \A i \in 1 .. Len(o) : Better(Candidate(V, o[i]), Candidate(V, t))

LEMMA OffersAre ==
    ASSUME Asked, NEW V \in SUBSET Rows, AreRanges(V), NEW reserved, NEW calendar
    PROVE  BestOfFits(GenerateCandidates(V, reserved, calendar), V, reserved, calendar)
<1>1. PICK T : T = {t \in Int : Fits(V, reserved, calendar, t)}
  OBVIOUS
<1>2. PICK all : all = AllCandidates(V, reserved, calendar)
  OBVIOUS
<1>3. all = {Candidate(V, t) : t \in T}
  BY <1>1, <1>2, CandidatesAre
<1>4. \A t : Candidate(V, t).start = t
  BY DEF Candidate
<1>5. all \in SUBSET Ranked
  BY <1>1, <1>3, WorthTyped DEF Fits
<1>6. IsFiniteSet(all)
  <2>1. T \subseteq now .. case.deadline
    BY <1>1 DEF Fits, Asked
  <2>2. IsFiniteSet(T)
    BY <2>1, FS_Interval, FS_Subset DEF Asked
  <2>3. PICK f : f = [t \in T |-> Candidate(V, t)]
    OBVIOUS
  <2>4. all = {f[t] : t \in T}
    BY <1>3, <2>3
  <2> QED
    BY <2>2, <2>4, FiniteImage
<1>7. \A c, d \in all : c.start = d.start => c = d
  BY <1>3, <1>4
<1>8. PICK best : best = FoldLeft(Retain, <<>>, ByTurn(all))
  OBVIOUS
<1>9. Leading(best, all)
  BY <1>5, <1>6, <1>7, <1>8, RetainedAre
<1>10. PICK o : o = GenerateCandidates(V, reserved, calendar)
  OBVIOUS
<1>11. o = [i \in DOMAIN best |-> best[i].start]
  BY <1>2, <1>8, <1>10, Zenon DEF GenerateCandidates, AllCandidates, ByTurn
<1>12. PICK n \in Nat : n = Len(best) /\ DOMAIN best = 1 .. n /\ \A i \in 1 .. n : best[i] \in all
  <2>1. best \in Seq(all)
    BY <1>9 DEF Leading
  <2> QED
    BY <2>1
<1>13. DOMAIN o = 1 .. n /\ \A i \in 1 .. n : o[i] = best[i].start
  BY <1>11, <1>12
<1>14. Len(o) = n
  BY <1>11, <1>12
<1>15. \A i \in 1 .. n : o[i] \in T /\ best[i] = Candidate(V, o[i])
  BY <1>3, <1>4, <1>12, <1>13
<1>16. n <= MaxOffers /\ \A i, j \in 1 .. n : i < j => Better(best[i], best[j])
  BY <1>9, <1>12 DEF Leading
<1>17. ASSUME NEW t \in T
       PROVE  \/ \E i \in 1 .. n : o[i] = t
              \/ n = MaxOffers /\ \A i \in 1 .. n : Better(best[i], Candidate(V, t))
  <2>1. Candidate(V, t) \in all
    BY <1>3
  <2>2. CASE \E i \in 1 .. n : best[i] = Candidate(V, t)
    BY <1>4, <1>13, <2>2
  <2>3. CASE n = MaxOffers /\ \A i \in 1 .. n : Better(best[i], Candidate(V, t))
    BY <2>3
  <2> QED
    BY <1>9, <1>12, <2>1, <2>2, <2>3 DEF Leading
<1>18. \A i, j \in 1 .. n : i < j => Better(Candidate(V, o[i]), Candidate(V, o[j]))
  BY <1>15, <1>16
<1>19. \A t \in Int : Fits(V, reserved, calendar, t) =>
           \/ \E i \in 1 .. n : o[i] = t
           \/ n = MaxOffers /\ \A i \in 1 .. n : Better(Candidate(V, o[i]), Candidate(V, t))
  BY <1>1, <1>15, <1>17
<1>20. \A i \in 1 .. n : o[i] \in Int /\ Fits(V, reserved, calendar, o[i])
  BY <1>1, <1>15
<1>21. BestOfFits(o, V, reserved, calendar)
  BY <1>13, <1>14, <1>16, <1>18, <1>19, <1>20 DEF BestOfFits
<1> QED
  BY <1>10, <1>21

-----------------------------------------------------------------------------
(* What the handler has read, and when.                                    *)

\* Rows of the target: those that are given, or of a rebuild at some time.
RowsOf(S, t) == IF settings = None THEN S = case.rows ELSE S = {} \/ S = Rebuilt(t)

Window == [start |-> now, end |-> case.deadline]

\* Rows read at time `at` of what was published at t, and what is published now is no older.
ReadThen(t, at, u) ==
    /\ t <= at /\ now <= at /\ at <= clock /\ t <= u /\ u <= clock
    /\ \E S, T :
           /\ RowsOf(S, t) /\ RowsOf(T, u) /\ (S # {} => T # {})
           /\ got.rows = {r \in S : r.expires > at /\ Overlap(r, Window)} /\ rows = T
RowsRead == \E t, at, u \in Int : ReadThen(t, at, u)

CalendarRead ==
    /\ got.calendar.valid
    /\ Cardinality(case.busy) <= EvidenceLimit
    /\ got.calendar.managed = case.source.managed
    /\ case.source.managed =>
           case.source.committed /\ got.calendar.busy = Merged({i \in case.busy : i.status # "free"})

\* What is read stays what it was, and the offers are made from it.
HandlerKnows ==
    /\ now \in Nat /\ clock \in Nat /\ now <= clock
    /\ got = [rows |-> got.rows, reserved |-> got.reserved, calendar |-> got.calendar]
    /\ settings = None => rows = case.rows
    /\ pc \in {"reservations", "calendar", "plan", "offered"} => RowsRead
    /\ pc \in {"calendar", "plan", "offered"} => got.reserved = Merged(case.accepted)
    /\ pc \in {"plan", "offered"} => CalendarRead
    /\ pc = "offered" =>
           /\ case.source.managed => case.source.observed <= now /\ now < case.source.observed + SourceMaxAge
           /\ BestOfFits(offers, got.rows, got.reserved, got.calendar)
    /\ pc # "offered" => offers = <<>>

PlanningInvariant == RowsOfOneRebuild /\ HandlerKnows

\* A case is as the handlers let it in.
LEMMA CaseIs ==
    ASSUME case \in Cases
    PROVE  /\ case.clock \in Nat /\ case.duration \in Nat \ {0} /\ case.deadline \in Int
           /\ AreRanges(case.accepted) /\ AreRanges(case.busy)
           /\ case.source.observed \in Int /\ case.source.from \in Int /\ case.source.to \in Int
           /\ case.source.managed \in BOOLEAN /\ case.source.committed \in BOOLEAN
           /\ case.settings = None => GivenRows(case.rows)
           /\ case.settings # None => P!ValidSettings(case.settings) /\ case.rows = {}
<1>1. IsFiniteSet(case.accepted) /\ \A r \in case.accepted : {r.start, r.end} \subseteq Int /\ r.start < r.end
  BY CasesAssumption
<1>2. IsFiniteSet(case.busy) /\ \A r \in case.busy : {r.start, r.end} \subseteq Int /\ r.start < r.end
  BY CasesAssumption
<1>3. AreRanges(case.accepted) /\ AreRanges(case.busy)
  BY <1>1, <1>2 DEF AreRanges
<1>4. case.clock \in Nat /\ case.duration \in Nat \ {0} /\ case.deadline \in Int
  BY CasesAssumption
<1>5. /\ {case.source.observed, case.source.from, case.source.to} \subseteq Int
      /\ {case.source.managed, case.source.committed} \subseteq BOOLEAN
  BY CasesAssumption
<1>6. /\ case.settings = None => GivenRows(case.rows)
      /\ case.settings # None => P!ValidSettings(case.settings) /\ case.rows = {}
  BY CasesAssumption
<1> QED
  BY <1>3, <1>4, <1>5, <1>6

LEMMA AskedIs ==
    ASSUME RowsOfOneRebuild, HandlerKnows
    PROVE  Asked
BY CaseIs DEF RowsOfOneRebuild, HandlerKnows, Asked

LEMMA RebuiltAreRanges ==
    ASSUME P!ValidSettings(settings), NEW t \in Int
    PROVE  /\ Rebuilt(t) \in SUBSET Rows /\ AreRanges(Rebuilt(t))
           /\ \A r \in Rebuilt(t) : IsMultiple(r.start) /\ r.end = r.start + Step /\ r.generated = t
<1>1. Rebuilt(t) = {RowOf(b, t) : b \in {b \in Buckets : InSource(Bucket(b))}}
  BY RebuiltRows DEF Rebuilt
<1>2. PICK D : D = {b \in Buckets : InSource(Bucket(b))}
  OBVIOUS
<1>3. IsFiniteSet(D)
  <2>1. settings.from \in Int /\ settings.to \in Int
    BY DEF P!ValidSettings
  <2>2. P!FloorBucket(settings.from) \in Int /\ P!CeilBucket(settings.to) - 1 \in Int
    BY <2>1, FloorAndCeil
  <2>3. IsFiniteSet(P!FloorBucket(settings.from) .. P!CeilBucket(settings.to) - 1)
    BY <2>2, FS_Interval
  <2>4. D \subseteq P!FloorBucket(settings.from) .. P!CeilBucket(settings.to) - 1
    BY <1>2 DEF Buckets
  <2> QED
    BY <2>3, <2>4, FS_Subset
<1>4. PICK f : f = [b \in D |-> RowOf(b, t)]
  OBVIOUS
<1>5. Rebuilt(t) = {f[b] : b \in D}
  BY <1>1, <1>2, <1>4
<1>6. IsFiniteSet(Rebuilt(t))
  <2>1. IsFiniteSet({f[b] : b \in D})
    BY <1>3, FiniteImage
  <2> QED
    BY <1>5, <2>1
<1>7. \A b \in D : /\ RowOf(b, t) \in Rows /\ RowOf(b, t).start = b /\ RowOf(b, t).end = b + Step
                   /\ RowOf(b, t).generated = t /\ b \in Int /\ IsMultiple(b)
  BY <1>2, RowOfSays, BucketsFillWindow
<1>8. Rebuilt(t) \in SUBSET Rows
  BY <1>1, <1>2, <1>7
<1>9. \A r \in Rebuilt(t) : r.start \in Int /\ IsMultiple(r.start) /\ r.end = r.start + Step /\ r.generated = t
  BY <1>1, <1>2, <1>7
<1>10. AreRanges(Rebuilt(t))
  BY <1>6, <1>9, StepIsPositive DEF AreRanges
<1> QED
  BY <1>8, <1>9, <1>10

LEMMA RowsOfAre ==
    ASSUME RowsOfOneRebuild, NEW t \in Int, NEW S, RowsOf(S, t)
    PROVE  S \in SUBSET Rows /\ AreRanges(S)
<1>1. CASE settings = None
  <2>1. GivenRows(S)
    BY <1>1, CaseIs DEF RowsOfOneRebuild, RowsOf
  <2>2. S \in SUBSET Rows /\ IsFiniteSet(S) /\ \A r \in S : r.start < r.end
    BY <2>1 DEF GivenRows, Rows
  <2>3. \A r \in S : r.start \in Int /\ r.end \in Int
    BY <2>2 DEF Rows
  <2> QED
    BY <2>2, <2>3 DEF AreRanges
<1>2. CASE settings # None
  <2>1. CASE S = {}
    BY <2>1, FS_EmptySet DEF AreRanges
  <2>2. CASE S = Rebuilt(t)
    BY <1>2, <2>2, SettingsAreValid, RebuiltAreRanges
  <2> QED
    BY <1>2, <2>1, <2>2 DEF RowsOf
<1> QED
  BY <1>1, <1>2

LEMMA GotRowsAre ==
    ASSUME RowsOfOneRebuild, RowsRead
    PROVE  got.rows \in SUBSET Rows /\ AreRanges(got.rows)
<1>1. PICK t \in Int, at \in Int, u \in Int : ReadThen(t, at, u)
  BY DEF RowsRead
<1>2. PICK S : RowsOf(S, t) /\ got.rows \subseteq S
  BY <1>1 DEF ReadThen
<1>3. S \in SUBSET Rows /\ AreRanges(S)
  BY <1>2, RowsOfAre
<1>4. IsFiniteSet(got.rows)
  BY <1>2, <1>3, FS_Subset DEF AreRanges
<1> QED
  BY <1>2, <1>3, <1>4 DEF AreRanges

-----------------------------------------------------------------------------
(* Every step keeps it.                                                    *)

\* What fits depends on the request and on the time the handler works with.
LEMMA SameTimeSameFits ==
    ASSUME case' = case, now' = now, NEW CONSTANT o, NEW CONSTANT V, NEW CONSTANT reserved, NEW CONSTANT calendar
    PROVE  BestOfFits(o, V, reserved, calendar)' = BestOfFits(o, V, reserved, calendar)
<1>1. ASSUME NEW CONSTANT t PROVE Meeting(t)' = Meeting(t)
  BY DEF Meeting
<1>2. ASSUME NEW CONSTANT x PROVE UsableAt(V, x)' = UsableAt(V, x) /\ Worst(V, x)' = Worst(V, x)
  BY DEF UsableAt, Worst, Unusable, Includes, Quality, Min
<1>3. ASSUME NEW CONSTANT t PROVE Allowed(reserved, calendar, t)' = Allowed(reserved, calendar, t)
  BY DEF Allowed, Allows, Hit, FirstEndingAfter, Meeting
<1>4. ASSUME NEW CONSTANT t PROVE Fits(V, reserved, calendar, t)' = Fits(V, reserved, calendar, t)
  BY <1>2, <1>3 DEF Fits
<1>5. ASSUME NEW CONSTANT m PROVE StretchAround(V, m)' = StretchAround(V, m)
  BY <1>2 DEF StretchAround, Points, Min, Max
<1>6. ASSUME NEW CONSTANT t PROVE Candidate(V, t)' = Candidate(V, t)
  BY <1>1, <1>2, <1>5 DEF Candidate, Worth, FragmentPenalty, Min
<1>7. \A i, j \in 1 .. Len(o) :
          Better(Candidate(V, o[i]), Candidate(V, o[j]))' <=> Better(Candidate(V, o[i]), Candidate(V, o[j]))
  <2> TAKE i, j \in 1 .. Len(o)
  <2>1. Candidate(V, o[i])' = Candidate(V, o[i]) /\ Candidate(V, o[j])' = Candidate(V, o[j])
    BY <1>6
  <2> QED
    BY <2>1 DEF Better
<1>8. \A t \in Int, i \in 1 .. Len(o) :
          Better(Candidate(V, o[i]), Candidate(V, t))' <=> Better(Candidate(V, o[i]), Candidate(V, t))
  <2> TAKE t \in Int, i \in 1 .. Len(o)
  <2>1. Candidate(V, o[i])' = Candidate(V, o[i]) /\ Candidate(V, t)' = Candidate(V, t)
    BY <1>6
  <2> QED
    BY <2>1 DEF Better
<1>9. \A i \in 1 .. Len(o) : Fits(V, reserved, calendar, o[i])' <=> Fits(V, reserved, calendar, o[i])
  BY <1>4
<1>10. \A t \in Int : Fits(V, reserved, calendar, t)' <=> Fits(V, reserved, calendar, t)
  BY <1>4
<1> QED
  BY <1>7, <1>8, <1>9, <1>10, Zenon DEF BestOfFits

LEMMA SameRowsOf ==
    ASSUME case' = case, settings' = settings, NEW CONSTANT S, NEW CONSTANT t
    PROVE  RowsOf(S, t)' <=> RowsOf(S, t)
BY SameSettingsSameRows DEF RowsOf

\* Rebuilds of the same settings have the same buckets.
LEMMA RebuiltAgain ==
    ASSUME P!ValidSettings(settings), NEW t \in Int, NEW u \in Int, Rebuilt(t) # {}
    PROVE  Rebuilt(u) # {}
<1>1. PICK D : D = {b \in Buckets : InSource(Bucket(b))}
  OBVIOUS
<1>2. Rebuilt(t) = {RowOf(b, t) : b \in {b \in Buckets : InSource(Bucket(b))}}
  BY RebuiltRows DEF Rebuilt
<1>3. Rebuilt(u) = {RowOf(b, u) : b \in {b \in Buckets : InSource(Bucket(b))}}
  BY RebuiltRows DEF Rebuilt
<1>4. PICK b \in D : TRUE
  BY <1>1, <1>2
<1>5. RowOf(b, u) \in Rebuilt(u)
  BY <1>1, <1>3, <1>4
<1> QED
  BY <1>5

\* The clock goes on and the rows are rebuilt while the handler waits.
LEMMA ReadRowsStayRead ==
    ASSUME RowsOfOneRebuild, RowsRead, UNCHANGED <<case, settings, now, got>>,
           clock \in Int, clock' \in Int, clock <= clock',
           rows' = rows \/ (settings # None /\ rows' = Rebuilt(clock))
    PROVE  RowsRead'
<1>1. PICK t \in Int, at \in Int, u \in Int : ReadThen(t, at, u)
  BY DEF RowsRead
<1>2. /\ t <= at /\ now <= at /\ at <= clock /\ t <= u /\ u <= clock
      /\ \E S, T : /\ RowsOf(S, t) /\ RowsOf(T, u) /\ (S # {} => T # {})
                   /\ got.rows = {r \in S : r.expires > at /\ Overlap(r, Window)} /\ rows = T
  BY <1>1 DEF ReadThen
<1>3. now \in Int \/ now \notin Int
  OBVIOUS
<1>4. PICK S, T : /\ RowsOf(S, t) /\ RowsOf(T, u) /\ (S # {} => T # {})
                  /\ got.rows = {r \in S : r.expires > at /\ Overlap(r, Window)} /\ rows = T
  BY <1>2
<1>5. Window' = Window /\ case' = case /\ settings' = settings /\ now' = now /\ got' = got
  BY DEF Window
<1>6. got'.rows = {r \in S : r.expires > at /\ Overlap(r, Window')}
  BY <1>4, <1>5
<1>7. RowsOf(S, t)' /\ RowsOf(T, u)'
  BY <1>4, <1>5, SameRowsOf
<1>8. at <= clock' /\ u <= clock'
  BY <1>2
<1>9. CASE rows' = rows
  <2>1. ReadThen(t, at, u)'
    BY <1>2, <1>4, <1>5, <1>6, <1>7, <1>8, <1>9 DEF ReadThen
  <2> QED
    BY <2>1 DEF RowsRead
<1>10. CASE settings # None /\ rows' = Rebuilt(clock)
  <2>1. PICK v \in Int : v = clock
    OBVIOUS
  <2>2. PICK X : X = Rebuilt(v)
    OBVIOUS
  <2>3. RowsOf(X, v)
    BY <1>10, <2>2 DEF RowsOf
  <2>4. RowsOf(X, v)'
    BY <1>5, <2>3, SameRowsOf
  <2>5. S # {} => X # {}
    <3> HAVE S # {}
    <3>1. Rebuilt(t) # {}
      BY <1>4, <1>10 DEF RowsOf
    <3> QED
      BY <1>10, <2>2, <3>1, SettingsAreValid, RebuiltAgain
  <2>6. rows' = X /\ t <= v /\ v <= clock'
    BY <1>2, <1>10, <2>1, <2>2
  <2>7. ReadThen(t, at, v)'
    BY <1>2, <1>5, <1>6, <1>7, <1>8, <2>4, <2>5, <2>6 DEF ReadThen
  <2> QED
    BY <2>7 DEF RowsRead
<1> QED
  BY <1>9, <1>10

LEMMA HandlerWaits ==
    ASSUME RowsOfOneRebuild, HandlerKnows, UNCHANGED <<case, settings, handler>>,
           clock' \in Nat, clock <= clock',
           rows' = rows \/ (settings # None /\ rows' = Rebuilt(clock))
    PROVE  HandlerKnows'
<1>1. case' = case /\ settings' = settings /\ now' = now /\ got' = got /\ offers' = offers /\ pc' = pc
  BY DEF handler
<1>2. now \in Nat /\ clock \in Nat /\ now <= clock
  BY DEF HandlerKnows
<1>3. now' \in Nat /\ now' <= clock'
  BY <1>1, <1>2
<1>4. settings' = None => rows' = case'.rows
  BY <1>1 DEF HandlerKnows
<1>5. RowsRead => RowsRead'
  BY <1>1, <1>2, ReadRowsStayRead
<1>6. CalendarRead => CalendarRead'
  BY <1>1 DEF CalendarRead
<1>7. pc' = "offered" =>
          /\ case'.source.managed => case'.source.observed <= now' /\ now' < case'.source.observed + SourceMaxAge
          /\ BestOfFits(offers, got.rows, got.reserved, got.calendar)'
  <2> HAVE pc' = "offered"
  <2>1. BestOfFits(offers, got.rows, got.reserved, got.calendar)
    BY <1>1 DEF HandlerKnows
  <2>2. ASSUME NEW CONSTANT o, NEW CONSTANT V, NEW CONSTANT reserved, NEW CONSTANT calendar
        PROVE  BestOfFits(o, V, reserved, calendar)' <=> BestOfFits(o, V, reserved, calendar)
    BY <1>1, SameTimeSameFits
  <2>3. BestOfFits(offers, got.rows, got.reserved, got.calendar)'
    BY <1>1, <2>1, <2>2
  <2> QED
    BY <1>1, <2>3 DEF HandlerKnows
<1> QED
  BY <1>1, <1>3, <1>4, <1>5, <1>6, <1>7 DEF HandlerKnows

LEMMA InitHandlerKnows ==
    ASSUME Init
    PROVE  HandlerKnows
<1>1. case \in Cases /\ settings = case.settings /\ rows = case.rows /\ clock = case.clock
  BY DEF Init
<1>2. now = clock /\ got = Nothing /\ offers = <<>> /\ pc = "idle"
  BY DEF Init, InitHandler
<1>3. clock \in Nat
  BY <1>1, CaseIs
<1>4. got = [rows |-> got.rows, reserved |-> got.reserved, calendar |-> got.calendar]
  BY <1>2 DEF Nothing
<1> QED
  BY <1>1, <1>2, <1>3, <1>4 DEF HandlerKnows

LEMMA ReceiveKeeps ==
    ASSUME HandlerKnows, Receive, UNCHANGED settings
    PROVE  HandlerKnows'
BY DEF Receive, HandlerKnows

LEMMA ReadRowsKeeps ==
    ASSUME RowsOfOneRebuild, HandlerKnows, ReadRows, UNCHANGED settings
    PROVE  HandlerKnows'
<1>1. /\ pc = "rows" /\ pc' = "reservations"
      /\ case' = case /\ settings' = settings /\ clock' = clock /\ rows' = rows /\ now' = now /\ offers' = offers
      /\ got' = [got EXCEPT !.rows = {r \in rows : r.expires > clock /\ Overlap(r, Window)}]
  BY DEF ReadRows, Window
<1>2. /\ now \in Nat /\ clock \in Nat /\ now <= clock
      /\ got = [rows |-> got.rows, reserved |-> got.reserved, calendar |-> got.calendar]
      /\ settings = None => rows = case.rows
      /\ offers = <<>>
  BY <1>1 DEF HandlerKnows
<1>3. PICK G : G = {r \in rows : r.expires > clock /\ Overlap(r, Window)}
  OBVIOUS
<1>4. got' = [rows |-> G, reserved |-> got.reserved, calendar |-> got.calendar]
  BY <1>1, <1>2, <1>3
<1>5. got'.rows = G /\ got' = [rows |-> got'.rows, reserved |-> got'.reserved, calendar |-> got'.calendar]
  BY <1>4
<1>6. PICK S : S = rows
  OBVIOUS
<1>7. PICK at \in Int : at = clock
  BY <1>2
<1>8. \E t \in Int : t <= at /\ RowsOf(S, t)
  <2>1. CASE settings = None
    BY <1>2, <1>6, <1>7, <2>1 DEF RowsOf
  <2>2. CASE settings # None
    BY <1>6, <1>7, <2>2 DEF RowsOf, RowsOfOneRebuild
  <2> QED
    BY <2>1, <2>2
<1>9. PICK t \in Int : t <= at /\ RowsOf(S, t)
  BY <1>8
<1>10. RowsOf(S, t)' /\ Window' = Window
  BY <1>1, <1>9, SameRowsOf DEF Window
<1>11. G = {r \in S : r.expires > at /\ Overlap(r, Window')}
  BY <1>3, <1>6, <1>7, <1>10
<1>12. ReadThen(t, at, t)'
  BY <1>1, <1>2, <1>5, <1>6, <1>7, <1>9, <1>10, <1>11 DEF ReadThen
<1>13. RowsRead'
  BY <1>12 DEF RowsRead
<1> QED
  BY <1>1, <1>2, <1>5, <1>13 DEF HandlerKnows

\* What has been read stays read while more of it is.
LEMMA RowsReadStays ==
    ASSUME RowsOfOneRebuild, RowsRead, UNCHANGED <<case, settings, now, clock, rows>>, got'.rows = got.rows
    PROVE  RowsRead'
<1>1. PICK t \in Int, at \in Int, u \in Int : ReadThen(t, at, u)
  BY DEF RowsRead
<1>2. /\ t <= at /\ now <= at /\ at <= clock /\ t <= u /\ u <= clock
      /\ \E S, T : /\ RowsOf(S, t) /\ RowsOf(T, u) /\ (S # {} => T # {})
                   /\ got.rows = {r \in S : r.expires > at /\ Overlap(r, Window)} /\ rows = T
  BY <1>1 DEF ReadThen
<1>3. PICK S, T : /\ RowsOf(S, t) /\ RowsOf(T, u) /\ (S # {} => T # {})
                  /\ got.rows = {r \in S : r.expires > at /\ Overlap(r, Window)} /\ rows = T
  BY <1>2
<1>4. Window' = Window
  BY DEF Window
<1>5. got'.rows = {r \in S : r.expires > at /\ Overlap(r, Window')}
  BY <1>3, <1>4
<1>6. RowsOf(S, t)' /\ RowsOf(T, u)'
  BY <1>3, SameRowsOf
<1>7. ReadThen(t, at, u)'
  BY <1>2, <1>3, <1>5, <1>6 DEF ReadThen
<1> QED
  BY <1>7 DEF RowsRead

LEMMA ReadReservationsKeeps ==
    ASSUME RowsOfOneRebuild, HandlerKnows, ReadReservations, UNCHANGED settings
    PROVE  HandlerKnows'
<1>1. /\ pc = "reservations" /\ pc' = "calendar"
      /\ case' = case /\ settings' = settings /\ clock' = clock /\ rows' = rows /\ now' = now /\ offers' = offers
      /\ got' = [got EXCEPT !.reserved = Merged(case.accepted)]
  BY DEF ReadReservations
<1>2. /\ now \in Nat /\ clock \in Nat /\ now <= clock
      /\ got = [rows |-> got.rows, reserved |-> got.reserved, calendar |-> got.calendar]
      /\ settings = None => rows = case.rows
      /\ offers = <<>> /\ RowsRead
  BY <1>1 DEF HandlerKnows
<1>3. PICK R : R = Merged(case.accepted)
  OBVIOUS
<1>4. got' = [rows |-> got.rows, reserved |-> R, calendar |-> got.calendar]
  BY <1>1, <1>2, <1>3
<1>5. /\ got'.rows = got.rows /\ got'.reserved = R
      /\ got' = [rows |-> got'.rows, reserved |-> got'.reserved, calendar |-> got'.calendar]
  BY <1>4
<1>6. RowsRead'
  BY <1>1, <1>2, <1>5, RowsReadStays
<1>7. got'.reserved = Merged(case.accepted)'
  BY <1>1, <1>3, <1>5 DEF Merged
<1> QED
  BY <1>1, <1>2, <1>5, <1>6, <1>7 DEF HandlerKnows

LEMMA ReadCalendarKeeps ==
    ASSUME RowsOfOneRebuild, HandlerKnows, ReadCalendar, UNCHANGED settings
    PROVE  HandlerKnows'
<1>1. PICK calendar : calendar = NewCandidateAvailability(case.source, case.busy)
  OBVIOUS
<1>2. /\ pc = "calendar" /\ pc' = IF ValidAt(calendar, clock) THEN "plan" ELSE "refused"
      /\ case' = case /\ settings' = settings /\ clock' = clock /\ rows' = rows /\ now' = now /\ offers' = offers
      /\ got' = [got EXCEPT !.calendar = calendar]
  BY <1>1 DEF ReadCalendar
<1>3. /\ now \in Nat /\ clock \in Nat /\ now <= clock
      /\ got = [rows |-> got.rows, reserved |-> got.reserved, calendar |-> got.calendar]
      /\ settings = None => rows = case.rows
      /\ offers = <<>> /\ RowsRead /\ got.reserved = Merged(case.accepted)
  BY <1>2 DEF HandlerKnows
<1>4. got' = [rows |-> got.rows, reserved |-> got.reserved, calendar |-> calendar]
  BY <1>2, <1>3
<1>5. /\ got'.rows = got.rows /\ got'.reserved = got.reserved /\ got'.calendar = calendar
      /\ got' = [rows |-> got'.rows, reserved |-> got'.reserved, calendar |-> got'.calendar]
  BY <1>4
<1>6. RowsRead'
  BY <1>2, <1>3, <1>5, RowsReadStays
<1>7. got'.reserved = Merged(case.accepted)'
  BY <1>2, <1>3, <1>5 DEF Merged
<1>8. pc' = "plan" => CalendarRead'
  <2> HAVE pc' = "plan"
  <2>1. calendar.valid
    BY <1>2 DEF ValidAt
  <2>2. PICK B : B = {i \in case.busy : i.status # "free"}
    OBVIOUS
  <2>3. calendar = IF Cardinality(case.busy) > EvidenceLimit \/ (case.source.managed /\ ~Committed(case.source, clock))
                   THEN Unavailable
                   ELSE [valid |-> TRUE, managed |-> case.source.managed,
                         busy |-> IF case.source.managed THEN Merged(B) ELSE <<>>]
    BY <1>1, <2>2 DEF NewCandidateAvailability
  <2>4. ~(Cardinality(case.busy) > EvidenceLimit \/ (case.source.managed /\ ~Committed(case.source, clock)))
    BY <2>1, <2>3 DEF Unavailable
  <2>5. calendar = [valid |-> TRUE, managed |-> case.source.managed,
                    busy |-> IF case.source.managed THEN Merged(B) ELSE <<>>]
    BY <2>3, <2>4
  <2>6. IsFiniteSet(case.busy)
    BY CaseIs DEF RowsOfOneRebuild, AreRanges
  <2>7. Cardinality(case.busy) <= EvidenceLimit
    BY <2>4, <2>6, FS_CardinalityType, CandidatesAssumption
  <2>8. /\ calendar.managed = case.source.managed
        /\ case.source.managed => case.source.committed /\ calendar.busy = Merged(B)
    BY <2>4, <2>5 DEF Committed
  <2>9. Merged({i \in case.busy : i.status # "free"})' = Merged(B)
    BY <1>2, <2>2 DEF Merged
  <2> QED
    BY <1>2, <1>5, <2>1, <2>7, <2>8, <2>9 DEF CalendarRead
<1> QED
  BY <1>2, <1>3, <1>5, <1>6, <1>7, <1>8 DEF HandlerKnows

LEMMA PlanKeeps ==
    ASSUME RowsOfOneRebuild, HandlerKnows, Plan, UNCHANGED settings
    PROVE  HandlerKnows'
<1>1. /\ pc = "plan"
      /\ case' = case /\ settings' = settings /\ clock' = clock /\ rows' = rows /\ now' = now /\ got' = got
      /\ IF ValidAt(got.calendar, now) /\ ValidAt(got.calendar, clock)
         THEN offers' = GenerateCandidates(got.rows, got.reserved, got.calendar) /\ pc' = "offered"
         ELSE pc' = "refused" /\ offers' = offers
  BY DEF Plan
<1>2. /\ now \in Nat /\ clock \in Nat /\ now <= clock
      /\ got = [rows |-> got.rows, reserved |-> got.reserved, calendar |-> got.calendar]
      /\ settings = None => rows = case.rows
      /\ offers = <<>> /\ RowsRead /\ got.reserved = Merged(case.accepted) /\ CalendarRead
  BY <1>1 DEF HandlerKnows
<1>3. RowsRead'
  BY <1>1, <1>2, RowsReadStays
<1>4. got'.reserved = Merged(case.accepted)' /\ CalendarRead'
  BY <1>1, <1>2 DEF CalendarRead
<1>5. pc' = "offered" =>
          /\ case'.source.managed => case'.source.observed <= now' /\ now' < case'.source.observed + SourceMaxAge
          /\ BestOfFits(offers, got.rows, got.reserved, got.calendar)'
  <2> HAVE pc' = "offered"
  <2>1. ValidAt(got.calendar, now) /\ offers' = GenerateCandidates(got.rows, got.reserved, got.calendar)
    BY <1>1
  <2>2. PICK o, V, reserved, calendar : /\ V = got.rows /\ reserved = got.reserved /\ calendar = got.calendar
                                        /\ o = GenerateCandidates(V, reserved, calendar)
    OBVIOUS
  <2>3. V \in SUBSET Rows /\ AreRanges(V)
    BY <1>2, <2>2, GotRowsAre
  <2>4. BestOfFits(o, V, reserved, calendar)
    BY <2>2, <2>3, AskedIs, OffersAre
  <2>5. BestOfFits(o, V, reserved, calendar)'
    BY <1>1, <2>4, SameTimeSameFits
  <2>6. BestOfFits(offers, got.rows, got.reserved, got.calendar)'
    BY <1>1, <2>1, <2>2, <2>5
  <2> QED
    BY <1>1, <1>2, <2>1, <2>6 DEF ValidAt, CalendarRead
<1> QED
  BY <1>1, <1>2, <1>3, <1>4, <1>5 DEF HandlerKnows

LEMMA NextHandlerKnows ==
    ASSUME RowsOfOneRebuild, HandlerKnows, [Next]_vars
    PROVE  HandlerKnows'
<1>1. CASE Rebuild
  <2>1. UNCHANGED <<case, settings, handler>> /\ clock' = clock /\ settings # None /\ rows' = Rebuilt(clock)
    BY <1>1 DEF Rebuild, P!Rebuild, Rebuilt
  <2>2. clock' \in Nat /\ clock <= clock'
    BY <2>1 DEF HandlerKnows
  <2> QED
    BY <2>1, <2>2, HandlerWaits
<1>2. CASE Tick
  <2>1. clock' \in Nat /\ clock <= clock'
    BY <1>2 DEF Tick, HandlerKnows
  <2> QED
    BY <1>2, <2>1, HandlerWaits DEF Tick
<1>3. CASE UNCHANGED vars
  <2>1. clock' \in Nat /\ clock <= clock'
    BY <1>3 DEF vars, HandlerKnows
  <2> QED
    BY <1>3, <2>1, HandlerWaits DEF vars
<1> QED
  BY <1>1, <1>2, <1>3, ReceiveKeeps, ReadRowsKeeps, ReadReservationsKeeps, ReadCalendarKeeps, PlanKeeps DEF Next

\* The handler works with what it has read: rows of one rebuild, both people's meetings and
\* a calendar that is fresh at its time, and offers the best starts that fit those
\* (createRequest, generateCandidates), whatever the clock and the engine do meanwhile.
THEOREM HandlerIsConsistent == Spec => []PlanningInvariant
<1>1. Init => PlanningInvariant
  BY InitRowsOfOneRebuild, InitHandlerKnows DEF PlanningInvariant
<1>2. PlanningInvariant /\ [Next]_vars => PlanningInvariant'
  BY NextRowsOfOneRebuild, NextHandlerKnows DEF PlanningInvariant
<1> QED
  BY <1>1, <1>2, PTL DEF Spec

-----------------------------------------------------------------------------
(* What fits is what a confirmation would accept.                          *)

\* A row touches a range where it contains an instant of it.
LEMMA TouchIs ==
    ASSUME NEW r, NEW s, r.start \in Int, r.end \in Int, r.start < r.end,
           s.start \in Int, s.end \in Int, s.start < s.end
    PROVE  Overlap(r, s) <=> \E x \in s.start .. s.end - 1 : Includes(r, x)
<1>1. ASSUME Overlap(r, s) PROVE \E x \in s.start .. s.end - 1 : Includes(r, x)
  <2>1. CASE r.start <= s.start
    <3>1. s.start \in s.start .. s.end - 1 /\ Includes(r, s.start)
      BY <1>1, <2>1 DEF Overlap, Includes
    <3> QED
      BY <3>1
  <2>2. CASE s.start < r.start
    <3>1. r.start \in s.start .. s.end - 1 /\ Includes(r, r.start)
      BY <1>1, <2>2 DEF Overlap, Includes
    <3> QED
      BY <3>1
  <2> QED
    BY <2>1, <2>2
<1>2. ASSUME NEW x \in s.start .. s.end - 1, Includes(r, x) PROVE Overlap(r, s)
  BY <1>2 DEF Overlap, Includes
<1> QED
  BY <1>1, <1>2

LEMMA UsableIsCovered ==
    ASSUME Asked, NEW V, AreRanges(V), NEW t \in Int
    PROVE  Covered(V, Meeting(t), now) <=> \A x \in t .. t + case.duration - 1 : UsableAt(V, x)
<1>1. PICK m : m = Meeting(t)
  OBVIOUS
<1>2. m.start = t /\ m.end = t + case.duration /\ m.start \in Int /\ m.end \in Int /\ m.start < m.end
  BY <1>1, MeetingIs
<1>3. Covered(V, m, now) <=>
          /\ \A r \in V : Overlap(r, m) => ~Unusable(r, now)
          /\ \A x \in m.start .. m.end - 1 : \E r \in V : Includes(r, x)
  BY <1>2, CoveredIs
<1>4. \A r \in V : Overlap(r, m) <=> \E x \in m.start .. m.end - 1 : Includes(r, x)
  BY <1>2, TouchIs DEF AreRanges
<1>5. m.start .. m.end - 1 = t .. t + case.duration - 1
  BY <1>2 DEF Asked
<1> QED
  BY <1>1, <1>3, <1>4, <1>5 DEF UsableAt

\* The calendar allows what is not busy, at the handler's time and until the calendar is
\* too old.
LEMMA AllowedIs ==
    ASSUME RowsOfOneRebuild, HandlerKnows, pc = "offered", NEW t \in Int, NEW c \in Int, now <= c,
           case.source.managed => c < case.source.observed + SourceMaxAge
    PROVE  Allowed(got.reserved, got.calendar, t) <=> Unreserved(Meeting(t)) /\ NotBusy(Meeting(t), c)
<1>1. PICK m : m = Meeting(t) /\ m.start \in Int /\ m.end \in Int /\ m.start < m.end
  BY AskedIs, MeetingIs
<1>2. PICK B : B = {i \in case.busy : i.status # "free"}
  OBVIOUS
<1>3. AreRanges(case.accepted) /\ AreRanges(B)
  <2>1. AreRanges(case.accepted) /\ AreRanges(case.busy)
    BY CaseIs DEF RowsOfOneRebuild
  <2>2. IsFiniteSet(B)
    BY <1>2, <2>1, FS_Subset DEF AreRanges
  <2> QED
    BY <1>2, <2>1, <2>2 DEF AreRanges
<1>4. Hit(got.reserved, m) <=> ~Unreserved(m)
  <2>1. Hit(Merged(case.accepted), m) <=> \E s \in case.accepted : Overlap(s, m)
    BY <1>1, <1>3, HitIs
  <2>2. got.reserved = Merged(case.accepted)
    BY DEF HandlerKnows
  <2> QED
    BY <2>1, <2>2 DEF Unreserved
<1>5. CalendarRead /\ (case.source.managed => case.source.observed <= now) /\ now \in Int
  BY DEF HandlerKnows
<1>6. CASE ~case.source.managed
  BY <1>1, <1>4, <1>5, <1>6 DEF Allowed, Allows, NotBusy, CalendarRead
<1>7. CASE case.source.managed
  <2>1. /\ case.source.committed /\ got.calendar.busy = Merged(B) /\ got.calendar.managed
        /\ Cardinality(case.busy) <= EvidenceLimit
    BY <1>2, <1>5, <1>7 DEF CalendarRead
  <2>2. Hit(Merged(B), m) <=> \E s \in B : Overlap(s, m)
    BY <1>1, <1>3, HitIs
  <2>3. case.source.observed \in Int
    BY CaseIs DEF RowsOfOneRebuild
  <2>4. Committed(case.source, c)
    BY <1>5, <1>7, <2>1, <2>3 DEF Committed
  <2>5. Allows(got.calendar, m) <=>
            /\ case.source.from <= m.start /\ m.end <= case.source.to
            /\ \A i \in case.busy : i.status # "free" => ~Overlap(i, m)
    BY <1>2, <2>1, <2>2 DEF Allows
  <2>6. NotBusy(m, c) <=>
            /\ case.source.from <= m.start /\ m.end <= case.source.to
            /\ \A i \in case.busy : i.status # "free" => ~Overlap(i, m)
    BY <1>7, <2>1, <2>4 DEF NotBusy
  <2> QED
    BY <1>1, <1>4, <2>5, <2>6 DEF Allowed
<1> QED
  BY <1>6, <1>7

LEMMA FitsIs ==
    ASSUME RowsOfOneRebuild, HandlerKnows, pc = "offered", NEW t \in Int
    PROVE  Fits(got.rows, got.reserved, got.calendar, t) <=> t % Step = 0 /\ Confirmable(got.rows, Meeting(t), now)
<1>1. now \in Int /\ (case.source.managed => now < case.source.observed + SourceMaxAge) /\ RowsRead /\ Asked
  BY AskedIs DEF HandlerKnows
<1>2. Allowed(got.reserved, got.calendar, t) <=> Unreserved(Meeting(t)) /\ NotBusy(Meeting(t), now)
  <2>1. now <= now
    BY <1>1
  <2> QED
    BY <1>1, <2>1, AllowedIs
<1>3. Covered(got.rows, Meeting(t), now) <=> \A x \in t .. t + case.duration - 1 : UsableAt(got.rows, x)
  BY <1>1, GotRowsAre, UsableIsCovered
<1>4. InTime(Meeting(t), now) <=> now < t /\ t + case.duration <= case.deadline
  BY <1>1, MeetingIs DEF InTime
<1> QED
  BY <1>2, <1>3, <1>4 DEF Fits, Confirmable

-----------------------------------------------------------------------------
(* A meeting that is offered can be confirmed.                             *)

\* Nothing is offered before it is.
LEMMA OfferedFits ==
    ASSUME HandlerKnows, NEW t \in Offered
    PROVE  /\ pc = "offered" /\ t \in Int /\ t % Step = 0
           /\ Fits(got.rows, got.reserved, got.calendar, t)
<1>1. pc = "offered"
  <2> SUFFICES ASSUME pc # "offered" PROVE FALSE
    OBVIOUS
  <2>1. offers = <<>>
    BY DEF HandlerKnows
  <2> QED
    BY <2>1 DEF Offered
<1>2. BestOfFits(offers, got.rows, got.reserved, got.calendar)
  BY <1>1 DEF HandlerKnows
<1>3. PICK i \in 1 .. Len(offers) : offers[i] = t
  BY <1>2 DEF Offered, BestOfFits
<1>4. t \in Int /\ Fits(got.rows, got.reserved, got.calendar, t)
  BY <1>2, <1>3 DEF BestOfFits
<1> QED
  BY <1>1, <1>4 DEF Fits

\* Where rows were given, those that touch a meeting without being read would expire with
\* one that was read.
LEMMA GivenStayUsable ==
    ASSUME RowsOfOneRebuild, HandlerKnows, pc = "offered", settings = None, NEW t \in Int,
           Fits(got.rows, got.reserved, got.calendar, t), ~Expired(Meeting(t), clock), clock < t
    PROVE  Covered(rows, Meeting(t), clock)
<1>1. PICK m : m = Meeting(t)
  OBVIOUS
<1>2. /\ m.start = t /\ m.end = t + case.duration /\ m.start \in Int /\ m.end \in Int /\ m.start < m.end
      /\ Asked /\ now \in Int /\ clock \in Int /\ now <= clock
  BY <1>1, AskedIs, MeetingIs DEF HandlerKnows
<1>3. m.end <= case.deadline /\ case.deadline \in Int
  BY <1>2 DEF Fits, Asked
<1>4. \A x \in m.start .. m.end - 1 : UsableAt(got.rows, x)
  <2>1. m.start .. m.end - 1 = t .. t + case.duration - 1
    BY <1>2 DEF Asked
  <2> QED
    BY <2>1 DEF Fits
<1>5. PICK at \in Int : /\ now <= at /\ at <= clock
                        /\ got.rows = {r \in rows : r.expires > at /\ Overlap(r, Window)}
  BY DEF HandlerKnows, RowsRead, ReadThen, RowsOf
<1>6. GivenRows(rows)
  BY CaseIs DEF RowsOfOneRebuild, HandlerKnows
<1>7. \A r \in rows : /\ r.start \in Int /\ r.end \in Int /\ r.start < r.end
                      /\ r.expires \in Int /\ r.generated \in Int
                      /\ \A s \in rows : Overlap(r, s) => r.expires = s.expires
  BY <1>6 DEF GivenRows, P!Overlap, Overlap
<1>8. AreRanges(rows)
  BY <1>6, <1>7 DEF GivenRows, AreRanges
<1>9. \A x \in m.start .. m.end - 1 : \E r \in rows : Includes(r, x)
  BY <1>4, <1>5 DEF UsableAt
<1>10. ASSUME NEW r \in rows, Overlap(r, m) PROVE ~Unusable(r, clock)
  <2>1. PICK x \in m.start .. m.end - 1 : Includes(r, x)
    BY <1>2, <1>7, <1>10, TouchIs
  <2>2. PICK g \in got.rows : Includes(g, x)
    BY <1>4 DEF UsableAt
  <2>3. g \in rows /\ Overlap(r, g) /\ Overlap(g, m)
    BY <1>2, <1>5, <1>7, <2>1, <2>2 DEF Includes, Overlap
  <2>4. ~(g.expires <= clock)
    BY <1>1, <2>3, <2>2 DEF Expired
  <2>5. r.expires > clock
    BY <1>2, <1>7, <2>3, <2>4
  <2>6. Overlap(r, Window)
    BY <1>2, <1>3, <1>7, <2>1 DEF Includes, Overlap, Window, Fits
  <2>7. r \in got.rows
    BY <1>2, <1>5, <1>7, <2>5, <2>6
  <2>8. ~Unusable(r, now)
    BY <1>4, <2>1, <2>7 DEF UsableAt
  <2> QED
    BY <1>2, <1>7, <2>5, <2>8 DEF Unusable
<1> QED
  BY <1>1, <1>2, <1>8, <1>9, <1>10, CoveredIs

\* A row of a later rebuild says the same as one of an earlier rebuild that still counts,
\* and counts itself.
LEMMA RebuiltSaysTheSame ==
    ASSUME P!ValidSettings(settings), NEW t \in Int, NEW u \in Int, NEW c \in Int, t <= u, u <= c,
           NEW b \in Buckets, c <= b, RowOf(b, t).expires > c
    PROVE  RowOf(b, u).expires > c /\ RowOf(b, u).generated <= c /\ RowOf(b, u).state = RowOf(b, t).state
<1>1. b \in Int
  BY BucketsFillWindow
<1>2. /\ RowOf(b, t).state = BucketRow(b, t).state
      /\ RowOf(b, t).expires <= BucketRow(b, t).expires
      /\ settings.source.managed => RowOf(b, t).expires <= settings.source.observed + SourceMaxAge
  BY RowOfSays
<1>3. /\ RowOf(b, u).state = BucketRow(b, u).state /\ RowOf(b, u).generated = u
      /\ \/ RowOf(b, u).expires = BucketRow(b, u).expires
         \/ settings.source.managed /\ RowOf(b, u).expires = settings.source.observed + SourceMaxAge
  BY RowOfSays
<1>4. /\ RowOf(b, t).expires \in Int /\ BucketRow(b, t).expires \in Int /\ BucketRow(b, u).expires \in Int
      /\ settings.source.observed \in Int /\ SourceMaxAge \in Nat /\ ProjectionTTL \in Nat
  BY <1>1, BucketRowSays, RowOfSays, CandidatesAssumption, PlanningAssumption DEF Rows, P!ValidSettings
<1>5. c < BucketRow(b, t).expires
  BY <1>2, <1>4
<1>6. c < BucketRow(b, u).expires
  <2>1. CASE BucketRow(b, u).expires = u + ProjectionTTL
    <3>1. BucketRow(b, t).expires <= t + ProjectionTTL
      BY <1>1, BucketRowSays
    <3> QED
      BY <1>4, <1>5, <2>1, <3>1
  <2>2. ASSUME NEW o \in Over(b, u), BucketRow(b, u).expires = o.expires
        PROVE  c < BucketRow(b, u).expires
    <3>1. o.end \in Int /\ o.expires \in Int
      BY DEF Over, Active, P!ValidSettings, P!ValidOverride
    <3>2. o \in Over(b, t)
      BY <3>1 DEF Over, Active
    <3>3. BucketRow(b, t).expires <= o.expires
      BY <1>1, <3>2, BucketRowSays
    <3> QED
      BY <1>4, <1>5, <2>2, <3>1, <3>3
  <2>3. \/ BucketRow(b, u).expires = u + ProjectionTTL
        \/ \E o \in Over(b, u) : BucketRow(b, u).expires = o.expires
    BY <1>1, BucketRowSays
  <2> QED
    BY <2>1, <2>2, <2>3
<1>7. RowOf(b, u).expires > c
  BY <1>2, <1>3, <1>4, <1>6
<1>8. P!Meaning(Bucket(b), c) = BucketRow(b, t).state
  <2>1. t <= c
    OBVIOUS
  <2> QED
    BY <1>5, <2>1, RowMeans
<1>9. P!Meaning(Bucket(b), c) = BucketRow(b, u).state
  BY <1>6, RowMeans
<1> QED
  BY <1>2, <1>3, <1>7, <1>8, <1>9

\* The bucket around an instant.
LEMMA BucketAround ==
    ASSUME NEW b \in Int, IsMultiple(b), NEW x \in Int, b <= x, x < b + Step
    PROVE  /\ b = P!FloorBucket(x)
           /\ \A t \in Int : t % Step = 0 /\ t <= x => t <= b
<1>1. /\ P!FloorBucket(x) \in Int /\ IsMultiple(P!FloorBucket(x))
      /\ P!FloorBucket(x) <= x /\ x < P!FloorBucket(x) + Step
  BY FloorAndCeil
<1>2. b < P!FloorBucket(x) => b + Step <= P!FloorBucket(x)
  BY <1>1, BucketsApart
<1>3. P!FloorBucket(x) < b => P!FloorBucket(x) + Step <= b
  BY <1>1, BucketsApart
<1>4. b = P!FloorBucket(x)
  BY <1>1, <1>2, <1>3, StepIsPositive
<1>5. ASSUME NEW t \in Int, t % Step = 0, t <= x PROVE t <= b
  <2>1. IsMultiple(t)
    BY <1>5, MultipleOfStep
  <2>2. b < t => b + Step <= t
    BY <2>1, BucketsApart
  <2> QED
    BY <1>5, <2>2, StepIsPositive
<1> QED
  BY <1>4, <1>5

\* What was read of the rows of one rebuild, and what is published now.
LEMMA ReadOfRebuild ==
    ASSUME RowsOfOneRebuild, HandlerKnows, pc = "offered", settings # None, got.rows # {}
    PROVE  \E t, u \in Int : /\ t <= u /\ u <= clock
                             /\ rows = Rebuilt(u) /\ got.rows \subseteq Rebuilt(t)
<1>1. PICK t \in Int, at \in Int, u \in Int : ReadThen(t, at, u)
  BY DEF HandlerKnows, RowsRead
<1>2. t <= u /\ u <= clock
  BY <1>1 DEF ReadThen
<1>3. PICK S, T : /\ RowsOf(S, t) /\ RowsOf(T, u) /\ (S # {} => T # {})
                  /\ got.rows = {r \in S : r.expires > at /\ Overlap(r, Window)} /\ rows = T
  BY <1>1 DEF ReadThen
<1>4. S # {} /\ T # {}
  BY <1>3
<1>5. S = Rebuilt(t) /\ T = Rebuilt(u)
  BY <1>3, <1>4 DEF RowsOf
<1> QED
  BY <1>2, <1>3, <1>5

LEMMA RebuiltStayUsable ==
    ASSUME RowsOfOneRebuild, HandlerKnows, pc = "offered", settings # None, NEW t \in Int,
           Fits(got.rows, got.reserved, got.calendar, t), ~Expired(Meeting(t), clock), clock < t
    PROVE  Covered(rows, Meeting(t), clock)
<1>1. PICK m : m = Meeting(t)
  OBVIOUS
<1>2. /\ m.start = t /\ m.end = t + case.duration /\ m.start \in Int /\ m.end \in Int /\ m.start < m.end
      /\ Asked /\ now \in Int /\ clock \in Int /\ now <= clock
  BY <1>1, AskedIs, MeetingIs DEF HandlerKnows
<1>3. t % Step = 0
  BY DEF Fits
<1>4. \A x \in m.start .. m.end - 1 : UsableAt(got.rows, x)
  <2>1. m.start .. m.end - 1 = t .. t + case.duration - 1
    BY <1>2 DEF Asked
  <2> QED
    BY <2>1 DEF Fits
<1>5. P!ValidSettings(settings)
  BY SettingsAreValid
<1>6. got.rows # {}
  <2>1. UsableAt(got.rows, m.start)
    BY <1>2, <1>4
  <2> QED
    BY <2>1 DEF UsableAt
<1>7. PICK v \in Int, u \in Int : v <= u /\ u <= clock /\ rows = Rebuilt(u) /\ got.rows \subseteq Rebuilt(v)
  BY <1>6, ReadOfRebuild
<1>8. PICK D : D = {b \in Buckets : InSource(Bucket(b))}
  OBVIOUS
<1>9. D \subseteq Buckets /\ Rebuilt(u) = {RowOf(b, u) : b \in D} /\ Rebuilt(v) = {RowOf(b, v) : b \in D}
  <2>1. Rebuilt(u) = {RowOf(b, u) : b \in {b \in Buckets : InSource(Bucket(b))}}
    BY <1>5, RebuiltRows DEF Rebuilt
  <2>2. Rebuilt(v) = {RowOf(b, v) : b \in {b \in Buckets : InSource(Bucket(b))}}
    BY <1>5, RebuiltRows DEF Rebuilt
  <2> QED
    BY <1>8, <2>1, <2>2
<1>10. \A b \in D : /\ b \in Int /\ IsMultiple(b)
                    /\ RowOf(b, u).start = b /\ RowOf(b, u).end = b + Step
                    /\ RowOf(b, v).start = b /\ RowOf(b, v).end = b + Step
  BY <1>5, <1>9, RowOfSays, BucketsFillWindow
<1>11. \A x \in m.start .. m.end - 1 : \E b \in D : /\ RowOf(b, v) \in got.rows /\ Includes(RowOf(b, v), x)
                                                   /\ ~Unusable(RowOf(b, v), now)
  <2> TAKE x \in m.start .. m.end - 1
  <2>1. PICK g \in got.rows : Includes(g, x) /\ ~Unusable(g, now)
    BY <1>4 DEF UsableAt
  <2> QED
    BY <1>7, <1>9, <2>1
<1>12. \A x \in m.start .. m.end - 1 : \E r \in rows : Includes(r, x)
  <2> TAKE x \in m.start .. m.end - 1
  <2>1. PICK b \in D : Includes(RowOf(b, v), x)
    BY <1>11
  <2>2. RowOf(b, u) \in rows /\ Includes(RowOf(b, u), x)
    BY <1>7, <1>9, <1>10, <2>1 DEF Includes
  <2> QED
    BY <2>2
<1>13. AreRanges(rows)
  BY <1>5, <1>7, RebuiltAreRanges
<1>14. ASSUME NEW r \in rows, Overlap(r, m) PROVE ~Unusable(r, clock)
  <2>1. PICK x \in m.start .. m.end - 1 : Includes(r, x)
    BY <1>2, <1>13, <1>14, TouchIs DEF AreRanges
  <2>2. PICK b \in D : r = RowOf(b, u)
    BY <1>7, <1>9
  <2>3. PICK c \in D : RowOf(c, v) \in got.rows /\ Includes(RowOf(c, v), x) /\ ~Unusable(RowOf(c, v), now)
    BY <1>11, <2>1
  <2>4. b <= x /\ x < b + Step /\ c <= x /\ x < c + Step /\ x \in Int /\ t <= x
    BY <1>2, <1>10, <2>1, <2>2, <2>3 DEF Includes
  <2>5. b = c /\ t <= b
    <3>1. b = P!FloorBucket(x) /\ t <= b
      BY <1>3, <1>10, <2>4, BucketAround
    <3>2. c = P!FloorBucket(x)
      BY <1>10, <2>4, BucketAround
    <3> QED
      BY <3>1, <3>2
  <2>6. Overlap(RowOf(b, v), m)
    BY <1>2, <1>10, <2>1, <2>4, StepIsPositive DEF Overlap
  <2>7. ~(RowOf(b, v).expires <= clock)
    BY <1>1, <2>3, <2>5, <2>6 DEF Expired
  <2>8. RowOf(b, v).expires \in Int /\ RowOf(b, v) \in Rows /\ RowOf(b, u) \in Rows
    BY <1>5, <1>9, RowOfSays DEF Rows
  <2>9. RowOf(b, v).expires > clock /\ clock <= b
    BY <1>2, <1>10, <2>5, <2>7, <2>8
  <2>10. RowOf(b, u).expires > clock /\ RowOf(b, u).generated <= clock /\ RowOf(b, u).state = RowOf(b, v).state
    BY <1>2, <1>5, <1>7, <1>9, <2>9, RebuiltSaysTheSame
  <2>11. ~(RowOf(b, v).state.requestability > 0 \/ RowOf(b, v).state.availability > 1)
    BY <2>3, <2>5 DEF Unusable
  <2>12. RowOf(b, u).expires \in Int /\ RowOf(b, u).generated \in Int
    BY <2>8 DEF Rows
  <2> QED
    BY <1>2, <2>2, <2>10, <2>11, <2>12 DEF Unusable
<1> QED
  BY <1>1, <1>2, <1>12, <1>13, <1>14, CoveredIs

LEMMA OfferedCanBeConfirmed ==
    ASSUME PlanningInvariant
    PROVE  OfferedIsConfirmable
<1> SUFFICES ASSUME NEW t \in Offered, clock < t, ~Expired(Meeting(t), clock)
             PROVE  Confirmable(rows, Meeting(t), clock)
  BY DEF OfferedIsConfirmable
<1>1. RowsOfOneRebuild /\ HandlerKnows
  BY DEF PlanningInvariant
<1>2. pc = "offered" /\ t \in Int /\ Fits(got.rows, got.reserved, got.calendar, t)
  BY <1>1, OfferedFits
<1>3. Asked /\ now <= clock /\ clock \in Int
  BY <1>1, AskedIs DEF HandlerKnows
<1>4. InTime(Meeting(t), clock)
  BY <1>2, <1>3, MeetingIs DEF InTime, Fits
<1>5. Covered(rows, Meeting(t), clock)
  BY <1>1, <1>2, GivenStayUsable, RebuiltStayUsable
<1>6. case.source.managed => clock < case.source.observed + SourceMaxAge
  BY <1>1, <1>3, CaseIs, CandidatesAssumption DEF Expired, RowsOfOneRebuild
<1>7. Unreserved(Meeting(t)) /\ NotBusy(Meeting(t), clock)
  <2>1. Allowed(got.reserved, got.calendar, t)
    BY <1>2 DEF Fits
  <2> QED
    BY <1>1, <1>2, <1>3, <1>6, <2>1, AllowedIs
<1> QED
  BY <1>4, <1>5, <1>7 DEF Confirmable

\* A meeting that is offered can be confirmed until it begins or what was known when it was
\* offered expires, for any rows, calendars and meetings, and however often the rows are
\* rebuilt: the merged ranges, the searches and the sweep let through nothing that the
\* confirmation's loops refuse (generateCandidates, ValidateMeetingAvailability,
\* ValidateBusyIntervals).
THEOREM OffersHold == Spec => []OfferedIsConfirmable
BY HandlerIsConsistent, OfferedCanBeConfirmed, PTL

-----------------------------------------------------------------------------
(* The settings themselves welcome what is offered.                        *)

LEMMA OfferedIsWelcome ==
    ASSUME RowsOfOneRebuild, HandlerKnows, pc = "offered", settings # None, NEW t \in Int,
           Fits(got.rows, got.reserved, got.calendar, t), NEW x \in t .. t + case.duration - 1
    PROVE  LET state == P!Meaning([start |-> P!FloorBucket(x), end |-> P!FloorBucket(x) + Step], now)
           IN  state.requestability = 0 /\ state.availability <= 1
<1>1. Asked /\ now \in Int /\ x \in Int /\ t <= x /\ now < t /\ t % Step = 0 /\ UsableAt(got.rows, x)
  BY AskedIs DEF Fits, Asked
<1>2. P!ValidSettings(settings)
  BY SettingsAreValid
<1>3. PICK g \in got.rows : Includes(g, x) /\ ~Unusable(g, now)
  BY <1>1 DEF UsableAt
<1>4. PICK v \in Int : got.rows \subseteq Rebuilt(v)
  BY <1>3, ReadOfRebuild
<1>5. g \in Rebuilt(v) /\ IsMultiple(g.start) /\ g.end = g.start + Step /\ g.generated = v /\ g \in Rows
  BY <1>2, <1>3, <1>4, RebuiltAreRanges
<1>6. g.start \in Int /\ g.expires \in Int /\ g.state \in P!States
  BY <1>5 DEF Rows
<1>7. v <= now /\ now < g.expires
  BY <1>1, <1>3, <1>5, <1>6 DEF Unusable
<1>8. g.start = P!FloorBucket(x) /\ t <= g.start
  BY <1>1, <1>3, <1>5, <1>6, BucketAround DEF Includes
<1>9. g.state = P!Meaning(g, now)
  BY <1>1, <1>2, <1>5, <1>6, <1>7, <1>8, RowsSayTheSettings
<1>10. P!Meaning([start |-> P!FloorBucket(x), end |-> P!FloorBucket(x) + Step], now) = P!Meaning(g, now)
  <2>1. PICK bucket : bucket = [start |-> P!FloorBucket(x), end |-> P!FloorBucket(x) + Step]
    OBVIOUS
  <2>2. bucket.start = g.start /\ bucket.end = g.end
    BY <1>5, <1>8, <2>1
  <2>3. P!Meaning(bucket, now) = P!Meaning(g, now)
    BY <2>2 DEF P!Meaning, P!Overlap
  <2> QED
    BY <2>1, <2>3
<1>11. g.state.requestability = 0 /\ g.state.availability <= 1
  <2>1. g.state.requestability \in 0 .. 3 /\ g.state.availability \in 0 .. 3
    BY <1>6 DEF P!States, P!Dimensions
  <2> QED
    BY <1>3, <2>1 DEF Unusable
<1> QED
  BY <1>9, <1>10, <1>11

LEMMA OfferedKeepsClear ==
    ASSUME PlanningInvariant
    PROVE  OffersKeepClear
<1>1. RowsOfOneRebuild /\ HandlerKnows
  BY DEF PlanningInvariant
<1> SUFFICES ASSUME pc = "offered", settings # None, NEW t \in Offered
             PROVE  /\ \A b \in {P!FloorBucket(x) : x \in t .. t + case.duration - 1} :
                           LET state == P!Meaning([start |-> b, end |-> b + Step], now)
                           IN  state.requestability = 0 /\ state.availability <= 1
                    /\ \A i \in case.busy : case.source.managed /\ i.status # "free" => ~Overlap(i, Meeting(t))
  BY DEF OffersKeepClear
<1>2. t \in Int /\ Fits(got.rows, got.reserved, got.calendar, t)
  BY <1>1, OfferedFits
<1>3. \A x \in t .. t + case.duration - 1 :
          LET state == P!Meaning([start |-> P!FloorBucket(x), end |-> P!FloorBucket(x) + Step], now)
          IN  state.requestability = 0 /\ state.availability <= 1
  BY <1>1, <1>2, OfferedIsWelcome
<1>4. Confirmable(got.rows, Meeting(t), now)
  BY <1>1, <1>2, FitsIs
<1>5. \A i \in case.busy : case.source.managed /\ i.status # "free" => ~Overlap(i, Meeting(t))
  BY <1>4 DEF Confirmable, NotBusy
<1> QED
  BY <1>3, <1>5

\* Where a meeting is offered the settings themselves welcome requests when it is, whatever
\* the rules, events and overrides, and the requester has nothing there (Rebuilder,
\* generateCandidates, Allows).
THEOREM OffersAreWelcome == Spec => []OffersKeepClear
BY HandlerIsConsistent, OfferedKeepsClear, PTL

-----------------------------------------------------------------------------
(* The best are offered.                                                   *)

\* The score of a start is that of the property, instant by instant.
LEMMA ScoreIsWorth ==
    ASSUME RowsOfOneRebuild, HandlerKnows, pc = "offered", NEW t \in Int,
           Fits(got.rows, got.reserved, got.calendar, t)
    PROVE  Score(t) = Worth(got.rows, t)
<1>1. PICK V : V = got.rows
  OBVIOUS
<1>2. V \in SUBSET Rows /\ AreRanges(V) /\ Asked
  BY <1>1, GotRowsAre, AskedIs DEF HandlerKnows
<1>3. PICK m : m = Meeting(t) /\ m.start = t /\ m.end = t + case.duration
  BY <1>2, MeetingIs
<1>4. t + case.duration \in Int
  BY <1>2 DEF Asked
<1>5. \A x : QualityAt(x) = Worst(V, x)
  BY <1>1 DEF QualityAt, Worst, Includes
<1>6. \A x \in Int : Open(x) <=> UsableAt(V, x)
  <2> TAKE x \in Int
  <2>1. PICK s : s = [start |-> x, end |-> x + 1]
    OBVIOUS
  <2>2. s.start = x /\ s.end = x + 1 /\ s.start < s.end /\ s.start \in Int /\ s.end \in Int
    BY <2>1
  <2>3. Covered(V, s, now) <=> /\ \A r \in V : Overlap(r, s) => ~Unusable(r, now)
                               /\ \A y \in s.start .. s.end - 1 : \E r \in V : Includes(r, y)
    BY <1>2, <2>2, CoveredIs
  <2>4. \A y : y \in s.start .. s.end - 1 <=> y = x
    BY <2>2
  <2>5. \A r \in V : Overlap(r, s) <=> Includes(r, x)
    BY <1>2, <2>2 DEF AreRanges, Overlap, Includes
  <2>6. Open(x) <=> Covered(V, s, now)
    BY <1>1, <2>1 DEF Open
  <2> QED
    BY <2>3, <2>4, <2>5, <2>6 DEF UsableAt
<1>7. UNION {{r.start, r.end} : r \in V} = Points(V)
  BY DEF Points
<1>8. Points(V) \subseteq Int
  BY <1>2 DEF Points, AreRanges
<1>9. Around(m) = StretchAround(V, m)
  <2>1. {s \in Points(V) : s <= m.start /\ \A x \in s .. m.start : Open(x)} =
            {y \in Points(V) : y <= m.start /\ \A x \in y .. m.start : UsableAt(V, x)}
    BY <1>3, <1>6, <1>8
  <2>2. {e \in Points(V) : e >= m.end /\ \A x \in m.start .. e - 1 : Open(x)} =
            {y \in Points(V) : y >= m.end /\ \A x \in m.start .. y - 1 : UsableAt(V, x)}
    BY <1>3, <1>6, <1>8
  <2> QED
    BY <1>1, <1>7, <2>1, <2>2 DEF Around, StretchAround
<1>10. {QualityAt(x) : x \in m.start .. m.end - 1} = {Worst(V, x) : x \in t .. t + case.duration - 1}
  <2>1. m.start .. m.end - 1 = t .. t + case.duration - 1
    BY <1>2, <1>3 DEF Asked
  <2> QED
    BY <1>5, <2>1
<1>11. Score(t) = Min({QualityAt(x) : x \in m.start .. m.end - 1}) + FragmentPenalty(Around(m), m)
  BY <1>3 DEF Score
<1> QED
  BY <1>1, <1>3, <1>9, <1>10, <1>11 DEF Worth

\* The first n of F in the order R are listed by o, and B come before the i-th.
Leads(o, n, F, R, i, B) ==
    /\ n \in Nat /\ i \in 1 .. n /\ B = {x \in F : <<x, o[i]>> \in R}
    /\ \A j \in 1 .. n : o[j] \in F
    /\ \A j, k \in 1 .. n : j < k => <<o[j], o[k]>> \in R
    /\ \A x \in F : <<x, x>> \notin R
    /\ \A x, y \in F : <<x, y>> \in R => <<y, x>> \notin R
    /\ \A x \in F : (\E j \in 1 .. n : o[j] = x) \/ \A j \in 1 .. n : <<o[j], x>> \in R

\* How many of the starts that fit come before the i-th offer.
LEMMA OffersBefore ==
    ASSUME NEW F, NEW o, NEW n, NEW R, NEW i, NEW B, Leads(o, n, F, R, i, B)
    PROVE  Cardinality(B) = i - 1
<1> USE DEF Leads
<1>1. n \in Nat /\ i \in 1 .. n /\ B = {x \in F : <<x, o[i]>> \in R}
  OBVIOUS
<1>2. \A j \in 1 .. n : o[j] \in B <=> j < i
  <2> TAKE j \in 1 .. n
  <2>1. CASE j < i
    BY <1>1, <2>1
  <2>2. CASE j = i
    BY <1>1, <2>2
  <2>3. CASE i < j
    <3>1. <<o[i], o[j]>> \in R
      BY <2>3
    <3> QED
      BY <1>1, <2>3, <3>1
  <2> QED
    BY <2>1, <2>2, <2>3
<1>3. \A x \in B : \E j \in 1 .. i - 1 : o[j] = x
  <2> TAKE x \in B
  <2>1. ~ \A j \in 1 .. n : <<o[j], x>> \in R
    BY <1>1
  <2>2. PICK j \in 1 .. n : o[j] = x
    BY <1>1, <2>1
  <2>3. o[j] \in B
    BY <2>2
  <2>4. j < i
    BY <1>2, <2>3
  <2>5. j \in 1 .. i - 1
    BY <1>1, <2>4
  <2> QED
    BY <2>2, <2>5
<1>4. PICK s : s = [j \in 1 .. i - 1 |-> o[j]]
  OBVIOUS
<1>5. s \in Seq(B) /\ Len(s) = i - 1 /\ DOMAIN s = 1 .. i - 1
  <2>1. i - 1 \in Nat
    BY <1>1
  <2>2. \A j \in 1 .. i - 1 : o[j] \in B
    BY <1>1, <1>2
  <2> QED
    BY <1>4, <2>1, <2>2
<1>6. \A j, k \in 1 .. Len(s) : s[j] = s[k] => j = k
  <2> SUFFICES ASSUME NEW j \in 1 .. i - 1, NEW k \in 1 .. i - 1, o[j] = o[k], j # k PROVE FALSE
    BY <1>4, <1>5
  <2>1. <<o[j], o[k]>> \in R \/ <<o[k], o[j]>> \in R
    BY SMT
  <2> QED
    BY <2>1
<1>7. Cardinality(Range(s)) = i - 1
  BY <1>5, <1>6, CountRange
<1>8. Range(s) = B
  <2>1. \A x \in Range(s) : x \in B
    BY <1>2, <1>4, <1>5 DEF Range
  <2>2. \A x \in B : x \in Range(s)
    BY <1>3, <1>4, <1>5 DEF Range
  <2> QED
    BY <2>1, <2>2
<1> QED
  BY <1>1, <1>7, <1>8

LEMMA BestFitsAreOffered ==
    ASSUME PlanningInvariant
    PROVE  BestAreOffered
<1> DEFINE before(t, u) == Score(t) > Score(u) \/ (Score(t) = Score(u) /\ t < u)
           fit == {t \in 0 .. case.deadline : t % Step = 0 /\ Confirmable(got.rows, Meeting(t), now)}
<1> SUFFICES ASSUME pc = "offered"
             PROVE  /\ Cardinality(Offered) = Min({MaxOffers, Cardinality(fit)})
                    /\ \A i \in DOMAIN offers :
                           /\ offers[i] \in fit
                           /\ Cardinality({t \in fit : before(t, offers[i])}) = i - 1
  BY DEF BestAreOffered
<1>1. RowsOfOneRebuild /\ HandlerKnows
  BY DEF PlanningInvariant
<1>2. PICK V : V = got.rows
  OBVIOUS
<1>3. V \in SUBSET Rows /\ AreRanges(V) /\ Asked /\ now \in Nat
  BY <1>1, <1>2, GotRowsAre, AskedIs DEF HandlerKnows
<1>4. PICK F : F = {t \in Int : Fits(V, got.reserved, got.calendar, t)}
  OBVIOUS
<1>5. \A t \in F : t \in Int /\ now < t /\ t + case.duration <= case.deadline /\ t \in 0 .. case.deadline
  BY <1>3, <1>4 DEF Fits, Asked
<1>6. fit = F
  <2>1. \A t \in Int : Fits(V, got.reserved, got.calendar, t) <=>
                           t % Step = 0 /\ Confirmable(got.rows, Meeting(t), now)
    BY <1>1, <1>2, FitsIs
  <2> QED
    BY <1>4, <1>5, <2>1
<1>7. \A t \in F : Score(t) = Worth(V, t) /\ Score(t) \in Int
  <2> TAKE t \in F
  <2>1. t \in Int /\ Fits(V, got.reserved, got.calendar, t)
    BY <1>4
  <2>2. Score(t) = Worth(V, t)
    BY <1>1, <1>2, <2>1, ScoreIsWorth
  <2>3. Candidate(V, t) \in Ranked
    BY <1>3, <2>1, WorthTyped DEF Fits
  <2> QED
    BY <2>2, <2>3 DEF Candidate, Ranked
<1>8. PICK R : R = {p \in F \X F : before(p[1], p[2])}
  OBVIOUS
<1>9. \A t, u \in F : /\ <<t, u>> \in R <=> before(t, u)
                      /\ Better(Candidate(V, t), Candidate(V, u)) <=> before(t, u)
  BY <1>7, <1>8 DEF Better, Candidate
<1>10. \A t \in F : <<t, t>> \notin R
  BY <1>5, <1>7, <1>9
<1>11. \A t, u \in F : <<t, u>> \in R => <<u, t>> \notin R
  BY <1>5, <1>7, <1>9
<1>12. BestOfFits(offers, V, got.reserved, got.calendar)
  BY <1>1, <1>2 DEF HandlerKnows
<1>13. PICK n \in Nat : n = Len(offers) /\ n <= MaxOffers /\ DOMAIN offers = 1 .. n
  BY <1>12 DEF BestOfFits
<1>14. \A i \in 1 .. n : offers[i] \in F
  BY <1>4, <1>12, <1>13 DEF BestOfFits
<1>15. \A i, j \in 1 .. n : i < j => <<offers[i], offers[j]>> \in R
  <2> TAKE i, j \in 1 .. n
  <2> HAVE i < j
  <2>1. Better(Candidate(V, offers[i]), Candidate(V, offers[j]))
    BY <1>12, <1>13 DEF BestOfFits
  <2> QED
    BY <1>9, <1>14, <2>1
<1>16. \A t \in F : \/ \E i \in 1 .. n : offers[i] = t
                    \/ n = MaxOffers /\ \A i \in 1 .. n : <<offers[i], t>> \in R
  <2> TAKE t \in F
  <2>1. \/ \E i \in 1 .. n : offers[i] = t
        \/ n = MaxOffers /\ \A i \in 1 .. n : Better(Candidate(V, offers[i]), Candidate(V, t))
    BY <1>4, <1>12, <1>13 DEF BestOfFits
  <2> QED
    BY <1>9, <1>14, <2>1
<1> HIDE DEF before, fit
<1>17. ASSUME NEW i \in 1 .. n PROVE Cardinality({t \in fit : before(t, offers[i])}) = i - 1
  <2>1. PICK o : o = [j \in 1 .. n |-> offers[j]]
    OBVIOUS
  <2>2. \A j \in 1 .. n : o[j] = offers[j]
    BY <2>1
  <2>3. \A j \in 1 .. n : o[j] \in F
    BY <1>14, <2>2
  <2>4. \A j, k \in 1 .. n : j < k => <<o[j], o[k]>> \in R
    BY <1>15, <2>2
  <2>5. \A t \in F : (\E j \in 1 .. n : o[j] = t) \/ \A j \in 1 .. n : <<o[j], t>> \in R
    BY <1>16, <2>2
  <2>6. PICK B : B = {t \in F : <<t, o[i]>> \in R}
    OBVIOUS
  <2>7. Leads(o, n, F, R, i, B)
    BY <1>10, <1>11, <2>3, <2>4, <2>5, <2>6 DEF Leads
  <2>8. Cardinality(B) = i - 1
    BY <2>7, OffersBefore
  <2>9. {t \in fit : before(t, offers[i])} = B
    BY <1>6, <1>9, <1>14, <2>2, <2>6
  <2> QED
    BY <2>8, <2>9
<1>18. Cardinality(Offered) = n /\ Offered \subseteq F
  <2>1. PICK o : o = [j \in 1 .. n |-> offers[j]]
    OBVIOUS
  <2>2. o \in Seq(F) /\ Len(o) = n /\ \A j \in 1 .. n : o[j] = offers[j]
    BY <1>14, <2>1
  <2>3. \A i, j \in 1 .. Len(o) : o[i] = o[j] => i = j
    <3> SUFFICES ASSUME NEW i \in 1 .. n, NEW j \in 1 .. n, offers[i] = offers[j], i # j PROVE FALSE
      BY <2>2
    <3>1. <<offers[i], offers[j]>> \in R \/ <<offers[j], offers[i]>> \in R
      BY <1>15, SMT
    <3> QED
      BY <1>10, <1>14, <3>1
  <2>4. Cardinality(Range(o)) = n
    BY <2>2, <2>3, CountRange
  <2>5. Range(o) = {o[j] : j \in 1 .. Len(o)}
    BY <2>2, RangeOf
  <2>6. Range(o) = Offered
    BY <1>13, <2>2, <2>5 DEF Offered
  <2> QED
    BY <1>14, <2>2, <2>4, <2>5, <2>6
<1>19. Cardinality(Offered) = Min({MaxOffers, Cardinality(F)})
  <2>1. F \subseteq 0 .. case.deadline /\ case.deadline \in Int
    BY <1>3, <1>5 DEF Asked
  <2>2. IsFiniteSet(F)
    <3>1. IsFiniteSet(0 .. case.deadline)
      BY <2>1, FS_Interval
    <3> QED
      BY <2>1, <3>1, FS_Subset
  <2>3. Cardinality(F) \in Nat /\ n <= Cardinality(F)
    BY <1>18, <2>2, FS_CardinalityType, FS_Subset
  <2>4. MaxOffers \in Nat
    BY CandidatesAssumption
  <2>5. CASE n = MaxOffers
    BY <1>18, <2>3, <2>4, <2>5, MinOfTwo
  <2>6. CASE n # MaxOffers
    <3>1. \A t \in F : t \in Offered
      BY <1>13, <1>16, <2>6 DEF Offered
    <3>2. F = Offered
      BY <1>18, <3>1
    <3> QED
      BY <1>13, <1>18, <2>3, <2>4, <2>6, <3>2, MinOfTwo
  <2> QED
    BY <2>5, <2>6
<1> QED
  BY <1>6, <1>13, <1>14, <1>17, <1>19

\* The offers are the best of all starts a confirmation would accept, in order, and the
\* answer is asynchronous only when there is none, for rows of any length, quality and
\* overlap (generateCandidates).
THEOREM TheBestAreOffered == Spec => []BestAreOffered
BY HandlerIsConsistent, BestFitsAreOffered, PTL

=============================================================================
