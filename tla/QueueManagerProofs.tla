------------------------- MODULE QueueManagerProofs -------------------------
(***************************************************************************)
(* Proofs about QueueManager, for every set of torrents, every set of      *)
(* priorities, positions and limits, and every value of the bounds.        *)
(***************************************************************************)
EXTENDS QueueManager, TLAPS, SequenceTheorems, FiniteSetTheorems

-----------------------------------------------------------------------------
(***************************************************************************)
(* Lemmas about the slices.                                                *)
(***************************************************************************)

\* A nonempty set of naturals has a least element, which Min picks: the first
\* occurrence that the search loops of the code stop at.
LEMMA MinOfNats ==
    ASSUME NEW S \in SUBSET Nat, S # {}
    PROVE  Min(S) \in S /\ \A y \in S : Min(S) <= y
<1>1. \E x \in S : \A y \in S : ~ (<<y, x>> \in OpToRel(<, Nat))
    BY Zenon, NatLessThanWellFounded, WFMin
<1>2. \A x, y \in Nat : y < x => <<y, x>> \in OpToRel(<, Nat)
    BY DEF OpToRel
<1>3. \E x \in S : \A y \in S : ~ (y < x)
    BY <1>1, <1>2, Zenon
<1>4. \E x \in S : \A y \in S : x <= y
    BY <1>3
<1> QED
    BY Zenon, <1>4 DEF Min

\* A nonempty set of naturals with a bound has a greatest element, which Max
\* picks: the last occurrence, whose position overwrites the others.
LEMMA MaxOfNats ==
    ASSUME NEW n \in Nat, NEW S \in SUBSET (1..n), S # {}
    PROVE  Max(S) \in S /\ \A y \in S : Max(S) >= y
<1> DEFINE T == {n - x : x \in S}
<1>1. T \in SUBSET Nat
    OBVIOUS
<1>2. T # {}
    BY Zenon
<1>3. Min(T) \in T /\ \A y \in T : Min(T) <= y
    BY Zenon, <1>1, <1>2, MinOfNats
<1> PICK x \in S : Min(T) = n - x
    BY Zenon, <1>3
<1>4. \A y \in S : n - x <= n - y
    BY Zenon, <1>3
<1>5. \A y \in S : x >= y
    BY <1>4
<1> QED
    BY Zenon, <1>5 DEF Max

\* LastIndex finds an occurrence when there is one.
LEMMA LastIndexProperties ==
    ASSUME NEW T, NEW ord \in Seq(T), NEW t, Contains(ord, t)
    PROVE  LastIndex(ord, t) \in 1..Len(ord) /\ ord[LastIndex(ord, t)] = t
<1> DEFINE I == {i \in 1..Len(ord) : ord[i] = t}
<1>1. I # {} /\ Len(ord) \in Nat /\ I \in SUBSET (1..Len(ord))
    BY DEF Contains
<1>2. Max(I) \in I
    BY Zenon, <1>1, MaxOfNats
<1>3. LastIndex(ord, t) = Max(I)
    BY <1>1 DEF LastIndex, SelectLastInSeq
<1> QED
    BY <1>2, <1>3

\* FirstIndex finds the first occurrence when there is one.
LEMMA FirstIndexProperties ==
    ASSUME NEW T, NEW ord \in Seq(T), NEW t, Contains(ord, t)
    PROVE  /\ FirstIndex(ord, t) \in 1..Len(ord)
           /\ ord[FirstIndex(ord, t)] = t
           /\ \A j \in 1..Len(ord) : ord[j] = t => FirstIndex(ord, t) <= j
<1> DEFINE I == {i \in 1..Len(ord) : ord[i] = t}
<1>1. I # {} /\ Len(ord) \in Nat /\ I \in SUBSET Nat
    BY DEF Contains
<1>2. Min(I) \in I /\ \A j \in I : Min(I) <= j
    BY Zenon, <1>1, MinOfNats
<1>3. FirstIndex(ord, t) = Min(I)
    BY <1>1 DEF FirstIndex, SelectInSeq
<1> QED
    BY <1>2, <1>3

\* Cutting one element out of a slice, append(s[:i], s[i+1:]...).
LEMMA RemoveAtProperties ==
    ASSUME NEW T, NEW ord \in Seq(T), NEW i \in 1..Len(ord)
    PROVE  /\ RemoveAt(ord, i) \in Seq(T)
           /\ Len(RemoveAt(ord, i)) = Len(ord) - 1
           /\ \A j \in 1..(Len(ord) - 1) :
                RemoveAt(ord, i)[j] = IF j < i THEN ord[j] ELSE ord[j + 1]
<1> DEFINE a == SubSeq(ord, 1, i - 1)
           b == SubSeq(ord, i + 1, Len(ord))
<1>0. Len(ord) \in Nat /\ \A j \in 1..Len(ord) : ord[j] \in T
    OBVIOUS
<1>1. /\ a \in Seq(T) /\ Len(a) = i - 1
      /\ \A j \in 1..(i - 1) : a[j] = ord[j]
    BY <1>0, SubSeqProperties
<1>2. /\ b \in Seq(T) /\ Len(b) = Len(ord) - i
      /\ \A j \in 1..(Len(ord) - i) : b[j] = ord[i + j]
    <2>1. /\ b \in Seq(T)
          /\ Len(b) = IF i + 1 <= Len(ord) THEN Len(ord) - (i + 1) + 1 ELSE 0
          /\ \A j \in 1..(Len(ord) - (i + 1) + 1) : b[j] = ord[(i + 1) + j - 1]
        BY <1>0, SubSeqProperties
    <2> QED
        BY <1>0, <2>1
<1>3. /\ a \o b \in Seq(T) /\ Len(a \o b) = Len(a) + Len(b)
      /\ \A j \in 1..(Len(a) + Len(b)) :
            (a \o b)[j] = IF j <= Len(a) THEN a[j] ELSE b[j - Len(a)]
    BY Zenon, <1>1, <1>2, ConcatProperties
<1>4. RemoveAt(ord, i) = a \o b
    BY DEF RemoveAt
<1> HIDE DEF a, b
<1>5. Len(a) + Len(b) = Len(ord) - 1
    BY <1>0, <1>1, <1>2
<1>6. ASSUME NEW j \in 1..(Len(ord) - 1)
      PROVE  (a \o b)[j] = IF j < i THEN ord[j] ELSE ord[j + 1]
    <2>1. CASE j < i
        <3>1. j \in 1..(i - 1) /\ j <= Len(a) /\ j \in 1..(Len(a) + Len(b))
            BY <2>1, <1>0, <1>1, <1>5
        <3> QED
            BY <2>1, <3>1, <1>1, <1>3
    <2>2. CASE ~(j < i)
        <3>1. /\ j - Len(a) \in 1..(Len(ord) - i) /\ ~(j <= Len(a))
              /\ j \in 1..(Len(a) + Len(b))
              /\ i + (j - Len(a)) = j + 1
            BY <2>2, <1>0, <1>1, <1>5
        <3> QED
            BY <2>2, <3>1, <1>2, <1>3
    <2> QED
        BY Zenon, <2>1, <2>2
<1> QED
    BY <1>0, <1>3, <1>4, <1>5, <1>6

\* Inserting one element, append(s[:n], append([]int64{e}, s[n:]...)...).
LEMMA InsertAtProperties ==
    ASSUME NEW T, NEW ord \in Seq(T), NEW n \in 1..(Len(ord) + 1), NEW e \in T
    PROVE  /\ InsertAt(ord, n, e) \in Seq(T)
           /\ Len(InsertAt(ord, n, e)) = Len(ord) + 1
           /\ \A j \in 1..(Len(ord) + 1) :
                InsertAt(ord, n, e)[j] =
                    IF j < n THEN ord[j] ELSE IF j = n THEN e ELSE ord[j - 1]
<1> DEFINE a == SubSeq(ord, 1, n - 1)
           b == SubSeq(ord, n, Len(ord))
           c == a \o <<e>>
<1>0. Len(ord) \in Nat /\ \A j \in 1..Len(ord) : ord[j] \in T
    OBVIOUS
<1>1. /\ a \in Seq(T) /\ Len(a) = n - 1
      /\ \A j \in 1..(n - 1) : a[j] = ord[j]
    BY <1>0, SubSeqProperties
<1>2. /\ b \in Seq(T) /\ Len(b) = Len(ord) - n + 1
      /\ \A j \in 1..(Len(ord) - n + 1) : b[j] = ord[n + j - 1]
    BY <1>0, SubSeqProperties
<1>3. <<e>> \in Seq(T) /\ Len(<<e>>) = 1 /\ <<e>>[1] = e
    OBVIOUS
<1> HIDE DEF a, b
<1>4. /\ c \in Seq(T) /\ Len(c) = n
      /\ \A j \in 1..n : c[j] = IF j < n THEN ord[j] ELSE e
    <2>1. /\ c \in Seq(T) /\ Len(c) = Len(a) + 1
          /\ \A j \in 1..(Len(a) + 1) :
                c[j] = IF j <= Len(a) THEN a[j] ELSE <<e>>[j - Len(a)]
        BY <1>1, <1>3, ConcatProperties
    <2> HIDE DEF c
    <2>2. ASSUME NEW j \in 1..n PROVE c[j] = IF j < n THEN ord[j] ELSE e
        <3>1. CASE j < n
            BY <3>1, <2>1, <1>1
        <3>2. CASE j = n
            <4>1. j - Len(a) = 1
                BY <3>2, <1>1
            <4> QED
                BY <3>2, <4>1, <2>1, <1>1, <1>3
        <3>3. j < n \/ j = n
            BY <1>0
        <3> QED
            BY <3>1, <3>2, <3>3
    <2> QED
        BY <2>1, <2>2, <1>1
<1> HIDE DEF c
<1>5. /\ c \o b \in Seq(T) /\ Len(c \o b) = Len(ord) + 1
      /\ \A j \in 1..(Len(ord) + 1) :
            (c \o b)[j] = IF j <= n THEN c[j] ELSE b[j - n]
    <2>1. /\ c \o b \in Seq(T) /\ Len(c \o b) = Len(c) + Len(b)
          /\ \A j \in 1..(Len(c) + Len(b)) :
                (c \o b)[j] = IF j <= Len(c) THEN c[j] ELSE b[j - Len(c)]
        BY <1>2, <1>4, ConcatProperties
    <2>2. Len(c) + Len(b) = Len(ord) + 1
        BY <1>0, <1>2, <1>4
    <2> QED
        BY <2>1, <2>2, <1>4
<1>6. InsertAt(ord, n, e) = c \o b
    BY DEF InsertAt, a, b, c
<1>7. ASSUME NEW j \in 1..(Len(ord) + 1)
      PROVE  (c \o b)[j] =
                IF j < n THEN ord[j] ELSE IF j = n THEN e ELSE ord[j - 1]
    <2>1. CASE j <= n
        BY <2>1, <1>4, <1>5
    <2>2. CASE ~(j <= n)
        <3>1. j - n \in 1..(Len(ord) - n + 1) /\ n + (j - n) - 1 = j - 1
            BY <2>2, <1>0
        <3> QED
            BY <2>2, <3>1, <1>2, <1>5
    <2> QED
        BY Zenon, <2>1, <2>2
<1> QED
    BY <1>5, <1>6, <1>7

\* RemoveFirst cuts at the first occurrence.
LEMMA RemoveFirstIsRemoveAt ==
    ASSUME NEW T, NEW ord \in Seq(T), NEW t, Contains(ord, t)
    PROVE  RemoveFirst(ord, t) = RemoveAt(ord, FirstIndex(ord, t))
BY DEF RemoveFirst, FirstIndex, Contains, SelectInSeq

\* Removing a torrent's first occurrence: the others stay, and a slice without
\* duplicates loses exactly that torrent.
LEMMA RemoveFirstProperties ==
    ASSUME NEW T, NEW ord \in Seq(T), NEW t, Contains(ord, t)
    PROVE  /\ RemoveFirst(ord, t) \in Seq(T)
           /\ Len(RemoveFirst(ord, t)) = Len(ord) - 1
           /\ \A u : u # t /\ Contains(ord, u) => Contains(RemoveFirst(ord, t), u)
           /\ IsInjective(ord) =>
                /\ IsInjective(RemoveFirst(ord, t))
                /\ Range(RemoveFirst(ord, t)) = Range(ord) \ {t}
<1> DEFINE f == FirstIndex(ord, t)
           r == RemoveFirst(ord, t)
<1>0. Len(ord) \in Nat /\ DOMAIN ord = 1..Len(ord)
    OBVIOUS
<1>1. f \in 1..Len(ord) /\ ord[f] = t
    BY FirstIndexProperties
<1>2. /\ r \in Seq(T) /\ Len(r) = Len(ord) - 1
      /\ \A j \in 1..(Len(ord) - 1) : r[j] = IF j < f THEN ord[j] ELSE ord[j + 1]
    <2>1. r = RemoveAt(ord, f)
        BY RemoveFirstIsRemoveAt
    <2> HIDE DEF f, r
    <2> QED
        BY Zenon, <1>1, <2>1, RemoveAtProperties
<1>3. DOMAIN r = 1..(Len(ord) - 1)
    BY <1>2
<1> HIDE DEF f, r
<1>4. ASSUME NEW i \in 1..Len(ord), i # f
      PROVE  \E j \in 1..(Len(ord) - 1) : r[j] = ord[i]
    <2>1. CASE i < f
        BY <2>1, <1>0, <1>1, <1>2
    <2>2. CASE i > f
        <3>1. i - 1 \in 1..(Len(ord) - 1) /\ ~(i - 1 < f) /\ (i - 1) + 1 = i
            BY <2>2, <1>0, <1>1
        <3> QED
            BY <3>1, <1>2
    <2> QED
        BY <1>4, <1>1, <1>0, <2>1, <2>2
<1>5. \A u : u # t /\ Contains(ord, u) => Contains(r, u)
    BY Zenon, <1>1, <1>2, <1>4 DEF Contains
<1>6. ASSUME IsInjective(ord)
      PROVE  IsInjective(r) /\ Range(r) = Range(ord) \ {t}
    <2>1. ASSUME NEW i \in DOMAIN r, NEW j \in DOMAIN r, r[i] = r[j]
          PROVE  i = j
        <3> DEFINE g(k) == IF k < f THEN k ELSE k + 1
        <3>1. \A k \in DOMAIN r : g(k) \in DOMAIN ord /\ r[k] = ord[g(k)]
            BY <1>0, <1>1, <1>2, <1>3
        <3>2. g(i) = g(j)
            BY <2>1, <3>1, <1>6 DEF IsInjective
        <3> QED
            BY <3>2, <1>0, <1>1, <1>3
    <2>2. ASSUME NEW i \in DOMAIN r PROVE r[i] \in Range(ord) \ {t}
        BY <1>0, <1>1, <1>2, <1>3, <1>6 DEF IsInjective, Range
    <2>3. ASSUME NEW i \in DOMAIN ord, ord[i] # t PROVE ord[i] \in Range(r)
        BY Zenon, <2>3, <1>0, <1>1, <1>3, <1>4 DEF Range
    <2>4. IsInjective(r)
        BY <2>1 DEF IsInjective
    <2>5. Range(r) = Range(ord) \ {t}
        BY <2>2, <2>3 DEF Range
    <2> QED
        BY <2>4, <2>5
<1> QED
    BY <1>2, <1>5, <1>6 DEF r

\* Moving a torrent within a slice, as moveInDownloadQueue does, rearranges the
\* slice: nothing is lost and nothing is duplicated.
LEMMA MoveProperties ==
    ASSUME NEW T, NEW ord \in Seq(T), NEW cur \in 1..Len(ord), NEW n \in 1..Len(ord)
    PROVE  LET moved == InsertAt(RemoveAt(ord, cur), n, ord[cur])
           IN  /\ moved \in Seq(T)
               /\ Range(moved) = Range(ord)
               /\ IsInjective(ord) => IsInjective(moved)
<1> DEFINE r == RemoveAt(ord, cur)
           moved == InsertAt(r, n, ord[cur])
           \* the index in ord of the element at index j of moved
           g(j) == IF j = n THEN cur
                   ELSE IF j < n THEN (IF j < cur THEN j ELSE j + 1)
                   ELSE (IF j - 1 < cur THEN j - 1 ELSE j)
<1>0. Len(ord) \in Nat /\ DOMAIN ord = 1..Len(ord) /\ ord[cur] \in T
    OBVIOUS
<1>1. /\ r \in Seq(T) /\ Len(r) = Len(ord) - 1
      /\ \A j \in 1..(Len(ord) - 1) : r[j] = IF j < cur THEN ord[j] ELSE ord[j + 1]
    BY Zenon, RemoveAtProperties
<1> HIDE DEF r
<1>2. n \in 1..(Len(r) + 1) /\ Len(r) + 1 = Len(ord)
    BY <1>0, <1>1
<1>3. /\ moved \in Seq(T) /\ Len(moved) = Len(ord)
      /\ \A j \in 1..Len(ord) :
            moved[j] = IF j < n THEN r[j] ELSE IF j = n THEN ord[cur] ELSE r[j - 1]
    <2>0. r \in Seq(T) /\ n \in 1..(Len(r) + 1) /\ ord[cur] \in T
        BY Zenon, <1>0, <1>1, <1>2
    <2>1. /\ moved \in Seq(T)
          /\ Len(moved) = Len(r) + 1
          /\ \A j \in 1..(Len(r) + 1) :
                moved[j] = IF j < n THEN r[j] ELSE IF j = n THEN ord[cur] ELSE r[j - 1]
        BY <2>0, InsertAtProperties, SMTT(30)
    <2> QED
        BY Zenon, <2>1, <1>2
<1> HIDE DEF moved
<1>4. DOMAIN moved = DOMAIN ord
    BY <1>0, <1>3
<1>5. ASSUME NEW j \in DOMAIN ord
      PROVE  g(j) \in DOMAIN ord /\ moved[j] = ord[g(j)]
    <2>1. CASE j = n
        BY <2>1, <1>0, <1>3
    <2>2. CASE j < n
        <3>1. j \in 1..(Len(ord) - 1)
            BY <2>2, <1>0
        <3>2. moved[j] = r[j]
            BY <2>2, <1>0, <1>3
        <3> QED
            BY <2>2, <3>1, <3>2, <1>0, <1>1
    <2>3. CASE j > n
        <3>1. j - 1 \in 1..(Len(ord) - 1) /\ (j - 1) + 1 = j
            BY <2>3, <1>0
        <3>2. moved[j] = r[j - 1]
            BY <2>3, <1>0, <1>3
        <3> QED
            BY <2>3, <3>1, <3>2, <1>0, <1>1
    <2> QED
        BY <2>1, <2>2, <2>3, <1>0
<1>6. \A i, j \in DOMAIN ord : g(i) = g(j) => i = j
    BY <1>0
<1>7. \A i \in DOMAIN ord : \E j \in DOMAIN ord : g(j) = i
    <2> TAKE i \in DOMAIN ord
    <2> DEFINE k == IF i < cur THEN i ELSE i - 1  \* its index in r
    <2>1. CASE i = cur
        BY <2>1
    <2>2. CASE i # cur /\ k < n
        <3>1. k \in DOMAIN ord /\ g(k) = i
            BY <2>2, <1>0
        <3> QED
            BY <3>1
    <2>3. CASE i # cur /\ k >= n
        <3>1. k + 1 \in DOMAIN ord /\ g(k + 1) = i
            BY <2>3, <1>0
        <3> QED
            BY <3>1
    <2> QED
        BY <2>1, <2>2, <2>3, <1>0
<1> HIDE DEF g
<1>8. Range(moved) = Range(ord)
    BY <1>4, <1>5, <1>7 DEF Range
<1>9. IsInjective(ord) => IsInjective(moved)
    BY <1>4, <1>5, <1>6 DEF IsInjective
<1> QED
    BY <1>3, <1>8, <1>9 DEF moved, r

\* Any outcome of sort.Slice is a rearrangement of the slice.
LEMMA SortingsProperties ==
    ASSUME NEW T, NEW ord \in Seq(T), NEW items, NEW s \in Sortings(items, ord)
    PROVE  /\ s \in Seq(T)
           /\ Range(s) = Range(ord)
           /\ IsInjective(ord) => IsInjective(s)
<1>0. Len(ord) \in Nat /\ DOMAIN ord = 1..Len(ord)
    OBVIOUS
<1>1. PICK p \in Bijection(DOMAIN ord, DOMAIN ord) : s = [i \in DOMAIN ord |-> ord[p[i]]]
    BY DEF Sortings
<1>2. /\ p \in [DOMAIN ord -> DOMAIN ord]
      /\ \A i, j \in DOMAIN ord : p[i] = p[j] => i = j
      /\ \A i \in DOMAIN ord : \E j \in DOMAIN ord : p[j] = i
    BY DEF Bijection, Injection, Surjection, IsInjective
<1>3. /\ DOMAIN s = DOMAIN ord
      /\ \A i \in DOMAIN ord : p[i] \in DOMAIN ord /\ s[i] = ord[p[i]]
    BY <1>1, <1>2
<1>4. s \in Seq(T) /\ Len(s) = Len(ord)
    <2>1. s \in [1..Len(ord) -> T]
        BY <1>0, <1>1, <1>2, <1>3
    <2> QED
        BY <2>1, <1>0, SeqDef
<1>5. Range(s) = Range(ord)
    BY <1>2, <1>3 DEF Range
<1>6. IsInjective(ord) => IsInjective(s)
    BY <1>2, <1>3 DEF IsInjective
<1> QED
    BY <1>4, <1>5, <1>6

\* A slice contains what is in its range.
LEMMA ContainsIsRange ==
    ASSUME NEW T, NEW ord \in Seq(T), NEW t
    PROVE  Contains(ord, t) <=> t \in Range(ord)
BY DEF Contains, Range

\* Refreshing the positions keeps the torrents and makes every position true
\* that belongs to a torrent of the slice.
LEMMA UpdatePositionsProperties ==
    ASSUME NEW items, ItemMap(items), NEW ord \in Seq(Torrents)
    PROVE  /\ ItemMap(UpdatePositions(items, ord))
           /\ DOMAIN UpdatePositions(items, ord) = DOMAIN items
           /\ DOMAIN items \subseteq Range(ord) =>
                Truthful(UpdatePositions(items, ord), ord)
<1> DEFINE up == UpdatePositions(items, ord)
<1>0. Len(ord) \in Nat /\ DOMAIN ord = 1..Len(ord)
    OBVIOUS
<1>1. DOMAIN up = DOMAIN items
    BY DEF UpdatePositions
<1>2. ASSUME NEW t \in DOMAIN items, Contains(ord, t)
      PROVE  /\ up[t] \in Item
             /\ up[t].position + 1 \in DOMAIN ord
             /\ ord[up[t].position + 1] = t
    <2>1. LastIndex(ord, t) \in 1..Len(ord) /\ ord[LastIndex(ord, t)] = t
        BY <1>2, LastIndexProperties
    <2>2. up[t] = [items[t] EXCEPT !.position = LastIndex(ord, t) - 1]
        BY <1>2 DEF UpdatePositions
    <2>3. items[t] \in Item
        BY DEF ItemMap
    <2>4. up[t] \in Item /\ up[t].position = LastIndex(ord, t) - 1
        BY <1>0, <2>1, <2>2, <2>3 DEF Item
    <2>5. up[t].position + 1 = LastIndex(ord, t)
        BY <1>0, <2>1, <2>4
    <2> QED
        BY <1>0, <2>1, <2>4, <2>5
<1>3. ASSUME NEW t \in DOMAIN items PROVE up[t] \in Item
    <2>1. CASE ~Contains(ord, t)
        BY <2>1 DEF UpdatePositions, ItemMap
    <2> QED
        BY <1>2, <2>1
<1>4. ItemMap(up)
    <2>1. up \in [DOMAIN items -> Item]
        BY <1>3 DEF UpdatePositions
    <2> QED
        BY <1>1, <2>1 DEF ItemMap
<1>5. DOMAIN items \subseteq Range(ord) => Truthful(up, ord)
    BY <1>1, <1>2, ContainsIsRange DEF Truthful
<1> QED
    BY <1>1, <1>4, <1>5

\* A truthful map only names torrents of the slice.
LEMMA TruthfulInRange ==
    ASSUME NEW items, NEW ord, Truthful(items, ord)
    PROVE  DOMAIN items \subseteq Range(ord)
BY DEF Truthful, Range

\* removeFromDownloadQueueUnsafe and removeFromSeedQueueUnsafe.
LEMMA RemoveProperties ==
    ASSUME NEW items, ItemMap(items), NEW ord \in Seq(Torrents), NEW t
    PROVE  /\ ItemMap(RemoveItems(items, ord, t))
           /\ RemoveOrder(items, ord, t) \in Seq(Torrents)
           /\ DOMAIN RemoveItems(items, ord, t) = DOMAIN items \ {t}
           /\ Truthful(items, ord) =>
                Truthful(RemoveItems(items, ord, t), RemoveOrder(items, ord, t))
           /\ Matching(items, ord) =>
                Matching(RemoveItems(items, ord, t), RemoveOrder(items, ord, t))
<1>1. CASE t \notin DOMAIN items
    BY Zenon, <1>1 DEF RemoveItems, RemoveOrder
<1>2. CASE t \in DOMAIN items
    <2> DEFINE w == Without(items, t)
               r == RemoveFirst(ord, t)
    <2>1. ItemMap(w) /\ DOMAIN w = DOMAIN items \ {t}
        BY DEF Without, Restrict, ItemMap
    <2>2. RemoveItems(items, ord, t) = UpdatePositions(w, r)
          /\ RemoveOrder(items, ord, t) = r
        BY <1>2 DEF RemoveItems, RemoveOrder
    <2>3. r \in Seq(Torrents)
        <3>1. CASE Contains(ord, t)
            BY <3>1, RemoveFirstProperties
        <3>2. CASE ~Contains(ord, t)
            BY <3>2 DEF Contains, RemoveFirst
        <3> QED
            BY <3>1, <3>2
    <2>4. /\ ItemMap(UpdatePositions(w, r))
          /\ DOMAIN UpdatePositions(w, r) = DOMAIN w
          /\ DOMAIN w \subseteq Range(r) => Truthful(UpdatePositions(w, r), r)
        BY <2>1, <2>3, UpdatePositionsProperties
    <2>5. ASSUME Truthful(items, ord) PROVE Truthful(UpdatePositions(w, r), r)
        <3>1. \A u \in DOMAIN items : Contains(ord, u)
            BY <2>5, TruthfulInRange, ContainsIsRange
        <3>2. \A u \in DOMAIN w : Contains(r, u)
            BY <1>2, <2>1, <3>1, RemoveFirstProperties
        <3>3. DOMAIN w \subseteq Range(r)
            BY <3>2, <2>3, ContainsIsRange
        <3> QED
            BY <3>3, <2>4
    <2>6. ASSUME Matching(items, ord) PROVE Matching(UpdatePositions(w, r), r)
        <3>1. Contains(ord, t)
            BY <1>2, <2>6, ContainsIsRange DEF Matching
        <3>2. IsInjective(r) /\ Range(r) = Range(ord) \ {t}
            BY <2>6, <3>1, RemoveFirstProperties DEF Matching
        <3> QED
            BY <2>1, <2>4, <2>6, <3>2 DEF Matching
    <2> HIDE DEF w, r
    <2> QED
        BY <2>1, <2>2, <2>3, <2>4, <2>5, <2>6
<1> QED
    BY <1>1, <1>2

-----------------------------------------------------------------------------
(***************************************************************************)
(* What the steps do to the maps and the slices.                           *)
(***************************************************************************)

\* The maps and slices after a step are well formed, and what held between
\* them before the step holds after it.
StepKeepsQueues ==
    /\ DOMAIN queue' = QueueType
    /\ \A k \in QueueType : ItemMap(queue'[k])
    /\ order' \in [QueueType -> Seq(Torrents)]
    /\ \A k \in QueueType :
        Truthful(queue[k], order[k]) => Truthful(queue'[k], order'[k])

\* The slices still match the maps after a step.
StepKeepsMatching ==
    \A k \in QueueType :
        Matching(queue[k], order[k]) => Matching(queue'[k], order'[k])

\* Taking a torrent out of both queues, as RemoveFromQueue and ForceActivate do.
LEMMA RemoveFromBothStep ==
    ASSUME TypeOK, NEW t \in Torrents, RemoveFromBoth(t)
    PROVE  /\ StepKeepsQueues
           /\ StepKeepsMatching
           /\ \A k \in QueueType : DOMAIN queue'[k] = Queued(k) \ {t}
<1>1. ASSUME NEW k \in QueueType
      PROVE  /\ ItemMap(queue'[k]) /\ order'[k] \in Seq(Torrents)
             /\ DOMAIN queue'[k] = DOMAIN queue[k] \ {t}
             /\ Truthful(queue[k], order[k]) => Truthful(queue'[k], order'[k])
             /\ Matching(queue[k], order[k]) => Matching(queue'[k], order'[k])
    <2>1. ItemMap(queue[k]) /\ order[k] \in Seq(Torrents)
        BY DEF TypeOK
    <2>2. /\ queue'[k] = RemoveItems(queue[k], order[k], t)
          /\ order'[k] = RemoveOrder(queue[k], order[k], t)
        BY DEF RemoveFromBoth
    <2>3. /\ ItemMap(RemoveItems(queue[k], order[k], t))
          /\ RemoveOrder(queue[k], order[k], t) \in Seq(Torrents)
          /\ DOMAIN RemoveItems(queue[k], order[k], t) = DOMAIN queue[k] \ {t}
          /\ Truthful(queue[k], order[k]) =>
                Truthful(RemoveItems(queue[k], order[k], t),
                         RemoveOrder(queue[k], order[k], t))
          /\ Matching(queue[k], order[k]) =>
                Matching(RemoveItems(queue[k], order[k], t),
                         RemoveOrder(queue[k], order[k], t))
        BY <2>1, RemoveProperties, Zenon
    <2> QED
        BY <2>2, <2>3, Zenon
<1>2. DOMAIN queue' = QueueType
    BY DEF RemoveFromBoth
<1>3. order' \in [QueueType -> Seq(Torrents)]
    BY Zenon, <1>1 DEF RemoveFromBoth
<1> QED
    BY <1>1, <1>2, <1>3, Zenon DEF StepKeepsQueues, StepKeepsMatching, Queued

\* One iteration of processDownloadQueue or processSeedQueue.
LEMMA ProcessActivateStep ==
    ASSUME TypeOK, NEW q \in QueueType, ProcessActivate(q)
    PROVE  /\ Head(order[q]) \in Torrents
           /\ StepKeepsQueues
           /\ StepKeepsMatching
           /\ \A k \in QueueType : DOMAIN queue'[k] \subseteq Queued(k)
<1> DEFINE t == Head(order[q])
<1>1. ItemMap(queue[q]) /\ order[q] \in Seq(Torrents)
    BY DEF TypeOK
<1>2. t \in Torrents
    BY <1>1 DEF ProcessActivate, LoopContinues
<1>3. /\ queue' = [queue EXCEPT ![q] = RemoveItems(queue[q], order[q], t)]
      /\ order' = [order EXCEPT ![q] = RemoveOrder(queue[q], order[q], t)]
    BY DEF ProcessActivate
<1> HIDE DEF t
<1>4. /\ ItemMap(RemoveItems(queue[q], order[q], t))
      /\ RemoveOrder(queue[q], order[q], t) \in Seq(Torrents)
      /\ DOMAIN RemoveItems(queue[q], order[q], t) = DOMAIN queue[q] \ {t}
      /\ Truthful(queue[q], order[q]) =>
            Truthful(RemoveItems(queue[q], order[q], t), RemoveOrder(queue[q], order[q], t))
      /\ Matching(queue[q], order[q]) =>
            Matching(RemoveItems(queue[q], order[q], t), RemoveOrder(queue[q], order[q], t))
    BY <1>1, RemoveProperties, Zenon
<1>5. DOMAIN queue' = QueueType /\ order' \in [QueueType -> Seq(Torrents)]
    BY <1>3, <1>4 DEF TypeOK
<1>6. ASSUME NEW k \in QueueType
      PROVE  /\ ItemMap(queue'[k])
             /\ DOMAIN queue'[k] \subseteq DOMAIN queue[k]
             /\ Truthful(queue[k], order[k]) => Truthful(queue'[k], order'[k])
             /\ Matching(queue[k], order[k]) => Matching(queue'[k], order'[k])
    <2>1. CASE k = q
        <3>1. /\ queue'[k] = RemoveItems(queue[q], order[q], t)
              /\ order'[k] = RemoveOrder(queue[q], order[q], t)
            BY <2>1, <1>3 DEF TypeOK
        <3> QED
            BY <3>1, <2>1, <1>4, Zenon
    <2>2. CASE k # q
        <3>1. queue'[k] = queue[k] /\ order'[k] = order[k] /\ ItemMap(queue[k])
            BY <2>2, <1>3 DEF TypeOK
        <3> QED
            BY <3>1, Zenon
    <2> QED
        BY <2>1, <2>2, Zenon
<1> QED
    BY <1>2, <1>5, <1>6, Zenon DEF StepKeepsQueues, StepKeepsMatching, Queued, t

\* A manual move (moveInDownloadQueue, moveInSeedQueue).
LEMMA MoveInQueueStep ==
    ASSUME TypeOK, NEW q \in QueueType, NEW t \in Torrents, NEW n \in Int,
           MoveInQueue(t, q, n)
    PROVE  /\ StepKeepsQueues
           /\ StepKeepsMatching
           /\ \A k \in QueueType : DOMAIN queue'[k] = Queued(k)
<1> DEFINE cur == FirstIndex(order[q], t)
           new == Clamp(n, Len(order[q])) + 1
           ord == InsertAt(RemoveAt(order[q], cur), new, t)
<1>1. \A k \in QueueType : ItemMap(queue[k]) /\ order[k] \in Seq(Torrents)
    BY DEF TypeOK
<1>2. Contains(order[q], t)
    BY DEF MoveInQueue, FirstIndex, SelectInSeq, Contains
<1>3. cur \in 1..Len(order[q]) /\ order[q][cur] = t /\ Len(order[q]) \in Nat
    BY <1>1, <1>2, FirstIndexProperties
<1>4. new \in 1..Len(order[q])
    BY <1>3 DEF Clamp
<1>5. /\ order' = [order EXCEPT ![q] = ord]
      /\ queue' = [queue EXCEPT ![q] = UpdatePositions(queue[q], ord)]
    BY DEF MoveInQueue
<1> HIDE DEF cur, new
<1>6. /\ ord \in Seq(Torrents) /\ Range(ord) = Range(order[q])
      /\ IsInjective(order[q]) => IsInjective(ord)
    BY <1>1, <1>3, <1>4, MoveProperties
<1> HIDE DEF ord
<1>7. /\ ItemMap(UpdatePositions(queue[q], ord))
      /\ DOMAIN UpdatePositions(queue[q], ord) = DOMAIN queue[q]
      /\ DOMAIN queue[q] \subseteq Range(ord) =>
            Truthful(UpdatePositions(queue[q], ord), ord)
    BY <1>1, <1>6, UpdatePositionsProperties
<1>8. DOMAIN queue' = QueueType /\ order' \in [QueueType -> Seq(Torrents)]
    BY <1>5, <1>6 DEF TypeOK
<1>9. ASSUME NEW k \in QueueType
      PROVE  /\ ItemMap(queue'[k])
             /\ DOMAIN queue'[k] = DOMAIN queue[k]
             /\ Truthful(queue[k], order[k]) => Truthful(queue'[k], order'[k])
             /\ Matching(queue[k], order[k]) => Matching(queue'[k], order'[k])
    <2>1. CASE k = q
        <3>1. queue'[k] = UpdatePositions(queue[q], ord) /\ order'[k] = ord
            BY <2>1, <1>5 DEF TypeOK
        <3>2. Truthful(queue[q], order[q]) => Truthful(queue'[k], order'[k])
            BY <3>1, <1>6, <1>7, TruthfulInRange
        <3>3. Matching(queue[q], order[q]) => Matching(queue'[k], order'[k])
            BY <3>1, <1>6, <1>7 DEF Matching
        <3> QED
            BY <2>1, <3>1, <3>2, <3>3, <1>7, Zenon
    <2>2. CASE k # q
        <3>1. queue'[k] = queue[k] /\ order'[k] = order[k] /\ ItemMap(queue[k])
            BY <2>2, <1>5 DEF TypeOK
        <3> QED
            BY <3>1, Zenon
    <2> QED
        BY <2>1, <2>2, Zenon
<1> QED
    BY <1>8, <1>9, Zenon DEF StepKeepsQueues, StepKeepsMatching, Queued

\* AddToQueue either panics, and then the queues have no successor that
\* matters, or adds t to queue q and takes it out of the other one.
LEMMA AddToQueueStep ==
    ASSUME TypeOK, NEW q \in QueueType, NEW t \in Torrents,
           NEW priority \in Priorities, AddToQueue(t, q, priority)
    PROVE  /\ clock' \in 0..MaxClock
           /\ StepKeepsQueues
           /\ \/ panicked' = TRUE /\ queue' = queue /\ order' = order
              \/ /\ panicked' = panicked
                 /\ DOMAIN queue'[q] = Queued(q) \cup {t}
                 /\ DOMAIN queue'[Other(q)] = Queued(Other(q)) \ {t}
           /\ t \notin Queued(q) /\ OrderMatchesQueue =>
                StepKeepsMatching /\ panicked' = panicked
<1> DEFINE o == Other(q)
           ord == Append(order[q], t)
           item(now) == [priority |-> priority, added |-> now, position |-> 0]
           items(now) == [u \in Queued(q) \cup {t} |->
                            IF u = t THEN item(now) ELSE queue[q][u]]
<1>1. o \in QueueType /\ o # q /\ \A k \in QueueType : k = q \/ k = o
    BY DEF QueueType, Other
<1>2. \A k \in QueueType : ItemMap(queue[k]) /\ order[k] \in Seq(Torrents)
    BY DEF TypeOK
<1>3. PICK now \in {clock, clock + 1} \cap 0..MaxClock :
        /\ clock' = now
        /\ \/ /\ SortPanics(items(now), ord)
              /\ panicked' = TRUE
              /\ UNCHANGED <<queue, order>>
           \/ /\ ~SortPanics(items(now), ord)
              /\ \E sorted \in Sortings(items(now), ord) :
                    /\ queue' = [queue EXCEPT
                          ![q] = UpdatePositions(items(now), sorted),
                          ![o] = RemoveItems(queue[o], order[o], t)]
                    /\ order' = [order EXCEPT
                          ![q] = sorted,
                          ![o] = RemoveOrder(queue[o], order[o], t)]
              /\ UNCHANGED panicked
    BY Zenon DEF AddToQueue, Enqueue
<1> DEFINE its == items(now)
<1>4. clock' \in 0..MaxClock
    BY <1>3
<1>5. ItemMap(its) /\ DOMAIN its = Queued(q) \cup {t}
    <2>1. DOMAIN its = Queued(q) \cup {t}
        OBVIOUS
    <2>2. item(now) \in Item
        BY <1>3 DEF Item
    <2>3. Queued(q) \subseteq Torrents /\ \A u \in Queued(q) : queue[q][u] \in Item
        BY <1>2 DEF ItemMap, Queued
    <2>4. its \in [Queued(q) \cup {t} -> Item]
        BY <2>2, <2>3
    <2> QED
        BY <2>1, <2>3, <2>4 DEF ItemMap
<1>6. ord \in Seq(Torrents) /\ Range(ord) = Range(order[q]) \cup {t}
    <2>1. /\ ord \in Seq(Torrents) /\ Len(ord) = Len(order[q]) + 1
          /\ \A i \in 1..Len(order[q]) : ord[i] = order[q][i]
          /\ ord[Len(order[q]) + 1] = t
        BY <1>2, AppendProperties
    <2>2. /\ DOMAIN order[q] = 1..Len(order[q]) /\ Len(order[q]) \in Nat
          /\ DOMAIN ord = 1..(Len(order[q]) + 1)
        BY <1>2, <2>1
    <2> HIDE DEF ord
    <2>3. Range(ord) \subseteq Range(order[q]) \cup {t}
        BY <2>1, <2>2 DEF Range
    <2>4. Range(order[q]) \cup {t} \subseteq Range(ord)
        BY <2>1, <2>2 DEF Range
    <2> QED
        BY <2>1, <2>3, <2>4
<1>7. ASSUME t \notin Queued(q), OrderMatchesQueue
      PROVE  ~SortPanics(its, ord) /\ IsInjective(ord)
    <2>1. Range(order[q]) = Queued(q) /\ IsInjective(order[q])
        BY <1>7 DEF OrderMatchesQueue, Matching, Queued
    <2>2. Range(ord) = DOMAIN its
        BY <2>1, <1>5, <1>6
    <2>3. ~SortPanics(its, ord)
        BY <2>2 DEF SortPanics, Range
    <2>4. /\ Len(order[q]) \in Nat /\ DOMAIN order[q] = 1..Len(order[q])
          /\ DOMAIN ord = 1..(Len(order[q]) + 1)
          /\ \A i \in 1..Len(order[q]) : ord[i] = order[q][i] /\ order[q][i] # t
          /\ ord[Len(order[q]) + 1] = t
        BY <2>1, <1>2, <1>7, AppendProperties DEF Range
    <2>5. IsInjective(ord)
        BY <2>1, <2>4 DEF IsInjective
    <2> QED
        BY <2>3, <2>5
<1> HIDE DEF its, items, ord, o
<1>8. CASE SortPanics(its, ord)
    <2>1. panicked' = TRUE /\ queue' = queue /\ order' = order
        BY <1>3, <1>8 DEF its
    <2>2. StepKeepsQueues
        BY <1>2, <2>1 DEF StepKeepsQueues, TypeOK
    <2> QED
        BY Zenon, <1>4, <1>7, <1>8, <2>1, <2>2
<1>9. CASE ~SortPanics(its, ord)
    <2>1. PICK sorted \in Sortings(its, ord) :
            /\ queue' = [queue EXCEPT ![q] = UpdatePositions(its, sorted),
                                      ![o] = RemoveItems(queue[o], order[o], t)]
            /\ order' = [order EXCEPT ![q] = sorted,
                                      ![o] = RemoveOrder(queue[o], order[o], t)]
        BY <1>3, <1>9 DEF its
    <2>2. panicked' = panicked
        BY <1>3, <1>9 DEF its
    <2>3. /\ sorted \in Seq(Torrents)
          /\ Range(sorted) = Range(ord)
          /\ IsInjective(ord) => IsInjective(sorted)
        BY <1>6, SortingsProperties
    <2>4. /\ ItemMap(UpdatePositions(its, sorted))
          /\ DOMAIN UpdatePositions(its, sorted) = DOMAIN its
          /\ DOMAIN its \subseteq Range(sorted) =>
                Truthful(UpdatePositions(its, sorted), sorted)
        BY <1>5, <2>3, UpdatePositionsProperties
    <2>5. /\ ItemMap(RemoveItems(queue[o], order[o], t))
          /\ RemoveOrder(queue[o], order[o], t) \in Seq(Torrents)
          /\ DOMAIN RemoveItems(queue[o], order[o], t) = DOMAIN queue[o] \ {t}
          /\ Truthful(queue[o], order[o]) =>
                Truthful(RemoveItems(queue[o], order[o], t),
                         RemoveOrder(queue[o], order[o], t))
          /\ Matching(queue[o], order[o]) =>
                Matching(RemoveItems(queue[o], order[o], t),
                         RemoveOrder(queue[o], order[o], t))
        BY <1>1, <1>2, RemoveProperties, Zenon
    <2>6. /\ DOMAIN queue' = QueueType /\ order' \in [QueueType -> Seq(Torrents)]
          /\ queue'[q] = UpdatePositions(its, sorted) /\ order'[q] = sorted
          /\ queue'[o] = RemoveItems(queue[o], order[o], t)
          /\ order'[o] = RemoveOrder(queue[o], order[o], t)
        BY <1>1, <2>1, <2>3, <2>5 DEF TypeOK
    <2>7. Truthful(queue[q], order[q]) => Truthful(queue'[q], order'[q])
        BY <1>5, <1>6, <2>3, <2>4, <2>6, TruthfulInRange DEF Queued
    <2>8. ASSUME t \notin Queued(q), OrderMatchesQueue
          PROVE  Matching(queue'[q], order'[q])
        <3>1. Range(order[q]) = Queued(q)
            BY <2>8 DEF OrderMatchesQueue, Matching, Queued
        <3> QED
            BY <3>1, <1>5, <1>6, <1>7, <2>3, <2>4, <2>6, <2>8 DEF Matching
    <2>9. StepKeepsQueues
        <3>1. \A k \in QueueType : ItemMap(queue'[k])
            BY <1>1, <2>4, <2>5, <2>6, Zenon
        <3>2. \A k \in QueueType :
                Truthful(queue[k], order[k]) => Truthful(queue'[k], order'[k])
            BY <1>1, <2>5, <2>6, <2>7, Zenon
        <3> QED
            BY <3>1, <3>2, <2>6, Zenon DEF StepKeepsQueues
    <2>10. t \notin Queued(q) /\ OrderMatchesQueue => StepKeepsMatching
        BY <1>1, <2>5, <2>6, <2>8, Zenon DEF StepKeepsMatching
    <2>11. DOMAIN queue'[q] = Queued(q) \cup {t} /\ DOMAIN queue'[o] = Queued(o) \ {t}
        BY <1>5, <2>4, <2>5, <2>6 DEF Queued
    <2> QED
        BY <1>4, <2>2, <2>9, <2>10, <2>11, Zenon DEF o
<1> QED
    BY Zenon, <1>8, <1>9

-----------------------------------------------------------------------------
(***************************************************************************)
(* Type correctness.                                                       *)
(***************************************************************************)

\* The number of active torrents of a queue is a natural number.
LEMMA ActiveIsFinite ==
    ASSUME TypeOK, NEW q \in QueueType
    PROVE  IsFiniteSet(active[q]) /\ Cardinality(active[q]) \in Nat
<1>1. active[q] \in SUBSET Torrents
    BY DEF TypeOK
<1> QED
    BY <1>1, TorrentsAssumption, FS_Subset, FS_CardinalityType

\* A step that leaves maps and slices alone keeps what is said of them.
LEMMA UnchangedQueuesStep ==
    ASSUME TypeOK, queue' = queue, order' = order
    PROVE  StepKeepsQueues /\ StepKeepsMatching
BY DEF TypeOK, StepKeepsQueues, StepKeepsMatching

\* The steps of the process loop and of the configuration update that leave
\* the queues alone.
LEMMA TypeOKOfOtherSteps ==
    ASSUME TypeOK,
           \/ ProcessBegin \/ Close \/ LoopExit
           \/ \E q \in QueueType : ProcessEnd(q) \/ SnapshotQueued(q)
           \/ \E cfg \in [QueueType -> QueueConfig] : UpdateConfig(cfg)
    PROVE  TypeOK'
<1>1. ASSUME NEW q \in QueueType, EnterLoop(q)
      PROVE  mutex' \in QueueType \cup {"free"} /\ activeCount' \in Nat
    BY <1>1, ActiveIsFinite DEF EnterLoop
<1>2. CASE ProcessBegin
    <2>1. mutex' \in QueueType \cup {"free"} /\ activeCount' \in Nat
        BY <1>1, <1>2 DEF ProcessBegin, QueueType
    <2> QED
        BY <1>2, <2>1 DEF ProcessBegin, TypeOK
<1>3. CASE Close \/ LoopExit
    BY <1>3 DEF Close, LoopExit, TypeOK
<1>4. ASSUME NEW q \in QueueType, ProcessEnd(q) PROVE TypeOK'
    <2>1. mutex' \in QueueType \cup {"free"} /\ activeCount' \in Nat
        BY <1>1, <1>4 DEF ProcessEnd, QueueType
    <2> QED
        BY <1>4, <2>1 DEF ProcessEnd, TypeOK
<1>5. ASSUME NEW q \in QueueType, SnapshotQueued(q) PROVE TypeOK'
    <2>1. Queued(q) \in SUBSET Torrents
        BY DEF TypeOK, ItemMap, Queued
    <2>2. updater' \in [at : Stages, ids : SUBSET Torrents]
        BY <1>5, <2>1 DEF SnapshotQueued, Draining, StageAfter, Drain, Stages
    <2> QED
        BY <1>5, <2>2 DEF SnapshotQueued, TypeOK
<1>6. ASSUME NEW cfg \in [QueueType -> QueueConfig], UpdateConfig(cfg) PROVE TypeOK'
    <2>1. updater' \in [at : Stages, ids : SUBSET Torrents]
        BY <1>6 DEF UpdateConfig, FirstStage, Stages
    <2> QED
        BY <1>6, <2>1 DEF UpdateConfig, TypeOK
<1> QED
    BY <1>2, <1>3, <1>4, <1>5, <1>6

\* The steps that change the queues.
LEMMA TypeOKOfQueueSteps ==
    ASSUME TypeOK
    PROVE  /\ \A q \in QueueType : ProcessActivate(q) => TypeOK'
           /\ \A t \in Torrents :
                /\ RemoveFromQueue(t) => TypeOK'
                /\ \A n \in Positions : SetQueuePosition(t, n) => TypeOK'
                /\ \A q \in QueueType :
                    /\ ForceActivateByCaller(t, q) => TypeOK'
                    /\ DrainOne(t, q) => TypeOK'
                    /\ \A p \in Priorities : AddToQueue(t, q, p) => TypeOK'
<1>1. ASSUME NEW q \in QueueType, ProcessActivate(q) PROVE TypeOK'
    <2>1. StepKeepsQueues /\ Head(order[q]) \in Torrents
        BY <1>1, ProcessActivateStep
    <2>2. active' \in [QueueType -> SUBSET Torrents] /\ activeCount' \in Nat
        BY <1>1, <2>1 DEF ProcessActivate, TypeOK
    <2> QED
        BY <1>1, <2>1, <2>2 DEF ProcessActivate, TypeOK, StepKeepsQueues
<1>2. ASSUME NEW t \in Torrents, RemoveFromQueue(t) PROVE TypeOK'
    <2>1. StepKeepsQueues
        BY <1>2, RemoveFromBothStep DEF RemoveFromQueue
    <2>2. active' \in [QueueType -> SUBSET Torrents]
        BY <1>2 DEF RemoveFromQueue, TypeOK
    <2> QED
        BY <1>2, <2>1, <2>2 DEF RemoveFromQueue, TypeOK, StepKeepsQueues
<1>3. ASSUME NEW t \in Torrents, NEW n \in Positions, SetQueuePosition(t, n)
      PROVE  TypeOK'
    <2>1. StepKeepsQueues
        BY <1>3, ConstantsAssumption, MoveInQueueStep DEF SetQueuePosition, QueueType
    <2> QED
        BY <1>3, <2>1 DEF SetQueuePosition, TypeOK, StepKeepsQueues
<1>4. ASSUME NEW t \in Torrents, NEW q \in QueueType, ForceActivate(t, q),
             updater' \in [at : Stages, ids : SUBSET Torrents]
      PROVE  TypeOK'
    <2>1. StepKeepsQueues
        BY <1>4, RemoveFromBothStep DEF ForceActivate
    <2>2. active' \in [QueueType -> SUBSET Torrents]
        BY <1>4 DEF ForceActivate, TypeOK
    <2> QED
        BY <1>4, <2>1, <2>2 DEF ForceActivate, TypeOK, StepKeepsQueues
<1>5. ASSUME NEW t \in Torrents, NEW q \in QueueType, ForceActivateByCaller(t, q)
      PROVE  TypeOK'
    BY <1>4, <1>5 DEF ForceActivateByCaller, TypeOK
<1>6. ASSUME NEW t \in Torrents, NEW q \in QueueType, DrainOne(t, q)
      PROVE  TypeOK'
    <2>1. updater.ids \ {t} \in SUBSET Torrents
        BY DEF TypeOK
    <2>2. updater' \in [at : Stages, ids : SUBSET Torrents]
        BY <1>6, <2>1 DEF DrainOne, Draining, StageAfter, Drain, Stages
    <2> QED
        BY <1>4, <1>6, <2>2 DEF DrainOne
<1>7. ASSUME NEW t \in Torrents, NEW q \in QueueType, NEW p \in Priorities,
             AddToQueue(t, q, p)
      PROVE  TypeOK'
    <2>1. StepKeepsQueues /\ clock' \in 0..MaxClock /\ panicked' \in BOOLEAN
        BY Zenon, <1>7, AddToQueueStep DEF TypeOK
    <2> QED
        BY Zenon, <1>7, <2>1 DEF AddToQueue, TypeOK, StepKeepsQueues
<1> QED
    BY <1>1, <1>2, <1>3, <1>5, <1>6, <1>7

\* Every variable keeps its type: in particular the maps only hold items of
\* known torrents and no position is negative, whatever callers do.
THEOREM TypeCorrectness == Spec => []TypeOK
<1>1. Init => TypeOK
    <2> SUFFICES ASSUME Init PROVE TypeOK
        OBVIOUS
    <2>1. ItemMap(<<>>)
        BY DEF ItemMap
    <2>2. DOMAIN queue = QueueType /\ \A q \in QueueType : ItemMap(queue[q])
        BY <2>1 DEF Init
    <2>3. order \in [QueueType -> Seq(Torrents)]
        BY DEF Init
    <2>4. active \in [QueueType -> SUBSET Torrents] /\ config \in [QueueType -> QueueConfig]
        BY DEF Init
    <2>5. clock \in 0..MaxClock /\ activeCount \in Nat
        BY ConstantsAssumption DEF Init
    <2>6. updater \in [at : Stages, ids : SUBSET Torrents]
        BY DEF Init, Stages
    <2>7. /\ mutex \in QueueType \cup {"free"}
          /\ loop \in {"running", "cancelled", "exited"}
          /\ panicked \in BOOLEAN
        BY Zenon DEF Init
    <2> QED
        BY <2>2, <2>3, <2>4, <2>5, <2>6, <2>7 DEF TypeOK
<1>2. TypeOK /\ [Next]_vars => TypeOK'
    <2> SUFFICES ASSUME TypeOK, [Next]_vars PROVE TypeOK'
        OBVIOUS
    <2>1. CASE Processor
        BY <2>1, TypeOKOfQueueSteps, TypeOKOfOtherSteps DEF Processor
    <2>2. CASE Updater
        BY <2>2, TypeOKOfQueueSteps, TypeOKOfOtherSteps DEF Updater
    <2>3. CASE Callers
        BY <2>3, TypeOKOfQueueSteps, TypeOKOfOtherSteps DEF Callers
    <2>4. CASE UNCHANGED vars
        BY <2>4 DEF vars, TypeOK
    <2> QED
        BY <2>1, <2>2, <2>3, <2>4 DEF Next
<1> QED
    BY <1>1, <1>2, PTL DEF Spec

-----------------------------------------------------------------------------
(***************************************************************************)
(* The maps and the slices.                                                *)
(***************************************************************************)

\* No torrent joins a queue in this step.
QueuesShrink == \A k \in QueueType : DOMAIN queue'[k] \subseteq Queued(k)

AddStep == \E t \in Torrents, q \in QueueType, p \in Priorities : AddToQueue(t, q, p)

\* Every step keeps the queues well formed, and only AddToQueue adds to them.
LEMMA EveryStepKeepsQueues ==
    ASSUME TypeOK, [Next]_vars
    PROVE  /\ StepKeepsQueues
           /\ AddStep \/ (QueuesShrink /\ StepKeepsMatching /\ panicked' = panicked)
<1> DEFINE Goal == /\ StepKeepsQueues
                   /\ QueuesShrink /\ StepKeepsMatching /\ panicked' = panicked
<1>1. ASSUME queue' = queue, order' = order, panicked' = panicked PROVE Goal
    BY <1>1, UnchangedQueuesStep DEF QueuesShrink, Queued
<1>2. ASSUME NEW t \in Torrents, RemoveFromBoth(t), panicked' = panicked PROVE Goal
    BY <1>2, RemoveFromBothStep DEF QueuesShrink
<1>3. ASSUME NEW q \in QueueType, ProcessActivate(q) PROVE Goal
    BY Zenon, <1>3, ProcessActivateStep DEF QueuesShrink, ProcessActivate
<1>4. ASSUME NEW t \in Torrents, NEW n \in Positions, SetQueuePosition(t, n) PROVE Goal
    BY <1>4, ConstantsAssumption, MoveInQueueStep
    DEF SetQueuePosition, QueueType, QueuesShrink
<1>5. ASSUME AddStep PROVE StepKeepsQueues
    BY Zenon, <1>5, AddToQueueStep DEF AddStep
<1> HIDE DEF Goal
<1>6. CASE Processor
    BY <1>6, <1>1, <1>3 DEF Processor, ProcessBegin, ProcessEnd, LoopExit, Goal
<1>7. CASE Updater
    BY Zenon, <1>7, <1>1, <1>2 DEF Updater, SnapshotQueued, DrainOne, ForceActivate, Goal
<1>8. CASE Callers
    BY <1>8, <1>1, <1>2, <1>4, <1>5
    DEF Callers, RemoveFromQueue, ForceActivateByCaller, ForceActivate,
        UpdateConfig, Close, AddStep, Goal
<1>9. CASE UNCHANGED vars
    BY <1>9, <1>1 DEF vars, Goal
<1> QED
    BY <1>6, <1>7, <1>8, <1>9 DEF Next

\* GetQueuePosition always returns an index at which the order slice holds the
\* torrent, even after torrents were added twice.
THEOREM PositionsAreTruthful == Spec => []PositionsTruthful
<1>1. Init => PositionsTruthful
    BY DEF Init, PositionsTruthful, Truthful
<1>2. TypeOK /\ PositionsTruthful /\ [Next]_vars => PositionsTruthful'
    BY EveryStepKeepsQueues DEF PositionsTruthful, StepKeepsQueues
<1> QED
    BY <1>1, <1>2, TypeCorrectness, PTL DEF Spec

\* No torrent is ever in the download queue and in the seed queue.
THEOREM NeverInBothQueues == Spec => []OneQueue
<1>1. Init => OneQueue
    BY DEF Init, OneQueue, Queued, QueueType
<1>2. TypeOK /\ OneQueue /\ [Next]_vars => OneQueue'
    <2> SUFFICES ASSUME TypeOK, OneQueue, [Next]_vars PROVE OneQueue'
        OBVIOUS
    <2>1. CASE AddStep
        <3>1. PICK t \in Torrents, q \in QueueType, p \in Priorities : AddToQueue(t, q, p)
            BY <2>1 DEF AddStep
        <3>2. \/ queue' = queue
              \/ /\ DOMAIN queue'[q] = Queued(q) \cup {t}
                 /\ DOMAIN queue'[Other(q)] = Queued(Other(q)) \ {t}
            BY Zenon, <3>1, AddToQueueStep
        <3> QED
            BY <3>2 DEF OneQueue, Queued, QueueType, Other
    <2>2. CASE QueuesShrink
        BY <2>2 DEF QueuesShrink, OneQueue, Queued, QueueType
    <2> QED
        BY <2>1, <2>2, EveryStepKeepsQueues
<1> QED
    BY <1>1, <1>2, TypeCorrectness, PTL DEF Spec

\* When callers never add a torrent that is queued or active, the map and the
\* slice of each queue hold the same torrents, each once.
THEOREM SlicesMatchMaps == ~ReAdds => (Spec => []OrderMatchesQueue)
<1> SUFFICES ASSUME ~ReAdds PROVE Spec => []OrderMatchesQueue
    OBVIOUS
<1>1. Init => OrderMatchesQueue
    BY DEF Init, OrderMatchesQueue, Matching, IsInjective, Range
<1>2. TypeOK /\ OrderMatchesQueue /\ [Next]_vars => OrderMatchesQueue'
    <2> SUFFICES ASSUME TypeOK, OrderMatchesQueue, [Next]_vars PROVE OrderMatchesQueue'
        OBVIOUS
    <2>1. ASSUME AddStep PROVE StepKeepsMatching
        <3>1. PICK t \in Torrents, q \in QueueType, p \in Priorities : AddToQueue(t, q, p)
            BY <2>1 DEF AddStep
        <3>2. t \notin Queued(q)
            BY <3>1 DEF AddToQueue, AddEnabled
        <3> QED
            BY Zenon, <3>1, <3>2, AddToQueueStep
    <2>2. StepKeepsMatching
        BY <2>1, EveryStepKeepsQueues
    <2> QED
        BY <2>2 DEF StepKeepsMatching, OrderMatchesQueue
<1> QED
    BY <1>1, <1>2, TypeCorrectness, PTL DEF Spec

\* Under the same condition sorting never dereferences a missing item, so
\* AddToQueue never panics.
THEOREM NeverPanics == ~ReAdds => (Spec => []NoPanic)
<1> SUFFICES ASSUME ~ReAdds PROVE Spec => []NoPanic
    OBVIOUS
<1>1. Init => NoPanic
    BY DEF Init, NoPanic
<1>2. TypeOK /\ OrderMatchesQueue /\ NoPanic /\ [Next]_vars => NoPanic'
    <2> SUFFICES ASSUME TypeOK, OrderMatchesQueue, NoPanic, [Next]_vars PROVE NoPanic'
        OBVIOUS
    <2>1. ASSUME AddStep PROVE panicked' = panicked
        <3>1. PICK t \in Torrents, q \in QueueType, p \in Priorities : AddToQueue(t, q, p)
            BY <2>1 DEF AddStep
        <3>2. t \notin Queued(q)
            BY <3>1 DEF AddToQueue, AddEnabled
        <3> QED
            BY Zenon, <3>1, <3>2, AddToQueueStep
    <2>2. panicked' = panicked
        BY <2>1, EveryStepKeepsQueues
    <2> QED
        BY <2>2 DEF NoPanic
<1>3. Spec => []OrderMatchesQueue
    BY SlicesMatchMaps
<1> QED
    BY <1>1, <1>2, <1>3, TypeCorrectness, PTL DEF Spec

-----------------------------------------------------------------------------
(***************************************************************************)
(* The limit on active torrents.                                           *)
(***************************************************************************)

\* While the loop of queue q runs, its local count is at least the number of
\* active torrents: the limit is enforced through a count that is never low.
CountIsSound ==
    \A q \in QueueType : mutex = q => Cardinality(active[q]) <= activeCount

\* Every step keeps the process loop's activeCount an upper bound.
LEMMA CountStaysSound ==
    ASSUME TypeOK, CountIsSound, [Next]_vars
    PROVE  CountIsSound'
<1>1. ASSUME mutex' = "free" PROVE CountIsSound'
    BY <1>1 DEF CountIsSound, QueueType
<1>2. ASSUME NEW q \in QueueType, EnterLoop(q), active' = active PROVE CountIsSound'
    BY <1>2, ActiveIsFinite DEF CountIsSound, EnterLoop
<1>3. ASSUME UNCHANGED <<mutex, active, activeCount>> PROVE CountIsSound'
    BY <1>3 DEF CountIsSound
<1>4. ASSUME NEW q \in QueueType, ProcessActivate(q) PROVE CountIsSound'
    <2> DEFINE t == Head(order[q])
    <2>1. /\ mutex = q /\ mutex' = q
          /\ active'[q] = active[q] \cup {t}
          /\ activeCount' = activeCount + 1
        BY <1>4 DEF ProcessActivate, TypeOK
    <2>2. IsFiniteSet(active[q]) /\ Cardinality(active[q]) \in Nat
        BY ActiveIsFinite
    <2>3. Cardinality(active'[q]) <= Cardinality(active[q]) + 1
        <3>1. Cardinality(active[q] \cup {t}) =
                IF t \in active[q] THEN Cardinality(active[q]) ELSE Cardinality(active[q]) + 1
            BY <2>2, FS_AddElement, Zenon
        <3> QED
            BY <2>1, <2>2, <3>1
    <2>4. Cardinality(active'[q]) \in Nat
        BY Zenon, <2>1, <2>2, FS_AddElement, FS_CardinalityType
    <2>5. Cardinality(active[q]) <= activeCount /\ activeCount \in Nat
        BY <2>1 DEF CountIsSound, TypeOK
    <2>6. Cardinality(active'[q]) <= activeCount'
        BY <2>1, <2>2, <2>3, <2>4, <2>5
    <2> QED
        BY <2>1, <2>6 DEF CountIsSound
<1>5. CASE Processor
    <2>1. CASE ProcessBegin
        BY <2>1, <1>2 DEF ProcessBegin, QueueType
    <2>2. ASSUME NEW q \in QueueType, ProcessEnd(q) PROVE CountIsSound'
        BY <2>2, <1>1, <1>2 DEF ProcessEnd, QueueType
    <2>3. CASE LoopExit
        BY <2>3, <1>3 DEF LoopExit
    <2> QED
        BY <1>4, <1>5, <2>1, <2>2, <2>3 DEF Processor
<1>6. CASE Updater
    BY Zenon, <1>6, <1>1, <1>3 DEF Updater, SnapshotQueued, DrainOne, ForceActivate, LockFree
<1>7. CASE Callers
    BY ZenonT(60), <1>7, <1>1, <1>3
    DEF Callers, RemoveFromQueue, SetQueuePosition, ForceActivateByCaller, ForceActivate,
        AddToQueue, UpdateConfig, Close, LockFree
<1>8. CASE UNCHANGED vars
    BY <1>8, <1>3 DEF vars
<1> QED
    BY <1>5, <1>6, <1>7, <1>8 DEF Next

\* A step that changes the active torrents of q while the loop of q holds the
\* lock is an iteration of that loop.
LEMMA OnlyTheLoopActivates ==
    ASSUME TypeOK, [Next]_vars, NEW q \in QueueType, mutex = q, active'[q] # active[q]
    PROVE  ProcessActivate(q)
<1>1. mutex # "free"
    BY DEF QueueType
<1>2. ~Updater
    BY ZenonT(60), <1>1 DEF Updater, SnapshotQueued, DrainOne, ForceActivate, LockFree
<1>3. ~Callers
    BY ZenonT(60), <1>1 DEF Callers, RemoveFromQueue, SetQueuePosition, ForceActivateByCaller,
                ForceActivate, AddToQueue, UpdateConfig, Close, LockFree
<1>4. CASE Processor
    BY <1>1, <1>4 DEF Processor, ProcessBegin, ProcessActivate, ProcessEnd, LoopExit, LockFree
<1>5. CASE UNCHANGED vars
    BY <1>5 DEF vars
<1> QED
    BY <1>2, <1>3, <1>4, <1>5 DEF Next

\* The background goroutine never activates a torrent beyond the configured
\* limit, for any number of torrents and any limit.
THEOREM LimitIsRespected == Spec => ProcessingRespectsLimit
<1> DEFINE Respects ==
        \A q \in QueueType :
            mutex = q /\ active'[q] # active[q] =>
                Cardinality(active'[q]) <= config[q].max
<1>1. Init => CountIsSound
    BY DEF Init, CountIsSound, QueueType
<1>2. TypeOK /\ CountIsSound /\ [Next]_vars => CountIsSound'
    BY CountStaysSound
<1>3. TypeOK /\ CountIsSound /\ [Next]_vars => [Respects]_vars
    <2> SUFFICES ASSUME TypeOK, CountIsSound, [Next]_vars,
                        NEW q \in QueueType, mutex = q, active'[q] # active[q]
                 PROVE  Cardinality(active'[q]) <= config[q].max
        OBVIOUS
    <2>1. ProcessActivate(q)
        BY OnlyTheLoopActivates
    <2>2. /\ active'[q] = active[q] \cup {Head(order[q])}
          /\ activeCount < config[q].max
        BY <2>1 DEF ProcessActivate, LoopContinues, TypeOK
    <2>3. IsFiniteSet(active[q]) /\ Cardinality(active[q]) \in Nat
        BY ActiveIsFinite
    <2>4. Cardinality(active'[q]) = Cardinality(active[q]) + 1
        <3> DEFINE t == Head(order[q])
        <3>1. Cardinality(active[q] \cup {t}) =
                IF t \in active[q] THEN Cardinality(active[q]) ELSE Cardinality(active[q]) + 1
            BY <2>3, FS_AddElement, Zenon
        <3>2. t \notin active[q]
            BY <2>2
        <3> QED
            BY <2>2, <3>1, <3>2
    <2>5. /\ Cardinality(active[q]) <= activeCount
          /\ activeCount \in Nat /\ config[q].max \in Nat
        BY Zenon, ConstantsAssumption DEF CountIsSound, TypeOK, QueueConfig
    <2> QED
        BY <2>2, <2>3, <2>4, <2>5
<1>4. Spec => [][Respects]_vars
    BY <1>1, <1>2, <1>3, TypeCorrectness, PTL DEF Spec
<1> QED
    BY <1>4 DEF ProcessingRespectsLimit

-----------------------------------------------------------------------------
(***************************************************************************)
(* Draining a queue that was switched off.                                 *)
(***************************************************************************)

\* The inductive invariant behind DisabledQueueDrained: what is left in a
\* disabled queue is still ahead of the configuration update.  Either the
\* update has yet to take its snapshot, or the snapshot holds the rest.
DrainCovers ==
    \A q \in QueueType : ~config[q].enabled =>
        \/ Queued(q) = {}
        \/ updater.at = Snap(q)
        \/ updater.at = Drain(q) /\ Queued(q) \subseteq updater.ids
        \/ q = "Seed" /\ updater.at \in {"SnapDownload", "DrainDownload"}

\* Every step keeps what is queued in a disabled queue within reach of the drain.
LEMMA DrainStaysCovered ==
    ASSUME TypeOK, DrainCovers, [Next]_vars
    PROVE  DrainCovers'
<1>1. ASSUME UNCHANGED <<config, updater>>, QueuesShrink PROVE DrainCovers'
    BY <1>1 DEF DrainCovers, QueuesShrink, Queued
<1>2. ASSUME NEW t \in Torrents, NEW k \in QueueType, NEW p \in Priorities,
             AddToQueue(t, k, p)
      PROVE  DrainCovers'
    <2>1. config[k].enabled /\ UNCHANGED <<config, updater>>
        BY Zenon, <1>2 DEF AddToQueue
    <2>2. \A q \in QueueType : q # k => DOMAIN queue'[q] \subseteq Queued(q)
        <3>1. queue' = queue \/ DOMAIN queue'[Other(k)] = Queued(Other(k)) \ {t}
            BY Zenon, <1>2, AddToQueueStep
        <3>2. \A q \in QueueType : q # k => q = Other(k)
            BY DEF QueueType, Other
        <3> QED
            BY <3>1, <3>2 DEF Queued
    <2> QED
        BY <2>1, <2>2 DEF DrainCovers, Queued
<1>3. ASSUME NEW cfg \in [QueueType -> QueueConfig], UpdateConfig(cfg)
      PROVE  DrainCovers'
    BY <1>3 DEF UpdateConfig, FirstStage, DrainCovers, Snap, Drain, QueueType, Queued
<1>4. ASSUME NEW k \in QueueType, SnapshotQueued(k) PROVE DrainCovers'
    BY <1>4 DEF SnapshotQueued, Draining, StageAfter, DrainCovers, Snap, Drain,
                QueueType, Queued
<1>5. ASSUME NEW t \in Torrents, NEW k \in QueueType, DrainOne(t, k)
      PROVE  DrainCovers'
    <2>1. \A q \in QueueType : DOMAIN queue'[q] = Queued(q) \ {t}
        BY <1>5, RemoveFromBothStep DEF DrainOne, ForceActivate
    <2>2. /\ updater.at = Drain(k) /\ config' = config
          /\ updater' = Draining(k, updater.ids \ {t})
        BY <1>5 DEF DrainOne, ForceActivate
    <2> QED
        BY <2>1, <2>2 DEF Draining, StageAfter, DrainCovers, Snap, Drain, QueueType, Queued
<1>6. CASE AddStep
    BY <1>2, <1>6 DEF AddStep
<1>7. CASE ~AddStep
    <2>1. QueuesShrink
        BY <1>7, EveryStepKeepsQueues
    <2>2. CASE Processor
        BY <2>1, <2>2, <1>1
        DEF Processor, ProcessBegin, ProcessActivate, ProcessEnd, LoopExit
    <2>3. CASE Updater
        BY <2>3, <1>4, <1>5 DEF Updater
    <2>4. CASE Callers
        BY <2>1, <2>4, <1>1, <1>3, <1>7
        DEF Callers, RemoveFromQueue, SetQueuePosition, ForceActivateByCaller,
            ForceActivate, Close, AddStep
    <2>5. CASE UNCHANGED vars
        BY <2>1, <2>5, <1>1 DEF vars
    <2> QED
        BY <2>2, <2>3, <2>4, <2>5 DEF Next
<1> QED
    BY <1>6, <1>7

\* When updateQueueConfiguration has returned, a queue that is disabled holds
\* no torrent, whatever callers did between its critical sections.
THEOREM DisabledQueuesAreDrained == Spec => []DisabledQueueDrained
<1>1. Init => DrainCovers
    BY DEF Init, DrainCovers, Queued
<1>2. TypeOK /\ DrainCovers /\ [Next]_vars => DrainCovers'
    BY DrainStaysCovered
<1>3. DrainCovers => DisabledQueueDrained
    BY DEF DrainCovers, DisabledQueueDrained, Snap, Drain, QueueType
<1> QED
    BY <1>1, <1>2, <1>3, TypeCorrectness, PTL DEF Spec

=============================================================================
