--------------------------- MODULE TreapSeq_proofs ---------------------------
(***************************************************************************)
(* Lemmas about the contents that the treap operations return: they are    *)
(* sequences of integers again, of the length and in the order that one    *)
(* expects, with the copies of each value that they should have.           *)
(***************************************************************************)
EXTENDS TreapSeq, SequenceTheorems, FiniteSetTheorems, TLAPS

(* Rank is a position in the treap.                                        *)
LEMMA RankBounds ==
    ASSUME NEW d \in Seq(Int), NEW v \in Int
    PROVE  Rank(d, v) \in 0 .. Len(d)
<1> DEFINE S == {j \in 1 .. Len(d) : d[j] <= v}
<1>1. Len(d) \in Nat
  BY LenProperties
<1>2. IsFiniteSet(1 .. Len(d)) /\ Cardinality(1 .. Len(d)) = Len(d)
  <2> HIDE DEF S
  <2>1. /\ IsFiniteSet(1 .. Len(d))
        /\ Cardinality(1 .. Len(d)) = IF 1 > Len(d) THEN 0 ELSE Len(d) - 1 + 1
    BY ONLY <1>1, FS_Interval, SMTT(30)
  <2> QED BY <1>1, <2>1
<1>3. S \in SUBSET (1 .. Len(d))
  OBVIOUS
<1>4. IsFiniteSet(S) /\ Cardinality(S) <= Len(d)
  <2> HIDE DEF S
  <2> QED BY <1>2, <1>3, FS_Subset
<1>5. Cardinality(S) \in Nat
  BY <1>4, FS_CardinalityType
<1> QED BY <1>1, <1>4, <1>5 DEF Rank

(* A treap that contains v has a node of that value or less.               *)
LEMMA RankOfMember ==
    ASSUME NEW d \in Seq(Int), NEW v \in Int, contains(d, v)
    PROVE  Rank(d, v) \in 1 .. Len(d)
<1> DEFINE S == {j \in 1 .. Len(d) : d[j] <= v}
<1>1. Len(d) \in Nat
  BY LenProperties
<1>2. IsFiniteSet(S)
  <2>1. S \in SUBSET (1 .. Len(d))
    OBVIOUS
  <2>2. IsFiniteSet(1 .. Len(d))
    BY <1>1, FS_Interval
  <2> HIDE DEF S
  <2> QED BY <2>1, <2>2, FS_Subset
<1>3. S /= {}
  BY DEF contains
<1>4. Cardinality(S) /= 0
  <2> HIDE DEF S
  <2> QED BY <1>2, <1>3, FS_EmptySet
<1>5. Rank(d, v) = Cardinality(S)
  BY DEF Rank
<1> QED BY <1>1, <1>4, <1>5, RankBounds

(* immutableInsert adds one node to the treap.                             *)
LEMMA InsertLength ==
    ASSUME NEW d \in Seq(Int), NEW v \in Int
    PROVE  immutableInsert(d, v) \in Seq(Int) /\ Len(immutableInsert(d, v)) = Len(d) + 1
<1> DEFINE r == Rank(d, v)
           front == SubSeq(d, 1, r)
           back == SubSeq(d, r + 1, Len(d))
<1>1. Len(d) \in Nat /\ r \in 0 .. Len(d)
  BY LenProperties, RankBounds
<1>2. \A i \in 1 .. Len(d) : d[i] \in Int
  BY ElementOfSeq
<1> HIDE DEF r
<1>3. front \in Seq(Int) /\ Len(front) = r
  BY <1>1, <1>2, SubSeqProperties
<1>4. back \in Seq(Int) /\ Len(back) = Len(d) - r
  BY <1>1, <1>2, SubSeqProperties
<1> DEFINE one == <<v>>
<1>5. one \in Seq(Int) /\ Len(one) = 1
  OBVIOUS
<1> HIDE DEF front, back, one
<1>6. front \o one \in Seq(Int) /\ Len(front \o one) = Len(front) + Len(one)
  BY <1>3, <1>5, ConcatProperties
<1>7. /\ (front \o one) \o back \in Seq(Int)
      /\ Len((front \o one) \o back) = Len(front \o one) + Len(back)
  BY <1>4, <1>6, ConcatProperties
<1>8. immutableInsert(d, v) = (front \o one) \o back
  <2>1. (r + 1) - 1 = r
    BY <1>1
  <2>2. immutableInsert(d, v) = (SubSeq(d, 1, (r + 1) - 1) \o <<v>>) \o SubSeq(d, r + 1, Len(d))
    BY DEF immutableInsert, InsertAt, r
  <2> QED BY <2>1, <2>2 DEF front, back, one
<1>9. Len((front \o one) \o back) = Len(d) + 1
  BY <1>1, <1>3, <1>4, <1>5, <1>6, <1>7
<1> QED BY <1>7, <1>8, <1>9

(* immutableRemove does not add any.                                       *)
LEMMA RemoveLength ==
    ASSUME NEW d \in Seq(Int), NEW v \in Int
    PROVE  immutableRemove(d, v) \in Seq(Int) /\ Len(immutableRemove(d, v)) <= Len(d)
<1> DEFINE r == Rank(d, v)
           front == SubSeq(d, 1, r - 1)
           back == SubSeq(d, r + 1, Len(d))
<1>1. Len(d) \in Nat
  BY LenProperties
<1>2. \A i \in 1 .. Len(d) : d[i] \in Int
  BY ElementOfSeq
<1>3. CASE contains(d, v)
  <2>1. r \in 1 .. Len(d)
    BY <1>3, RankOfMember
  <2> HIDE DEF r
  <2>2. front \in Seq(Int) /\ Len(front) = r - 1
    BY <1>1, <1>2, <2>1, SubSeqProperties
  <2>3. back \in Seq(Int) /\ Len(back) = Len(d) - r
    BY <1>1, <1>2, <2>1, SubSeqProperties
  <2> HIDE DEF front, back
  <2>4. front \o back \in Seq(Int) /\ Len(front \o back) = Len(front) + Len(back)
    BY <2>2, <2>3, ConcatProperties
  <2>5. immutableRemove(d, v) = front \o back
    BY <1>3 DEF immutableRemove, RemoveAt, front, back, r
  <2> QED BY <1>1, <2>1, <2>2, <2>3, <2>4, <2>5
<1>4. CASE ~contains(d, v)
  BY <1>1, <1>4 DEF immutableRemove
<1> QED BY <1>3, <1>4

(* Neither half of a split is longer than the treap.                       *)
LEMMA SplitLengths ==
    ASSUME NEW d \in Seq(Int), NEW v \in Int
    PROVE  /\ splitLeft(d, v) \in Seq(Int) /\ Len(splitLeft(d, v)) <= Len(d)
           /\ splitRight(d, v) \in Seq(Int) /\ Len(splitRight(d, v)) <= Len(d)
<1> DEFINE r == Rank(d, v)
<1>1. Len(d) \in Nat /\ r \in 0 .. Len(d)
  BY LenProperties, RankBounds
<1>2. \A i \in 1 .. Len(d) : d[i] \in Int
  BY ElementOfSeq
<1> HIDE DEF r
<1>3. SubSeq(d, 1, r) \in Seq(Int) /\ Len(SubSeq(d, 1, r)) <= Len(d)
  BY <1>1, <1>2, SubSeqProperties
<1>4. SubSeq(d, r + 1, Len(d)) \in Seq(Int) /\ Len(SubSeq(d, r + 1, Len(d))) <= Len(d)
  BY <1>1, <1>2, SubSeqProperties
<1> QED BY <1>3, <1>4 DEF splitLeft, splitRight, r

(* The median is an integer when there are any values.                     *)
LEMMA MedianType ==
    ASSUME NEW d \in Seq(Int), Len(d) >= 1
    PROVE  getMedianVal(d) \in Int
<1>1. Len(d) \in Nat
  BY LenProperties
<1>2. \A x \in Int : Half(x) \in Int
  BY DEF Half
<1> DEFINE mid == Len(d) \div 2
<1>3. /\ mid + 1 \in 1 .. Len(d) \/ (Len(d) % 2 = 0 /\ mid \in 1 .. Len(d) /\ mid + 1 \in 1 .. Len(d))
      /\ Len(d) % 2 = 0 => mid \in 1 .. Len(d)
  BY <1>1
<1>4. d[mid + 1] \in Int /\ (Len(d) % 2 = 0 => d[mid] \in Int)
  BY <1>3, ElementOfSeq
<1> HIDE DEF mid
<1>5. Len(d) % 2 = 0 => 2 * Half(d[mid]) + d[mid + 1] \in Int
  <2>1. Len(d) % 2 = 0 => Half(d[mid]) \in Int
    BY <1>2, <1>4
  <2> QED BY <1>4, <2>1
<1> QED BY <1>2, <1>4, <1>5 DEF getMedianVal, mid

(* A merge has the nodes of both treaps.                                   *)
LEMMA MergeLength ==
    ASSUME NEW d \in Seq(Int), NEW e \in Seq(Int)
    PROVE  merge(d, e) \in Seq(Int) /\ Len(merge(d, e)) = Len(d) + Len(e)
BY ConcatProperties DEF merge

(* What a range query picks from a treap is a sequence of its values.      *)
LEMMA RangeQueryType ==
    ASSUME NEW d \in Seq(Int), NEW lo \in Int, NEW hi \in Int
    PROVE  rangeQuery(d, lo, hi) \in Seq(Int)
<1>1. Rank(d, lo - 1) \in 0 .. Len(d) /\ Rank(d, hi) \in 0 .. Len(d)
  BY RankBounds
<1>2. Len(d) \in Nat /\ \A i \in 1 .. Len(d) : d[i] \in Int
  BY LenProperties, ElementOfSeq
<1>3. \A i \in Rank(d, lo - 1) + 1 .. Rank(d, hi) : d[i] \in Int
  BY <1>1, <1>2
<1>4. SubSeq(d, Rank(d, lo - 1) + 1, Rank(d, hi)) \in Seq(Int)
  BY <1>1, <1>2, <1>3, SubSeqProperties
<1> QED BY <1>4 DEF rangeQuery

-----------------------------------------------------------------------------
(* Order                                                                   *)

(* In a sorted treap the values up to v are the first Rank(d, v).          *)
LEMMA RankSplits ==
    ASSUME NEW d \in Seq(Int), NEW v \in Int, Sorted(d), NEW i \in 1 .. Len(d)
    PROVE  d[i] <= v <=> i <= Rank(d, v)
<1> DEFINE S == {j \in 1 .. Len(d) : d[j] <= v}
<1>1. Len(d) \in Nat /\ \A j \in 1 .. Len(d) : d[j] \in Int
  BY LenProperties, ElementOfSeq
<1>2. IsFiniteSet(1 .. Len(d))
  BY <1>1, FS_Interval
<1>3. S \in SUBSET (1 .. Len(d))
  OBVIOUS
<1>4. IsFiniteSet(S) /\ Cardinality(S) \in Nat
  <2> HIDE DEF S
  <2> QED BY <1>2, <1>3, FS_Subset, FS_CardinalityType
<1>5. Rank(d, v) = Cardinality(S)
  BY DEF Rank
<1>6. ASSUME d[i] <= v PROVE i <= Cardinality(S)
  <2>1. 1 .. i \in SUBSET S
    BY <1>1, <1>6 DEF Sorted
  <2> HIDE DEF S
  <2>2. Cardinality(1 .. i) = i
    <3>1. Cardinality(1 .. i) = IF 1 > i THEN 0 ELSE i - 1 + 1
      BY FS_Interval
    <3> QED BY <1>1, <3>1
  <2>3. Cardinality(1 .. i) <= Cardinality(S)
    BY <1>4, <2>1, FS_Subset
  <2> QED BY <2>2, <2>3
<1>7. ASSUME ~(d[i] <= v) PROVE Cardinality(S) < i
  <2>1. S \in SUBSET (1 .. i - 1)
    BY <1>1, <1>7 DEF Sorted
  <2> HIDE DEF S
  <2>2. IsFiniteSet(1 .. i - 1) /\ Cardinality(1 .. i - 1) = i - 1
    <3>1. /\ IsFiniteSet(1 .. i - 1)
          /\ Cardinality(1 .. i - 1) = IF 1 > i - 1 THEN 0 ELSE i - 1 - 1 + 1
      BY FS_Interval
    <3> QED BY <1>1, <3>1
  <2>3. Cardinality(S) <= Cardinality(1 .. i - 1)
    BY <2>1, <2>2, FS_Subset
  <2> QED BY <1>1, <1>4, <2>2, <2>3
<1> HIDE DEF S
<1> QED BY <1>1, <1>4, <1>5, <1>6, <1>7

(* The parts of a sequence before and behind a place.                      *)
LEMMA Parts ==
    ASSUME NEW d \in Seq(Int), NEW n \in 0 .. Len(d)
    PROVE  /\ SubSeq(d, 1, n) \in Seq(Int) /\ Len(SubSeq(d, 1, n)) = n
           /\ \A i \in 1 .. n : SubSeq(d, 1, n)[i] = d[i]
           /\ SubSeq(d, n + 1, Len(d)) \in Seq(Int) /\ Len(SubSeq(d, n + 1, Len(d))) = Len(d) - n
           /\ \A i \in 1 .. Len(d) - n : SubSeq(d, n + 1, Len(d))[i] = d[n + i]
<1> DEFINE front == SubSeq(d, 1, n)
           back == SubSeq(d, n + 1, Len(d))
<1>1. Len(d) \in Nat /\ \A i \in 1 .. Len(d) : d[i] \in Int
  BY LenProperties, ElementOfSeq
<1>2. /\ front \in Seq(Int) /\ Len(front) = IF 1 <= n THEN n - 1 + 1 ELSE 0
      /\ \A i \in 1 .. n - 1 + 1 : front[i] = d[1 + i - 1]
  BY <1>1, SubSeqProperties
<1>3. /\ back \in Seq(Int) /\ Len(back) = IF n + 1 <= Len(d) THEN Len(d) - (n + 1) + 1 ELSE 0
      /\ \A i \in 1 .. Len(d) - (n + 1) + 1 : back[i] = d[(n + 1) + i - 1]
  BY <1>1, SubSeqProperties
<1> HIDE DEF front, back
<1>4. Len(front) = n
  <2>1. Len(front) = IF 1 <= n THEN n - 1 + 1 ELSE 0
    BY <1>2
  <2> QED BY <1>1, <2>1
<1>5. ASSUME NEW i \in 1 .. n PROVE front[i] = d[i]
  <2>1. i \in 1 .. n - 1 + 1 /\ 1 + i - 1 = i
    BY <1>1
  <2> QED BY <1>2, <2>1
<1>6. Len(back) = Len(d) - n
  <2>1. Len(back) = IF n + 1 <= Len(d) THEN Len(d) - (n + 1) + 1 ELSE 0
    BY <1>3
  <2> QED BY <1>1, <2>1
<1>7. ASSUME NEW i \in 1 .. Len(d) - n PROVE back[i] = d[n + i]
  <2>1. i \in 1 .. Len(d) - (n + 1) + 1 /\ (n + 1) + i - 1 = n + i
    BY <1>1
  <2> QED BY <1>3, <2>1
<1> QED BY <1>2, <1>3, <1>4, <1>5, <1>6, <1>7 DEF front, back

(* Where each value is after an insert.                                    *)
LEMMA InsertPlaces ==
    ASSUME NEW d \in Seq(Int), NEW v \in Int
    PROVE  LET e == immutableInsert(d, v)
               r == Rank(d, v)
           IN  \A i \in 1 .. Len(d) + 1 :
                   e[i] = IF i <= r THEN d[i] ELSE IF i = r + 1 THEN v ELSE d[i - 1]
<1> DEFINE r == Rank(d, v)
           front == SubSeq(d, 1, r)
           back == SubSeq(d, r + 1, Len(d))
           one == <<v>>
<1>1. Len(d) \in Nat /\ r \in 0 .. Len(d)
  BY LenProperties, RankBounds
<1>3. immutableInsert(d, v) = (SubSeq(d, 1, (r + 1) - 1) \o <<v>>) \o SubSeq(d, r + 1, Len(d))
  BY DEF immutableInsert, InsertAt
<1> HIDE DEF r
<1>4. front \in Seq(Int) /\ Len(front) = r /\ \A i \in 1 .. r : front[i] = d[i]
  BY <1>1, Parts
<1>5. /\ back \in Seq(Int) /\ Len(back) = Len(d) - r
      /\ \A i \in 1 .. Len(d) - r : back[i] = d[r + i]
  BY <1>1, Parts
<1>6. one \in Seq(Int) /\ Len(one) = 1 /\ one[1] = v
  OBVIOUS
<1> HIDE DEF front, back, one
<1>7. /\ front \o one \in Seq(Int) /\ Len(front \o one) = Len(front) + Len(one)
      /\ \A i \in 1 .. Len(front) + Len(one) :
            (front \o one)[i] = IF i <= Len(front) THEN front[i] ELSE one[i - Len(front)]
  BY <1>4, <1>6, ConcatProperties
<1>8. \A i \in 1 .. Len(front \o one) + Len(back) :
        ((front \o one) \o back)[i] =
            IF i <= Len(front \o one) THEN (front \o one)[i] ELSE back[i - Len(front \o one)]
  BY <1>5, <1>7, ConcatProperties
<1>9. immutableInsert(d, v) = (front \o one) \o back
  <2>1. (r + 1) - 1 = r
    BY <1>1
  <2> QED BY <1>3, <2>1 DEF front, back, one
<1>10. ASSUME NEW i \in 1 .. Len(d) + 1
       PROVE  ((front \o one) \o back)[i] =
                IF i <= r THEN d[i] ELSE IF i = r + 1 THEN v ELSE d[i - 1]
  <2>1. /\ Len(front \o one) = r + 1 /\ i \in 1 .. Len(front \o one) + Len(back)
        /\ i <= r + 1 => i \in 1 .. Len(front) + Len(one)
    BY <1>1, <1>4, <1>5, <1>6, <1>7
  <2>2. ((front \o one) \o back)[i] = IF i <= r + 1 THEN (front \o one)[i] ELSE back[i - (r + 1)]
    BY <1>8, <2>1
  <2>3. CASE i <= r
    <3>1. i <= r + 1 /\ i \in 1 .. r
      BY <1>1, <2>3
    <3>2. (front \o one)[i] = front[i]
      BY <1>4, <1>7, <2>1, <2>3, <3>1
    <3> QED BY <1>4, <2>2, <2>3, <3>1, <3>2
  <2>4. CASE i = r + 1
    <3>1. ~(i <= r) /\ i <= r + 1 /\ i - r = 1
      BY <1>1, <2>4
    <3>2. (front \o one)[i] = one[i - r]
      BY <1>4, <1>7, <2>1, <3>1
    <3> QED BY <1>6, <2>2, <2>4, <3>1, <3>2
  <2>5. CASE ~(i <= r) /\ i /= r + 1
    <3>1. ~(i <= r + 1) /\ i - (r + 1) \in 1 .. Len(d) - r /\ r + (i - (r + 1)) = i - 1
      BY <1>1, <2>5
    <3> QED BY <1>5, <2>2, <2>5, <3>1
  <2> QED BY <2>3, <2>4, <2>5
<1> QED BY <1>9, <1>10 DEF r

(* An insert keeps the order and adds the value to those that are there.   *)
LEMMA InsertSorted ==
    ASSUME NEW d \in Seq(Int), NEW v \in Int, Sorted(d)
    PROVE  /\ Sorted(immutableInsert(d, v))
           /\ ToSet(immutableInsert(d, v)) = ToSet(d) \cup {v}
<1> DEFINE e == immutableInsert(d, v)
           r == Rank(d, v)
<1>1. Len(d) \in Nat /\ r \in 0 .. Len(d) /\ \A i \in 1 .. Len(d) : d[i] \in Int
  BY LenProperties, RankBounds, ElementOfSeq
<1>2. \A i \in 1 .. Len(d) : d[i] <= v <=> i <= r
  BY RankSplits
<1>3. e \in Seq(Int) /\ Len(e) = Len(d) + 1
  BY InsertLength
<1>4. \A i \in 1 .. Len(d) + 1 : e[i] = IF i <= r THEN d[i] ELSE IF i = r + 1 THEN v ELSE d[i - 1]
  BY InsertPlaces
<1> HIDE DEF e, r
<1>5. Sorted(e)
  <2> SUFFICES ASSUME NEW i \in 1 .. Len(d) + 1, NEW j \in 1 .. Len(d) + 1, i <= j PROVE e[i] <= e[j]
    BY <1>3 DEF Sorted
  <2>1. \A k \in 1 .. Len(d) + 1 :
            /\ k <= r => k \in 1 .. Len(d)
            /\ ~(k <= r) /\ k /= r + 1 => k - 1 \in 1 .. Len(d) /\ ~(k - 1 <= r)
    BY <1>1
  <2>2. CASE j <= r
    <3>1. i <= r
      BY <1>1, <2>2
    <3> QED BY <1>4, <2>1, <2>2, <3>1 DEF Sorted
  <2>3. CASE j = r + 1
    <3>1. i <= r => e[i] <= v
      BY <1>2, <1>4, <2>1
    <3>2. ~(i <= r) => i = j
      BY <1>1, <2>3
    <3>3. ~(j <= r)
      BY <1>1, <2>3
    <3>4. e[j] = v
      BY <1>4, <2>3, <3>3
    <3> QED BY <3>1, <3>2, <3>4
  <2>4. CASE ~(j <= r) /\ j /= r + 1
    <3>1. e[j] = d[j - 1] /\ j - 1 \in 1 .. Len(d) /\ ~(j - 1 <= r) /\ d[j - 1] \in Int
      BY <1>1, <1>4, <2>1, <2>4
    <3>2. ~(d[j - 1] <= v)
      BY <1>2, <3>1
    <3>3. CASE i <= r
      <4>1. e[i] = d[i] /\ i \in 1 .. Len(d) /\ d[i] <= v /\ d[i] \in Int
        BY <1>1, <1>2, <1>4, <2>1, <3>3
      <4> QED BY <3>1, <3>2, <4>1
    <3>4. CASE i = r + 1
      <4>1. e[i] = v
        BY SMTT(30), <1>1, <1>4, <3>4
      <4> QED BY <3>1, <3>2, <4>1
    <3>5. CASE ~(i <= r) /\ i /= r + 1
      <4>1. e[i] = d[i - 1] /\ i - 1 \in 1 .. Len(d) /\ i - 1 <= j - 1
        BY <1>1, <1>4, <2>1, <3>5
      <4> QED BY <3>1, <4>1 DEF Sorted
    <3> QED BY <3>3, <3>4, <3>5
  <2> QED BY <2>2, <2>3, <2>4
<1>6. ASSUME NEW x PROVE x \in ToSet(e) <=> x \in ToSet(d) \cup {v}
  <2>1. DOMAIN d = 1 .. Len(d) /\ DOMAIN e = 1 .. Len(e)
    BY <1>3
  <2>2. ASSUME x \in ToSet(e) PROVE x \in ToSet(d) \cup {v}
    <3>1. PICK i \in 1 .. Len(d) + 1 : x = e[i]
      BY <1>3, <2>1, <2>2 DEF ToSet
    <3>2. i <= r => i \in 1 .. Len(d)
      BY <1>1
    <3>3. ~(i <= r) /\ i /= r + 1 => i - 1 \in 1 .. Len(d)
      BY <1>1
    <3> QED BY <1>4, <2>1, <3>1, <3>2, <3>3 DEF ToSet
  <2>3. r + 1 \in 1 .. Len(d) + 1 /\ e[r + 1] = v
    BY <1>1, <1>4
  <2>4. ASSUME NEW i \in 1 .. Len(d), x = d[i] PROVE x \in ToSet(e)
    <3>1. CASE i <= r
      <4>1. e[i] = x /\ i \in 1 .. Len(d) + 1
        BY <1>1, <1>4, <2>4, <3>1
      <4> QED BY <1>3, <2>1, <4>1 DEF ToSet
    <3>2. CASE ~(i <= r)
      <4>1. e[i + 1] = x /\ i + 1 \in 1 .. Len(d) + 1
        BY <1>1, <1>4, <2>4, <3>2
      <4> QED BY <1>3, <2>1, <4>1 DEF ToSet
    <3> QED BY <3>1, <3>2
  <2> QED BY <1>3, <2>1, <2>2, <2>3, <2>4 DEF ToSet
<1> QED BY <1>5, <1>6 DEF e

(* A copy of v that a sorted treap has is at the place of its rank.        *)
LEMMA RankHolds ==
    ASSUME NEW d \in Seq(Int), NEW v \in Int, Sorted(d), contains(d, v)
    PROVE  Rank(d, v) \in 1 .. Len(d) /\ d[Rank(d, v)] = v
<1>1. Rank(d, v) \in 1 .. Len(d)
  BY RankOfMember
<1>2. PICK j \in 1 .. Len(d) : d[j] = v
  BY DEF contains
<1>3. Len(d) \in Nat /\ \A i \in 1 .. Len(d) : d[i] \in Int
  BY LenProperties, ElementOfSeq
<1>4. \A i \in 1 .. Len(d) : d[i] <= v <=> i <= Rank(d, v)
  BY RankSplits
<1>5. j <= Rank(d, v) /\ d[Rank(d, v)] <= v
  BY <1>1, <1>2, <1>3, <1>4
<1>6. d[j] <= d[Rank(d, v)]
  BY <1>1, <1>2, <1>5 DEF Sorted
<1> QED BY <1>1, <1>2, <1>3, <1>5, <1>6

(* Where each value is after a remove.                                     *)
LEMMA RemovePlaces ==
    ASSUME NEW d \in Seq(Int), NEW v \in Int, contains(d, v)
    PROVE  LET e == immutableRemove(d, v)
           IN  /\ Len(e) = Len(d) - 1
               /\ \A i \in 1 .. Len(d) - 1 : e[i] = IF i < Rank(d, v) THEN d[i] ELSE d[i + 1]
<1> DEFINE r == Rank(d, v)
           front == SubSeq(d, 1, r - 1)
           back == SubSeq(d, r + 1, Len(d))
<1>1. Len(d) \in Nat /\ r \in 1 .. Len(d)
  BY LenProperties, RankOfMember
<1>3. immutableRemove(d, v) = front \o back
  BY DEF immutableRemove, RemoveAt
<1> HIDE DEF r
<1>4. front \in Seq(Int) /\ Len(front) = r - 1 /\ \A i \in 1 .. r - 1 : front[i] = d[i]
  <2>1. r - 1 \in 0 .. Len(d)
    BY <1>1
  <2> QED BY <2>1, Parts
<1>5. /\ back \in Seq(Int) /\ Len(back) = Len(d) - r
      /\ \A i \in 1 .. Len(d) - r : back[i] = d[r + i]
  <2>1. r \in 0 .. Len(d)
    BY <1>1
  <2> QED BY <2>1, Parts
<1> HIDE DEF front, back
<1>6. /\ Len(front \o back) = Len(front) + Len(back)
      /\ \A i \in 1 .. Len(front) + Len(back) :
            (front \o back)[i] = IF i <= Len(front) THEN front[i] ELSE back[i - Len(front)]
  BY <1>4, <1>5, ConcatProperties
<1>7. Len(front \o back) = Len(d) - 1
  BY <1>1, <1>4, <1>5, <1>6
<1>8. ASSUME NEW i \in 1 .. Len(d) - 1
      PROVE  (front \o back)[i] = IF i < r THEN d[i] ELSE d[i + 1]
  <2>1. i <= r - 1 <=> i < r
    BY <1>1
  <2>2. ~(i < r) => i - (r - 1) \in 1 .. Len(d) - r /\ r + (i - (r - 1)) = i + 1
    BY <1>1
  <2>3. Len(front) = r - 1 /\ i \in 1 .. Len(front) + Len(back)
    BY <1>1, <1>4, <1>5
  <2>4. (front \o back)[i] = IF i < r THEN front[i] ELSE back[i - (r - 1)]
    BY <1>6, <2>1, <2>3
  <2>5. CASE i < r
    <3>1. i \in 1 .. r - 1
      BY <1>1, <2>5
    <3> QED BY <1>4, <2>4, <2>5, <3>1
  <2>6. CASE ~(i < r)
    BY <1>5, <2>2, <2>4, <2>6
  <2> QED BY <2>5, <2>6
<1> QED BY <1>3, <1>7, <1>8 DEF r

(* A remove keeps the order and adds no value.                             *)
LEMMA RemoveSorted ==
    ASSUME NEW d \in Seq(Int), NEW v \in Int, Sorted(d)
    PROVE  /\ Sorted(immutableRemove(d, v))
           /\ ToSet(immutableRemove(d, v)) \subseteq ToSet(d)
<1> DEFINE e == immutableRemove(d, v)
<1>1. CASE contains(d, v)
  <2>1. Len(d) \in Nat /\ \A i \in 1 .. Len(d) : d[i] \in Int
    BY LenProperties, ElementOfSeq
  <2>2. Rank(d, v) \in 1 .. Len(d)
    BY <1>1, RankOfMember
  <2>3. /\ Len(e) = Len(d) - 1
        /\ \A i \in 1 .. Len(d) - 1 : e[i] = IF i < Rank(d, v) THEN d[i] ELSE d[i + 1]
    BY <1>1, RemovePlaces
  <2>4. e \in Seq(Int)
    BY RemoveLength
  <2> HIDE DEF e
  <2>5. Sorted(e)
    <3> SUFFICES ASSUME NEW i \in 1 .. Len(d) - 1, NEW j \in 1 .. Len(d) - 1, i <= j PROVE e[i] <= e[j]
      BY <2>3 DEF Sorted
    <3>1. \A k \in 1 .. Len(d) - 1 : k \in 1 .. Len(d) /\ k + 1 \in 1 .. Len(d)
      BY <2>1
    <3>2. CASE j < Rank(d, v)
      <4>1. i < Rank(d, v)
        BY <2>2, <3>2
      <4> QED BY <2>3, <3>1, <3>2, <4>1 DEF Sorted
    <3>3. CASE ~(j < Rank(d, v)) /\ i < Rank(d, v)
      <4>1. i <= j + 1
        OBVIOUS
      <4> QED BY <2>3, <3>1, <3>3, <4>1 DEF Sorted
    <3>4. CASE ~(j < Rank(d, v)) /\ ~(i < Rank(d, v))
      <4>1. i + 1 <= j + 1
        OBVIOUS
      <4> QED BY <2>3, <3>1, <3>4, <4>1 DEF Sorted
    <3> QED BY <3>2, <3>3, <3>4
  <2>6. \A i \in 1 .. Len(d) - 1 : \E j \in 1 .. Len(d) : e[i] = d[j]
    <3> TAKE i \in 1 .. Len(d) - 1
    <3>1. i \in 1 .. Len(d) /\ i + 1 \in 1 .. Len(d)
      BY <2>1
    <3> QED BY <2>3, <3>1
  <2>7. DOMAIN d = 1 .. Len(d) /\ DOMAIN e = 1 .. Len(d) - 1
    BY <2>3, <2>4
  <2>8. ToSet(e) \subseteq ToSet(d)
    <3> SUFFICES ASSUME NEW i \in 1 .. Len(d) - 1 PROVE e[i] \in ToSet(d)
      BY <2>7 DEF ToSet
    <3>1. PICK j \in 1 .. Len(d) : e[i] = d[j]
      BY <2>6
    <3> QED BY <2>7, <3>1 DEF ToSet
  <2> QED BY <2>5, <2>8 DEF e
<1>2. CASE ~contains(d, v)
  BY <1>2 DEF immutableRemove
<1> QED BY <1>1, <1>2

(* A split divides the values at v and keeps their order.                  *)
LEMMA SplitSorted ==
    ASSUME NEW d \in Seq(Int), NEW v \in Int, Sorted(d)
    PROVE  LET left == splitLeft(d, v)
               right == splitRight(d, v)
           IN  /\ Sorted(left) /\ Sorted(right)
               /\ Len(left) = Rank(d, v) /\ Len(right) = Len(d) - Rank(d, v)
               /\ \A i \in 1 .. Len(left) : left[i] = d[i] /\ left[i] <= v
               /\ \A i \in 1 .. Len(right) : right[i] = d[Rank(d, v) + i] /\ right[i] > v
<1> DEFINE r == Rank(d, v)
           left == splitLeft(d, v)
           right == splitRight(d, v)
<1>1. Len(d) \in Nat /\ r \in 0 .. Len(d)
  BY LenProperties, RankBounds
<1>2. \A i \in 1 .. Len(d) : d[i] \in Int
  BY ElementOfSeq
<1>3. \A i \in 1 .. Len(d) : d[i] <= v <=> i <= r
  BY RankSplits
<1>4. left = SubSeq(d, 1, r) /\ right = SubSeq(d, r + 1, Len(d))
  BY DEF splitLeft, splitRight
<1> HIDE DEF r, left, right
<1>5. left \in Seq(Int) /\ Len(left) = r /\ \A i \in 1 .. r : left[i] = d[i]
  BY <1>1, <1>4, Parts
<1>6. right \in Seq(Int) /\ Len(right) = Len(d) - r /\ \A i \in 1 .. Len(d) - r : right[i] = d[r + i]
  BY <1>1, <1>4, Parts
<1>7. \A i \in 1 .. r : i \in 1 .. Len(d)
  BY <1>1
<1>8. \A i \in 1 .. Len(d) - r : r + i \in 1 .. Len(d) /\ ~(r + i <= r)
  BY <1>1
<1>9. Sorted(left)
  BY <1>1, <1>5, <1>7 DEF Sorted
<1>10. Sorted(right)
  <2> SUFFICES ASSUME NEW i \in 1 .. Len(right), NEW j \in 1 .. Len(right), i <= j
               PROVE  right[i] <= right[j]
    BY DEF Sorted
  <2>1. r + i <= r + j
    BY <1>1, <1>6
  <2> QED BY <1>6, <1>8, <2>1 DEF Sorted
<1>11. \A i \in 1 .. Len(left) : left[i] = d[i] /\ left[i] <= v
  BY <1>1, <1>3, <1>5, <1>7
<1>12. ASSUME NEW i \in 1 .. Len(right) PROVE right[i] = d[r + i] /\ right[i] > v
  <2>1. right[i] = d[r + i] /\ r + i \in 1 .. Len(d) /\ ~(r + i <= r)
    BY <1>6, <1>8
  <2>2. d[r + i] \in Int /\ ~(d[r + i] <= v)
    BY <1>2, <1>3, <2>1
  <2> QED BY <2>1, <2>2
<1> QED BY <1>5, <1>6, <1>9, <1>10, <1>11, <1>12 DEF r, left, right

(* A merge keeps the order if all of the left values are up to the right   *)
(* ones.                                                                   *)
LEMMA MergeSorted ==
    ASSUME NEW d \in Seq(Int), NEW e \in Seq(Int), Sorted(d), Sorted(e),
           \A i \in 1 .. Len(d), j \in 1 .. Len(e) : d[i] <= e[j]
    PROVE  Sorted(merge(d, e)) /\ ToSet(merge(d, e)) = ToSet(d) \cup ToSet(e)
<1> DEFINE m == merge(d, e)
<1>1. Len(d) \in Nat /\ Len(e) \in Nat
  BY LenProperties
<1>2. /\ m \in Seq(Int) /\ Len(m) = Len(d) + Len(e)
      /\ \A i \in 1 .. Len(d) + Len(e) : m[i] = IF i <= Len(d) THEN d[i] ELSE e[i - Len(d)]
  BY ConcatProperties DEF merge
<1> HIDE DEF m
<1>3. \A i \in 1 .. Len(m) :
        /\ i <= Len(d) => i \in 1 .. Len(d) /\ m[i] = d[i]
        /\ ~(i <= Len(d)) => i - Len(d) \in 1 .. Len(e) /\ m[i] = e[i - Len(d)]
  BY <1>1, <1>2
<1>4. Sorted(m)
  <2> SUFFICES ASSUME NEW i \in 1 .. Len(m), NEW j \in 1 .. Len(m), i <= j PROVE m[i] <= m[j]
    BY DEF Sorted
  <2>1. CASE j <= Len(d)
    <3>1. i <= Len(d)
      BY <1>1, <1>2, <2>1
    <3> QED BY <1>3, <2>1, <3>1 DEF Sorted
  <2>2. CASE ~(i <= Len(d))
    <3>1. ~(j <= Len(d)) /\ i - Len(d) <= j - Len(d)
      BY <1>1, <1>2, <2>2
    <3> QED BY <1>3, <2>2, <3>1 DEF Sorted
  <2>3. CASE i <= Len(d) /\ ~(j <= Len(d))
    BY <1>3, <2>3
  <2> QED BY <2>1, <2>2, <2>3
<1>5. DOMAIN d = 1 .. Len(d) /\ DOMAIN e = 1 .. Len(e) /\ DOMAIN m = 1 .. Len(m)
  BY <1>2
<1>6. ToSet(m) \subseteq ToSet(d) \cup ToSet(e)
  BY <1>3, <1>5 DEF ToSet
<1>7. ToSet(d) \subseteq ToSet(m)
  <2>1. \A i \in 1 .. Len(d) : i \in 1 .. Len(m) /\ m[i] = d[i]
    BY <1>1, <1>2
  <2> QED BY <1>5, <2>1 DEF ToSet
<1>8. ToSet(e) \subseteq ToSet(m)
  <2>1. \A i \in 1 .. Len(e) : i + Len(d) \in 1 .. Len(m) /\ m[i + Len(d)] = e[i]
    <3> TAKE i \in 1 .. Len(e)
    <3>1. i + Len(d) \in 1 .. Len(d) + Len(e) /\ ~(i + Len(d) <= Len(d)) /\ (i + Len(d)) - Len(d) = i
      BY <1>1
    <3>2. m[i + Len(d)] = e[(i + Len(d)) - Len(d)]
      BY <1>2, <3>1
    <3> QED BY <1>2, <3>1, <3>2
  <2> QED BY <1>5, <2>1 DEF ToSet
<1> QED BY <1>4, <1>6, <1>7, <1>8 DEF m

-----------------------------------------------------------------------------
(* Copies are counted by finite sets of places.                            *)
LEMMA CopiesCount ==
    ASSUME NEW d \in Seq(Int), NEW v
    PROVE  /\ IsFiniteSet(Positions(d, v)) /\ Copies(d, v) \in Nat
           /\ Copies(d, v) = 0 <=> \A i \in 1 .. Len(d) : d[i] /= v
<1> DEFINE S == Positions(d, v)
<1>1. S \in SUBSET (1 .. Len(d)) /\ (S = {} <=> \A i \in 1 .. Len(d) : d[i] /= v)
  BY DEF Positions
<1>2. IsFiniteSet(1 .. Len(d))
  <2>1. Len(d) \in Nat
    BY LenProperties
  <2> QED BY <2>1, FS_Interval
<1> HIDE DEF S
<1>3. IsFiniteSet(S)
  BY <1>1, <1>2, FS_Subset
<1>4. Cardinality(S) \in Nat /\ (Cardinality(S) = 0 <=> S = {})
  BY <1>3, FS_CardinalityType, FS_EmptySet
<1>5. Copies(d, v) = Cardinality(S)
  BY DEF Copies, S
<1> QED BY <1>1, <1>3, <1>4, <1>5 DEF S

(* As many of places that are moved by n.                                  *)
LEMMA CopiesOfNone ==
    ASSUME NEW v
    PROVE  Copies(<<>>, v) = 0
<1> DEFINE e == <<>>
<1>1. e \in Seq(Int) /\ \A i \in 1 .. Len(e) : FALSE
  OBVIOUS
<1> HIDE DEF e
<1>2. Copies(e, v) = 0
  BY <1>1, CopiesCount
<1> QED BY <1>2 DEF e

LEMMA MovedCount ==
    ASSUME NEW S \in SUBSET Nat, IsFiniteSet(S), NEW n \in Nat
    PROVE  LET T == {i + n : i \in S} IN IsFiniteSet(T) /\ Cardinality(T) = Cardinality(S)
<1> DEFINE T == {i + n : i \in S}
           f == [i \in S |-> i + n]
<1>1. f \in [S -> T] /\ (\A i, j \in S : f[i] = f[j] => i = j) /\ (\A y \in T : \E i \in S : f[i] = y)
  OBVIOUS
<1>2. f \in Bijection(S, T)
  BY <1>1 DEF Bijection, Injection, Surjection, IsInjective
<1>3. ExistsBijection(S, T)
  BY <1>2 DEF ExistsBijection
<1> HIDE DEF T
<1>4. IsFiniteSet(T) /\ Cardinality(T) = Cardinality(S)
  BY <1>3, FS_Bijection
<1> QED BY <1>4 DEF T

LEMMA CopiesConcat ==
    ASSUME NEW a \in Seq(Int), NEW b \in Seq(Int), NEW v
    PROVE  Copies(a \o b, v) = Copies(a, v) + Copies(b, v)
<1> DEFINE S == Positions(a, v)
           T == Positions(b, v)
           n == Len(a)
           U == {i + n : i \in T}
<1>1. n \in Nat /\ Len(b) \in Nat
  BY LenProperties
<1>2. /\ Len(a \o b) = n + Len(b)
      /\ \A i \in 1 .. n + Len(b) : (a \o b)[i] = IF i <= n THEN a[i] ELSE b[i - n]
  BY ConcatProperties
<1>3. IsFiniteSet(S) /\ IsFiniteSet(T) /\ Cardinality(S) \in Nat /\ Cardinality(T) \in Nat
  <2>1. Cardinality(S) = Copies(a, v) /\ Cardinality(T) = Copies(b, v)
    BY DEF Copies
  <2> QED BY <2>1, CopiesCount
<1>4. T \in SUBSET Nat
  BY <1>1 DEF Positions
<1>5. Positions(a \o b, v) = S \cup U
  <2>1. ASSUME NEW i \in Positions(a \o b, v) PROVE i \in S \cup U
    <3>1. i \in 1 .. n + Len(b) /\ (a \o b)[i] = v
      BY <1>2 DEF Positions
    <3>2. CASE i <= n
      BY <1>1, <1>2, <3>1, <3>2 DEF Positions
    <3>3. CASE ~(i <= n)
      <4>1. i - n \in T /\ i = (i - n) + n
        BY <1>1, <1>2, <3>1, <3>3 DEF Positions
      <4> QED BY <4>1
    <3> QED BY <3>2, <3>3
  <2>2. ASSUME NEW i \in S PROVE i \in Positions(a \o b, v)
    <3>1. i \in 1 .. n + Len(b) /\ i <= n /\ a[i] = v
      BY <1>1 DEF Positions
    <3> QED BY <1>2, <3>1 DEF Positions
  <2>3. ASSUME NEW j \in T PROVE j + n \in Positions(a \o b, v)
    <3>1. j + n \in 1 .. n + Len(b) /\ ~(j + n <= n) /\ (j + n) - n = j /\ b[j] = v
      BY <1>1 DEF Positions
    <3>2. (a \o b)[j + n] = b[(j + n) - n]
      BY <1>2, <3>1
    <3> QED BY <1>2, <3>1, <3>2 DEF Positions
  <2> QED BY <2>1, <2>2, <2>3
<1>6. S \cap U = {}
  BY <1>1 DEF Positions
<1> HIDE DEF S, T, n
<1>7. IsFiniteSet(U) /\ Cardinality(U) = Cardinality(T)
  BY <1>1, <1>3, <1>4, MovedCount
<1> HIDE DEF U
<1>8. Cardinality(S \cup U) = Cardinality(S) + Cardinality(U) - Cardinality(S \cap U)
  BY <1>3, <1>7, FS_Union
<1>9. Cardinality(S \cap U) = 0
  BY <1>6, FS_EmptySet
<1>10. Cardinality(S \cup U) = Cardinality(S) + Cardinality(T)
  BY <1>3, <1>7, <1>8, <1>9
<1> QED BY <1>5, <1>10 DEF Copies, S, T

(* A sequence is the part up to a place and the part behind it.            *)
LEMMA PartsJoined ==
    ASSUME NEW d \in Seq(Int), NEW n \in 0 .. Len(d)
    PROVE  d = SubSeq(d, 1, n) \o SubSeq(d, n + 1, Len(d))
<1> DEFINE a == SubSeq(d, 1, n)
           b == SubSeq(d, n + 1, Len(d))
<1>1. /\ a \in Seq(Int) /\ Len(a) = n /\ \A i \in 1 .. n : a[i] = d[i]
      /\ b \in Seq(Int) /\ Len(b) = Len(d) - n /\ \A i \in 1 .. Len(d) - n : b[i] = d[n + i]
  BY Parts
<1> HIDE DEF a, b
<1>2. /\ a \o b \in Seq(Int) /\ Len(a \o b) = Len(a) + Len(b)
      /\ \A i \in 1 .. Len(a) + Len(b) : (a \o b)[i] = IF i <= Len(a) THEN a[i] ELSE b[i - Len(a)]
  BY <1>1, ConcatProperties
<1>3. Len(d) \in Nat
  BY LenProperties
<1>4. Len(a \o b) = Len(d)
  BY <1>1, <1>2, <1>3
<1>5. ASSUME NEW i \in 1 .. Len(d) PROVE d[i] = (a \o b)[i]
  <2>1. (a \o b)[i] = IF i <= n THEN a[i] ELSE b[i - n]
    BY <1>1, <1>2, <1>4
  <2>2. i <= n => i \in 1 .. n
    BY <1>3
  <2>3. ~(i <= n) => i - n \in 1 .. Len(d) - n /\ n + (i - n) = i
    BY <1>3
  <2> QED BY <1>1, <2>1, <2>2, <2>3
<1>6. d = a \o b
  BY <1>2, <1>4, <1>5, SeqEqual
<1> QED BY <1>6 DEF a, b

LEMMA CopiesOfParts ==
    ASSUME NEW d \in Seq(Int), NEW n \in 0 .. Len(d), NEW v
    PROVE  Copies(d, v) = Copies(SubSeq(d, 1, n), v) + Copies(SubSeq(d, n + 1, Len(d)), v)
<1> DEFINE a == SubSeq(d, 1, n)
           b == SubSeq(d, n + 1, Len(d))
<1>1. a \in Seq(Int) /\ b \in Seq(Int)
  BY Parts
<1>2. d = a \o b
  BY PartsJoined
<1> HIDE DEF a, b
<1>3. Copies(d, v) = Copies(a, v) + Copies(b, v)
  BY <1>1, <1>2, CopiesConcat
<1> QED BY <1>3 DEF a, b

LEMMA CopiesInOne ==
    ASSUME NEW v \in Int, NEW w
    PROVE  <<v>> \in Seq(Int) /\ Copies(<<v>>, w) = IF w = v THEN 1 ELSE 0
<1>1. <<v>> \in Seq(Int) /\ Len(<<v>>) = 1 /\ <<v>>[1] = v
  OBVIOUS
<1>2. Positions(<<v>>, w) = IF w = v THEN {1} ELSE {}
  BY <1>1 DEF Positions
<1>3. Cardinality({1}) = 1 /\ Cardinality({}) = 0
  BY FS_Singleton, FS_EmptySet
<1> QED BY <1>1, <1>2, <1>3 DEF Copies

(* An insert adds a copy of its value and none of another.                 *)
LEMMA InsertCopies ==
    ASSUME NEW d \in Seq(Int), NEW v \in Int, NEW w
    PROVE  Copies(immutableInsert(d, v), w) = IF w = v THEN Copies(d, w) + 1 ELSE Copies(d, w)
<1> DEFINE r == Rank(d, v)
           a == SubSeq(d, 1, r)
           b == SubSeq(d, r + 1, Len(d))
           one == <<v>>
<1>1. r \in 0 .. Len(d)
  BY RankBounds
<1>2. immutableInsert(d, v) = (a \o one) \o b
  <2>1. (r + 1) - 1 = r
    <3>1. Len(d) \in Nat
      BY LenProperties
    <3> HIDE DEF r
    <3> QED BY <1>1, <3>1
  <2>2. immutableInsert(d, v) = (SubSeq(d, 1, (r + 1) - 1) \o <<v>>) \o SubSeq(d, r + 1, Len(d))
    BY DEF immutableInsert, InsertAt
  <2> QED BY <2>1, <2>2
<1> HIDE DEF r
<1>3. a \in Seq(Int) /\ b \in Seq(Int)
  BY <1>1, Parts
<1>4. Copies(d, w) = Copies(a, w) + Copies(b, w)
  BY <1>1, CopiesOfParts
<1>5. one \in Seq(Int) /\ Copies(one, w) = IF w = v THEN 1 ELSE 0
  BY CopiesInOne
<1> HIDE DEF a, b, one
<1>6. a \o one \in Seq(Int)
  BY <1>3, <1>5, ConcatProperties
<1>7. Copies((a \o one) \o b, w) = (Copies(a, w) + Copies(one, w)) + Copies(b, w)
  <2>1. Copies(a \o one, w) = Copies(a, w) + Copies(one, w)
    BY <1>3, <1>5, CopiesConcat
  <2>2. Copies((a \o one) \o b, w) = Copies(a \o one, w) + Copies(b, w)
    BY <1>3, <1>6, CopiesConcat
  <2> QED BY <2>1, <2>2
<1>8. Copies(a, w) \in Nat /\ Copies(b, w) \in Nat
  BY <1>3, CopiesCount
<1> QED BY <1>2, <1>4, <1>5, <1>7, <1>8

(* A remove takes away one copy of its value if there is any.              *)
LEMMA RemoveCopies ==
    ASSUME NEW d \in Seq(Int), NEW v \in Int, Sorted(d), NEW w
    PROVE  Copies(immutableRemove(d, v), w) =
               IF contains(d, v) /\ w = v THEN Copies(d, w) - 1 ELSE Copies(d, w)
<1>1. CASE contains(d, v)
  <2> DEFINE r == Rank(d, v)
             a == SubSeq(d, 1, r - 1)
             b == SubSeq(d, r + 1, Len(d))
             c == SubSeq(d, r, Len(d))
  <2>1. r \in 1 .. Len(d) /\ d[r] = v /\ Len(d) \in Nat
    BY <1>1, RankHolds, LenProperties
  <2>2. immutableRemove(d, v) = a \o b
    BY <1>1 DEF immutableRemove, RemoveAt
  <2> HIDE DEF r
  <2>3. r - 1 \in 0 .. Len(d) /\ (r - 1) + 1 = r /\ r \in 0 .. Len(d)
    BY <2>1
  <2>4. /\ a \in Seq(Int) /\ Copies(d, w) = Copies(a, w) + Copies(c, w)
        /\ c \in Seq(Int) /\ Len(c) = Len(d) - (r - 1) /\ \A i \in 1 .. Len(d) - (r - 1) : c[i] = d[(r - 1) + i]
    <3>1. /\ SubSeq(d, 1, r - 1) \in Seq(Int)
          /\ SubSeq(d, (r - 1) + 1, Len(d)) \in Seq(Int)
          /\ Len(SubSeq(d, (r - 1) + 1, Len(d))) = Len(d) - (r - 1)
          /\ \A i \in 1 .. Len(d) - (r - 1) : SubSeq(d, (r - 1) + 1, Len(d))[i] = d[(r - 1) + i]
      BY <2>3, Parts
    <3>2. Copies(d, w) = Copies(SubSeq(d, 1, r - 1), w) + Copies(SubSeq(d, (r - 1) + 1, Len(d)), w)
      BY <2>3, CopiesOfParts
    <3> QED BY <2>3, <3>1, <3>2
  <2>5. b \in Seq(Int) /\ Len(b) = Len(d) - r /\ \A i \in 1 .. Len(d) - r : b[i] = d[r + i]
    BY <2>3, Parts
  <2> DEFINE one == <<v>>
  <2>6. one \in Seq(Int) /\ Len(one) = 1 /\ one[1] = v /\ Copies(one, w) = IF w = v THEN 1 ELSE 0
    BY CopiesInOne
  <2> HIDE DEF a, b, c, one
  <2>7. /\ one \o b \in Seq(Int) /\ Len(one \o b) = Len(one) + Len(b)
        /\ \A i \in 1 .. Len(one) + Len(b) : (one \o b)[i] = IF i <= Len(one) THEN one[i] ELSE b[i - Len(one)]
    BY <2>5, <2>6, ConcatProperties
  <2>8. Len(one \o b) = Len(c)
    BY <2>1, <2>4, <2>5, <2>6, <2>7
  <2>9. ASSUME NEW i \in 1 .. Len(c) PROVE c[i] = (one \o b)[i]
    <3>1. (one \o b)[i] = IF i <= 1 THEN one[i] ELSE b[i - 1]
      BY <2>6, <2>7, <2>8
    <3>2. CASE i = 1
      <4>1. c[1] = d[(r - 1) + 1]
        BY <2>4, <3>2
      <4> QED BY <2>1, <2>3, <2>6, <3>1, <3>2, <4>1
    <3>3. CASE i /= 1
      <4>1. ~(i <= 1) /\ i - 1 \in 1 .. Len(d) - r /\ r + (i - 1) = (r - 1) + i /\ i \in 1 .. Len(d) - (r - 1)
        BY <2>1, <2>4, <3>3
      <4>2. b[i - 1] = d[r + (i - 1)] /\ c[i] = d[(r - 1) + i]
        BY <2>4, <2>5, <4>1
      <4> QED BY <3>1, <4>1, <4>2
    <3> QED BY <3>2, <3>3
  <2>10. c = one \o b
    BY <2>4, <2>7, <2>8, <2>9, SeqEqual
  <2>11. Copies(c, w) = Copies(one, w) + Copies(b, w) /\ Copies(a \o b, w) = Copies(a, w) + Copies(b, w)
    BY <2>4, <2>5, <2>6, <2>10, CopiesConcat
  <2>12. Copies(a, w) \in Nat /\ Copies(b, w) \in Nat
    BY <2>4, <2>5, CopiesCount
  <2> QED BY <1>1, <2>2, <2>4, <2>6, <2>11, <2>12
<1>2. CASE ~contains(d, v)
  BY <1>2 DEF immutableRemove
<1> QED BY <1>1, <1>2

(* Nothing is lost or doubled by a split, or by a merge.                   *)
LEMMA SplitCopies ==
    ASSUME NEW d \in Seq(Int), NEW v \in Int, NEW w
    PROVE  Copies(d, w) = Copies(splitLeft(d, v), w) + Copies(splitRight(d, v), w)
BY RankBounds, CopiesOfParts DEF splitLeft, splitRight

LEMMA MergeCopies ==
    ASSUME NEW d \in Seq(Int), NEW e \in Seq(Int), NEW w
    PROVE  Copies(merge(d, e), w) = Copies(d, w) + Copies(e, w)
BY CopiesConcat DEF merge

(* A range query gets all the copies of the values in its range.           *)
LEMMA RangeCopies ==
    ASSUME NEW d \in Seq(Int), Sorted(d), NEW lo \in Int, NEW hi \in Int, NEW v \in Int, lo <= v, v <= hi
    PROVE  Copies(rangeQuery(d, lo, hi), v) = Copies(d, v)
<1> DEFINE m == Rank(d, lo - 1)
           n == Rank(d, hi)
           a == SubSeq(d, 1, m)
           b == SubSeq(d, m + 1, n)
           c == SubSeq(d, n + 1, Len(d))
           ab == SubSeq(d, 1, n)
<1>1. Len(d) \in Nat /\ m \in 0 .. Len(d) /\ n \in 0 .. Len(d) /\ \A i \in 1 .. Len(d) : d[i] \in Int
  BY SMTT(30), LenProperties, RankBounds, ElementOfSeq
<1>2. \A i \in 1 .. Len(d) : (d[i] <= lo - 1 <=> i <= m) /\ (d[i] <= hi <=> i <= n)
  <2>1. lo - 1 \in Int
    OBVIOUS
  <2> QED BY <2>1, RankSplits
<1>3. rangeQuery(d, lo, hi) = b
  BY DEF rangeQuery
<1> HIDE DEF m, n
<1>4. m <= n
  <2> SUFFICES ASSUME n < m PROVE FALSE
    BY <1>1
  <2>1. m \in 1 .. Len(d) /\ ~(m <= n)
    BY <1>1
  <2>2. d[m] <= lo - 1 /\ ~(d[m] <= hi) /\ d[m] \in Int
    BY <1>1, <1>2, <2>1
  <2> QED BY <2>2
<1>5. /\ ab \in Seq(Int) /\ Len(ab) = n /\ \A i \in 1 .. n : ab[i] = d[i]
      /\ c \in Seq(Int) /\ Len(c) = Len(d) - n /\ \A i \in 1 .. Len(d) - n : c[i] = d[n + i]
  BY <1>1, Parts
<1>6. a \in Seq(Int) /\ Len(a) = m /\ \A i \in 1 .. m : a[i] = d[i]
  BY <1>1, Parts
<1>7. Copies(d, v) = Copies(ab, v) + Copies(c, v)
  BY <1>1, CopiesOfParts
<1>8. SubSeq(ab, 1, m) = a /\ SubSeq(ab, m + 1, Len(ab)) = b
  <2>1. b \in Seq(Int) /\ Len(b) = n - m /\ \A i \in 1 .. n - m : b[i] = d[m + i]
    <3>1. /\ b \in Seq(Int) /\ Len(b) = IF m + 1 <= n THEN n - (m + 1) + 1 ELSE 0
          /\ \A i \in 1 .. n - (m + 1) + 1 : b[i] = d[(m + 1) + i - 1]
      <4>1. \A i \in m + 1 .. n : d[i] \in Int
        BY <1>1
      <4> QED BY <1>1, <4>1, SubSeqProperties
    <3> HIDE DEF b
    <3>2. Len(b) = IF m + 1 <= n THEN n - (m + 1) + 1 ELSE 0
      BY <3>1
    <3>3. Len(b) = n - m
      BY <1>1, <1>4, <3>2
    <3>4. ASSUME NEW i \in 1 .. n - m PROVE b[i] = d[m + i]
      <4>1. i \in 1 .. n - (m + 1) + 1 /\ (m + 1) + i - 1 = m + i
        BY <1>1
      <4> QED BY <3>1, <4>1
    <3> QED BY <3>1, <3>3, <3>4
  <2>2. m \in 0 .. Len(ab)
    BY <1>1, <1>4, <1>5
  <2> DEFINE x == SubSeq(ab, 1, m)
             y == SubSeq(ab, m + 1, Len(ab))
  <2> HIDE DEF a, b, c, ab
  <2>3. /\ x \in Seq(Int) /\ Len(x) = m /\ \A i \in 1 .. m : x[i] = ab[i]
        /\ y \in Seq(Int) /\ Len(y) = Len(ab) - m /\ \A i \in 1 .. Len(ab) - m : y[i] = ab[m + i]
    BY <1>5, <2>2, Parts
  <2> HIDE DEF x, y
  <2>4. \A i \in 1 .. m : i \in 1 .. n
    BY <1>1, <1>4
  <2>5. \A i \in 1 .. n - m : m + i \in 1 .. n
    BY <1>1, <1>4
  <2>6. x = a
    <3>1. Len(x) = Len(a) /\ \A i \in 1 .. Len(x) : x[i] = a[i]
      BY <1>5, <1>6, <2>3, <2>4
    <3> QED BY <1>6, <2>3, <3>1, SeqEqual
  <2>7. y = b
    <3>1. Len(y) = Len(b)
      BY <1>5, <2>1, <2>3
    <3>2. ASSUME NEW i \in 1 .. Len(y) PROVE y[i] = b[i]
      <4>1. i \in 1 .. n - m /\ i \in 1 .. Len(ab) - m
        BY <1>5, <2>3
      <4>2. y[i] = ab[m + i] /\ ab[m + i] = d[m + i] /\ b[i] = d[m + i]
        BY <1>5, <2>1, <2>3, <2>5, <4>1
      <4> QED BY <4>2
    <3> QED BY <2>1, <2>3, <3>1, <3>2, SeqEqual
  <2> QED BY <2>6, <2>7 DEF x, y
<1>9. Copies(ab, v) = Copies(a, v) + Copies(b, v)
  <2>1. m \in 0 .. Len(ab)
    BY <1>1, <1>4, <1>5
  <2>2. Copies(ab, v) = Copies(SubSeq(ab, 1, m), v) + Copies(SubSeq(ab, m + 1, Len(ab)), v)
    <3> HIDE DEF a, b, c, ab
    <3> QED BY <1>5, <2>1, CopiesOfParts
  <2> HIDE DEF a, b, c, ab
  <2> QED BY <1>8, <2>2
<1>10. b \in Seq(Int)
  <2>1. m \in 0 .. Len(ab)
    BY <1>1, <1>4, <1>5
  <2>2. SubSeq(ab, m + 1, Len(ab)) \in Seq(Int)
    <3> HIDE DEF a, b, c, ab
    <3> QED BY <1>5, <2>1, Parts
  <2> QED BY <1>8, <2>2
<1> HIDE DEF a, b, c, ab
<1>11. Copies(a, v) = 0
  <2>1. \A i \in 1 .. m : i \in 1 .. Len(d) /\ i <= m
    BY <1>1
  <2>2. ASSUME NEW i \in 1 .. m PROVE a[i] /= v
    <3>1. d[i] <= lo - 1 /\ d[i] \in Int /\ a[i] = d[i]
      BY <1>1, <1>2, <1>6, <2>1
    <3> QED BY <3>1
  <2> QED BY <1>6, <2>2, CopiesCount
<1>12. Copies(c, v) = 0
  <2>1. \A i \in 1 .. Len(d) - n : n + i \in 1 .. Len(d) /\ ~(n + i <= n)
    BY <1>1
  <2>2. ASSUME NEW i \in 1 .. Len(d) - n PROVE c[i] /= v
    <3>1. ~(d[n + i] <= hi) /\ d[n + i] \in Int /\ c[i] = d[n + i]
      BY <1>1, <1>2, <1>5, <2>1
    <3> QED BY <3>1
  <2> QED BY <1>5, <2>2, CopiesCount
<1>13. Copies(b, v) \in Nat
  BY <1>10, CopiesCount
<1> QED BY <1>3, <1>7, <1>9, <1>11, <1>12, <1>13
=============================================================================
