------------------------------ MODULE TreapSeq ------------------------------
(***************************************************************************)
(* What the operations of class Treap (treap.h, treap.cpp) do to its       *)
(* contents.  A treap is represented by its in-order traversal: the        *)
(* sequence of its values, in ascending order, a value that was inserted   *)
(* twice occurring twice.  Node weights and array indices only decide the  *)
(* shape of the treap and are left out here.                               *)
(***************************************************************************)
EXTENDS Integers, Sequences, FiniteSets, SequencesExt

(* The number of nodes whose value is at most v.  bstInsert goes right on  *)
(* equal values, so this is also the position behind which v is inserted.  *)
Rank(d, v) == Cardinality({j \in 1 .. Len(d) : d[j] <= v})

contains(d, v) == \E j \in 1 .. Len(d) : d[j] = v

immutableInsert(d, v) == InsertAt(d, Rank(d, v) + 1, v)

(* Faulty: does not ask whether v is there.                                *)
immutableRemoveAny(d, v) == RemoveAt(d, Rank(d, v))

(* One copy of v is removed; a treap without v is copied unchanged.        *)
immutableRemove(d, v) ==
    IF contains(d, v) THEN RemoveAt(d, Rank(d, v)) ELSE d

getMaxValue(d) == d[Len(d)]

(* Faulty: keeps the values at lo out.                                     *)
rangeQueryAbove(d, lo, hi) == SubSeq(d, Rank(d, lo) + 1, Rank(d, hi))

(* Faulty: does not leave out what is below lo.                            *)
rangeQueryUpTo(d, lo, hi) == SubSeq(d, 1, Rank(d, hi))

(* The values from lo to hi.  The code lists them in an order that depends *)
(* on the treap's shape; what is returned counts as a set of nodes.        *)
rangeQuery(d, lo, hi) == SubSeq(d, Rank(d, lo - 1) + 1, Rank(d, hi))

(* (int)(x / 2.0): half of x, rounded towards zero.                        *)
Half(x) == IF x >= 0 THEN x \div 2 ELSE -((-x) \div 2)

(* Faulty: halves one of the two values only.                              *)
getMedianValSum(d) ==
    LET mid == Len(d) \div 2
    IN  IF Len(d) % 2 = 0 THEN Half(d[mid]) + d[mid + 1] ELSE d[mid + 1]

(* The even case casts only its first term: (int)(a / 2.0) + (b / 2.0) is  *)
(* a double that the return type then rounds towards zero.                 *)
getMedianVal(d) ==
    LET mid == Len(d) \div 2
    IN  IF Len(d) % 2 = 0
        THEN Half(2 * Half(d[mid]) + d[mid + 1])
        ELSE d[mid + 1]

(* The dummy node with value v ends up behind every value that is at most  *)
(* v, and is then rotated to the root: its subtrees are the two halves.    *)
splitLeft(d, v) == SubSeq(d, 1, Rank(d, v))
splitRight(d, v) == SubSeq(d, Rank(d, v) + 1, Len(d))

(* The dummy root is moved down to a leaf and cut off, which keeps the     *)
(* in-order sequence of the left treap followed by the right one.          *)
merge(left, right) == left \o right

Sorted(d) == \A i, j \in 1 .. Len(d) : i <= j => d[i] <= d[j]

(* How often a value is there.                                             *)
Positions(d, v) == {i \in 1 .. Len(d) : d[i] = v}
Copies(d, v) == Cardinality(Positions(d, v))

(* A split at the median would leave one side with all of the values.      *)
Unsplittable(d) == Rank(d, getMedianVal(d)) \in {0, Len(d)}
=============================================================================
