---------------------------- MODULE TreapContents ----------------------------
(***************************************************************************)
(* What treaps promise (treap.h) to the trees: sorted sequences of values, *)
(* of which an insert or a remove changes one, a split makes two of one,   *)
(* and a merge one of two.                                                 *)
(***************************************************************************)
EXTENDS TreapSeq

CONSTANTS TREAP_NODES, Values

VARIABLES
    contents,   \* the values of each treap, in order
    key         \* the value at which a treap was split in two

vars == <<contents, key>>

Init == contents = << <<>> >> /\ key = 0

Side(val) == IF Len(contents) = 1 \/ val <= key THEN 1 ELSE 2

Insert(val) ==
    /\ Len(contents[Side(val)]) < TREAP_NODES
    /\ contents' = [contents EXCEPT ![Side(val)] = immutableInsert(@, val)]
    /\ UNCHANGED key

Delete(val) ==
    /\ contents' = [contents EXCEPT ![Side(val)] = immutableRemove(@, val)]
    /\ UNCHANGED key

Divide ==
    /\ Len(contents) = 1 /\ contents[1] /= <<>>
    /\ key' = getMedianVal(contents[1])
    /\ contents' = <<splitLeft(contents[1], key'), splitRight(contents[1], key')>>

Unite ==
    /\ Len(contents) = 2 /\ Len(contents[1]) + Len(contents[2]) <= TREAP_NODES
    /\ contents' = <<merge(contents[1], contents[2])>>
    /\ key' = 0

Next == Divide \/ Unite \/ \E val \in Values : Insert(val) \/ Delete(val)

Spec == Init /\ [][Next]_vars
=============================================================================
