----------------------------- MODULE MrlockSafety -----------------------------
(***************************************************************************)
(* What must hold of the tree and of the threads in it, and the inductive  *)
(* invariant that it follows from.                                         *)
(***************************************************************************)
EXTENDS MrlockTree

Labels ==
    {"idle", "lock", "wait", "search", "split", "splitLeft", "splitRight", "merge",
     "query", "unlock", "unwind", "return", "failed"}

(* The types of what threads and calls keep outside of the nodes.          *)
VarsOK ==
    /\ isPreallocated \in BOOLEAN /\ numPreallocated \in 1 .. INT_MAX
    /\ currentElementIndex \in -INT_MAX - 1 .. INT_MAX
    /\ pc \in [Threads -> Labels]
    /\ call \in [Threads -> Calls \cup {NoCall}]
    /\ todo \in [Threads -> Seq(Calls)]
    /\ temp \in [Threads -> Nat] /\ tempParent \in [Threads -> Nat]
    /\ made \in [Threads -> Nat \X Nat]
    /\ nodesToCheck \in [Threads -> Seq(Nat)] /\ result \in [Threads -> Seq(Int)]
    /\ success \in [Threads -> BOOLEAN] /\ reply \in [Threads -> BOOLEAN]
    /\ nodeStack \in Seq(Nat)

(* The pointers that t may still follow.                                   *)
PointersOK(t) ==
    /\ pc[t] \in {"search", "split", "splitLeft", "splitRight", "merge"} => temp[t] \in DOMAIN nodes
    /\ tempParent[t] = null \/ tempParent[t] \in DOMAIN nodes
    /\ ToSet(nodesToCheck[t]) \subseteq DOMAIN nodes

(* Every variable holds values of its type, treaps fit and are sorted, and *)
(* a walk only uses nodes that have not been deleted.                      *)
TypeOK ==
    GoodNodes(nodes, TREAP_NODES) /\ VarsOK /\ \A t \in Threads : PointersOK(t)

(* Every value is in the base whose range it is in, after all the splits,  *)
(* merges and walks: nothing that a later call looks for is out of reach.  *)
ValuesInPlace == isPreallocated => InPlace(nodes)

Failed(t) == pc[t] \in {"unwind", "failed"}
Splitting(t) == pc[t] \in {"splitLeft", "splitRight"}

(* The nodes from which the others are reached: those of a split are not   *)
(* yet in the tree, and the destructor has those on its stack to delete.   *)
Heads == IF isPreallocated THEN {head} ELSE ToSet(nodeStack)
NewNodes == UNION {ToSet(made[t]) : t \in {u \in Threads : Splitting(u)}}

(* As long as nothing throws, every node that was made and not deleted is  *)
(* part of the tree: merges delete what they cut off, and the destructor   *)
(* deletes everything.                                                     *)
NodesAreReachable ==
    (\A t \in Threads : ~Failed(t)) => Below(nodes, Heads \cup NewNodes) = DOMAIN nodes

(* A call only throws if the array of treaps is used up, or for a full     *)
(* treap that no split could have divided.                                 *)
ThrowsForAReason ==
    \A t \in Threads : pc[t] = "unwind" =>
        \/ currentElementIndex > numPreallocated
        \/ call[t].op = "insert" /\ Unsplittable(BaseTreap(t))

-----------------------------------------------------------------------------
(* What a thread relies on at its label.                                   *)
Splits(t) == pc[t] = "split" \/ Splitting(t)

LocalOK(t) ==
    /\ pc[t] = "idle" <=> call[t] = NoCall
    /\ pc[t] /= "query" => nodesToCheck[t] = <<>>
    /\ ~InTree(t) => tempParent[t] = null
    /\ pc[t] = "search" =>
        /\ temp[t] \in Path(nodes, call[t].key)
        /\ call[t].op /= "rangeQuery"
        /\ tempParent[t] /= null =>
            tempParent[t] \in Routes(nodes) /\ temp[t] \in Children(nodes, tempParent[t])
    /\ Splits(t) =>
        /\ temp[t] \in Bases(nodes)
        /\ Len(nodes[temp[t]].treap) = TREAP_NODES
    /\ Splitting(t) =>
        /\ made[t][1] /= made[t][2]
        /\ ToSet(made[t]) \subseteq Bases(nodes) \ {head, temp[t]}
        /\ \A n \in ToSet(made[t]) : nodes[n].treap = <<>>
        /\ \A r \in Routes(nodes) : Children(nodes, r) \cap ToSet(made[t]) = {}
    /\ pc[t] = "merge" =>
        /\ tempParent[t] \in Routes(nodes) /\ SiblingsMerge(tempParent[t], nodes)

(* Nothing is deleted while threads may still call the tree.               *)
AliveOrEnded ==
    /\ isPreallocated => nodeStack = <<>>
    /\ ~isPreallocated => AllEnded /\ IsInjective(nodeStack)

(* A full treap is about to be split, or cannot be, or there is no room.   *)
FullIsSplit ==
    \/ currentElementIndex > numPreallocated
    \/ Full(nodes, TREAP_NODES) \subseteq {temp[t] : t \in {u \in Threads : Splits(u)}}

(* Each call that throws has moved the index once too often.               *)
IndexBounded ==
    /\ numPreallocated \in Preallocations
    /\ currentElementIndex <= numPreallocated + Cardinality({t \in Threads : Failed(t)})

ThrowInv == IndexBounded /\ FullIsSplit /\ ThrowsForAReason

TreeInv ==
    /\ Forest(nodes, Heads)
    /\ AliveOrEnded
    /\ \A t \in Threads : LocalOK(t)
=============================================================================
