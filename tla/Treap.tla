-------------------------------- MODULE Treap --------------------------------
(***************************************************************************)
(* Class Treap (treap.h, treap.cpp): a search tree of values which is at   *)
(* the same time a heap of random weights, kept in an array of nodes that  *)
(* are linked by their indices.                                            *)
(*                                                                         *)
(* The updates are state machines: one action per iteration of a loop of   *)
(* the code.  They work on treaps of their own and publish the result at   *)
(* the end.  There is one treap at first, which is split in two at a key   *)
(* as the trees do it; then each update goes to the side of its value,     *)
(* until the two are merged.                                               *)
(***************************************************************************)
EXTENDS Integers, Sequences, SequencesExt

CONSTANTS
    TREAP_NODES,    \* the number of nodes of a treap
    Values,         \* the values that are inserted, removed and looked up
    Weights,        \* the weights that createNewNode draws from
    MaxSize,        \* bound: the number of values in all treaps together
    NegInfinity     \* the weight of the control node

ASSUME CapacityAssumption == TREAP_NODES \in Nat \ {0}
ASSUME ValuesAssumption == Values \subseteq Int
ASSUME WeightAssumption == NegInfinity \in Int /\ \A w \in Weights : w \in Int /\ w > NegInfinity

Contents == INSTANCE TreapSeq

NullNode == -1
ControlNode == TREAP_NODES
Index == 0 .. TREAP_NODES

NewNode(val, weight) ==
    [val |-> val, weight |-> weight, parent |-> NullNode, left |-> NullNode, right |-> NullNode]

(* val and weight of an unused node are never read.                        *)
EmptyTreap == [nodes |-> [i \in Index |-> NewNode(0, 0)], size |-> 0, root |-> NullNode]

-----------------------------------------------------------------------------
(* Operations on a treap t.                                                *)

createNewNode(t, val, weight) ==
    [t EXCEPT !.size = @ + 1, !.nodes[t.size] = NewNode(val, weight)]

SetParent(t, i, parent) ==
    IF i = NullNode THEN t ELSE [t EXCEPT !.nodes[i].parent = parent]

(* new takes the place of old below parent, or as the root.                *)
Relink(t, parent, old, new) ==
    IF parent = NullNode THEN [t EXCEPT !.root = new]
    ELSE IF t.nodes[parent].left = old THEN [t EXCEPT !.nodes[parent].left = new]
    ELSE [t EXCEPT !.nodes[parent].right = new]

rightRotate(t, i) ==
    LET l == t.nodes[i].left
        orphan == t.nodes[l].right
        parent == t.nodes[i].parent
        down == [t EXCEPT !.nodes[i].parent = l, !.nodes[l].right = i, !.nodes[l].parent = parent]
    IN  SetParent([Relink(down, parent, i, l) EXCEPT !.nodes[i].left = orphan], orphan, i)

leftRotate(t, i) ==
    LET r == t.nodes[i].right
        orphan == t.nodes[r].left
        parent == t.nodes[i].parent
        down == [t EXCEPT !.nodes[i].parent = r, !.nodes[r].left = i, !.nodes[r].parent = parent]
    IN  SetParent([Relink(down, parent, i, r) EXCEPT !.nodes[i].right = orphan], orphan, i)

(* Faulty: the children still name the old place of their parent.          *)
moveNodeOnly(t, src, dst) ==
    IF src = dst THEN t
    ELSE Relink([t EXCEPT !.nodes[dst] = t.nodes[src]], t.nodes[src].parent, src, dst)

moveNode(t, src, dst) ==
    LET node == t.nodes[src]
        moved == [t EXCEPT !.nodes[dst] = node]
    IN  IF src = dst THEN t
        ELSE Relink(SetParent(SetParent(moved, node.left, dst), node.right, dst),
                    node.parent, src, dst)

(* A leaf is cut off.                                                      *)
CutOff(t, i) == Relink(t, t.nodes[i].parent, i, NullNode)

bstFind(t, val) ==
    LET find[i \in Index \cup {NullNode}] ==
            IF i = NullNode \/ t.nodes[i].val = val THEN i
            ELSE IF t.nodes[i].val > val THEN find[t.nodes[i].left]
            ELSE find[t.nodes[i].right]
    IN  find[t.root]

contains(t, val) == bstFind(t, val) /= NullNode

getMaxValue(t) ==
    LET rightmost[i \in Index] ==
            IF t.nodes[i].right = NullNode THEN i ELSE rightmost[t.nodes[i].right]
    IN  t.nodes[rightmost[t.root]].val

(* Faulty: does not look for values equal to val on its left.              *)
rangeQueryStrict(t, min, max) ==
    LET visit[i \in Index \cup {NullNode}] ==
            IF i = NullNode THEN <<>>
            ELSE LET val == t.nodes[i].val
                 IN  (IF min <= val /\ val <= max THEN <<val>> ELSE <<>>)
                     \o (IF val <= max THEN visit[t.nodes[i].right] ELSE <<>>)
                     \o (IF val > min THEN visit[t.nodes[i].left] ELSE <<>>)
    IN  visit[t.root]

(* The stack of nodes to check gives each node, then what is right of it,  *)
(* then what is left of it.                                                *)
rangeQuery(t, min, max) ==
    LET visit[i \in Index \cup {NullNode}] ==
            IF i = NullNode THEN <<>>
            ELSE LET val == t.nodes[i].val
                 IN  (IF min <= val /\ val <= max THEN <<val>> ELSE <<>>)
                     \o (IF val <= max THEN visit[t.nodes[i].right] ELSE <<>>)
                     \o (IF val >= min THEN visit[t.nodes[i].left] ELSE <<>>)
    IN  visit[t.root]

(* The median of the first size nodes of the array.                        *)
getMedianVal(t) ==
    Contents!getMedianVal(SortSeq([i \in 1 .. t.size |-> t.nodes[i - 1].val], <))

-----------------------------------------------------------------------------
VARIABLES
    treaps,     \* the treaps in use: one, or two
    key,        \* the value at which the two were split
    pc, op,
    work,       \* the copy that an update changes
    index,      \* the node that is inserted or moved
    search,     \* searchIndex in bstInsert
    side,       \* the treap that is updated, transferred from, or split off
    built,      \* the new treaps of a split; of a merge, the first of them
    roots,      \* what transferNodesFrom returned for each side
    stack       \* nodesToTransfer

locals == <<op, work, index, search, side, built, roots, stack>>
vars == <<treaps, key, pc, locals>>

Init ==
    /\ treaps = <<EmptyTreap>> /\ key = 0
    /\ pc = "idle" /\ op = "none" /\ work = EmptyTreap
    /\ index = NullNode /\ search = NullNode /\ side = 1
    /\ built = <<EmptyTreap, EmptyTreap>> /\ roots = <<NullNode, NullNode>> /\ stack = <<>>

(* The nodes behind the last one, and the control node, are left as they   *)
(* are, but nobody reads them before they are written again.               *)
Forget(t) ==
    [t EXCEPT !.nodes = [i \in Index |-> IF i < t.size THEN t.nodes[i] ELSE NewNode(0, 0)]]

(* The operation returns, and its locals are gone.                         *)
Finish(result) ==
    /\ treaps' = [s \in DOMAIN result |-> Forget(result[s])]
    /\ pc' = "idle" /\ op' = "none" /\ work' = EmptyTreap
    /\ index' = NullNode /\ search' = NullNode /\ side' = 1
    /\ built' = <<EmptyTreap, EmptyTreap>> /\ roots' = <<NullNode, NullNode>> /\ stack' = <<>>

TotalSize == IF Len(treaps) = 1 THEN treaps[1].size ELSE treaps[1].size + treaps[2].size

Side(val) == IF Len(treaps) = 1 \/ val <= key THEN 1 ELSE 2

-----------------------------------------------------------------------------
(* immutableInsert                                                         *)

(* A full treap throws, and nothing has changed.                           *)
immutableInsert(val, weight) ==
    LET n == treaps[Side(val)].size
        copy == createNewNode(treaps[Side(val)], val, weight)
    IN  /\ pc = "idle" /\ n /= TREAP_NODES /\ TotalSize < MaxSize
        /\ IF n = 0
           THEN Finish([treaps EXCEPT ![Side(val)] = [copy EXCEPT !.root = n]]) /\ UNCHANGED key
           ELSE /\ op' = "insert" /\ pc' = "bstInsert"
                /\ work' = copy /\ index' = n /\ search' = copy.root /\ side' = Side(val)
                /\ UNCHANGED <<treaps, key, built, roots, stack>>

(* Faulty: puts equal values left of each other.                           *)
bstInsertLeft ==
    LET child == IF work.nodes[search].val >= work.nodes[index].val THEN "left" ELSE "right"
    IN  /\ pc = "bstInsert"
        /\ IF work.nodes[search][child] = NullNode
           THEN /\ work' = [work EXCEPT !.nodes[search][child] = index, !.nodes[index].parent = search]
                /\ pc' = "moveUp"
                /\ UNCHANGED search
           ELSE search' = work.nodes[search][child] /\ UNCHANGED <<work, pc>>
        /\ UNCHANGED <<treaps, key, op, index, side, built, roots, stack>>

(* Faulty: starts again from the root.                                     *)
bstInsertAgain ==
    LET child == IF work.nodes[search].val > work.nodes[index].val THEN "left" ELSE "right"
    IN  /\ pc = "bstInsert"
        /\ IF work.nodes[search][child] = NullNode
           THEN /\ work' = [work EXCEPT !.nodes[search][child] = index, !.nodes[index].parent = search]
                /\ pc' = "moveUp"
                /\ UNCHANGED search
           ELSE search' = treaps[side].root /\ UNCHANGED <<work, pc>>
        /\ UNCHANGED <<treaps, key, op, index, side, built, roots, stack>>

(* Equal values are right of each other.                                   *)
bstInsert ==
    LET child == IF work.nodes[search].val > work.nodes[index].val THEN "left" ELSE "right"
    IN  /\ pc = "bstInsert"
        /\ IF work.nodes[search][child] = NullNode
           THEN /\ work' = [work EXCEPT !.nodes[search][child] = index, !.nodes[index].parent = search]
                /\ pc' = "moveUp"
                /\ UNCHANGED search
           ELSE search' = work.nodes[search][child] /\ UNCHANGED <<work, pc>>
        /\ UNCHANGED <<treaps, key, op, index, side, built, roots, stack>>

Parent == work.nodes[index].parent
OnTop == Parent /= NullNode => work.nodes[index].weight >= work.nodes[Parent].weight

moveUp ==
    /\ pc = "moveUp" /\ ~OnTop
    /\ work' = IF index = work.nodes[Parent].left THEN rightRotate(work, Parent)
               ELSE leftRotate(work, Parent)
    /\ UNCHANGED <<treaps, key, pc, op, index, search, side, built, roots, stack>>

InsertEnds ==
    /\ pc = "moveUp" /\ OnTop /\ op = "insert"
    /\ Finish([treaps EXCEPT ![side] = work])
    /\ UNCHANGED key

-----------------------------------------------------------------------------
(* immutableRemove                                                         *)

(* A value that is not there leaves the contents as they are.              *)
immutableRemove(val) ==
    LET found == bstFind(treaps[Side(val)], val)
    IN  /\ pc = "idle" /\ found /= NullNode
        /\ op' = "remove" /\ pc' = "moveDown"
        /\ work' = treaps[Side(val)] /\ index' = found /\ side' = Side(val)
        /\ UNCHANGED <<treaps, key, search, built, roots, stack>>

LeftChild == work.nodes[index].left
RightChild == work.nodes[index].right
IsLeaf == LeftChild = NullNode /\ RightChild = NullNode

(* Faulty: the heavier child goes up.                                      *)
RotatesHeavier ==
    /\ LeftChild /= NullNode
    /\ RightChild /= NullNode => work.nodes[LeftChild].weight > work.nodes[RightChild].weight

RotatesRight ==
    /\ LeftChild /= NullNode
    /\ RightChild /= NullNode => work.nodes[LeftChild].weight < work.nodes[RightChild].weight

moveDown ==
    /\ pc = "moveDown" /\ ~IsLeaf
    /\ work' = IF RotatesRight THEN rightRotate(work, index) ELSE leftRotate(work, index)
    /\ UNCHANGED <<treaps, key, pc, op, index, search, side, built, roots, stack>>

(* The last node of the array fills the gap.                               *)
RemoveEnds ==
    /\ pc = "moveDown" /\ IsLeaf /\ op = "remove"
    /\ LET rest == moveNode(CutOff(work, index), work.size - 1, index)
       IN  Finish([treaps EXCEPT ![side] = [rest EXCEPT !.size = @ - 1]])
    /\ UNCHANGED key

-----------------------------------------------------------------------------
(* transferNodesFrom, for each of the two sides                            *)

Root(s) ==
    IF op = "split" THEN work.nodes[ControlNode][IF s = 1 THEN "left" ELSE "right"]
    ELSE treaps[s].root
Source == IF op = "split" THEN work ELSE treaps[side]
Target == IF op = "split" THEN side ELSE 1

Transfer(child, parent, original) ==
    IF original = NullNode THEN <<>>
    ELSE <<[child |-> child, parent |-> parent, original |-> original]>>

(* An empty side transfers nothing.                                        *)
StartTransfer(s) ==
    /\ side' = s
    /\ stack' = Transfer("right", NullNode, Root(s))
    /\ pc' = "transfer"

(* Weights are drawn anew: createNewNode does not take them over.          *)
TransferNode(weight) ==
    LET info == Last(stack)
        node == Source.nodes[info.original]
        n == built[Target].size
        grown == createNewNode(built[Target], node.val, weight)
    IN  /\ pc = "transfer" /\ stack /= <<>>
        /\ IF info.parent = NullNode
           THEN /\ roots' = [roots EXCEPT ![side] = n]
                /\ built' = [built EXCEPT ![Target] = grown]
           ELSE /\ built' = [built EXCEPT ![Target] =
                        [grown EXCEPT !.nodes[n].parent = info.parent,
                                      !.nodes[info.parent][info.child] = n]]
                /\ UNCHANGED roots
        /\ stack' = Front(stack) \o Transfer("left", n, node.left) \o Transfer("right", n, node.right)
        /\ UNCHANGED <<treaps, key, pc, op, work, index, search, side>>

NextSide ==
    /\ pc = "transfer" /\ stack = <<>> /\ side = 1
    /\ StartTransfer(2)
    /\ UNCHANGED <<treaps, key, op, work, index, search, built, roots>>

-----------------------------------------------------------------------------
(* split                                                                   *)

(* An empty treap throws.                                                  *)
split ==
    /\ pc = "idle" /\ Len(treaps) = 1 /\ treaps[1].size /= 0
    /\ op' = "split" /\ pc' = "bstInsert"
    /\ work' = [treaps[1] EXCEPT
            !.nodes[ControlNode] = NewNode(getMedianVal(treaps[1]), NegInfinity)]
    /\ index' = ControlNode /\ search' = treaps[1].root
    /\ UNCHANGED <<treaps, key, side, built, roots, stack>>

(* The control node is the root by now.                                    *)
Divide ==
    /\ pc = "moveUp" /\ OnTop /\ op = "split"
    /\ StartTransfer(1)
    /\ UNCHANGED <<treaps, key, op, work, index, search, built, roots>>

SplitEnds ==
    /\ pc = "transfer" /\ stack = <<>> /\ side = 2 /\ op = "split"
    /\ Finish([s \in 1 .. 2 |-> [built[s] EXCEPT !.root = roots[s]]])
    /\ key' = work.nodes[ControlNode].val

-----------------------------------------------------------------------------
(* merge                                                                   *)

(* Treaps that do not fit into one throw.                                  *)
merge ==
    /\ pc = "idle" /\ Len(treaps) = 2 /\ treaps[1].size + treaps[2].size <= TREAP_NODES
    /\ op' = "merge"
    /\ side' = 1 /\ stack' = Transfer("right", NullNode, treaps[1].root) /\ pc' = "transfer"
    /\ UNCHANGED <<treaps, key, work, index, search, built, roots>>

MergeEmpty ==
    /\ pc = "transfer" /\ stack = <<>> /\ side = 2 /\ op = "merge"
    /\ NullNode \in {roots[1], roots[2]}
    /\ Finish(<<[built[1] EXCEPT !.root = IF roots[1] /= NullNode THEN roots[1] ELSE roots[2]]>>)
    /\ key' = 0

(* The control node joins the two; its value plays no part.                *)
Join ==
    /\ pc = "transfer" /\ stack = <<>> /\ side = 2 /\ op = "merge"
    /\ NullNode \notin {roots[1], roots[2]}
    /\ work' = [built[1] EXCEPT
            !.nodes[ControlNode] = [NewNode(0, NegInfinity) EXCEPT !.left = roots[1], !.right = roots[2]],
            !.nodes[roots[1]].parent = ControlNode,
            !.nodes[roots[2]].parent = ControlNode,
            !.root = ControlNode]
    /\ index' = ControlNode /\ pc' = "moveDown"
    /\ UNCHANGED <<treaps, key, op, search, side, built, roots, stack>>

MergeEnds ==
    /\ pc = "moveDown" /\ IsLeaf /\ op = "merge"
    /\ Finish(<<CutOff(work, index)>>)
    /\ key' = 0

-----------------------------------------------------------------------------
Step ==
    \/ bstInsert \/ moveUp \/ InsertEnds
    \/ moveDown \/ RemoveEnds
    \/ NextSide \/ Divide \/ SplitEnds
    \/ MergeEmpty \/ Join \/ MergeEnds
    \/ \E weight \in Weights : TransferNode(weight)

Next ==
    \/ Step \/ split \/ merge
    \/ \E val \in Values : immutableRemove(val) \/ \E weight \in Weights : immutableInsert(val, weight)

Spec == Init /\ [][Next]_vars
FairSpec == Spec /\ WF_vars(Step)
=============================================================================
