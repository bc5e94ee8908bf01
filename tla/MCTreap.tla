------------------------------- MODULE MCTreap -------------------------------
(***************************************************************************)
(* Small treaps, against the sorted sequences that the trees take them     *)
(* for (TreapSeq).                                                         *)
(***************************************************************************)
EXTENDS Treap

Below == -1

(* Odd and even, negative and positive values: halves round towards zero.  *)
ThreeValues == {-3, -2, 1}

Live(t) == 0 .. t.size - 1
Children(t, i) == {t.nodes[i].left, t.nodes[i].right} \ {NullNode}

(* The nodes of a treap fill the front of its array and form one tree, in  *)
(* which parents and children name each other.  New nodes are put behind   *)
(* them and the median is taken of them, so a gap would lose a value.      *)
IsTree(t) ==
    LET level[depth \in 0 .. t.size] ==
            IF depth = 0 THEN {t.root} \ {NullNode}
            ELSE UNION {Children(t, i) : i \in level[depth - 1]}
    IN  /\ t.root /= NullNode => t.nodes[t.root].parent = NullNode
        /\ \A i \in Live(t) :
            /\ Children(t, i) \subseteq Live(t)
            /\ \A c \in Children(t, i) : t.nodes[c].parent = i
            /\ t.nodes[i].left = t.nodes[i].right => Children(t, i) = {}
        /\ UNION {level[depth] : depth \in 0 .. t.size} = Live(t)

InOrder(t) ==
    LET visit[i \in Index \cup {NullNode}] ==
            IF i = NullNode THEN <<>>
            ELSE visit[t.nodes[i].left] \o <<t.nodes[i].val>> \o visit[t.nodes[i].right]
    IN  visit[t.root]

(* No operation leaves a treap whose links do not agree, wherever in the   *)
(* array its nodes have got to.                                            *)
TreapsAreTrees == \A s \in DOMAIN treaps : IsTree(treaps[s])

Promise == INSTANCE TreapContents WITH contents <- [s \in DOMAIN treaps |-> InOrder(treaps[s])]

(* Through all rotations, moves and transfers the operations have the      *)
(* effect on the values that TreapSeq says, and which the trees rely on.   *)
KeepsContents == Promise!Spec

(* What the reading operations return.  They follow the links only where   *)
(* the order lets them, so they see what is in the treap only if it is     *)
(* in order.                                                               *)
ReadsAgree ==
    \A s \in DOMAIN treaps :
        LET t == treaps[s]
            d == InOrder(t)
        IN  /\ \A val \in Values : contains(t, val) = Contents!contains(d, val)
            /\ \A lo, hi \in Values :
                    SortSeq(rangeQuery(t, lo, hi), <) = Contents!rangeQuery(d, lo, hi)
            /\ d /= <<>> => getMaxValue(t) = Contents!getMaxValue(d)

IsHeap(t) ==
    \A i \in Live(t) : \A c \in Children(t, i) : t.nodes[i].weight <= t.nodes[c].weight

(* An insert or a remove keeps the heap order of a treap that has it, so   *)
(* that treaps stay flat.  Split and merge do not: see TransferNode.       *)
HeapKept ==
    [][\A s \in DOMAIN treaps :
        op \notin {"split", "merge"} /\ IsHeap(treaps[s]) => s \in DOMAIN treaps' /\ IsHeap(treaps'[s])]_treaps

(* Every operation ends: no loop follows links in circles.                 *)
OperationsEnd == pc /= "idle" ~> pc = "idle"
=============================================================================
