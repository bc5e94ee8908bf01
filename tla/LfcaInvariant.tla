---------------------------- MODULE LfcaInvariant ----------------------------
(***************************************************************************)
(* An inductive invariant of LfcaTree: nodes are what the code that reads  *)
(* them takes them for.  It speaks of a heap h, so that it can be stated   *)
(* of the heap before and after a step.                                    *)
(***************************************************************************)
EXTENDS LfcaSafety

Ptr(h) == 1 .. Len(h)
Routes(h) == {n \in Ptr(h) : h[n].type = "route"}

(* neigh2 when the outcome of a join is open, or is that it is aborted.    *)
Unpublished == {PREPARING, ABORTED}

(* The fields that complete_join reads are set.                            *)
JoinOK(h, m) ==
    /\ h[m].neigh1 \in Ptr(h)
    /\ h[m].otherb \in Ptr(h)
    /\ h[m].gparent \in Routes(h) \cup {null}

NodeOK(h, n) ==
    LET x == h[n]
    IN  /\ Len(x.data) <= TREAP_NODES
        /\ x.type = "route" => x.left \in Ptr(h) /\ x.right \in Ptr(h)
        /\ x.parent \in Routes(h) \cup {null}
        /\ x.type = "normal" => x.neigh2 = PREPARING
        /\ x.type = "join_main" =>
            /\ x.parent /= null
            /\ x.neigh2 \notin Unpublished =>
                JoinOK(h, n) /\ (x.neigh2 /= DONE => x.neigh2 \in Ptr(h))
        /\ x.type = "join_neighbor" =>
            x.main_node \in Ptr(h) /\ h[x.main_node].type = "join_main"

HeapOK(h) == h \in Seq(Node) /\ \A n \in Ptr(h) : NodeOK(h, n)

-----------------------------------------------------------------------------
(* From its main node's publication on until publish succeeds or the undo  *)
(* is over, one thread owns a join; afterwards anyone may complete it.     *)
OwnerLabels == {"lockNeighbor", "lockParent", "parentOf", "search", "lockGparent", "readOther",
                "publish", "undoGparent", "undoParent", "undoMain"}
HelperLabels == {"load", "replaceNeighbor", "invalidate", "findSlot", "splice", "unlock", "done"}

Path(h, s) == s \in Seq(Ptr(h)) /\ \A i \in 1 .. Len(s) - 1 : s[i] \in Routes(h)

(* The locals l of a thread at label in call c, by what the code from that *)
(* label on does with them.                                                *)
CurOK(h, l, label) ==
    label \in {"find", "outermost", "lockMain", "lockNeighbor", "search", "goLeft"} => l.cur \in Ptr(h)

BaseOK(h, l, label) ==
    /\ label \in {"replace", "help", "split", "join", "sibling", "outermost", "lockMain", "copy"} =>
        l.base \in Ptr(h)
    /\ label \in {"join", "sibling", "outermost", "lockMain"} => h[l.base].type = "normal"
    /\ label \in {"sibling", "outermost", "lockMain"} => h[l.base].parent /= null
    /\ label = "replace" => Len(h[l.base].data) < TREAP_NODES
    /\ label = "lockMain" => Len(h[l.base].data) + Len(h[l.cur].data) <= TREAP_NODES

JoinLocalsOK(h, l, label) ==
    /\ label \in OwnerLabels \cup HelperLabels \cup {"abort"} =>
        l.m \in Ptr(h) /\ h[l.m].type = "join_main"
    /\ label = "lockNeighbor" => Len(h[l.m].data) + Len(h[l.cur].data) <= TREAP_NODES
    /\ label \in OwnerLabels \ {"lockNeighbor", "undoMain"} =>
        /\ l.n1 \in Ptr(h) /\ h[l.n1].type = "join_neighbor"
        /\ Len(h[l.m].data) + Len(h[l.n1].data) <= TREAP_NODES
    /\ label \in {"search", "readOther", "publish"} => l.gparent \in Routes(h) \cup {null}
    /\ label \in {"lockGparent", "undoGparent"} => l.gparent \in Routes(h)
    /\ label = "publish" => JoinOK(h, l.m)
    /\ label \in HelperLabels => h[l.m].neigh2 \notin Unpublished
    /\ label \in HelperLabels \ {"load"} => l.n2 \in Ptr(h)
    /\ label \in {"findSlot", "unlock"} => h[l.m].gparent /= null

StackOK(h, l, label, c) ==
    /\ label /= "idle" => c \in Calls
    /\ Path(h, l.stack) /\ Path(h, l.backup)
    /\ label \in {"find", "climb", "goRight", "goLeft"} => l.stack \in Seq(Routes(h))
    /\ label \in {"copy", "next", "climb", "goRight", "goLeft"} => c.op = "rangeQuery"
    /\ label \in {"next", "copy", "goRight"} => l.stack /= <<>>
    /\ l.then = "next" => l.backup /= <<>> /\ c.op = "rangeQuery"
    /\ label \in {"help", "abort"} \cup HelperLabels /\ l.then = "next" => l.stack = l.backup
    /\ label \in {"replace", "split", "join", "sibling", "outermost", "lockMain"} \cup OwnerLabels =>
        l.then /= "next"

LocalOK(h, l, label, c) ==
    CurOK(h, l, label) /\ BaseOK(h, l, label) /\ JoinLocalsOK(h, l, label) /\ StackOK(h, l, label, c)

Owns(t, m) == pc[t] \in OwnerLabels /\ loc[t].m = m

(* A join that somebody owns is unpublished, and it has only one owner.    *)
OwnersOK ==
    \A t \in Threads : pc[t] \in OwnerLabels =>
        /\ heap[loc[t].m].neigh2 \in Unpublished
        /\ \A u \in Threads : Owns(u, loc[t].m) => u = t

(* No thread ever follows a pointer that is null, that is a sentinel like  *)
(* DONE, or that leads to a node of another kind than the code expects     *)
(* there, whatever the other threads have done to the tree since it was    *)
(* read; and every treap fits its array.                                   *)
WellFormed ==
    /\ HeapOK(heap)
    /\ root \in Ptr(heap)
    /\ \A t \in Threads : LocalOK(heap, loc[t], pc[t], call[t])
    /\ OwnersOK

IInv == TypeOK /\ WellFormed
=============================================================================
