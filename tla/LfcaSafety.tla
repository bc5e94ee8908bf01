----------------------------- MODULE LfcaSafety -----------------------------
(***************************************************************************)
(* What must hold of the tree's structure and of the join protocol, and    *)
(* that threads do not wait for each other.                                *)
(***************************************************************************)
EXTENDS LfcaTree

Pointers == 1 .. Len(heap)

Locals ==
    [ contended : BOOLEAN, cur : Nat, base : Nat, then : {"root", "next", "return"},
      side : {"left", "right"}, m : Nat, n1 : Nat, n2 : Nat, gparent : Nat,
      slot : {"left", "right"}, stack : Seq(Nat), backup : Seq(Nat), floor : Int,
      found : Seq(Int), result : BOOLEAN ]

(* Every variable holds values of its type.                                *)
TypeOK ==
    /\ heap \in Seq(Node)
    /\ root \in Nat
    /\ pc \in [Threads -> Labels]
    /\ loc \in [Threads -> Locals]
    /\ todo \in [Threads -> Seq(Calls)]
    /\ call \in [Threads -> Calls \cup {NoCall}]
    /\ reply \in [Threads -> [result : BOOLEAN, found : Seq(Int)]]

(* A treap is a fixed-size array (treap.h): no base node, published by an  *)
(* update, a split or a join, holds more than TREAP_NODES values, although *)
(* a join adds up two treaps whose sizes were looked at much earlier.      *)
Capacity == \A n \in Pointers : Len(heap[n].data) <= TREAP_NODES

-----------------------------------------------------------------------------
(* The nodes of heap h that can be reached from n.                         *)
Below(h, n) ==
    LET reach[r \in 1 .. Len(h)] ==
            IF h[r].type = "route" THEN {r} \cup reach[h[r].left] \cup reach[h[r].right] ELSE {r}
    IN  reach[n]

Subtree(n) == Below(heap, n)
InTree == Below(heap, root)

(* The base node that find_base_node reaches for key k.                    *)
BaseOf(k) ==
    LET walk[n \in Pointers] ==
            IF ~IsRoute(n) THEN n
            ELSE walk[IF k <= heap[n].key THEN heap[n].left ELSE heap[n].right]
    IN  walk[root]

JoinMains == {m \in Pointers : heap[m].type = "join_main"}

(* m is the main node of a join that is published and not yet DONE.        *)
Published(m) == m \in JoinMains /\ heap[m].neigh2 > 0

(* Every value in a base of the tree is in the base its key leads to, so   *)
(* that find_base_node finds it; only the merged node of a join, which is  *)
(* in place before the routes are, also holds values of the main node.     *)
Placement ==
    \A b \in InTree : ~IsRoute(b) =>
        \A i \in DOMAIN heap[b].data :
            LET k == BaseOf(heap[b].data[i])
            IN  k = b \/ (Published(k) /\ heap[k].neigh2 = b)

(* No node of the tree has two places in it: try_replace, which looks at   *)
(* the left child of the parent first, cannot mistake the slot.            *)
SingleSlot ==
    \A n \in InTree : IsRoute(n) => Subtree(heap[n].left) \cap Subtree(heap[n].right) = {}

(* As long as a published join has not cut out its route, that route and   *)
(* the route above it are locked by this join and where the join saw them, *)
(* and a sibling that is a route is still the other child; so whoever      *)
(* completes the join writes to the right slot.                            *)
JoinHoldsRoutes ==
    \A m \in Pointers : Published(m) /\ heap[m].parent \in InTree =>
        LET p == heap[m].parent
            g == heap[m].gparent
            b == heap[m].otherb
        IN  /\ heap[p].join_id = m
            /\ IF g = null THEN root = p
               ELSE heap[g].join_id = m /\ g \in InTree /\ p \in {heap[g].left, heap[g].right}
            /\ IsRoute(b) => b \in {heap[p].left, heap[p].right}

(* And so long the bases below that route are the main node of the join    *)
(* and the sibling that it has read, so that nothing else is cut out.      *)
JoinHoldsBases ==
    \A m \in Pointers : Published(m) /\ heap[m].parent \in InTree =>
        LET p == heap[m].parent
        IN  /\ m \in {heap[p].left, heap[p].right}
            /\ heap[m].otherb \in {heap[p].left, heap[p].right, heap[m].neigh1}

(* Where a thread in secure_join has locked the route, and the one above.  *)
LockingGparent == {"readOther", "publish", "undoGparent"}
LockingParent == LockingGparent \cup {"parentOf", "search", "lockGparent", "undoParent"}

(* A lock on a route of the tree belongs to a published join, which every  *)
(* thread that comes across it helps to complete, or to a thread that is   *)
(* still to release it.  However a join ends - given up at any of its      *)
(* steps, aborted, or completed by a helper - it leaves no lock behind.    *)
LocksAreReleased ==
    \A r \in InTree : IsRoute(r) /\ heap[r].join_id /= null =>
        \/ Published(heap[r].join_id)
        \/ \E t \in Threads :
            /\ loc[t].m = heap[r].join_id
            /\ \/ r = heap[loc[t].m].parent /\ pc[t] \in LockingParent
               \/ r = loc[t].gparent /\ pc[t] \in LockingGparent
               \/ r = heap[loc[t].m].gparent /\ pc[t] = "unlock"

(* When a join is DONE, by whichever thread, its main node and its route   *)
(* are out of the tree, and the route tells so to range queries.           *)
DoneIsSpliced ==
    \A m \in JoinMains : heap[m].neigh2 = DONE =>
        m \notin InTree /\ heap[m].parent \notin InTree /\ ~heap[heap[m].parent].valid

-----------------------------------------------------------------------------
OutcomesAreFinal ==
    \A m \in Pointers :
        LET before == heap[m].neigh2
            after == heap'[m].neigh2
        IN  \/ before = after
            \/ before = PREPARING /\ after /= DONE
            \/ before > 0 /\ after = DONE

(* neigh2 is stored to by the owner of the join, the threads that abort it *)
(* and those that complete it: a join that was published is never aborted, *)
(* one that was aborted is never published, and neither changes again.     *)
JoinOutcomeIsFinal == [][OutcomesAreFinal]_heap

RouteNotAgain == \A n \in InTree' \ InTree : n \in Pointers => ~IsRoute(n)

(* A route that is not in the tree any more never comes back into it, not  *)
(* even as the sibling that a late helper of a join puts in a slot.        *)
RoutesNeverReturn == [][RouteNotAgain]_<<heap, root>>

NodeNotAgain ==
    \A n \in InTree' \ InTree :
        n > Len(heap) \/ \E m \in Pointers : Published(m) /\ heap[m].neigh2 = n

(* A node that has left the tree never comes back, and a node that was     *)
(* allocated earlier enters it only as the merged node of a published      *)
(* join.  This is why a late compare-and-swap on a stale pointer fails,    *)
(* and why the model may merge the loads of try_replace with it.           *)
NodesNeverReturn == [][NodeNotAgain]_<<heap, root>>

LockedBaseStays ==
    \A b \in InTree \ InTree' :
        \/ IsRoute(b) \/ is_replaceable(b)
        \/ \E m \in Pointers : Published(m) /\ b \in {m, heap[m].neigh1}

(* While a join has locked a base node, nothing but the completion of that *)
(* join takes the base out of the tree, so no update of it is lost.        *)
LockedBasesStay == [][LockedBaseStays]_<<heap, root>>

-----------------------------------------------------------------------------
(* Lock freedom, for finitely many calls: every call of a running thread   *)
(* returns, wherever in their code the other threads may have stopped.     *)
CallsReturn == \A t \in Running : (call[t] /= NoCall) ~> (call[t] = NoCall)
=============================================================================
