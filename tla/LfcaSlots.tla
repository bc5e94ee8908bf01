------------------------------ MODULE LfcaSlots ------------------------------
(***************************************************************************)
(* An inductive invariant of LfcaTree on top of LfcaJoins: no node, route  *)
(* or base, ever gets a second place in the tree.  A slot gets a node that *)
(* is new, or the merged node of a join, or the sibling that the join has  *)
(* read; so it is also about which nodes a join may still put somewhere.   *)
(***************************************************************************)
EXTENDS LfcaJoins

(* An attached route, or the root, holds n where n's parent field says.    *)
Placed(h, rt, n) ==
    IF h[n].parent = null THEN rt = n
    ELSE Attached(h, rt, h[n].parent) /\ \E side \in Sides : Side(h, h[n].parent, side) = n

Detached(h, rt, r) == r \in Routes(h) /\ ~Attached(h, rt, r)

(* Some slot of an attached route other than r, or the root, holds n.      *)
Elsewhere(h, rt, r, n) ==
    rt = n \/ \E s \in Routes(h), side \in Sides : Attached(h, rt, s) /\ Side(h, s, side) = n /\ s /= r

(* The joins that have read what replaces their route, and may still put   *)
(* it there.                                                               *)
Claimants(h, rt) ==
    {m \in Ptr(h) : /\ h[m].type = "join_main" /\ h[m].otherb /= null
                    /\ h[m].neigh2 = PREPARING \/ (m \in Committed(h) /\ ~IsCut(h, rt, m))}

(* What replaces the route; null as long as it is not created yet.         *)
Replacement(h, m) == IF h[m].otherb = h[m].neigh1 THEN h[m].neigh2 ELSE h[m].otherb

(* Base n, found below the attached route r, knows that it is there; or it *)
(* was below a route that has been cut out; or it is the merged node of a  *)
(* join, which knows where it will be.                                     *)
Knows(h, rt, r, n) ==
    \/ h[n].parent = r
    \/ Detached(h, rt, h[n].parent)
    \/ \E m \in Committed(h) : h[m].neigh2 = n /\ h[m].parent = r

-----------------------------------------------------------------------------
(* No node is in two slots, and the root in none.                          *)
OneSlotEach(h, rt) ==
    \A r \in Routes(h), x \in Sides : Attached(h, rt, r) =>
        /\ Side(h, r, x) /= rt
        /\ \A s \in Routes(h), y \in Sides :
            Attached(h, rt, s) /\ Side(h, s, y) = Side(h, r, x) => s = r /\ y = x

BasesKnow(h, rt) ==
    /\ rt \notin Routes(h) => h[rt].parent = null \/ Detached(h, rt, h[rt].parent)
    /\ \A r \in Routes(h), side \in Sides :
        Attached(h, rt, r) /\ Side(h, r, side) \notin Routes(h) => Knows(h, rt, r, Side(h, r, side))

(* The fields of a published join.                                         *)
Merges(h, m) ==
    LET n1 == h[m].neigh1
        n2 == h[m].neigh2
    IN  /\ h[n1].main_node = m
        /\ n2 /= DONE =>
            /\ n2 /= h[m].otherb
            /\ h[n2].main_node = m
            /\ h[n2].parent = IF h[m].otherb = n1 THEN h[m].gparent ELSE h[n1].parent

(* As long as the neighbour of a published join has not been replaced, its *)
(* route is not cut out either, its merged node is nowhere, and no other   *)
(* join puts that anywhere.                                                *)
Unmerged(h, rt, m) ==
    Placed(h, rt, h[m].neigh1) =>
        /\ ~IsCut(h, rt, m)
        /\ h[m].neigh2 /= DONE
        /\ ~Elsewhere(h, rt, null, h[m].neigh2)
        /\ \A k \in Claimants(h, rt) : k /= m => Replacement(h, k) /= h[m].neigh2

(* What replaces a route is below that route or nowhere, and it is not     *)
(* what replaces another route.                                            *)
Claims(h, rt, m) ==
    LET p == h[m].parent
        x == Replacement(h, m)
    IN  /\ h[m].otherb \in Ptr(h) /\ h[p].join_id = m
        /\ h[m].otherb \notin Routes(h) => Knows(h, rt, p, h[m].otherb)
        /\ x \in Ptr(h) =>
            /\ ~Elsewhere(h, rt, p, x)
            /\ \A k \in Claimants(h, rt) : k /= m => Replacement(h, k) /= x

HeapSlots(h, rt) ==
    /\ OneSlotEach(h, rt)
    /\ BasesKnow(h, rt)
    /\ \A n \in Ptr(h) : h[n].type = "normal" => h[n].otherb = null
    /\ \A m \in Committed(h) : Merges(h, m) /\ Unmerged(h, rt, m)
    /\ \A m \in Claimants(h, rt) : Claims(h, rt, m)

-----------------------------------------------------------------------------
ThreadSlots(h, rt, l, label) ==
    LET m == l.m
    IN  /\ label \in OwnerLabels \ {"publish"} => h[m].otherb = null \/ h[m].neigh2 = ABORTED
        /\ label \in OwnerLabels \ {"lockNeighbor", "undoMain"} => h[l.n1].main_node = m
        /\ label \in HelperLabels \ {"load"} => h[m].neigh2 \in {l.n2, DONE}
        /\ label \in HelperLabels \ {"load", "replaceNeighbor"} => ~Placed(h, rt, h[m].neigh1)

SlotsAreKept == HeapSlots(heap, root) /\ \A t \in Threads : ThreadSlots(heap, root, loc[t], pc[t])

SInv == JInv /\ SlotsAreKept
=============================================================================
