------------------------------ MODULE LfcaBases ------------------------------
(***************************************************************************)
(* What is true of LfcaTree as long as no full base is split that a join   *)
(* has locked: bases stay where they are while a join relies on them.      *)
(***************************************************************************)
EXTENDS LfcaSlots

(* No thread is about to split a full base that a join has locked.  This   *)
(* is all that can go wrong with bases (do_update, lfca.cpp:155-158).      *)
NoLockedSplit ==
    \A t \in Threads : pc[t] = "split" /\ InPlace(loc[t].base) => is_replaceable(loc[t].base)

Replaceable(h, n) ==
    \/ h[n].type = "normal"
    \/ h[n].type = "join_main" /\ h[n].neigh2 = ABORTED
    \/ h[n].type = "join_neighbor" /\ h[h[n].main_node].neigh2 \in {ABORTED, DONE}

(* The slot that n's parent field names holds n.                           *)
InSlot(h, rt, n) ==
    IF h[n].parent = null THEN rt = n ELSE \E side \in Sides : Side(h, h[n].parent, side) = n

(* What may still be reached or linked: routes that are not cut out, bases *)
(* below those, and the merged node of a join whose neighbour it has still *)
(* to replace.                                                             *)
Alive(h, rt, n) ==
    \/ IF n \in Routes(h) THEN Attached(h, rt, n) ELSE Elsewhere(h, rt, null, n)
    \/ \E m \in Committed(h) : h[m].neigh2 = n /\ Placed(h, rt, h[m].neigh1)

-----------------------------------------------------------------------------
(* The base in the slot of an attached route is a base of that route, or   *)
(* the merged node of the join that is about to cut that route out.        *)
BasesAtHome(h, rt) ==
    /\ rt \notin Routes(h) => h[rt].parent = null
    /\ \A r \in Routes(h), side \in Sides : Attached(h, rt, r) /\ Side(h, r, side) \notin Routes(h) =>
        \/ h[Side(h, r, side)].parent = r
        \/ \E m \in Committed(h) : h[m].neigh2 = Side(h, r, side) /\ h[m].parent = r

(* A route that is cut out only keeps the main node of the join.           *)
CutOutEmpty(h, rt) ==
    \A n \in Ptr(h) : n \notin Routes(h) /\ InSlot(h, rt, n) /\ Detached(h, rt, h[n].parent) =>
        n \in Committed(h)

(* A main node stays in its place unless the join is aborted.              *)
MainsStay(h, rt) ==
    \A m \in Ptr(h) : h[m].type = "join_main" /\ h[m].neigh2 /= ABORTED => InSlot(h, rt, m)

(* So does its neighbour until the join is published,                      *)
NeighborsStay(h, rt) ==
    \A n \in Ptr(h) : h[n].type = "join_neighbor" /\ h[h[n].main_node].neigh2 = PREPARING => InSlot(h, rt, n)

(* and then it or the merged node until the join is DONE.  A sibling that  *)
(* is a base is that neighbour.                                            *)
MergesStay(h) ==
    \A m \in Committed(h) :
        LET n1 == h[m].neigh1
            n2 == h[m].neigh2
        IN  /\ h[m].otherb \in Routes(h) \/ (h[m].otherb = n1 /\ h[n1].parent = h[m].parent)
            /\ n2 /= DONE =>
                /\ h[n1].parent /= null
                /\ \E side \in Sides : Side(h, h[n1].parent, side) \in {n1, n2}

HeapBases(h, rt) ==
    /\ BasesAtHome(h, rt)
    /\ CutOutEmpty(h, rt)
    /\ MainsStay(h, rt)
    /\ NeighborsStay(h, rt)
    /\ MergesStay(h)

-----------------------------------------------------------------------------
(* The other child of route p, seen from the given side.                   *)
Sibling(h, p, side) == Side(h, p, Opposite(side))

(* Whatever is below cur and still alive is below x.                       *)
Leads(h, rt, cur, x) == \A n \in Below(h, cur) : Alive(h, rt, n) => n \in Below(h, x)

ThreadBases(h, rt, l, label) ==
    /\ label \in {"replace", "copy"} => Replaceable(h, l.base)
    /\ label \in {"lockMain", "lockNeighbor"} => Replaceable(h, l.cur)
    /\ label \in {"outermost", "lockMain"} /\ Attached(h, rt, h[l.base].parent) =>
        Leads(h, rt, l.cur, Sibling(h, h[l.base].parent, l.side))
    /\ label = "lockNeighbor" /\ Attached(h, rt, h[l.m].parent) =>
        Leads(h, rt, l.cur, Sibling(h, h[l.m].parent, l.side))
    /\ /\ label \in {"lockParent", "parentOf", "search", "lockGparent", "readOther"}
       /\ h[l.m].neigh2 = PREPARING /\ Attached(h, rt, h[l.m].parent)
       => l.n1 \in Below(h, Sibling(h, h[l.m].parent, l.side))
    /\ label = "publish" /\ h[l.m].neigh2 = PREPARING =>
        /\ h[l.n1].parent /= null
        /\ h[l.m].otherb \in Routes(h) \/ (h[l.m].otherb = l.n1 /\ h[l.n1].parent = h[l.m].parent)

BasesAreHeld == HeapBases(heap, root) /\ \A t \in Threads : ThreadBases(heap, root, loc[t], pc[t])

BInv == SInv /\ BasesAreHeld
=============================================================================
