----------------------------- MODULE LfcaPlaces -----------------------------
(***************************************************************************)
(* Where the values of LfcaTree are: the way that the keys of the routes   *)
(* lead to a value ends at the base that holds it.                         *)
(***************************************************************************)
EXTENDS LfcaBases

(* The median of a base that is about to be split is not above all of its  *)
(* values.  It can be, since it is rounded towards zero.                   *)
MediansFit ==
    \A t \in Threads : pc[t] = "split" /\ Len(heap[loc[t].base].data) >= 2 /\ InPlace(loc[t].base) =>
        getMedianVal(heap[loc[t].base].data) <= getMaxValue(heap[loc[t].base].data)

SplitsFit == NoLockedSplit /\ MediansFit

-----------------------------------------------------------------------------
(* The nodes on a way down from n that turns to the side f[r] at route r.  *)
Way(h, f, n) ==
    LET walk[r \in 1 .. Len(h)] ==
            IF h[r].type = "route" THEN {r} \cup walk[Side(h, r, f[r])] ELSE {r}
    IN  walk[n]

(* The turns of a search for k,                                            *)
KeyWay(h, k) == [r \in Ptr(h) |-> IF k <= h[r].key THEN "left" ELSE "right"]

(* and those from route p to the base next to its child on the given side. *)
NextWay(h, p, side) == [r \in Ptr(h) |-> IF r = p THEN Opposite(side) ELSE side]

(* Whatever is on the way from cur and still alive is on the way from x.   *)
LeadsOn(h, rt, f, cur, x) == \A n \in Way(h, f, cur) : Alive(h, rt, n) => n \in Way(h, f, x)

HoldsValue(h, n, v) == contains(h[n].data, v)

-----------------------------------------------------------------------------
(* Every value is where a search for it ends, except that the merged node  *)
(* of a join also holds the values of the main node until that is cut out. *)
ValuesPlaced(h, rt) ==
    \A n \in Ptr(h) : n \notin Routes(h) /\ Elsewhere(h, rt, null, n) =>
        \A i \in DOMAIN h[n].data :
            LET v == h[n].data[i]
            IN  \/ n \in Way(h, KeyWay(h, v), rt)
                \/ \E m \in Committed(h) : h[m].neigh2 = n /\ HoldsValue(h, m, v) /\ ~IsCut(h, rt, m)

(* The routes between a base and the base next to it are on the right side *)
(* of each other.                                                          *)
RoutesOrdered(h, rt) ==
    \A p \in Routes(h) : Attached(h, rt, p) =>
        /\ \A r \in Way(h, NextWay(h, p, "left"), p) : r \in Routes(h) => h[p].key <= h[r].key
        /\ \A r \in Way(h, NextWay(h, p, "right"), p) : r \in Routes(h) => h[r].key <= h[p].key

(* A published join merges neighbours: its main node is one child of its   *)
(* route, and what it merges that with comes next on the other side.       *)
NextTo(h, m) ==
    LET p == h[m].parent
    IN  \E side \in Sides, n \in {h[m].neigh1, h[m].neigh2} :
            Side(h, p, side) = m /\ n \in Way(h, NextWay(h, p, side), p)

(* The merged node holds the values of both.                               *)
Combines(h, m) ==
    LET d == h[m].data
        d1 == h[h[m].neigh1].data
    IN  h[m].neigh2 /= DONE => h[h[m].neigh2].data \in {d \o d1, d1 \o d}

MergesNeighbors(h, rt) ==
    \A m \in Committed(h) : (~IsCut(h, rt, m) => NextTo(h, m)) /\ Combines(h, m)

DataSorted(h) == \A n \in Ptr(h) : Sorted(h[n].data)

HeapPlaces(h, rt) ==
    /\ ValuesPlaced(h, rt)
    /\ RoutesOrdered(h, rt)
    /\ MergesNeighbors(h, rt)
    /\ DataSorted(h)

-----------------------------------------------------------------------------
(* A search leads on to what the key leads to, a search for a neighbour to *)
(* the neighbour.                                                          *)
ThreadPlaces(h, rt, l, label, c) ==
    /\ label = "find" /\ c.op /= "rangeQuery" => LeadsOn(h, rt, KeyWay(h, c.key), l.cur, rt)
    /\ label = "replace" /\ Alive(h, rt, l.base) => l.base \in Way(h, KeyWay(h, c.key), rt)
    /\ label \in {"outermost", "lockMain"} /\ Attached(h, rt, h[l.base].parent) =>
        LeadsOn(h, rt, NextWay(h, h[l.base].parent, l.side), l.cur, h[l.base].parent)
    /\ label = "lockNeighbor" /\ Attached(h, rt, h[l.m].parent) =>
        LeadsOn(h, rt, NextWay(h, h[l.m].parent, l.side), l.cur, h[l.m].parent)
    /\ /\ label \in {"lockParent", "parentOf", "search", "lockGparent", "readOther", "publish"}
       /\ h[l.m].neigh2 = PREPARING /\ Attached(h, rt, h[l.m].parent)
       => l.n1 \in Way(h, NextWay(h, h[l.m].parent, l.side), h[l.m].parent)

ValuesAreKept ==
    HeapPlaces(heap, root) /\ \A t \in Threads : ThreadPlaces(heap, root, loc[t], pc[t], call[t])

PInv == BInv /\ ValuesAreKept
=============================================================================
