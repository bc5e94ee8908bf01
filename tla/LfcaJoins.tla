------------------------------ MODULE LfcaJoins ------------------------------
(***************************************************************************)
(* An inductive invariant of LfcaTree about the routes and the joins that  *)
(* cut them out, whatever happens to the bases.  Like LfcaInvariant it     *)
(* speaks of a heap h, and of the root rt that goes with it.               *)
(***************************************************************************)
EXTENDS LfcaInvariant

Sides == {"left", "right"}
Side(h, r, side) == IF side = "left" THEN h[r].left ELSE h[r].right

(* The joins whose neigh2 says that they are published, or DONE.           *)
Committed(h) == {m \in Ptr(h) : h[m].type = "join_main" /\ h[m].neigh2 \notin Unpublished}

(* The route gparent, or the root, holds route p.                          *)
Holds(h, rt, gparent, p) ==
    IF gparent = null THEN rt = p ELSE \E side \in Sides : Side(h, gparent, side) = p

(* The route of join m is cut out: its slot has got something else.        *)
IsCut(h, rt, m) == ~Holds(h, rt, h[m].gparent, h[m].parent)

(* No join has cut the route r out.                                        *)
Attached(h, rt, r) ==
    r \in Routes(h) /\ \A m \in Committed(h) : h[m].parent = r => ~IsCut(h, rt, m)

(* An unpublished join that cannot be published any more.                  *)
Doomed(h, rt, m) == m \notin Committed(h) /\ ~Attached(h, rt, h[m].parent)

-----------------------------------------------------------------------------
(* Below a node there are only younger nodes.                              *)
YoungerBelow(h) ==
    \A n \in Ptr(h) :
        /\ h[n].parent < n
        /\ n \in Routes(h) => h[n].left > n /\ h[n].right > n

(* Routes below attached routes are attached.                              *)
AttachedBelow(h, rt) ==
    /\ rt \in Routes(h) => Attached(h, rt, rt)
    /\ \A r \in Routes(h), side \in Sides :
        Attached(h, rt, r) /\ Side(h, r, side) \in Routes(h) => Attached(h, rt, Side(h, r, side))

(* No route is in two slots of attached routes.                            *)
OneSlot(h, rt) ==
    \A r \in Routes(h), x \in Sides :
        Attached(h, rt, r) /\ Side(h, r, x) \in Routes(h) =>
            /\ Side(h, r, x) /= rt
            /\ \A s \in Routes(h), y \in Sides :
                Attached(h, rt, s) /\ Side(h, s, y) = Side(h, r, x) => s = r /\ y = x

(* The main node x of a join that is not aborted is in no slot of attached *)
(* routes but its own; or its route is cut out, and the join will fail.    *)
MainsInPlace(h, rt) ==
    \A x \in Ptr(h) : h[x].type = "join_main" /\ h[x].neigh2 /= ABORTED =>
        /\ rt = x => Doomed(h, rt, x)
        /\ \A r \in Routes(h), side \in Sides :
            Attached(h, rt, r) /\ Side(h, r, side) = x => r = h[x].parent \/ Doomed(h, rt, x)

(* The sibling x that replaces the route of join m.                        *)
SiblingOK(h, rt, m, x) ==
    /\ h[m].parent < x
    /\ x \in Routes(h) => \E side \in Sides : Side(h, h[m].parent, side) = x
    /\ h[x].type = "join_main" /\ h[x].neigh2 /= ABORTED =>
        x /= m /\ x \notin Committed(h) /\ (h[x].parent = h[m].parent \/ Doomed(h, rt, x))

(* What is so from the publication of join m on, and until its route is    *)
(* cut out.                                                                *)
JoinLocks(h, rt, m) ==
    LET p == h[m].parent
        g == h[m].gparent
    IN  /\ h[p].join_id = m
        /\ g < p
        /\ h[h[m].neigh1].type = "join_neighbor"
        /\ h[m].neigh2 /= DONE => h[h[m].neigh2].type = "join_neighbor" /\ h[m].neigh1 < h[m].neigh2
        /\ IF IsCut(h, rt, m) THEN ~h[p].valid
           ELSE /\ h[m].neigh2 /= DONE
                /\ g /= null => h[g].join_id = m
                /\ SiblingOK(h, rt, m, h[m].otherb)

HeapJoins(h, rt) ==
    /\ YoungerBelow(h)
    /\ AttachedBelow(h, rt)
    /\ OneSlot(h, rt)
    /\ MainsInPlace(h, rt)
    /\ \A m \in Committed(h) : JoinLocks(h, rt, m)

-----------------------------------------------------------------------------
LocksParent == {"parentOf", "search", "lockGparent", "readOther", "publish", "undoGparent", "undoParent"}
LocksGparent == {"readOther", "publish", "undoGparent"}

(* g holds p, or is cut out and will not be locked any more.               *)
HeldOrGone(h, rt, g, p) == Holds(h, rt, g, p) \/ (g /= null /\ ~Attached(h, rt, g))

(* The main node m of a join that is not aborted is not its own sibling.   *)
OwnSide(h, rt, m, side) ==
    Attached(h, rt, h[m].parent) /\ h[m].neigh2 /= ABORTED =>
        Side(h, h[m].parent, Opposite(side)) /= m

(* What the owner of an unpublished join at label relies on.               *)
OwnerJoins(h, rt, l, label) ==
    LET m == l.m
        p == h[m].parent
        g == l.gparent
    IN  /\ label \in OwnerLabels => OwnSide(h, rt, m, l.side)
        /\ label \in LocksParent => h[p].join_id = m
        /\ label \in LocksGparent /\ g /= null => h[g].join_id = m
        /\ label \in LocksGparent \cup {"lockGparent"} => g < p
        /\ label = "search" => g < l.cur /\ (l.cur = p => HeldOrGone(h, rt, g, p))
        /\ label = "lockGparent" => HeldOrGone(h, rt, g, p)
        /\ label \in {"readOther", "publish"} => Holds(h, rt, g, p)
        /\ label = "publish" =>
            /\ h[m].gparent = g /\ h[m].neigh1 = l.n1
            /\ h[m].neigh2 /= ABORTED => SiblingOK(h, rt, m, h[m].otherb)

(* What a thread that completes a join relies on.                          *)
HelperJoins(h, rt, l, label) ==
    LET m == l.m
        p == h[m].parent
        g == h[m].gparent
    IN  /\ label \in HelperLabels \ {"load"} => h[l.n2].type = "join_neighbor" /\ h[m].neigh1 < l.n2
        /\ label \in {"findSlot", "splice", "unlock", "done"} => ~h[p].valid
        /\ label = "splice" /\ g /= null /\ ~IsCut(h, rt, m) => Side(h, g, l.slot) = p
        /\ label \in {"unlock", "done"} => IsCut(h, rt, m)

(* What is replaced is a base, and no query copies the main node of a join *)
(* that may still be published.                                            *)
BaseJoins(h, l, label) ==
    /\ label \in {"replace", "split", "copy"} => l.base \notin Routes(h)
    /\ label \in {"lockMain", "lockNeighbor"} => l.cur \notin Routes(h)
    /\ label = "copy" /\ h[l.base].type = "join_main" => h[l.base].neigh2 = ABORTED

ThreadJoins(h, rt, l, label) ==
    OwnerJoins(h, rt, l, label) /\ HelperJoins(h, rt, l, label) /\ BaseJoins(h, l, label)

RoutesAreHeld == HeapJoins(heap, root) /\ \A t \in Threads : ThreadJoins(heap, root, loc[t], pc[t])

JInv == IInv /\ RoutesAreHeld
=============================================================================
