--------------------------- MODULE LfcaJoins_proofs ---------------------------
(***************************************************************************)
(* Proofs about the join protocol of LfcaTree, for any number of threads,  *)
(* any programs and any treap size: whoever completes a join, and however  *)
(* late, cuts out the route that the join has locked, once and nothing     *)
(* else, and no step of any other thread gets in between.                  *)
(***************************************************************************)
EXTENDS LfcaJoins, LfcaTree_proofs, WellFoundedInduction

(* x is not the main node of a join, nor a route, of heap h.               *)
Harmless(h, x) == x \notin Routes(h) /\ (x \in Ptr(h) => h[x].type /= "join_main")

(* Old nodes keep what they are, and joins what they have been published   *)
(* with.                                                                   *)
SameJoins(h, g) ==
    /\ Len(h) <= Len(g)
    /\ \A n \in Ptr(h) : g[n].type = h[n].type /\ g[n].parent = h[n].parent
    /\ \A n \in Ptr(h) : h[n].type = "join_main" /\ h[n].neigh2 = ABORTED => g[n].neigh2 = ABORTED
    /\ \A m \in Committed(h) :
        /\ m \in Committed(g) /\ g[m].gparent = h[m].gparent
        /\ g[m].otherb = h[m].otherb /\ g[m].neigh1 = h[m].neigh1

(* No slot loses or gets an old route.                                     *)
SameSlots(h, rt, g, rt2) ==
    /\ rt2 = rt \/ (rt \notin Routes(h) /\ Harmless(h, rt2))
    /\ \A r \in Routes(h), side \in Sides :
        \/ Side(g, r, side) = Side(h, r, side)
        \/ Side(h, r, side) \notin Routes(h) /\ Harmless(h, Side(g, r, side)) /\ r < Side(g, r, side)

(* Joins are published while they hold the lock of an attached route.      *)
PublishedInPlace(h, rt, g, rt2) ==
    \A m \in Committed(g) \ Committed(h) :
        /\ m \in Ptr(h) /\ h[m].type = "join_main"
        /\ Attached(h, rt, h[m].parent) /\ h[h[m].parent].join_id = m
        /\ ~IsCut(g, rt2, m)

(* What every step but the one that cuts out a route does.                 *)
Calm(h, rt, g, rt2) ==
    SameJoins(h, g) /\ SameSlots(h, rt, g, rt2) /\ PublishedInPlace(h, rt, g, rt2)

-----------------------------------------------------------------------------
(* The routes that a published join names.                                 *)
LEMMA CommittedRoutes ==
    ASSUME NEW h, HeapOK(h), NEW m \in Committed(h)
    PROVE  /\ m \in Ptr(h) /\ h[m].type = "join_main" /\ h[m].neigh2 \notin Unpublished
           /\ h[m].parent \in Routes(h) /\ h[m].gparent \in Routes(h) \cup {null}
           /\ h[m].otherb \in Ptr(h) /\ h[m].neigh1 \in Ptr(h)
           /\ h[m].neigh2 /= DONE => h[m].neigh2 \in Ptr(h)
BY DEF HeapOK, NodeOK, JoinOK, Committed

LEMMA NullIsNoNode ==
    ASSUME NEW h
    PROVE  null \notin Ptr(h) /\ null \notin Routes(h) /\ Routes(h) \subseteq Ptr(h)
BY DEF null, Ptr, Routes

LEMMA OldNodes ==
    ASSUME NEW h, NEW g, HeapOK(h), HeapOK(g), SameJoins(h, g)
    PROVE  /\ Ptr(h) \subseteq Ptr(g)
           /\ \A n \in Ptr(h) : n \in Routes(g) <=> n \in Routes(h)
           /\ Routes(h) \subseteq Routes(g)
<1>1. Len(h) \in Nat /\ Len(g) \in Nat
  BY HeapBasics
<1> QED BY <1>1 DEF SameJoins, Ptr, Routes

(* Slots that hold a route keep it, and a slot does not get an old one.    *)
LEMMA CalmHolds ==
    ASSUME NEW h, NEW rt, NEW g, NEW rt2, SameSlots(h, rt, g, rt2),
           NEW q \in Routes(h) \cup {null}, NEW p \in Routes(h)
    PROVE  Holds(g, rt2, q, p) <=> Holds(h, rt, q, p)
BY NullIsNoNode DEF SameSlots, Holds, Harmless

LEMMA CalmAttached ==
    ASSUME NEW h, NEW rt, NEW g, NEW rt2, HeapOK(h), HeapOK(g), Calm(h, rt, g, rt2)
    PROVE  /\ \A m \in Committed(h) : m \in Committed(g) /\ (IsCut(g, rt2, m) <=> IsCut(h, rt, m))
           /\ \A r \in Ptr(h) : Attached(g, rt2, r) <=> Attached(h, rt, r)
           /\ \A r \in Routes(g) \ Ptr(h) : Attached(g, rt2, r)
<1>1. /\ SameJoins(h, g) /\ SameSlots(h, rt, g, rt2) /\ PublishedInPlace(h, rt, g, rt2)
      /\ Ptr(h) \subseteq Ptr(g) /\ Routes(h) \subseteq Routes(g)
      /\ \A n \in Ptr(h) : n \in Routes(g) <=> n \in Routes(h)
  BY OldNodes DEF Calm
<1>2. ASSUME NEW m \in Committed(h)
      PROVE  m \in Committed(g) /\ (IsCut(g, rt2, m) <=> IsCut(h, rt, m)) /\ g[m].parent = h[m].parent
  <2>1. h[m].parent \in Routes(h) /\ h[m].gparent \in Routes(h) \cup {null} /\ m \in Ptr(h)
    BY CommittedRoutes
  <2>2. m \in Committed(g) /\ g[m].gparent = h[m].gparent /\ g[m].parent = h[m].parent
    BY <1>1, <2>1 DEF SameJoins
  <2> QED BY <1>1, <2>1, <2>2, CalmHolds DEF IsCut
<1>3. ASSUME NEW m \in Committed(g), m \notin Committed(h)
      PROVE  ~IsCut(g, rt2, m) /\ m \in Ptr(h) /\ h[m].type = "join_main" /\ g[m].parent = h[m].parent
  BY <1>1, <1>3 DEF PublishedInPlace, SameJoins
<1>4. ASSUME NEW r \in Ptr(h) PROVE Attached(g, rt2, r) <=> Attached(h, rt, r)
  BY <1>1, <1>2, <1>3 DEF Attached
<1>5. ASSUME NEW r \in Routes(g) \ Ptr(h) PROVE Attached(g, rt2, r)
  <2>1. ASSUME NEW m \in Committed(g), g[m].parent = r PROVE ~IsCut(g, rt2, m)
    <3>1. CASE m \in Committed(h)
      <4>1. h[m].parent \in Ptr(h)
        BY <3>1, CommittedRoutes, NullIsNoNode
      <4> QED BY <1>2, <2>1, <3>1, <4>1
    <3>2. CASE m \notin Committed(h)
      BY <1>3, <3>2
    <3> QED BY <3>1, <3>2
  <2> QED BY <2>1 DEF Attached
<1> QED BY <1>2, <1>4, <1>5

(* A join that is doomed stays doomed.                                     *)
LEMMA CalmDoomed ==
    ASSUME NEW h, NEW rt, NEW g, NEW rt2, HeapOK(h), HeapOK(g), Calm(h, rt, g, rt2),
           NEW x \in Ptr(h), h[x].type = "join_main", Doomed(h, rt, x)
    PROVE  Doomed(g, rt2, x)
<1>1. g[x].parent = h[x].parent /\ h[x].parent \in Routes(h) /\ h[x].parent \in Ptr(h)
  BY NullIsNoNode DEF Calm, SameJoins, HeapOK, NodeOK
<1>2. ~Attached(g, rt2, g[x].parent)
  BY <1>1, CalmAttached DEF Doomed
<1>3. x \notin Committed(g)
  BY <1>1 DEF Doomed, Calm, PublishedInPlace
<1> QED BY <1>2, <1>3 DEF Doomed

(* What replaces the route of a join that holds its lock stays good for it.*)
LEMMA CalmSibling ==
    ASSUME NEW h, NEW rt, NEW g, NEW rt2, HeapOK(h), HeapOK(g), Calm(h, rt, g, rt2),
           NEW m \in Ptr(h), h[m].parent \in Routes(h), h[h[m].parent].join_id = m,
           NEW x \in Ptr(h), SiblingOK(h, rt, m, x)
    PROVE  SiblingOK(g, rt2, m, x)
<1>1. /\ g[m].parent = h[m].parent /\ g[x].parent = h[x].parent /\ g[x].type = h[x].type
      /\ x \in Routes(g) <=> x \in Routes(h)
      /\ h[x].type = "join_main" /\ h[x].neigh2 = ABORTED => g[x].neigh2 = ABORTED
  BY OldNodes DEF Calm, SameJoins
<1>2. x \in Routes(g) => \E side \in Sides : Side(g, g[m].parent, side) = x
  <2> SUFFICES ASSUME x \in Routes(h) PROVE \E side \in Sides : Side(g, h[m].parent, side) = x
    BY <1>1
  <2>1. PICK side \in Sides : Side(h, h[m].parent, side) = x
    BY DEF SiblingOK
  <2> QED BY <2>1 DEF Calm, SameSlots
<1>3. ASSUME g[x].type = "join_main", g[x].neigh2 /= ABORTED
      PROVE  x /= m /\ x \notin Committed(g) /\ (g[x].parent = g[m].parent \/ Doomed(g, rt2, x))
  <2>1. /\ h[x].type = "join_main" /\ x /= m /\ x \notin Committed(h)
        /\ h[x].parent = h[m].parent \/ Doomed(h, rt, x)
    BY <1>1, <1>3 DEF SiblingOK
  <2>2. CASE h[x].parent = h[m].parent
    BY <1>1, <2>1, <2>2 DEF Calm, PublishedInPlace
  <2>3. CASE Doomed(h, rt, x)
    BY <2>1, <2>3, CalmDoomed DEF Doomed
  <2> QED BY <2>1, <2>2, <2>3
<1> QED BY <1>1, <1>2, <1>3 DEF SiblingOK
-----------------------------------------------------------------------------
(* What a step that works on join M, or on none if M is null, leaves alone.*)
KeepsJoins(h, rt, g, M) ==
    /\ \A n \in Ptr(h) :
        /\ h[n].join_id \in {null, M} \/ g[n].join_id = h[n].join_id
        /\ h[n].valid = FALSE => g[n].valid = FALSE
        /\ n = M \/ (g[n].gparent = h[n].gparent /\ g[n].otherb = h[n].otherb
                      /\ g[n].neigh1 = h[n].neigh1)
    /\ \A m \in Committed(h) :
        /\ g[m].neigh2 = h[m].neigh2 \/ (g[m].neigh2 = DONE /\ IsCut(h, rt, m))
        /\ m = M => g[h[m].parent].join_id = m /\ IsCut(h, rt, m)

(* What the nodes added to heap h have to be like.                         *)
Fresh(h, g, rt2) ==
    /\ \A n \in Ptr(g) \ Ptr(h) :
        /\ g[n].parent < n
        /\ g[n].type = "join_main" /\ g[n].neigh2 /= ABORTED =>
            /\ rt2 /= n
            /\ \A r \in Routes(g), side \in Sides : Side(g, r, side) = n => r = g[n].parent
    /\ \A c \in Routes(g) \ Ptr(h) :
        /\ \A side \in Sides : c < Side(g, c, side) /\ Harmless(g, Side(g, c, side))
        /\ \A r \in Routes(g), x \in Sides : Side(g, r, x) = c =>
            c /= rt2 /\ \A s \in Routes(g), y \in Sides : Side(g, s, y) = c => s = r /\ y = x

LEMMA SidesOK ==
    ASSUME NEW h, HeapOK(h), NEW r \in Routes(h), NEW side
    PROVE  Side(h, r, side) \in Ptr(h)
BY DEF HeapOK, NodeOK, Routes, Side

(* The join whose lock a route holds is the only one that may cut it out.  *)
LEMMA LockedIsAttached ==
    ASSUME NEW h, NEW rt, HeapOK(h), HeapJoins(h, rt), NEW p \in Routes(h),
           h[p].join_id \notin Committed(h)
    PROVE  Attached(h, rt, p)
BY DEF HeapJoins, JoinLocks, Attached

LEMMA CalmOwnSide ==
    ASSUME NEW h, NEW rt, NEW g, NEW rt2, HeapOK(h), HeapOK(g), Calm(h, rt, g, rt2),
           NEW m \in Ptr(h), h[m].type = "join_main", NEW side, OwnSide(h, rt, m, side)
    PROVE  OwnSide(g, rt2, m, side)
<1>1. /\ g[m].parent = h[m].parent /\ h[m].parent \in Routes(h) /\ h[m].parent \in Ptr(h)
      /\ h[m].neigh2 = ABORTED => g[m].neigh2 = ABORTED
  BY NullIsNoNode DEF Calm, SameJoins, HeapOK, NodeOK
<1>2. Attached(g, rt2, h[m].parent) => Attached(h, rt, h[m].parent)
  BY <1>1, CalmAttached
<1>3. Opposite(side) \in Sides
  BY DEF Opposite, Sides
<1>4. Side(g, h[m].parent, Opposite(side)) = m => Side(h, h[m].parent, Opposite(side)) = m
  BY <1>1, <1>3 DEF Calm, SameSlots, Harmless
<1> QED BY <1>1, <1>2, <1>4 DEF OwnSide

(* What the other threads rely on stays true.                              *)
LEMMA CalmOwner ==
    ASSUME NEW h, NEW rt, NEW g, NEW rt2, HeapOK(h), HeapOK(g), Calm(h, rt, g, rt2),
           NEW M, KeepsJoins(h, rt, g, M),
           NEW l, NEW label, NEW c, LocalOK(h, l, label, c), label \in OwnerLabels => l.m /= M,
           OwnerJoins(h, rt, l, label)
    PROVE  OwnerJoins(g, rt2, l, label)
<1> USE DEF LocksParent, LocksGparent
<1> SUFFICES ASSUME label \in OwnerLabels PROVE OwnerJoins(g, rt2, l, label)
  BY DEF OwnerJoins, OwnerLabels
<1> DEFINE m == l.m
           p == h[m].parent
           q == l.gparent
<1>1. /\ m \in Ptr(h) /\ h[m].type = "join_main" /\ m /= M /\ m /= null
      /\ p \in Routes(h) /\ p \in Ptr(h) /\ g[m].parent = p
  BY NullIsNoNode DEF LocalOK, JoinLocalsOK, Calm, SameJoins, HeapOK, NodeOK
<1>2. /\ label \in LocksGparent \cup {"lockGparent"} => q \in Routes(h) \cup {null}
      /\ label = "search" => q \in Routes(h) \cup {null}
      /\ label = "publish" => JoinOK(h, m)
  BY DEF LocalOK, JoinLocalsOK
<1>3. OwnSide(g, rt2, m, l.side)
  BY <1>1, CalmOwnSide DEF OwnerJoins
<1>4. \A n \in Ptr(h) : h[n].join_id = m => g[n].join_id = m
  BY <1>1 DEF KeepsJoins
<1>5. \A n \in Routes(h) \cup {null} : HeldOrGone(h, rt, n, p) => HeldOrGone(g, rt2, n, p)
  <2>1. ASSUME NEW n \in Routes(h) \cup {null}, HeldOrGone(h, rt, n, p)
        PROVE  HeldOrGone(g, rt2, n, p)
    <3>1. Holds(g, rt2, n, p) <=> Holds(h, rt, n, p)
      BY <1>1, CalmHolds DEF Calm
    <3>2. n /= null => (Attached(g, rt2, n) <=> Attached(h, rt, n))
      BY CalmAttached, NullIsNoNode
    <3> QED BY <2>1, <3>1, <3>2 DEF HeldOrGone
  <2> QED BY <2>1
<1>6. \A n \in Routes(h) \cup {null} : Holds(h, rt, n, p) => Holds(g, rt2, n, p)
  BY <1>1, CalmHolds DEF Calm
<1>7. label = "publish" =>
        /\ g[m].gparent = h[m].gparent /\ g[m].neigh1 = h[m].neigh1 /\ g[m].otherb = h[m].otherb
        /\ g[m].neigh2 /= ABORTED => SiblingOK(g, rt2, m, g[m].otherb)
  <2> SUFFICES ASSUME label = "publish"
               PROVE  /\ g[m].gparent = h[m].gparent /\ g[m].neigh1 = h[m].neigh1
                      /\ g[m].otherb = h[m].otherb
                      /\ g[m].neigh2 /= ABORTED => SiblingOK(g, rt2, m, g[m].otherb)
    OBVIOUS
  <2>1. /\ g[m].gparent = h[m].gparent /\ g[m].neigh1 = h[m].neigh1 /\ g[m].otherb = h[m].otherb
        /\ h[m].neigh2 = ABORTED => g[m].neigh2 = ABORTED
    BY <1>1 DEF KeepsJoins, Calm, SameJoins
  <2>2. h[p].join_id = m /\ h[m].otherb \in Ptr(h)
    BY <1>2 DEF JoinOK, OwnerJoins
  <2>3. h[m].neigh2 /= ABORTED => SiblingOK(h, rt, m, h[m].otherb)
    BY DEF OwnerJoins
  <2>4. h[m].neigh2 /= ABORTED => SiblingOK(g, rt2, m, h[m].otherb)
    BY <1>1, <2>2, <2>3, CalmSibling
  <2> QED BY <2>1, <2>4
<1>8. q \in Routes(h) => q \in Ptr(h)
  BY NullIsNoNode
<1> HIDE DEF m, p, q
<1>9. /\ label \in LocksParent => h[p].join_id = m
      /\ label \in LocksGparent /\ q /= null => h[q].join_id = m
      /\ label \in LocksGparent \cup {"lockGparent"} => q < p
      /\ label = "search" => q < l.cur /\ (l.cur = p => HeldOrGone(h, rt, q, p))
      /\ label = "lockGparent" => HeldOrGone(h, rt, q, p)
      /\ label \in {"readOther", "publish"} => Holds(h, rt, q, p)
      /\ label = "publish" => h[m].gparent = q /\ h[m].neigh1 = l.n1
  BY DEF OwnerJoins, m, p, q
<1>10. /\ label \in LocksParent => g[p].join_id = m
       /\ label \in LocksGparent /\ q /= null => g[q].join_id = m
       /\ label = "search" => (l.cur = p => HeldOrGone(g, rt2, q, p))
       /\ label = "lockGparent" => HeldOrGone(g, rt2, q, p)
       /\ label \in {"readOther", "publish"} => Holds(g, rt2, q, p)
       /\ label = "publish" => g[m].gparent = q /\ g[m].neigh1 = l.n1
  BY <1>1, <1>2, <1>4, <1>5, <1>6, <1>7, <1>8, <1>9
<1>11. OwnerJoins(g, rt2, l, label) <=>
       /\ OwnSide(g, rt2, m, l.side)
       /\ label \in LocksParent => g[g[m].parent].join_id = m
       /\ label \in LocksGparent /\ q /= null => g[q].join_id = m
       /\ label \in LocksGparent \cup {"lockGparent"} => q < g[m].parent
       /\ label = "search" => q < l.cur /\ (l.cur = g[m].parent => HeldOrGone(g, rt2, q, g[m].parent))
       /\ label = "lockGparent" => HeldOrGone(g, rt2, q, g[m].parent)
       /\ label \in {"readOther", "publish"} => Holds(g, rt2, q, g[m].parent)
       /\ label = "publish" =>
            /\ g[m].gparent = q /\ g[m].neigh1 = l.n1
            /\ g[m].neigh2 /= ABORTED => SiblingOK(g, rt2, m, g[m].otherb)
  BY DEF OwnerJoins, m, q
<1> QED BY <1>1, <1>3, <1>7, <1>9, <1>10, <1>11

LEMMA CalmHelper ==
    ASSUME NEW h, NEW rt, NEW g, NEW rt2, HeapOK(h), HeapOK(g), Calm(h, rt, g, rt2),
           NEW M, KeepsJoins(h, rt, g, M),
           NEW l, NEW label, NEW c, LocalOK(h, l, label, c),
           HelperJoins(h, rt, l, label)
    PROVE  HelperJoins(g, rt2, l, label)
<1> SUFFICES ASSUME label \in HelperLabels PROVE HelperJoins(g, rt2, l, label)
  BY DEF HelperJoins, HelperLabels
<1> DEFINE m == l.m
           p == h[m].parent
           q == h[m].gparent
<1>1. /\ m \in Committed(h) /\ m \in Ptr(h)
      /\ label /= "load" => l.n2 \in Ptr(h)
  BY DEF LocalOK, JoinLocalsOK, Committed
<1>2. /\ p \in Routes(h) /\ p \in Ptr(h) /\ q \in Routes(h) \cup {null}
      /\ g[m].parent = p /\ g[m].gparent = q /\ g[m].neigh1 = h[m].neigh1
      /\ label /= "load" => g[l.n2].type = h[l.n2].type
  BY <1>1, CommittedRoutes, NullIsNoNode DEF Calm, SameJoins
<1>3. IsCut(g, rt2, m) <=> IsCut(h, rt, m)
  BY <1>1, CalmAttached
<1>4. h[p].valid = FALSE => g[p].valid = FALSE
  BY <1>2 DEF KeepsJoins
<1>5. ~h[p].valid => ~g[p].valid
  <2>1. h[p].valid \in BOOLEAN
    BY <1>2, HeapBasics DEF Node
  <2> QED BY <1>4, <2>1
<1>6. q /= null /\ Side(h, q, l.slot) = p => Side(g, q, l.slot) = p
  BY <1>2 DEF Calm, SameSlots, Sides, Side
<1> QED BY <1>2, <1>3, <1>5, <1>6 DEF HelperJoins

LEMMA CalmThread ==
    ASSUME NEW h, NEW rt, NEW g, NEW rt2, HeapOK(h), HeapOK(g), Calm(h, rt, g, rt2),
           NEW M, KeepsJoins(h, rt, g, M),
           NEW l, NEW label, NEW c, LocalOK(h, l, label, c), label \in OwnerLabels => l.m /= M,
           ThreadJoins(h, rt, l, label)
    PROVE  ThreadJoins(g, rt2, l, label)
<1>1. OwnerJoins(g, rt2, l, label)
  BY CalmOwner DEF ThreadJoins
<1>2. HelperJoins(g, rt2, l, label)
  BY CalmHelper DEF ThreadJoins
<1>3. BaseJoins(g, l, label)
  <2>1. /\ label \in {"replace", "split", "copy"} => l.base \in Ptr(h)
        /\ label \in {"lockMain", "lockNeighbor"} => l.cur \in Ptr(h)
    BY DEF LocalOK, BaseOK, CurOK
  <2>2. BaseJoins(h, l, label)
    BY DEF ThreadJoins
  <2>3. \A n \in Ptr(h) : g[n].type = h[n].type /\ (n \in Routes(g) <=> n \in Routes(h))
    BY OldNodes DEF Calm, SameJoins
  <2>4. label = "copy" /\ h[l.base].type = "join_main" => g[l.base].neigh2 = ABORTED
    BY <2>1, <2>2 DEF BaseJoins, Calm, SameJoins
  <2> QED BY <2>1, <2>2, <2>3, <2>4 DEF BaseJoins
<1> QED BY <1>1, <1>2, <1>3 DEF ThreadJoins

-----------------------------------------------------------------------------
(* What holds of routes and joins stays true.                              *)
LEMMA CalmYounger ==
    ASSUME NEW h, NEW rt, NEW g, NEW rt2, HeapOK(h), HeapOK(g), Calm(h, rt, g, rt2),
           Fresh(h, g, rt2), YoungerBelow(h)
    PROVE  YoungerBelow(g)
<1>1. ASSUME NEW n \in Ptr(g)
      PROVE  g[n].parent < n /\ (n \in Routes(g) => \A side \in Sides : n < Side(g, n, side))
  <2>1. CASE n \in Ptr(h)
    <3>1. g[n].parent < n /\ (n \in Routes(g) => n \in Routes(h))
      BY <2>1, OldNodes DEF YoungerBelow, Calm, SameJoins
    <3>2. ASSUME NEW side \in Sides, n \in Routes(h) PROVE n < Side(g, n, side)
      <4>1. n < Side(h, n, side)
        BY <2>1, <3>2 DEF YoungerBelow, Side
      <4>2. n < Side(g, n, side) \/ Side(g, n, side) = Side(h, n, side)
        BY <3>2 DEF Calm, SameSlots
      <4> QED BY <4>1, <4>2
    <3> QED BY <3>1, <3>2
  <2>2. CASE n \notin Ptr(h)
    BY <2>2 DEF Fresh
  <2> QED BY <2>1, <2>2
<1>2. \A n : Side(g, n, "left") = g[n].left /\ Side(g, n, "right") = g[n].right
  BY DEF Side
<1>3. ASSUME NEW n \in Ptr(g), n \in Routes(g) PROVE n < g[n].left /\ n < g[n].right
  BY <1>1, <1>2, <1>3 DEF Sides
<1>4. \A n \in Ptr(g) : n \in Routes(g) => g[n].left > n /\ g[n].right > n
  <2>1. ASSUME NEW n \in Ptr(g), n \in Routes(g) PROVE g[n].left > n /\ g[n].right > n
    <3>1. n \in Int /\ g[n].left \in Int /\ g[n].right \in Int
      BY SMTT(30), <2>1, HeapBasics DEF Node
    <3> QED BY <1>3, <2>1, <3>1
  <2> QED BY <2>1
<1> QED BY <1>1, <1>4 DEF YoungerBelow

(* A route in a slot is an old route where it was, or a new one.           *)
LEMMA CalmSlot ==
    ASSUME NEW h, NEW rt, NEW g, NEW rt2, HeapOK(h), HeapOK(g), Calm(h, rt, g, rt2),
           Fresh(h, g, rt2), NEW r \in Routes(g), NEW x \in Sides,
           NEW n \in Ptr(h), Side(g, r, x) = n, n \in Routes(h) \/ h[n].type = "join_main"
    PROVE  r \in Routes(h) /\ Side(h, r, x) = n
<1>1. g[n].type = h[n].type /\ n \in Ptr(g) /\ (n \in Routes(g) <=> n \in Routes(h))
  BY OldNodes DEF Calm, SameJoins
<1>2. r \in Ptr(h)
  BY <1>1 DEF Fresh, Harmless
<1>3. r \in Routes(h)
  BY <1>2, OldNodes DEF Calm
<1> QED BY <1>3 DEF Calm, SameSlots, Harmless

LEMMA CalmAttachedBelow ==
    ASSUME NEW h, NEW rt, NEW g, NEW rt2, HeapOK(h), HeapOK(g), rt \in Ptr(h),
           Calm(h, rt, g, rt2), Fresh(h, g, rt2), AttachedBelow(h, rt)
    PROVE  AttachedBelow(g, rt2)
<1>1. /\ \A r \in Ptr(h) : Attached(g, rt2, r) <=> Attached(h, rt, r)
      /\ \A r \in Routes(g) \ Ptr(h) : Attached(g, rt2, r)
      /\ \A n \in Ptr(h) : n \in Routes(g) <=> n \in Routes(h)
  BY CalmAttached, OldNodes DEF Calm
<1>2. ASSUME rt2 \in Routes(g) PROVE Attached(g, rt2, rt2)
  <2>1. CASE rt2 \in Ptr(h)
    BY <1>1, <1>2, <2>1 DEF Calm, SameSlots, Harmless, AttachedBelow
  <2>2. CASE rt2 \notin Ptr(h)
    BY <1>1, <1>2, <2>2
  <2> QED BY <2>1, <2>2
<1>3. ASSUME NEW r \in Routes(g), NEW x \in Sides, Attached(g, rt2, r), Side(g, r, x) \in Routes(g)
      PROVE  Attached(g, rt2, Side(g, r, x))
  <2>1. CASE Side(g, r, x) \in Ptr(h)
    <3>1. r \in Routes(h) /\ Side(h, r, x) = Side(g, r, x) /\ Side(g, r, x) \in Routes(h)
      BY <1>1, <1>3, <2>1, CalmSlot
    <3>2. r \in Ptr(h)
      BY <3>1, NullIsNoNode
    <3> QED BY <1>1, <1>3, <2>1, <3>1, <3>2 DEF AttachedBelow
  <2>2. CASE Side(g, r, x) \notin Ptr(h)
    BY <1>1, <1>3, <2>2
  <2> QED BY <2>1, <2>2
<1> QED BY <1>2, <1>3 DEF AttachedBelow

LEMMA CalmOneSlot ==
    ASSUME NEW h, NEW rt, NEW g, NEW rt2, HeapOK(h), HeapOK(g),
           Calm(h, rt, g, rt2), Fresh(h, g, rt2), OneSlot(h, rt)
    PROVE  OneSlot(g, rt2)
<1>1. /\ \A r \in Ptr(h) : Attached(g, rt2, r) <=> Attached(h, rt, r)
      /\ \A n \in Ptr(h) : n \in Routes(g) <=> n \in Routes(h)
      /\ Routes(h) \subseteq Ptr(h)
  BY CalmAttached, OldNodes, NullIsNoNode DEF Calm
<1>2. ASSUME NEW r \in Routes(g), NEW x \in Sides, Attached(g, rt2, r), Side(g, r, x) \in Routes(g),
             NEW s \in Routes(g), NEW y \in Sides
      PROVE  /\ Side(g, r, x) /= rt2
             /\ Attached(g, rt2, s) /\ Side(g, s, y) = Side(g, r, x) => s = r /\ y = x
  <2>1. CASE Side(g, r, x) \in Ptr(h)
    <3> DEFINE n == Side(g, r, x)
    <3>1. n \in Routes(h)
      BY <1>1, <1>2, <2>1
    <3>2. r \in Routes(h) /\ Side(h, r, x) = n
      BY <2>1, <3>1, CalmSlot
    <3>3. Side(g, s, y) = n => s \in Routes(h) /\ Side(h, s, y) = n
      BY <2>1, <3>1, CalmSlot
    <3>4. Attached(h, rt, r) /\ (s \in Routes(h) /\ Attached(g, rt2, s) => Attached(h, rt, s))
      BY <1>1, <1>2, <3>2
    <3>5. n /= rt /\ (s \in Routes(h) /\ Attached(h, rt, s) /\ Side(h, s, y) = n => s = r /\ y = x)
      BY <3>1, <3>2, <3>4 DEF OneSlot
    <3>6. n /= rt2
      BY <3>1, <3>5 DEF Calm, SameSlots, Harmless
    <3> QED BY <3>3, <3>4, <3>5, <3>6
  <2>2. CASE Side(g, r, x) \notin Ptr(h)
    BY <1>2, <2>2 DEF Fresh
  <2> QED BY <2>1, <2>2
<1> QED BY <1>2 DEF OneSlot

LEMMA CalmMainsInPlace ==
    ASSUME NEW h, NEW rt, NEW g, NEW rt2, HeapOK(h), HeapOK(g),
           Calm(h, rt, g, rt2), Fresh(h, g, rt2), MainsInPlace(h, rt)
    PROVE  MainsInPlace(g, rt2)
<1> SUFFICES ASSUME NEW n \in Ptr(g), g[n].type = "join_main", g[n].neigh2 /= ABORTED
             PROVE  /\ rt2 = n => Doomed(g, rt2, n)
                    /\ \A r \in Routes(g), side \in Sides :
                        Attached(g, rt2, r) /\ Side(g, r, side) = n =>
                            r = g[n].parent \/ Doomed(g, rt2, n)
  BY DEF MainsInPlace
<1>1. CASE n \in Ptr(h)
  <2>1. /\ h[n].type = "join_main" /\ h[n].neigh2 /= ABORTED /\ g[n].parent = h[n].parent
        /\ Doomed(h, rt, n) => Doomed(g, rt2, n)
    BY <1>1, CalmDoomed DEF Calm, SameJoins
  <2>2. rt2 = n => rt = n
    BY <1>1, <2>1 DEF Calm, SameSlots, Harmless
  <2>3. ASSUME NEW r \in Routes(g), NEW side \in Sides, Attached(g, rt2, r), Side(g, r, side) = n
        PROVE  r = g[n].parent \/ Doomed(g, rt2, n)
    <3>1. r \in Routes(h) /\ Side(h, r, side) = n
      BY <1>1, <2>1, <2>3, CalmSlot
    <3>2. Attached(h, rt, r)
      BY <2>3, <3>1, CalmAttached, NullIsNoNode
    <3> QED BY <1>1, <2>1, <3>1, <3>2 DEF MainsInPlace
  <2> QED BY <1>1, <2>1, <2>2, <2>3 DEF MainsInPlace
<1>2. CASE n \notin Ptr(h)
  BY <1>2 DEF Fresh
<1> QED BY <1>1, <1>2

LEMMA CalmJoinLocks ==
    ASSUME NEW h, NEW rt, NEW g, NEW rt2, HeapOK(h), HeapOK(g), Calm(h, rt, g, rt2),
           NEW M, KeepsJoins(h, rt, g, M), NEW m \in Committed(h), JoinLocks(h, rt, m)
    PROVE  JoinLocks(g, rt2, m)
<1> DEFINE p == h[m].parent
           q == h[m].gparent
<1>1. /\ m \in Ptr(h) /\ p \in Routes(h) /\ p \in Ptr(h) /\ q \in Routes(h) \cup {null}
      /\ h[m].otherb \in Ptr(h) /\ h[m].neigh1 \in Ptr(h)
      /\ h[m].neigh2 /= DONE => h[m].neigh2 \in Ptr(h)
  BY CommittedRoutes, NullIsNoNode
<1>2. /\ g[m].parent = p /\ g[m].gparent = q
      /\ g[m].otherb = h[m].otherb /\ g[m].neigh1 = h[m].neigh1
      /\ g[h[m].neigh1].type = h[h[m].neigh1].type
      /\ h[m].neigh2 /= DONE => g[h[m].neigh2].type = h[h[m].neigh2].type
  BY <1>1 DEF Calm, SameJoins
<1>3. IsCut(g, rt2, m) <=> IsCut(h, rt, m)
  BY CalmAttached
<1>4. ~h[p].valid => ~g[p].valid
  <2>1. h[p].valid \in BOOLEAN /\ (h[p].valid = FALSE => g[p].valid = FALSE)
    BY <1>1, HeapBasics DEF Node, KeepsJoins
  <2> QED BY <2>1
<1>5. m /= null /\ h[p].join_id = m
  BY <1>1, NullIsNoNode DEF JoinLocks
<1>6. g[p].join_id = m
  BY <1>1, <1>5 DEF KeepsJoins
<1>7. ~IsCut(h, rt, m) /\ q /= null => g[q].join_id = m
  <2>1. ~IsCut(h, rt, m) /\ q /= null => h[q].join_id = m /\ m /= M /\ q \in Ptr(h)
    BY <1>1, NullIsNoNode DEF JoinLocks, KeepsJoins
  <2> QED BY <1>5, <2>1 DEF KeepsJoins
<1>8. ~IsCut(h, rt, m) => SiblingOK(g, rt2, m, h[m].otherb)
  BY <1>1, <1>5, CalmSibling DEF JoinLocks
<1>9. g[m].neigh2 = h[m].neigh2 \/ (g[m].neigh2 = DONE /\ IsCut(h, rt, m))
  BY DEF KeepsJoins
<1>10. g[m].neigh2 /= DONE => g[m].neigh2 = h[m].neigh2 /\ h[m].neigh2 /= DONE
  BY <1>9
<1>11. /\ q < p /\ h[h[m].neigh1].type = "join_neighbor"
       /\ h[m].neigh2 /= DONE => h[h[m].neigh2].type = "join_neighbor" /\ h[m].neigh1 < h[m].neigh2
       /\ IsCut(h, rt, m) => ~h[p].valid
       /\ ~IsCut(h, rt, m) => h[m].neigh2 /= DONE
  BY DEF JoinLocks
<1> HIDE DEF p, q
<1> QED BY <1>2, <1>3, <1>4, <1>6, <1>7, <1>8, <1>9, <1>10, <1>11 DEF JoinLocks

LEMMA CalmHeap ==
    ASSUME NEW h, NEW rt, NEW g, NEW rt2, HeapOK(h), HeapOK(g), rt \in Ptr(h),
           Calm(h, rt, g, rt2), NEW M, KeepsJoins(h, rt, g, M), Fresh(h, g, rt2),
           HeapJoins(h, rt),
           \A m \in Committed(g) \ Committed(h) : JoinLocks(g, rt2, m)
    PROVE  HeapJoins(g, rt2)
<1>1. YoungerBelow(g) /\ AttachedBelow(g, rt2) /\ OneSlot(g, rt2) /\ MainsInPlace(g, rt2)
  BY CalmYounger, CalmAttachedBelow, CalmOneSlot, CalmMainsInPlace DEF HeapJoins
<1>2. \A m \in Committed(h) : JoinLocks(g, rt2, m)
  BY CalmJoinLocks DEF HeapJoins
<1> QED BY <1>1, <1>2 DEF HeapJoins

-----------------------------------------------------------------------------
(* Steps                                                                   *)

-----------------------------------------------------------------------------
(* The nodes that are in the tree                                          *)

Closed(h, S) == \A n \in S : n \in Routes(h) => h[n].left \in S /\ h[n].right \in S

(* The nodes that are in every closed set that n is in.                    *)
From(h, n) == {k \in Ptr(h) : \A S \in SUBSET Ptr(h) : Closed(h, S) /\ n \in S => k \in S}

(* That set, like the recursive function of Below, follows the links.      *)
LEMMA FromRoutes ==
    ASSUME NEW h, HeapOK(h), NEW n \in Ptr(h)
    PROVE  /\ n \in From(h, n) /\ Closed(h, From(h, n)) /\ From(h, n) \subseteq Ptr(h)
           /\ \A S \in SUBSET Ptr(h) : Closed(h, S) /\ n \in S => From(h, n) \subseteq S
           /\ From(h, n) = IF h[n].type = "route"
                           THEN {n} \cup From(h, h[n].left) \cup From(h, h[n].right) ELSE {n}
<1>1. \A r \in Routes(h) : h[r].left \in Ptr(h) /\ h[r].right \in Ptr(h) /\ r \in Ptr(h)
  BY DEF HeapOK, NodeOK, Routes
<1>2. \A x \in Ptr(h) : x \in From(h, x) /\ From(h, x) \subseteq Ptr(h)
  BY DEF From
<1>3. \A x \in Ptr(h), S \in SUBSET Ptr(h) : Closed(h, S) /\ x \in S => From(h, x) \subseteq S
  BY DEF From
<1>4. ASSUME NEW x \in Ptr(h) PROVE Closed(h, From(h, x))
  <2> SUFFICES ASSUME NEW k \in From(h, x), k \in Routes(h), NEW S \in SUBSET Ptr(h), Closed(h, S), x \in S
               PROVE  h[k].left \in S /\ h[k].right \in S
    BY <1>1 DEF Closed, From
  <2> QED BY <1>3 DEF Closed
<1>5. CASE n \in Routes(h)
  <2> DEFINE S == {n} \cup From(h, h[n].left) \cup From(h, h[n].right)
  <2>1. S \subseteq Ptr(h) /\ n \in S /\ h[n].left \in S /\ h[n].right \in S
    BY <1>1, <1>2, <1>5
  <2>2. Closed(h, S)
    BY <1>1, <1>4, <1>5, <2>1 DEF Closed
  <2>3. From(h, n) \subseteq S
    <3> HIDE DEF S
    <3> QED BY <1>3, <2>1, <2>2
  <2>4. h[n].left \in From(h, n) /\ h[n].right \in From(h, n)
    BY <1>2, <1>4, <1>5 DEF Closed
  <2>5. From(h, h[n].left) \subseteq From(h, n) /\ From(h, h[n].right) \subseteq From(h, n)
    BY <1>1, <1>2, <1>3, <1>4, <1>5, <2>4
  <2>6. From(h, n) = S
    BY <1>2, <2>3, <2>5
  <2> QED BY <1>2, <1>3, <1>4, <1>5, <2>6 DEF Routes
<1>6. CASE n \notin Routes(h)
  <2>1. Closed(h, {n})
    BY <1>6 DEF Closed
  <2>2. From(h, n) = {n}
    BY <1>2, <1>3, <2>1
  <2> QED BY <1>2, <1>3, <1>4, <1>6, <2>2 DEF Routes
<1> QED BY <1>5, <1>6

(* A set of numbers up to N has a greatest one.                            *)
LEMMA Youngest ==
    ASSUME NEW T \in SUBSET Nat, T /= {}, NEW N \in Nat, \A k \in T : k <= N
    PROVE  \E k \in T : \A j \in T : j <= k
<1> DEFINE D == {i \in Nat : N - i \in T}
<1>1. D \subseteq Nat /\ D /= {}
  <2>1. PICK k \in T : k \in Nat /\ k <= N
    OBVIOUS
  <2>2. N - k \in Nat /\ N - (N - k) = k
    BY <2>1
  <2>3. N - k \in D
    BY <2>1, <2>2
  <2> QED BY <2>3
<1>2. IsWellFoundedOn(OpToRel(<, Nat), Nat)
  BY NatLessThanWellFounded
<1>3. PICK d \in D : \A e \in D : ~(<<e, d>> \in OpToRel(<, Nat))
  <2> HIDE DEF D
  <2> QED BY <1>1, <1>2, WFMin, Zenon
<1>4. \A e \in D : ~(e < d)
  BY <1>1, <1>3 DEF OpToRel
<1>5. N - d \in T /\ d \in Nat
  OBVIOUS
<1>6. ASSUME NEW j \in T PROVE j <= N - d
  <2>1. j \in Nat /\ j <= N
    OBVIOUS
  <2>2. N - j \in Nat /\ N - (N - j) = j
    BY <2>1
  <2>3. N - j \in D
    BY <2>1, <2>2
  <2> HIDE DEF D
  <2>4. ~(N - j < d)
    BY <1>4, <2>3
  <2> QED BY <1>5, <2>1, <2>4
<1> QED BY <1>5, <1>6

(* Since links lead to younger nodes, that function is the set.            *)
LEMMA BelowIsFrom ==
    ASSUME NEW h, HeapOK(h), YoungerBelow(h), NEW n \in Ptr(h)
    PROVE  Below(h, n) = From(h, n)
<1> DEFINE step(f) == [r \in 1 .. Len(h) |->
                          IF h[r].type = "route" THEN {r} \cup f[h[r].left] \cup f[h[r].right] ELSE {r}]
           F == [r \in 1 .. Len(h) |-> From(h, r)]
           reach == CHOOSE f : f = step(f)
<1>1. \A r \in Ptr(h) : h[r].type = "route" => h[r].left \in Ptr(h) /\ h[r].right \in Ptr(h)
                                                 /\ h[r].left > r /\ h[r].right > r
  BY DEF HeapOK, NodeOK, Routes, YoungerBelow
<1>2. F = step(F)
  <2>1. ASSUME NEW r \in Ptr(h)
        PROVE F[r] = IF h[r].type = "route" THEN {r} \cup F[h[r].left] \cup F[h[r].right] ELSE {r}
    BY <1>1, FromRoutes DEF Ptr
  <2> HIDE DEF F
  <2>2. F = [r \in 1 .. Len(h) |-> F[r]]
    BY DEF F
  <2> QED BY <2>1, <2>2 DEF Ptr
<1>3. reach = step(reach)
  <2> HIDE DEF F, step
  <2> QED BY <1>2
<1>4. Below(h, n) = reach[n]
  BY SMTT(30) DEF Below
<1> HIDE DEF reach
<1>5. \A r \in Ptr(h) : reach[r] = IF h[r].type = "route" THEN {r} \cup reach[h[r].left] \cup reach[h[r].right] ELSE {r}
  BY <1>3 DEF Ptr
<1> DEFINE T == {r \in Ptr(h) : reach[r] /= From(h, r)}
<1>6. T = {}
  <2> SUFFICES ASSUME T /= {} PROVE FALSE
    OBVIOUS
  <2>1. Len(h) \in Nat
    BY DEF HeapOK
  <2>2. T \in SUBSET Nat /\ \A k \in T : k <= Len(h)
    BY <2>1 DEF Ptr
  <2>3. PICK k \in T : \A j \in T : j <= k
    <3> HIDE DEF T
    <3> QED BY <2>1, <2>2, Youngest
  <2>4. ASSUME NEW j \in Ptr(h), j > k PROVE reach[j] = From(h, j)
    <3>1. j \in Nat /\ k \in Nat
      BY <2>2 DEF Ptr
    <3> QED BY <2>3, <2>4, <3>1
  <2>5. reach[k] = From(h, k)
    <3>1. k \in Ptr(h)
      OBVIOUS
    <3> HIDE DEF T, F, step
    <3>2. h[k].type = "route" => reach[h[k].left] = From(h, h[k].left) /\ reach[h[k].right] = From(h, h[k].right)
      BY <1>1, <2>4, <3>1
    <3>3. From(h, k) = IF h[k].type = "route"
                       THEN {k} \cup From(h, h[k].left) \cup From(h, h[k].right) ELSE {k}
      BY <3>1, FromRoutes
    <3> QED BY <1>5, <3>1, <3>2, <3>3
  <2> QED BY <2>3, <2>5
<1> QED BY <1>4, <1>6

(* The tree is the least set that root is in and that follows the links.   *)
LEMMA TreeOf ==
    ASSUME NEW h, NEW rt, HeapOK(h), HeapJoins(h, rt), rt \in Ptr(h)
    PROVE  /\ rt \in Below(h, rt) /\ Below(h, rt) \subseteq Ptr(h) /\ Closed(h, Below(h, rt))
           /\ \A S \in SUBSET Ptr(h) : Closed(h, S) /\ rt \in S => Below(h, rt) \subseteq S
<1>1. Below(h, rt) = From(h, rt)
  BY BelowIsFrom DEF HeapJoins
<1> QED BY <1>1, FromRoutes

(* Old routes that are not in the tree stay out of it: a slot of the tree, *)
(* or of a new route, gets none of them.                                   *)
OldRoutesStay(h, rt, g, rt2) ==
    LET tree == Below(h, rt)
    IN  /\ rt2 \in Routes(h) => rt2 \in tree
        /\ \A r \in tree, side \in Sides :
            r \in Routes(h) /\ Side(g, r, side) \in Routes(h) => Side(g, r, side) \in tree
        /\ \A r \in Routes(g) \ Routes(h), side \in Sides : Side(g, r, side) \notin Routes(h)

LEMMA TreeLinks ==
    ASSUME NEW h, NEW rt, HeapOK(h), HeapJoins(h, rt), rt \in Ptr(h)
    PROVE  /\ rt \in Below(h, rt) /\ Below(h, rt) \subseteq Ptr(h)
           /\ \A r \in Below(h, rt), side \in Sides : r \in Routes(h) => Side(h, r, side) \in Below(h, rt)
BY TreeOf DEF Closed, Side

LEMMA SameTree ==
    ASSUME NEW h, NEW rt, HeapOK(h), HeapJoins(h, rt), rt \in Ptr(h)
    PROVE  OldRoutesStay(h, rt, h, rt)
BY TreeLinks DEF OldRoutesStay

LEMMA CalmTree ==
    ASSUME NEW h, NEW rt, HeapOK(h), HeapJoins(h, rt), rt \in Ptr(h),
           NEW g, NEW rt2, HeapOK(g), Calm(h, rt, g, rt2), Fresh(h, g, rt2)
    PROVE  OldRoutesStay(h, rt, g, rt2)
<1>1. rt2 \in Routes(h) => rt2 \in Below(h, rt)
  BY TreeLinks DEF Calm, SameSlots, Harmless
<1>2. ASSUME NEW r \in Below(h, rt), NEW side \in Sides, r \in Routes(h), Side(g, r, side) \in Routes(h)
      PROVE  Side(g, r, side) \in Below(h, rt)
  <2>1. Side(g, r, side) = Side(h, r, side)
    BY <1>2 DEF Calm, SameSlots, Harmless
  <2> QED BY <1>2, <2>1, TreeLinks
<1>3. ASSUME NEW r \in Routes(g) \ Routes(h), NEW side \in Sides
      PROVE  Side(g, r, side) \notin Routes(h)
  <2>1. r \notin Ptr(h) /\ Routes(h) \subseteq Routes(g)
    BY OldNodes DEF Calm
  <2> QED BY <2>1 DEF Fresh, Harmless
<1> QED BY <1>1, <1>2, <1>3 DEF OldRoutesStay

(* What every step is shown to do.                                         *)
JoinsKept == RoutesAreHeld' /\ OldRoutesStay(heap, root, heap', root')

LEMMA JoinsState ==
    ASSUME JInv, NEW t \in Threads
    PROVE  /\ IInv /\ HeapOK(heap) /\ root \in Ptr(heap) /\ HeapJoins(heap, root)
           /\ loc[t] \in Locals /\ LocalOK(heap, loc[t], pc[t], call[t])
           /\ ThreadJoins(heap, root, loc[t], pc[t])
BY ThreadState DEF JInv, RoutesAreHeld

LEMMA JoinsStep ==
    ASSUME JInv, NEW t \in Threads, NEW label, NEW l, Goto(t, label, l),
           HeapJoins(heap', root'), ThreadJoins(heap', root', l, label),
           \A u \in Threads : u /= t => ThreadJoins(heap', root', loc[u], pc[u])
    PROVE  RoutesAreHeld'
<1>1. pc \in [Threads -> Labels] /\ loc \in [Threads -> Locals]
  BY DEF JInv, IInv, TypeOK
<1>2. /\ pc'[t] = label /\ loc'[t] = l
      /\ \A u \in Threads : u /= t => pc'[u] = pc[u] /\ loc'[u] = loc[u]
  BY <1>1 DEF Goto
<1>3. ASSUME NEW u \in Threads PROVE ThreadJoins(heap', root', loc'[u], pc'[u])
  <2>1. CASE u = t
    BY <1>2, <2>1
  <2>2. CASE u /= t
    BY <1>2, <2>2
  <2> QED BY <2>1, <2>2
<1> QED BY <1>3 DEF RoutesAreHeld

LEMMA CalmStep ==
    ASSUME JInv, NEW t \in Threads, NEW label, NEW l, Goto(t, label, l), HeapOK(heap'),
           Calm(heap, root, heap', root'), Fresh(heap, heap', root'),
           NEW M, KeepsJoins(heap, root, heap', M),
           M = null \/ Owns(t, M) \/ M \in Committed(heap),
           \A m \in Committed(heap') \ Committed(heap) : JoinLocks(heap', root', m),
           ThreadJoins(heap', root', l, label)
    PROVE  JoinsKept
<1>1. HeapOK(heap) /\ root \in Ptr(heap) /\ HeapJoins(heap, root)
  BY JoinsState
<1>2. HeapJoins(heap', root')
  BY <1>1, CalmHeap
<1>3. ASSUME NEW u \in Threads, u /= t PROVE ThreadJoins(heap', root', loc[u], pc[u])
  <2>1. LocalOK(heap, loc[u], pc[u], call[u]) /\ ThreadJoins(heap, root, loc[u], pc[u])
    BY JoinsState
  <2>2. ASSUME pc[u] \in OwnerLabels PROVE loc[u].m /= M
    <3>1. /\ loc[u].m \in Ptr(heap) /\ heap[loc[u].m].neigh2 \in Unpublished
          /\ \A w \in Threads : Owns(w, loc[u].m) => w = u
      BY <2>1, <2>2 DEF JInv, IInv, WellFormed, OwnersOK, LocalOK, JoinLocalsOK
    <3> QED BY <1>3, <3>1, NullIsNoNode DEF Committed
  <2> QED BY <1>1, <2>1, <2>2, CalmThread
<1>4. RoutesAreHeld'
  BY <1>2, <1>3, JoinsStep
<1>5. OldRoutesStay(heap, root, heap', root')
  BY <1>1, CalmTree
<1> QED BY <1>4, <1>5 DEF JoinsKept

(* A step that leaves the shared memory alone.                             *)
LEMMA SameHeapStep ==
    ASSUME JInv, NEW t \in Threads, NEW label, NEW l, Goto(t, label, l), heap' = heap, root' = root,
           ThreadJoins(heap, root, l, label)
    PROVE  JoinsKept
<1>1. HeapJoins(heap, root) /\ \A u \in Threads : ThreadJoins(heap, root, loc[u], pc[u])
  BY DEF JInv, RoutesAreHeld
<1>2. RoutesAreHeld'
  BY <1>1, JoinsStep
<1>3. OldRoutesStay(heap, root, heap', root')
  BY SameTree, JoinsState
<1> QED BY <1>2, <1>3 DEF JoinsKept

(* The labels at which a thread relies on nothing of this.                 *)
LEMMA FreeLabel ==
    ASSUME NEW h, NEW rt, NEW l, NEW label,
           label \notin OwnerLabels \cup HelperLabels \cup {"replace", "split", "copy", "lockMain"}
    PROVE  ThreadJoins(h, rt, l, label)
BY DEF ThreadJoins, OwnerJoins, HelperJoins, BaseJoins, LocksParent, LocksGparent,
       OwnerLabels, HelperLabels

LEMMA ThenIsFree ==
    ASSUME NEW l \in Locals, NEW h, NEW rt, NEW l2
    PROVE  ThreadJoins(h, rt, l2, l.then)
<1>1. l.then \in {"root", "next", "return"}
  BY DEF Locals
<1> QED BY <1>1, FreeLabel DEF OwnerLabels, HelperLabels

LEMMA FreeSteps ==
    ASSUME JInv, NEW t \in Threads,
           \/ Begin(t) \/ Return(t) \/ LoadRoot(t) \/ FindBase(t) \/ Lookup(t) \/ ReplaceFails(t)
           \/ ChooseSide(t) \/ LoadSibling(t) \/ FindNeighbor(t) \/ FindBaseStack(t)
           \/ FindNextBase(t) \/ Climb(t) \/ GoRight(t) \/ GoLeft(t)
    PROVE  JoinsKept
<1>1. PICK label, l : /\ Goto(t, label, l) /\ heap' = heap /\ root' = root
                      /\ label \in {"idle", "root", "find", "return", "help", "sibling", "outermost",
                                    "goRight", "goLeft", "climb"}
  BY DEF Begin, Return, LoadRoot, FindBase, Lookup, ReplaceFails, ChooseSide, LoadSibling,
         FindNeighbor, FindBaseStack, FindNextBase, Climb, GoRight, GoLeft, Local
<1>2. ThreadJoins(heap, root, l, label)
  BY <1>1, FreeLabel DEF OwnerLabels, HelperLabels
<1> QED BY <1>1, <1>2, SameHeapStep

(* A base is found, and whether it may be replaced.                        *)
LEMMA BaseSteps ==
    ASSUME JInv, NEW t \in Threads,
           FindFull(t) \/ CheckBase(t) \/ CheckNeighbor(t) \/ CheckRangeBase(t) \/ CopyFails(t)
    PROVE  JoinsKept
<1>1. loc[t] \in Locals /\ loc[t].then \in {"root", "next", "return"}
  BY JoinsState DEF Locals
<1>2. CASE FindFull(t) \/ CheckBase(t) \/ CheckRangeBase(t)
  <2> DEFINE n == loc[t].cur
  <2>1. ASSUME NEW label, NEW l, Goto(t, label, l), heap' = heap, root' = root, l.base = n,
               label \in {"split", "replace", "copy", "help"}, n \notin Routes(heap),
               label = "copy" => is_replaceable(n)
        PROVE  JoinsKept
    <3>1. is_replaceable(n) /\ heap[n].type = "join_main" => heap[n].neigh2 = ABORTED
      BY DEF is_replaceable
    <3> HIDE DEF n
    <3>2. ThreadJoins(heap, root, l, label)
      BY <2>1, <3>1 DEF ThreadJoins, OwnerJoins, HelperJoins, BaseJoins, LocksParent, LocksGparent,
                        OwnerLabels, HelperLabels
    <3> QED BY <2>1, <3>2, SameHeapStep
  <2>2. /\ [loc[t] EXCEPT !.base = n].base = n
        /\ [loc[t] EXCEPT !.base = n, !.contended = TRUE].base = n
        /\ [loc[t] EXCEPT !.base = n, !.stack = Append(@, n)].base = n
        /\ [loc[t] EXCEPT !.base = n, !.stack = loc[t].backup].base = n
    BY <1>1 DEF Locals
  <2>3. CASE FindFull(t)
    BY <2>1, <2>2, <2>3 DEF FindFull, Local, IsRoute, Routes
  <2>4. CASE CheckBase(t)
    BY <2>1, <2>2, <2>4 DEF CheckBase, Local, IsRoute, Routes
  <2>5. CASE CheckRangeBase(t)
    BY <2>1, <2>2, <2>5 DEF CheckRangeBase, Local, IsRoute, Routes
  <2> QED BY <1>2, <2>3, <2>4, <2>5
<1>3. CASE CheckNeighbor(t)
  <2>1. PICK label : /\ Goto(t, label, loc[t]) /\ heap' = heap /\ root' = root
                     /\ label \in {"lockMain", "return"} /\ loc[t].cur \notin Routes(heap)
    BY <1>3 DEF CheckNeighbor, Local, IsRoute, Routes
  <2>2. ThreadJoins(heap, root, loc[t], label)
    BY <2>1 DEF ThreadJoins, OwnerJoins, HelperJoins, BaseJoins, LocksParent, LocksGparent,
                OwnerLabels, HelperLabels
  <2> QED BY <2>1, <2>2, SameHeapStep
<1>4. CASE CopyFails(t)
  <2>1. PICK l : Goto(t, loc[t].then, l) /\ heap' = heap /\ root' = root
    BY <1>4 DEF CopyFails, Local
  <2> QED BY <1>1, <2>1, ThenIsFree, SameHeapStep
<1> QED BY <1>2, <1>3, <1>4

LEMMA HelpJoins ==
    ASSUME JInv, NEW t \in Threads, Help(t)
    PROVE  JoinsKept
<1>1. loc[t] \in Locals
  BY JoinsState
<1>2. PICK label, l : /\ Goto(t, label, l) /\ heap' = heap /\ root' = root
                      /\ label \in {"abort", "load", loc[t].then}
  BY DEF Help, Local
<1>3. ThreadJoins(heap, root, l, label)
  <2>1. CASE label = loc[t].then
    BY <1>1, <2>1, ThenIsFree
  <2>2. CASE label \in {"abort", "load"}
    BY <2>2 DEF ThreadJoins, OwnerJoins, HelperJoins, BaseJoins, LocksParent, LocksGparent,
                OwnerLabels, HelperLabels
  <2> QED BY <1>2, <2>1, <2>2
<1> QED BY <1>2, <1>3, SameHeapStep

(* parent_of: every route on the way down is older than the one below it.  *)
LEMMA ParentSteps ==
    ASSUME JInv, NEW t \in Threads,
           ParentOf(t) \/ SearchParent(t) \/ ParentFound(t) \/ ParentNotFound(t)
    PROVE  JoinsKept
<1> DEFINE m == loc[t].m
           p == Parent(t)
<1>1. /\ pc[t] \in {"parentOf", "search"} /\ pc[t] \in OwnerLabels /\ pc[t] \in LocksParent
      /\ HeapOK(heap) /\ root \in Ptr(heap) /\ HeapJoins(heap, root)
      /\ loc[t] \in Locals /\ LocalOK(heap, loc[t], pc[t], call[t])
      /\ OwnerJoins(heap, root, loc[t], pc[t])
  BY JoinsState DEF ParentOf, SearchParent, ParentFound, ParentNotFound, OwnerLabels, LocksParent,
                    ThreadJoins
<1>2. OwnSide(heap, root, m, loc[t].side) /\ heap[p].join_id = m
  BY <1>1 DEF OwnerJoins, Parent
<1>3. ASSUME NEW l, NEW label, Goto(t, label, l), heap' = heap, root' = root,
             l.m = m, l.side = loc[t].side,
             label \in {"search", "lockGparent", "readOther", "undoParent"},
             label \in {"readOther", "lockGparent"} => l.gparent < p,
             label = "search" =>
                l.gparent < l.cur /\ (l.cur = p => HeldOrGone(heap, root, l.gparent, p)),
             label = "lockGparent" => HeldOrGone(heap, root, l.gparent, p),
             label = "readOther" => l.gparent = null /\ Holds(heap, root, l.gparent, p)
      PROVE  JoinsKept
  <2>1. OwnerJoins(heap, root, l, label)
    BY <1>2, <1>3 DEF OwnerJoins, Parent, LocksGparent
  <2>2. ThreadJoins(heap, root, l, label)
    BY <1>3, <2>1 DEF ThreadJoins, HelperJoins, BaseJoins, HelperLabels
  <2> QED BY <1>3, <2>2, SameHeapStep
<1>4. CASE ParentOf(t)
  <2> DEFINE l == [loc[t] EXCEPT !.cur = root, !.gparent = null]
  <2>1. Goto(t, "search", l) /\ heap' = heap /\ root' = root
    BY <1>4 DEF ParentOf, Local
  <2>2. l.m = m /\ l.side = loc[t].side /\ l.cur = root /\ l.gparent = null
    BY <1>1 DEF Locals
  <2>3. null < root /\ (root = p => HeldOrGone(heap, root, null, p))
    BY <1>1, HeapBasics DEF HeldOrGone, Holds, null
  <2> HIDE DEF l
  <2> QED BY <1>3, <2>1, <2>2, <2>3
<1>5. CASE SearchParent(t)
  <2> DEFINE n == loc[t].cur
             side == IF heap[p].key < heap[n].key THEN "left" ELSE "right"
             next == IF heap[p].key < heap[n].key THEN heap[n].left ELSE heap[n].right
             l == [loc[t] EXCEPT !.gparent = n, !.cur = next]
  <2>1. n \in Routes(heap) /\ n /= null /\ n \in Ptr(heap)
    BY <1>1, <1>5, NullIsNoNode DEF SearchParent, IsRoute, Routes, LocalOK, CurOK
  <2>2. heap[n].left > n /\ heap[n].right > n /\ n \in Nat /\ heap[n] \in Node
    BY <1>1, <2>1, HeapBasics DEF HeapJoins, YoungerBelow
  <2>3. n < next
    BY <2>2 DEF Node
  <2>4. next = Side(heap, n, side) /\ side \in Sides
    BY DEF Side, Sides
  <2>5. next = p => HeldOrGone(heap, root, n, p)
    BY <2>1, <2>4 DEF HeldOrGone, Holds
  <2>6. Goto(t, "search", l) /\ heap' = heap /\ root' = root
    BY <1>5 DEF SearchParent, Local
  <2>7. l.m = m /\ l.side = loc[t].side /\ l.cur = next /\ l.gparent = n
    BY <1>1 DEF Locals
  <2> HIDE DEF l, next
  <2> QED BY <1>3, <2>3, <2>5, <2>6, <2>7
<1>6. CASE ParentFound(t)
  <2> DEFINE q == loc[t].gparent
             label == IF q = null THEN "readOther" ELSE "lockGparent"
  <2>1. q < p /\ HeldOrGone(heap, root, q, p)
    BY <1>1, <1>6 DEF ParentFound, OwnerJoins, Parent
  <2>2. q = null => Holds(heap, root, q, p)
    BY <2>1 DEF HeldOrGone
  <2>3. Goto(t, label, loc[t]) /\ heap' = heap /\ root' = root
    BY <1>6 DEF ParentFound, Local
  <2>4. /\ label \in {"search", "lockGparent", "readOther", "undoParent"}
        /\ label /= "search" /\ (label = "readOther" => q = null)
    OBVIOUS
  <2> HIDE DEF label
  <2> QED BY <1>3, <2>1, <2>2, <2>3, <2>4
<1>7. CASE ParentNotFound(t)
  <2>1. Goto(t, "undoParent", loc[t]) /\ heap' = heap /\ root' = root
    BY <1>7 DEF ParentNotFound, Local
  <2> QED BY <1>3, <2>1
<1> QED BY <1>4, <1>5, <1>6, <1>7

LEMMA LoadJoinedJoins ==
    ASSUME JInv, NEW t \in Threads, LoadJoined(t)
    PROVE  JoinsKept
<1> DEFINE m == loc[t].m
           n2 == heap[m].neigh2
<1>1. /\ pc[t] = "load" /\ pc[t] \in HelperLabels /\ loc[t] \in Locals
      /\ LocalOK(heap, loc[t], pc[t], call[t]) /\ HeapJoins(heap, root)
  BY JoinsState DEF LoadJoined, HelperLabels
<1>2. m \in Committed(heap)
  BY <1>1 DEF LocalOK, JoinLocalsOK, Committed
<1>3. CASE n2 = DONE
  <2>1. Goto(t, loc[t].then, loc[t]) /\ heap' = heap /\ root' = root
    BY <1>3 DEF LoadJoined, Local
  <2> QED BY <1>1, <2>1, ThenIsFree, SameHeapStep
<1>4. CASE n2 /= DONE
  <2> DEFINE l == [loc[t] EXCEPT !.n2 = n2]
  <2>1. Goto(t, "replaceNeighbor", l) /\ heap' = heap /\ root' = root
    BY <1>4 DEF LoadJoined, Local
  <2>2. l.m = m /\ l.n2 = n2
    BY <1>1 DEF Locals
  <2>3. heap[n2].type = "join_neighbor" /\ heap[m].neigh1 < n2
    BY <1>1, <1>2, <1>4 DEF HeapJoins, JoinLocks
  <2> HIDE DEF l
  <2>4. ThreadJoins(heap, root, l, "replaceNeighbor")
    BY <2>2, <2>3 DEF ThreadJoins, OwnerJoins, HelperJoins, BaseJoins, LocksParent, LocksGparent,
                      OwnerLabels
  <2> QED BY <2>1, <2>4, SameHeapStep
<1> QED BY <1>3, <1>4

LEMMA FindSlotJoins ==
    ASSUME JInv, NEW t \in Threads, FindSlot(t)
    PROVE  JoinsKept
<1> DEFINE m == loc[t].m
           p == Parent(t)
           g == heap[m].gparent
<1>1. /\ pc[t] = "findSlot" /\ pc[t] \in HelperLabels /\ loc[t] \in Locals
      /\ HelperJoins(heap, root, loc[t], "findSlot")
      /\ LocalOK(heap, loc[t], "findSlot", call[t])
  BY JoinsState DEF FindSlot, HelperLabels, ThreadJoins
<1>2. heap[loc[t].n2].type = "join_neighbor" /\ heap[m].neigh1 < loc[t].n2 /\ ~heap[p].valid
  BY <1>1 DEF HelperJoins, Parent
<1>3. g /= null
  BY <1>1 DEF LocalOK, JoinLocalsOK
<1>4. CASE p \in {heap[g].left, heap[g].right}
  <2> DEFINE slot == IF heap[g].left = p THEN "left" ELSE "right"
             l == [loc[t] EXCEPT !.slot = slot]
  <2>1. Goto(t, "splice", l) /\ heap' = heap /\ root' = root
    BY <1>4 DEF FindSlot, Local
  <2>2. l.m = m /\ l.n2 = loc[t].n2 /\ l.slot = slot
    BY <1>1 DEF Locals
  <2>3. Side(heap, g, slot) = p
    BY <1>4 DEF Side
  <2> HIDE DEF l, slot
  <2>4. ThreadJoins(heap, root, l, "splice")
    BY <1>2, <2>2, <2>3 DEF ThreadJoins, OwnerJoins, HelperJoins, BaseJoins, LocksParent,
                            LocksGparent, OwnerLabels, Parent
  <2> QED BY <2>1, <2>4, SameHeapStep
<1>5. CASE p \notin {heap[g].left, heap[g].right}
  <2>1. Goto(t, "done", loc[t]) /\ heap' = heap /\ root' = root
    BY <1>5 DEF FindSlot, Local
  <2>2. IsCut(heap, root, m)
    BY <1>3, <1>5 DEF IsCut, Holds, Side, Parent
  <2>3. ThreadJoins(heap, root, loc[t], "done")
    BY <1>2, <2>2 DEF ThreadJoins, OwnerJoins, HelperJoins, BaseJoins, LocksParent,
                      LocksGparent, OwnerLabels, Parent
  <2> QED BY <2>1, <2>3, SameHeapStep
<1> QED BY <1>4, <1>5

-----------------------------------------------------------------------------
(* The actions that change one field of a node                             *)

SameLinks(x, y) ==
    /\ y.type = x.type /\ y.parent = x.parent /\ y.main_node = x.main_node
    /\ y.left = x.left /\ y.right = x.right

SameJoin(x, y) ==
    y.gparent = x.gparent /\ y.otherb = x.otherb /\ y.neigh1 = x.neigh1 /\ y.neigh2 = x.neigh2

LEMMA FieldEdits ==
    ASSUME NEW x \in Node, NEW c
    PROVE  /\ LET y == [x EXCEPT !.join_id = c]
              IN  SameLinks(x, y) /\ SameJoin(x, y) /\ y.valid = x.valid /\ y.join_id = c
           /\ LET y == [x EXCEPT !.valid = c]
              IN  SameLinks(x, y) /\ SameJoin(x, y) /\ y.valid = c /\ y.join_id = x.join_id
           /\ LET y == [x EXCEPT !.neigh2 = c]
              IN  /\ SameLinks(x, y) /\ y.valid = x.valid /\ y.join_id = x.join_id
                  /\ y.gparent = x.gparent /\ y.otherb = x.otherb /\ y.neigh1 = x.neigh1
                  /\ y.neigh2 = c
BY DEF Node, SameLinks, SameJoin

(* Heap g is heap h with another node i.                                   *)
EditOf(h, i, g) == Len(g) = Len(h) /\ \A j \in Ptr(h) : j /= i => g[j] = h[j]

LEMMA EditNode ==
    ASSUME NEW h, HeapOK(h), NEW i \in Ptr(h), NEW x
    PROVE  LET g == [h EXCEPT ![i] = x] IN EditOf(h, i, g) /\ g[i] = x
<1> DEFINE g == [h EXCEPT ![i] = x]
<1>1. h \in Seq(Node)
  BY DEF HeapOK
<1>2. Len(h) \in Nat /\ DOMAIN h = 1 .. Len(h)
  BY <1>1, LenProperties
<1>3. DOMAIN g = 1 .. Len(h) /\ g[i] = x /\ \A j \in Ptr(h) : j /= i => g[j] = h[j]
  BY <1>1, <1>2 DEF Ptr
<1>4. g \in Seq(Node \cup {x})
  <2>1. h \in Seq(Node \cup {x})
    BY <1>1
  <2> QED BY <2>1, ExceptSeq DEF Ptr
<1>5. Len(g) = Len(h)
  <2>1. Len(g) \in Nat /\ DOMAIN g = 1 .. Len(g)
    BY <1>4, LenProperties
  <2> HIDE DEF g
  <2> QED BY <1>2, <1>3, <2>1
<1> QED BY <1>3, <1>5 DEF EditOf

SetLock(h, i, c) == [h EXCEPT ![i].join_id = c]
SetInvalid(h, i) == [h EXCEPT ![i].valid = FALSE]
SetOutcome(h, i, c) == [h EXCEPT ![i].neigh2 = c]

LEMMA LockEdit ==
    ASSUME NEW h, HeapOK(h), NEW i \in Ptr(h), NEW c
    PROVE  LET g == SetLock(h, i, c)
           IN  /\ EditOf(h, i, g) /\ SameLinks(h[i], g[i]) /\ SameJoin(h[i], g[i])
               /\ g[i].valid = h[i].valid /\ g[i].join_id = c
<1> DEFINE x == [h[i] EXCEPT !.join_id = c]
<1>1. h[i] \in Node
  BY HeapBasics
<1>2. SameLinks(h[i], x) /\ SameJoin(h[i], x) /\ x.valid = h[i].valid /\ x.join_id = c
  BY ZenonT(40), <1>1, FieldEdits
<1>3. SetLock(h, i, c) = [h EXCEPT ![i] = x]
  BY DEF SetLock
<1> HIDE DEF x
<1>4. LET g == [h EXCEPT ![i] = x] IN EditOf(h, i, g) /\ g[i] = x
  BY EditNode
<1> QED BY <1>2, <1>3, <1>4

LEMMA ValidEdit ==
    ASSUME NEW h, HeapOK(h), NEW i \in Ptr(h)
    PROVE  LET g == SetInvalid(h, i)
           IN  /\ EditOf(h, i, g) /\ SameLinks(h[i], g[i]) /\ SameJoin(h[i], g[i])
               /\ g[i].join_id = h[i].join_id /\ g[i].valid = FALSE
<1> DEFINE x == [h[i] EXCEPT !.valid = FALSE]
<1>1. h[i] \in Node
  BY HeapBasics
<1>2. SameLinks(h[i], x) /\ SameJoin(h[i], x) /\ x.valid = FALSE /\ x.join_id = h[i].join_id
  BY ZenonT(40), <1>1, FieldEdits
<1>3. SetInvalid(h, i) = [h EXCEPT ![i] = x]
  BY DEF SetInvalid
<1> HIDE DEF x
<1>4. LET g == [h EXCEPT ![i] = x] IN EditOf(h, i, g) /\ g[i] = x
  BY EditNode
<1> QED BY <1>2, <1>3, <1>4

LEMMA OutcomeEdit ==
    ASSUME NEW h, HeapOK(h), NEW i \in Ptr(h), NEW c
    PROVE  LET g == SetOutcome(h, i, c)
           IN  /\ EditOf(h, i, g) /\ SameLinks(h[i], g[i])
               /\ g[i].valid = h[i].valid /\ g[i].join_id = h[i].join_id
               /\ g[i].gparent = h[i].gparent /\ g[i].otherb = h[i].otherb
               /\ g[i].neigh1 = h[i].neigh1 /\ g[i].neigh2 = c
<1> DEFINE x == [h[i] EXCEPT !.neigh2 = c]
<1>1. h[i] \in Node
  BY HeapBasics
<1>2. /\ SameLinks(h[i], x) /\ x.valid = h[i].valid /\ x.join_id = h[i].join_id
      /\ x.gparent = h[i].gparent /\ x.otherb = h[i].otherb /\ x.neigh1 = h[i].neigh1
      /\ x.neigh2 = c
  BY ZenonT(40), <1>1, FieldEdits
<1>3. SetOutcome(h, i, c) = [h EXCEPT ![i] = x]
  BY DEF SetOutcome
<1> HIDE DEF x
<1>4. LET g == [h EXCEPT ![i] = x] IN EditOf(h, i, g) /\ g[i] = x
  BY EditNode
<1> QED BY <1>2, <1>3, <1>4

(* Such an edit is calm, if the node keeps its place and its outcome.      *)
LEMMA EditCalm ==
    ASSUME NEW h, NEW rt, NEW g, HeapOK(h), HeapOK(g), NEW i \in Ptr(h), EditOf(h, i, g),
           SameLinks(h[i], g[i]),
           h[i].neigh2 = ABORTED => g[i].neigh2 = ABORTED,
           g[i].neigh2 \notin Unpublished <=> h[i].neigh2 \notin Unpublished,
           i \in Committed(h) => /\ g[i].gparent = h[i].gparent /\ g[i].otherb = h[i].otherb
                                 /\ g[i].neigh1 = h[i].neigh1
    PROVE  Calm(h, rt, g, rt) /\ Fresh(h, g, rt) /\ Committed(g) = Committed(h)
<1>1. Ptr(g) = Ptr(h) /\ Len(h) <= Len(g)
  BY HeapBasics DEF EditOf, Ptr
<1>2. /\ \A n \in Ptr(h) : g[n].type = h[n].type /\ g[n].parent = h[n].parent
      /\ \A n \in Ptr(h) : g[n].left = h[n].left /\ g[n].right = h[n].right
      /\ \A n \in Ptr(h) : g[n].neigh2 \notin Unpublished <=> h[n].neigh2 \notin Unpublished
      /\ \A n \in Ptr(h) : h[n].neigh2 = ABORTED => g[n].neigh2 = ABORTED
  BY DEF EditOf, SameLinks
<1>3. Committed(g) = Committed(h)
  BY <1>1, <1>2 DEF Committed
<1>4. Routes(g) = Routes(h)
  BY <1>1, <1>2 DEF Routes
<1>5. SameJoins(h, g)
  BY <1>1, <1>2, <1>3, CommittedRoutes DEF SameJoins, EditOf
<1>6. SameSlots(h, rt, g, rt)
  BY <1>2, NullIsNoNode DEF SameSlots, Side
<1>7. PublishedInPlace(h, rt, g, rt)
  BY <1>3 DEF PublishedInPlace
<1>8. Fresh(h, g, rt)
  BY <1>1, <1>4, NullIsNoNode DEF Fresh
<1> QED BY <1>3, <1>5, <1>6, <1>7, <1>8 DEF Calm

(* A step that changes join_id or valid of node i.                         *)
LEMMA LockStep ==
    ASSUME JInv, NEW t \in Threads, NEW label, NEW l, Goto(t, label, l), HeapOK(heap'), root' = root,
           NEW i \in Ptr(heap), EditOf(heap, i, heap'),
           SameLinks(heap[i], heap'[i]), SameJoin(heap[i], heap'[i]),
           heap[i].valid = FALSE => heap'[i].valid = FALSE,
           NEW M, M = null \/ Owns(t, M) \/ (M \in Committed(heap) /\ IsCut(heap, root, M) /\ heap[M].parent /= i),
           heap[i].join_id \in {null, M} \/ heap'[i].join_id = heap[i].join_id,
           Calm(heap, root, heap', root') /\ KeepsJoins(heap, root, heap', M) =>
                ThreadJoins(heap', root', l, label)
    PROVE  JoinsKept
<1>1. HeapOK(heap) /\ HeapJoins(heap, root)
  BY JoinsState
<1>2. Calm(heap, root, heap', root) /\ Fresh(heap, heap', root) /\ Committed(heap') = Committed(heap)
  BY <1>1, EditCalm DEF SameJoin
<1>3. KeepsJoins(heap, root, heap', M)
  <2>1. \A n \in Ptr(heap) :
            /\ heap[n].join_id \in {null, M} \/ heap'[n].join_id = heap[n].join_id
            /\ heap[n].valid = FALSE => heap'[n].valid = FALSE
            /\ SameJoin(heap[n], heap'[n])
    BY DEF EditOf, SameJoin
  <2>2. ASSUME NEW m \in Committed(heap)
        PROVE  heap'[m].neigh2 = heap[m].neigh2 /\
               (m = M => heap'[heap[m].parent].join_id = m /\ IsCut(heap, root, m))
    <3>1. m \in Ptr(heap) /\ heap[m].parent \in Ptr(heap) /\ heap[heap[m].parent].join_id = m
      BY <1>1, CommittedRoutes, NullIsNoNode DEF HeapJoins, JoinLocks
    <3>2. m /= null /\ ~Owns(t, m)
      <4>1. m /= null /\ heap[m].neigh2 \notin Unpublished
        BY <1>1, CommittedRoutes, NullIsNoNode
      <4> QED BY <4>1, JoinsState, ThreadState DEF Owns
    <3>3. m = M => heap[m].parent /= i /\ IsCut(heap, root, m)
      BY <3>2
    <3> QED BY <2>1, <3>1, <3>3 DEF EditOf, SameJoin
  <2> QED BY <2>1, <2>2 DEF KeepsJoins, SameJoin
<1>4. M = null \/ Owns(t, M) \/ M \in Committed(heap)
  OBVIOUS
<1>5. ThreadJoins(heap', root', l, label)
  BY <1>2, <1>3
<1> QED BY <1>1, <1>2, <1>3, <1>4, <1>5, CalmStep

(* What a thread relies on that undoes a join, or has begun one.           *)
LEMMA OwnerAt ==
    ASSUME NEW h, NEW rt, NEW l, NEW label,
           label \in {"lockParent", "parentOf", "undoGparent", "undoParent", "undoMain"},
           OwnSide(h, rt, l.m, l.side),
           label \in {"parentOf", "undoGparent", "undoParent"} => h[h[l.m].parent].join_id = l.m,
           label = "undoGparent" =>
                /\ l.gparent /= null => h[l.gparent].join_id = l.m
                /\ l.gparent < h[l.m].parent
    PROVE  ThreadJoins(h, rt, l, label)
BY DEF ThreadJoins, OwnerJoins, HelperJoins, BaseJoins, LocksParent, LocksGparent,
       OwnerLabels, HelperLabels

LEMMA OwnerState ==
    ASSUME JInv, NEW t \in Threads, pc[t] \in OwnerLabels
    PROVE  /\ IInv /\ HeapOK(heap) /\ root \in Ptr(heap) /\ HeapJoins(heap, root)
           /\ loc[t].m \in Ptr(heap) /\ heap[loc[t].m].type = "join_main" /\ loc[t].m /= null
           /\ Parent(t) \in Routes(heap) /\ Parent(t) \in Ptr(heap)
           /\ Owns(t, loc[t].m) /\ loc[t].m \notin Committed(heap)
           /\ OwnerJoins(heap, root, loc[t], pc[t])
           /\ OwnSide(heap, root, loc[t].m, loc[t].side)
           /\ pc[t] \in LocksParent => heap[Parent(t)].join_id = loc[t].m
           /\ loc[t] \in Locals /\ LocalOK(heap, loc[t], pc[t], call[t])
BY JoinsState, ThreadState, MainParent, NullIsNoNode
   DEF Owns, Committed, ThreadJoins, OwnerJoins, Parent

LEMMA LockParentJoins ==
    ASSUME JInv, HeapOK(heap'), NEW t \in Threads, LockParent(t)
    PROVE  JoinsKept
<1> DEFINE m == loc[t].m
           p == Parent(t)
<1>1. pc[t] = "lockParent" /\ pc[t] \in OwnerLabels /\ root' = root
  BY DEF LockParent, OwnerLabels
<1>2. /\ HeapOK(heap) /\ m \in Ptr(heap) /\ heap[m].type = "join_main" /\ p \in Ptr(heap)
      /\ OwnSide(heap, root, m, loc[t].side) /\ p = heap[m].parent
  BY <1>1, OwnerState DEF Parent
<1>3. CASE heap[p].join_id = null /\ heap' = [heap EXCEPT ![p].join_id = m] /\ Goto(t, "parentOf", loc[t])
  <2> HIDE DEF p, m
  <2>1. heap' = SetLock(heap, p, m)
    BY <1>3 DEF SetLock
  <2>2. /\ EditOf(heap, p, heap') /\ SameLinks(heap[p], heap'[p]) /\ SameJoin(heap[p], heap'[p])
        /\ heap'[p].valid = heap[p].valid /\ heap'[p].join_id = m
    BY <1>2, <2>1, LockEdit
  <2>3. ASSUME Calm(heap, root, heap', root')
        PROVE  ThreadJoins(heap', root', loc[t], "parentOf")
    <3>1. OwnSide(heap', root', m, loc[t].side) /\ heap'[m].parent = p
      BY <1>2, <2>3, CalmOwnSide DEF Calm, SameJoins
    <3> QED BY <2>2, <3>1, OwnerAt DEF m
  <2> QED BY <1>1, <1>2, <1>3, <2>2, <2>3, LockStep
<1>4. CASE heap' = heap /\ Goto(t, "undoMain", loc[t])
  BY <1>1, <1>2, <1>4, OwnerAt, SameHeapStep
<1> QED BY <1>3, <1>4 DEF LockParent, Shared

(* Only a route that nobody has locked, and so nobody has cut out, can be  *)
(* locked.                                                                 *)
LEMMA LockGparentJoins ==
    ASSUME JInv, HeapOK(heap'), NEW t \in Threads, LockGparent(t)
    PROVE  JoinsKept
<1> DEFINE m == loc[t].m
           p == Parent(t)
           g == loc[t].gparent
<1>1. pc[t] = "lockGparent" /\ pc[t] \in OwnerLabels /\ pc[t] \in LocksParent /\ root' = root
  BY DEF LockGparent, OwnerLabels, LocksParent
<1>2. /\ HeapOK(heap) /\ HeapJoins(heap, root) /\ m \in Ptr(heap) /\ heap[m].type = "join_main"
      /\ p \in Ptr(heap) /\ p \in Routes(heap)
      /\ OwnSide(heap, root, m, loc[t].side) /\ p = heap[m].parent /\ heap[p].join_id = m
      /\ g < p /\ HeldOrGone(heap, root, g, p)
      /\ LocalOK(heap, loc[t], pc[t], call[t])
  BY <1>1, OwnerState DEF Parent, OwnerJoins
<1>3. g \in Routes(heap) /\ g \in Ptr(heap)
  BY <1>1, <1>2, NullIsNoNode DEF LocalOK, JoinLocalsOK
<1>4. CASE heap[g].join_id = null /\ heap' = [heap EXCEPT ![g].join_id = m] /\ Goto(t, "readOther", loc[t])
  <2> HIDE DEF m, p, g
  <2>1. /\ EditOf(heap, g, heap') /\ SameLinks(heap[g], heap'[g]) /\ SameJoin(heap[g], heap'[g])
        /\ heap'[g].valid = heap[g].valid /\ heap'[g].join_id = m
    <3>1. heap' = SetLock(heap, g, m)
      BY <1>4 DEF SetLock
    <3> QED BY <1>2, <1>3, <3>1, LockEdit
  <2>2. Holds(heap, root, g, p)
    <3>1. heap[g].join_id \notin Committed(heap)
      BY <1>4, NullIsNoNode DEF Committed
    <3> QED BY <1>2, <1>3, <3>1, LockedIsAttached DEF HeldOrGone
  <2>3. ASSUME Calm(heap, root, heap', root')
        PROVE  ThreadJoins(heap', root', loc[t], "readOther")
    <3>1. OwnSide(heap', root', m, loc[t].side) /\ heap'[m].parent = p
      BY <1>2, <2>3, CalmOwnSide DEF Calm, SameJoins
    <3>2. Holds(heap', root', g, p)
      BY <1>2, <1>3, <2>2, <2>3, CalmHolds DEF Calm
    <3>3. p \in Nat /\ g \in Nat
      BY <1>2, <1>3, HeapBasics
    <3>4. heap'[p].join_id = m /\ heap'[g].join_id = m
      BY <1>2, <2>1, <3>3 DEF EditOf
    <3>5. OwnerJoins(heap', root', loc[t], "readOther")
      BY <1>2, <3>1, <3>2, <3>4 DEF OwnerJoins, LocksParent, LocksGparent, m, g
    <3> QED BY <3>5 DEF ThreadJoins, HelperJoins, BaseJoins, HelperLabels
  <2> QED BY <1>1, <1>2, <1>3, <1>4, <2>1, <2>3, LockStep
<1>5. CASE heap' = heap /\ Goto(t, "undoParent", loc[t])
  BY <1>1, <1>2, <1>5, OwnerAt, SameHeapStep
<1> QED BY <1>4, <1>5 DEF LockGparent, Shared

LEMMA UndoGparentJoins ==
    ASSUME JInv, HeapOK(heap'), NEW t \in Threads, UndoGparent(t)
    PROVE  JoinsKept
<1> DEFINE m == loc[t].m
           p == Parent(t)
           g == loc[t].gparent
<1>1. /\ pc[t] = "undoGparent" /\ pc[t] \in OwnerLabels /\ pc[t] \in LocksParent /\ root' = root
      /\ pc[t] \in LocksGparent
      /\ heap' = [heap EXCEPT ![g].join_id = null] /\ Goto(t, "undoParent", loc[t])
  BY DEF UndoGparent, OwnerLabels, LocksParent, LocksGparent, Shared
<1>2. /\ HeapOK(heap) /\ m \in Ptr(heap) /\ heap[m].type = "join_main" /\ Owns(t, m)
      /\ p \in Ptr(heap)
      /\ OwnSide(heap, root, m, loc[t].side) /\ p = heap[m].parent /\ heap[p].join_id = m
      /\ g < p /\ (g /= null => heap[g].join_id = m)
      /\ LocalOK(heap, loc[t], pc[t], call[t])
  BY <1>1, OwnerState DEF Parent, OwnerJoins
<1>3. g \in Ptr(heap) /\ g /= null /\ p \in Nat /\ g \in Nat
  BY <1>1, <1>2, NullIsNoNode, HeapBasics DEF LocalOK, JoinLocalsOK
<1> HIDE DEF m, p, g
<1>4. /\ EditOf(heap, g, heap') /\ SameLinks(heap[g], heap'[g]) /\ SameJoin(heap[g], heap'[g])
      /\ heap'[g].valid = heap[g].valid
  <2>1. heap' = SetLock(heap, g, null)
    BY <1>1 DEF SetLock
  <2> QED BY <1>2, <1>3, <2>1, LockEdit
<1>5. ASSUME Calm(heap, root, heap', root')
      PROVE  ThreadJoins(heap', root', loc[t], "undoParent")
  <2>1. OwnSide(heap', root', m, loc[t].side) /\ heap'[m].parent = p
    BY <1>2, <1>5, CalmOwnSide DEF Calm, SameJoins
  <2>2. heap'[p].join_id = m
    BY <1>2, <1>3, <1>4 DEF EditOf
  <2>3. loc[t].m = m
    BY DEF m
  <2> QED BY <2>1, <2>2, <2>3, OwnerAt
<1>6. Goto(t, "undoParent", loc[t]) /\ root' = root
  BY <1>1
<1>7. Calm(heap, root, heap', root') /\ KeepsJoins(heap, root, heap', m) =>
        ThreadJoins(heap', root', loc[t], "undoParent")
  BY <1>5
<1>8. Owns(t, m) /\ heap[g].join_id \in {null, m} /\ g \in Ptr(heap)
      /\ (heap[g].valid = FALSE => heap'[g].valid = FALSE)
  BY <1>2, <1>3, <1>4
<1> QED BY <1>4, <1>6, <1>7, <1>8, LockStep

LEMMA UndoParentJoins ==
    ASSUME JInv, HeapOK(heap'), NEW t \in Threads, UndoParent(t)
    PROVE  JoinsKept
<1> DEFINE m == loc[t].m
           p == Parent(t)
<1>1. /\ pc[t] = "undoParent" /\ pc[t] \in OwnerLabels /\ pc[t] \in LocksParent /\ root' = root
      /\ heap' = [heap EXCEPT ![p].join_id = null] /\ Goto(t, "undoMain", loc[t])
  BY DEF UndoParent, OwnerLabels, LocksParent, Shared
<1>2. /\ HeapOK(heap) /\ m \in Ptr(heap) /\ heap[m].type = "join_main" /\ Owns(t, m)
      /\ p \in Ptr(heap)
      /\ OwnSide(heap, root, m, loc[t].side) /\ p = heap[m].parent /\ heap[p].join_id = m
  BY <1>1, OwnerState DEF Parent
<1> HIDE DEF m, p
<1>3. /\ EditOf(heap, p, heap') /\ SameLinks(heap[p], heap'[p]) /\ SameJoin(heap[p], heap'[p])
      /\ heap'[p].valid = heap[p].valid
  <2>1. heap' = SetLock(heap, p, null)
    BY <1>1 DEF SetLock
  <2> QED BY <1>2, <2>1, LockEdit
<1>4. Calm(heap, root, heap', root') => ThreadJoins(heap', root', loc[t], "undoMain")
  <2>1. loc[t].m = m
    BY DEF m
  <2> QED BY <1>2, <2>1, CalmOwnSide, OwnerAt
<1>5. Goto(t, "undoMain", loc[t]) /\ root' = root
  BY <1>1
<1>6. Calm(heap, root, heap', root') /\ KeepsJoins(heap, root, heap', m) =>
        ThreadJoins(heap', root', loc[t], "undoMain")
  BY <1>4
<1>7. Owns(t, m) /\ heap[p].join_id \in {null, m} /\ p \in Ptr(heap)
      /\ (heap[p].valid = FALSE => heap'[p].valid = FALSE)
  BY <1>2, <1>3
<1> QED BY <1>3, <1>5, <1>6, <1>7, LockStep

LEMMA HelperState ==
    ASSUME JInv, NEW t \in Threads, pc[t] \in HelperLabels
    PROVE  /\ HeapOK(heap) /\ root \in Ptr(heap) /\ HeapJoins(heap, root)
           /\ loc[t].m \in Committed(heap) /\ loc[t].m \in Ptr(heap) /\ loc[t].m /= null
           /\ heap[loc[t].m].type = "join_main"
           /\ Parent(t) = heap[loc[t].m].parent /\ Parent(t) \in Routes(heap) /\ Parent(t) \in Ptr(heap)
           /\ heap[loc[t].m].gparent \in Routes(heap) \cup {null}
           /\ heap[loc[t].m].gparent < Parent(t) /\ Parent(t) \in Nat
           /\ HelperJoins(heap, root, loc[t], pc[t]) /\ JoinLocks(heap, root, loc[t].m)
           /\ pc[t] /= "load" => loc[t].n2 \in Ptr(heap)
           /\ loc[t] \in Locals /\ LocalOK(heap, loc[t], pc[t], call[t])
<1>1. /\ HeapOK(heap) /\ root \in Ptr(heap) /\ HeapJoins(heap, root)
      /\ loc[t] \in Locals /\ LocalOK(heap, loc[t], pc[t], call[t])
      /\ HelperJoins(heap, root, loc[t], pc[t])
  BY JoinsState DEF ThreadJoins
<1>2. loc[t].m \in Committed(heap) /\ (pc[t] /= "load" => loc[t].n2 \in Ptr(heap))
  BY <1>1 DEF LocalOK, JoinLocalsOK, Committed
<1>3. JoinLocks(heap, root, loc[t].m)
  BY <1>1, <1>2 DEF HeapJoins
<1>4. /\ loc[t].m \in Ptr(heap) /\ heap[loc[t].m].type = "join_main"
      /\ heap[loc[t].m].parent \in Routes(heap) /\ heap[loc[t].m].gparent \in Routes(heap) \cup {null}
  BY <1>1, <1>2, CommittedRoutes
<1>5. Parent(t) = heap[loc[t].m].parent
  BY DEF Parent
<1>6. /\ heap[loc[t].m].parent \in Ptr(heap) /\ loc[t].m /= null
      /\ heap[loc[t].m].parent \in Nat
  BY <1>1, <1>4, NullIsNoNode, HeapBasics
<1>7. heap[loc[t].m].gparent < heap[loc[t].m].parent
  BY <1>3 DEF JoinLocks
<1> QED BY <1>1, <1>2, <1>3, <1>4, <1>5, <1>6, <1>7

(* What a thread relies on that helps a join.                              *)
LEMMA HelperAt ==
    ASSUME NEW h, NEW rt, NEW l, NEW label,
           label \in {"invalidate", "findSlot", "splice", "unlock", "done"},
           h[l.n2].type = "join_neighbor", h[l.m].neigh1 < l.n2,
           label /= "invalidate" => ~h[h[l.m].parent].valid,
           label = "splice" => h[l.m].gparent = null,
           label \in {"unlock", "done"} => IsCut(h, rt, l.m)
    PROVE  ThreadJoins(h, rt, l, label)
BY SMTT(30) DEF ThreadJoins, OwnerJoins, HelperJoins, BaseJoins, LocksParent, LocksGparent,
       OwnerLabels, HelperLabels

LEMMA InvalidateJoins ==
    ASSUME JInv, HeapOK(heap'), NEW t \in Threads, Invalidate(t)
    PROVE  JoinsKept
<1> DEFINE m == loc[t].m
           p == Parent(t)
           label == IF heap[m].gparent = null THEN "splice" ELSE "findSlot"
<1>1. /\ pc[t] = "invalidate" /\ pc[t] \in HelperLabels
      /\ heap' = [heap EXCEPT ![p].valid = FALSE] /\ root' = root /\ Goto(t, label, loc[t])
  BY DEF Invalidate, HelperLabels, Shared
<1>2. /\ HeapOK(heap) /\ m \in Committed(heap) /\ m \in Ptr(heap)
      /\ p = heap[m].parent /\ p \in Ptr(heap) /\ loc[t].n2 \in Ptr(heap)
      /\ heap[loc[t].n2].type = "join_neighbor" /\ heap[m].neigh1 < loc[t].n2
  BY <1>1, HelperState DEF HelperJoins, HelperLabels
<1>3. label \in {"splice", "findSlot"} /\ (label = "splice" => heap[m].gparent = null)
  OBVIOUS
<1> HIDE DEF label, p
<1>4. heap' = SetInvalid(heap, p)
  BY <1>1 DEF SetInvalid
<1>5. /\ EditOf(heap, p, heap') /\ SameLinks(heap[p], heap'[p]) /\ SameJoin(heap[p], heap'[p])
      /\ heap'[p].join_id = heap[p].join_id /\ heap'[p].valid = FALSE
  BY <1>2, <1>4, ValidEdit
<1>6. ASSUME Calm(heap, root, heap', root') PROVE ThreadJoins(heap', root', loc[t], label)
  <2>1. /\ heap'[loc[t].n2].type = "join_neighbor" /\ heap'[m].neigh1 = heap[m].neigh1
        /\ heap'[m].parent = p /\ heap'[m].gparent = heap[m].gparent
    BY SMTT(30), <1>2, <1>6 DEF Calm, SameJoins
  <2> QED BY <1>2, <1>3, <1>5, <2>1, HelperAt
<1>7. Goto(t, label, loc[t]) /\ root' = root
  BY <1>1
<1> QED BY <1>2, <1>5, <1>6, <1>7, LockStep

(* A helper that comes late finds the lock released, and maybe taken by    *)
(* another join.                                                           *)
LEMMA UnlockJoins ==
    ASSUME JInv, HeapOK(heap'), NEW t \in Threads, Unlock(t)
    PROVE  JoinsKept
<1> DEFINE m == loc[t].m
           p == Parent(t)
           g == heap[m].gparent
<1>1. pc[t] = "unlock" /\ pc[t] \in HelperLabels /\ root' = root /\ Goto(t, "done", loc[t])
  BY DEF Unlock, HelperLabels, Shared
<1>2. /\ HeapOK(heap) /\ m \in Committed(heap) /\ m \in Ptr(heap)
      /\ p = heap[m].parent /\ p \in Ptr(heap) /\ loc[t].n2 \in Ptr(heap)
      /\ heap[loc[t].n2].type = "join_neighbor" /\ heap[m].neigh1 < loc[t].n2
      /\ ~heap[p].valid /\ IsCut(heap, root, m) /\ heap[p].valid \in BOOLEAN
  BY <1>1, HelperState, HeapBasics DEF HelperJoins, HelperLabels, Node
<1>3. g \in Ptr(heap) /\ g /= p
  <2>1. g /= null /\ g \in Routes(heap) \cup {null} /\ g < p /\ p \in Nat
    BY <1>1, HelperState DEF LocalOK, JoinLocalsOK
  <2> QED BY <2>1, NullIsNoNode
<1>4. CASE heap[g].join_id = m /\ heap' = [heap EXCEPT ![g].join_id = null]
  <2> HIDE DEF m, p, g
  <2>1. heap' = SetLock(heap, g, null)
    BY <1>4 DEF SetLock
  <2>2. /\ EditOf(heap, g, heap') /\ SameLinks(heap[g], heap'[g]) /\ SameJoin(heap[g], heap'[g])
        /\ heap'[g].valid = heap[g].valid
    BY <1>2, <1>3, <2>1, LockEdit
  <2>3. ASSUME Calm(heap, root, heap', root') PROVE ThreadJoins(heap', root', loc[t], "done")
    <3>1. /\ heap'[loc[t].n2].type = "join_neighbor" /\ heap'[m].neigh1 = heap[m].neigh1
          /\ heap'[m].parent = p
      BY <1>2, <2>3 DEF Calm, SameJoins
    <3>2. IsCut(heap', root', m)
      BY <1>2, <2>3, CalmAttached
    <3>3. heap'[p].valid = heap[p].valid
      BY <1>2, <1>3, <2>2 DEF EditOf
    <3>4. m = loc[t].m
      BY DEF m
    <3> QED BY <1>2, <3>1, <3>2, <3>3, <3>4, HelperAt
  <2>4. heap[g].join_id = m
    BY <1>4
  <2> QED BY <1>1, <1>2, <1>3, <2>2, <2>3, <2>4, LockStep
<1>5. CASE heap' = heap
  <2>1. ThreadJoins(heap, root, loc[t], "done")
    BY <1>2, HelperAt
  <2> QED BY <1>1, <1>5, <2>1, SameHeapStep
<1> QED BY <1>4, <1>5 DEF Unlock

-----------------------------------------------------------------------------
(* The stores to neigh2 of joins that are in the heap                      *)

LEMMA OutcomeStores ==
    ASSUME JInv, HeapOK(heap'), NEW t \in Threads, Goto(t, loc[t].then, loc[t]), root' = root,
           NEW i \in Ptr(heap), heap[i].type = "join_main", NEW o,
           heap' = SetOutcome(heap, i, o),
           \/ i \notin Committed(heap) /\ o = ABORTED
           \/ i \in Committed(heap) /\ o = DONE /\ IsCut(heap, root, i)
    PROVE  JoinsKept
<1>1. HeapOK(heap) /\ loc[t] \in Locals
  BY JoinsState
<1>2. /\ EditOf(heap, i, heap') /\ SameLinks(heap[i], heap'[i])
      /\ heap'[i].valid = heap[i].valid /\ heap'[i].join_id = heap[i].join_id
      /\ heap'[i].gparent = heap[i].gparent /\ heap'[i].otherb = heap[i].otherb
      /\ heap'[i].neigh1 = heap[i].neigh1 /\ heap'[i].neigh2 = o
  BY <1>1, OutcomeEdit
<1>3. DONE \notin Unpublished /\ ABORTED \in Unpublished
  BY DEF DONE, ABORTED, PREPARING, Unpublished
<1>4. /\ heap[i].neigh2 = ABORTED => o = ABORTED
      /\ o \notin Unpublished <=> heap[i].neigh2 \notin Unpublished
  BY <1>3 DEF Committed
<1>5. Calm(heap, root, heap', root) /\ Fresh(heap, heap', root) /\ Committed(heap') = Committed(heap)
  BY <1>1, <1>2, <1>4, EditCalm
<1>6. KeepsJoins(heap, root, heap', null)
  <2>1. \A m \in Committed(heap) : m /= null /\ m \in Ptr(heap)
    BY NullIsNoNode DEF Committed
  <2> QED BY <1>2, <2>1 DEF KeepsJoins, EditOf
<1>7. ThreadJoins(heap', root', loc[t], loc[t].then)
  BY <1>1, ThenIsFree
<1> QED BY <1>5, <1>6, <1>7, CalmStep

LEMMA AbortJoins ==
    ASSUME JInv, HeapOK(heap'), NEW t \in Threads, Abort(t)
    PROVE  JoinsKept
<1> DEFINE m == loc[t].m
<1>1. /\ pc[t] = "abort" /\ Goto(t, loc[t].then, loc[t]) /\ root' = root
      /\ heap' = IF heap[m].neigh2 = PREPARING THEN SetOutcome(heap, m, ABORTED) ELSE heap
  BY DEF Abort, Shared, SetOutcome
<1>2. loc[t] \in Locals /\ m \in Ptr(heap) /\ heap[m].type = "join_main"
  BY <1>1, JoinsState DEF LocalOK, JoinLocalsOK
<1>3. CASE heap[m].neigh2 = PREPARING
  <2>1. m \notin Committed(heap)
    BY <1>3 DEF Committed, Unpublished
  <2> QED BY <1>1, <1>2, <1>3, <2>1, OutcomeStores
<1>4. CASE heap' = heap
  BY <1>1, <1>2, <1>4, ThenIsFree, SameHeapStep
<1> QED BY <1>1, <1>3, <1>4

LEMMA UndoMainJoins ==
    ASSUME JInv, HeapOK(heap'), NEW t \in Threads, UndoMain(t)
    PROVE  JoinsKept
<1>1. /\ pc[t] \in OwnerLabels /\ Goto(t, loc[t].then, loc[t]) /\ root' = root
      /\ heap' = SetOutcome(heap, loc[t].m, ABORTED)
  BY DEF UndoMain, Shared, SetOutcome, OwnerLabels
<1>2. loc[t].m \in Ptr(heap) /\ heap[loc[t].m].type = "join_main" /\ loc[t].m \notin Committed(heap)
  BY <1>1, OwnerState
<1> QED BY <1>1, <1>2, OutcomeStores

LEMMA DoneJoins ==
    ASSUME JInv, HeapOK(heap'), NEW t \in Threads, Done(t)
    PROVE  JoinsKept
<1>1. /\ pc[t] = "done" /\ pc[t] \in HelperLabels /\ Goto(t, loc[t].then, loc[t]) /\ root' = root
      /\ heap' = SetOutcome(heap, loc[t].m, DONE)
  BY DEF Done, Shared, SetOutcome, HelperLabels
<1>2. /\ loc[t].m \in Committed(heap) /\ loc[t].m \in Ptr(heap) /\ heap[loc[t].m].type = "join_main"
      /\ IsCut(heap, root, loc[t].m)
  BY <1>1, HelperState DEF HelperJoins
<1> QED BY <1>1, <1>2, OutcomeStores

-----------------------------------------------------------------------------
(* secure_join, while it holds the locks of the routes                     *)

LEMMA SiblingIsGood ==
    ASSUME NEW h, NEW rt, HeapOK(h), HeapJoins(h, rt),
           NEW m \in Ptr(h), h[m].type = "join_main", m \notin Committed(h), h[m].neigh2 /= ABORTED,
           NEW side, OwnSide(h, rt, m, side), h[h[m].parent].join_id = m
    PROVE  SiblingOK(h, rt, m, Side(h, h[m].parent, Opposite(side)))
<1> DEFINE p == h[m].parent
           x == Side(h, p, Opposite(side))
<1>1. p \in Routes(h) /\ p \in Ptr(h)
  BY NullIsNoNode DEF HeapOK, NodeOK
<1>2. Attached(h, rt, p)
  BY <1>1, LockedIsAttached
<1>3. Opposite(side) \in Sides
  BY DEF Opposite, Sides
<1>4. x \in Ptr(h)
  BY <1>1, SidesOK
<1>5. p < x
  <2>1. h[p].left > p /\ h[p].right > p /\ p \in Nat /\ h[p].left \in Nat /\ h[p].right \in Nat
    BY <1>1, HeapBasics DEF HeapJoins, YoungerBelow, Node
  <2> QED BY <2>1 DEF Side
<1>6. ASSUME h[x].type = "join_main", h[x].neigh2 /= ABORTED
      PROVE  x /= m /\ x \notin Committed(h) /\ (h[x].parent = p \/ Doomed(h, rt, x))
  <2>1. x /= m
    BY <1>2 DEF OwnSide
  <2>2. p = h[x].parent \/ Doomed(h, rt, x)
    BY <1>1, <1>2, <1>3, <1>4, <1>6 DEF HeapJoins, MainsInPlace
  <2>3. x \in Committed(h) => h[h[x].parent].join_id = x /\ ~Doomed(h, rt, x)
    BY DEF HeapJoins, JoinLocks, Doomed
  <2> HIDE DEF x
  <2> QED BY <2>1, <2>2, <2>3
<1> QED BY <1>3, <1>5, <1>6 DEF SiblingOK

LEMMA ReadOtherJoins ==
    ASSUME JInv, HeapOK(heap'), NEW t \in Threads, ReadOther(t)
    PROVE  JoinsKept
<1> DEFINE m == loc[t].m
           p == Parent(t)
           g == loc[t].gparent
           other == Child(p, Opposite(loc[t].side))
           x == [heap[m] EXCEPT !.gparent = g, !.otherb = other, !.neigh1 = loc[t].n1]
<1>1. /\ pc[t] = "readOther" /\ pc[t] \in OwnerLabels /\ pc[t] \in LocksParent \cap LocksGparent
      /\ root' = root /\ Goto(t, "publish", loc[t])
      /\ heap' = [heap EXCEPT ![m] = x]
  BY DEF ReadOther, Shared, OwnerLabels, LocksParent, LocksGparent
<1>2. /\ HeapOK(heap) /\ HeapJoins(heap, root)
      /\ m \in Ptr(heap) /\ heap[m].type = "join_main" /\ Owns(t, m) /\ m \notin Committed(heap)
      /\ p \in Ptr(heap) /\ p \in Routes(heap) /\ p = heap[m].parent /\ heap[p].join_id = m
      /\ OwnSide(heap, root, m, loc[t].side)
      /\ Holds(heap, root, g, p) /\ g < p /\ (g /= null => heap[g].join_id = m)
      /\ LocalOK(heap, loc[t], pc[t], call[t]) /\ loc[t] \in Locals
  BY <1>1, OwnerState DEF Parent, OwnerJoins
<1>3. g \in Routes(heap) \cup {null} /\ loc[t].m = m
  BY <1>1, <1>2 DEF LocalOK, JoinLocalsOK
<1>4. /\ SameLinks(heap[m], x) /\ x.neigh2 = heap[m].neigh2 /\ x.valid = heap[m].valid
      /\ x.join_id = heap[m].join_id
      /\ x.gparent = g /\ x.otherb = other /\ x.neigh1 = loc[t].n1
  <2>1. heap[m] \in Node
    BY <1>2, HeapBasics
  <2> HIDE DEF m, other, g
  <2> QED BY <2>1 DEF Node, SameLinks
<1>5. other = Side(heap, p, Opposite(loc[t].side)) /\ other \in Ptr(heap)
  <2>1. other = Side(heap, p, Opposite(loc[t].side))
    BY DEF Child, Side
  <2> HIDE DEF other, p
  <2> QED BY <1>2, <2>1, SidesOK
<1>6. heap[m].neigh2 /= ABORTED => SiblingOK(heap, root, m, other)
  BY <1>2, <1>5, SiblingIsGood
<1> HIDE DEF x, other, m, p, g
<1>7. EditOf(heap, m, heap') /\ heap'[m] = x
  <2>1. LET f == [heap EXCEPT ![m] = x] IN EditOf(heap, m, f) /\ f[m] = x
    BY <1>2, EditNode
  <2> QED BY <1>1, <2>1
<1>8. Calm(heap, root, heap', root') /\ Fresh(heap, heap', root') /\ Committed(heap') = Committed(heap)
  <2>1. Calm(heap, root, heap', root) /\ Fresh(heap, heap', root) /\ Committed(heap') = Committed(heap)
    BY <1>2, <1>4, <1>7, EditCalm
  <2> QED BY <1>1, <2>1
<1>9. KeepsJoins(heap, root, heap', m)
  <2>1. \A n \in Ptr(heap) :
            /\ heap'[n].join_id = heap[n].join_id /\ heap'[n].valid = heap[n].valid
            /\ heap'[n].neigh2 = heap[n].neigh2 /\ (n = m \/ heap'[n] = heap[n])
    BY <1>4, <1>7 DEF EditOf
  <2>2. \A n \in Committed(heap) : n /= m /\ n \in Ptr(heap)
    BY <1>2 DEF Committed
  <2> QED BY <2>1, <2>2 DEF KeepsJoins
<1>10. ThreadJoins(heap', root', loc[t], "publish")
  <2>1. OwnSide(heap', root', m, loc[t].side) /\ heap'[m].parent = p
    BY <1>2, <1>8, CalmOwnSide DEF Calm, SameJoins
  <2>2. Holds(heap', root', g, p)
    BY <1>2, <1>3, <1>8, CalmHolds DEF Calm
  <2>3. \A n \in Ptr(heap) : heap'[n].join_id = heap[n].join_id
    BY <1>4, <1>7 DEF EditOf
  <2>4. g \in Routes(heap) => g \in Ptr(heap)
    BY NullIsNoNode
  <2>5. heap[m].neigh2 /= ABORTED => SiblingOK(heap', root', m, other)
    BY <1>2, <1>5, <1>6, <1>8, CalmSibling
  <2>6. OwnerJoins(heap', root', loc[t], "publish")
    <3>1. heap'[m].gparent = g /\ heap'[m].otherb = other /\ heap'[m].neigh1 = loc[t].n1
          /\ heap'[m].neigh2 = heap[m].neigh2
      BY <1>4, <1>7
    <3>2. heap'[p].join_id = m /\ (g /= null => heap'[g].join_id = m)
      BY <1>2, <1>3, <2>3, <2>4
    <3>3. g = loc[t].gparent
      BY DEF g
    <3> QED BY <1>2, <1>3, <2>1, <2>2, <2>5, <3>1, <3>2, <3>3
            DEF OwnerJoins, LocksParent, LocksGparent
  <2> QED BY <2>6 DEF ThreadJoins, HelperJoins, BaseJoins, HelperLabels
<1>11. \A n \in Committed(heap') \ Committed(heap) : JoinLocks(heap', root', n)
  BY <1>8
<1>12. Goto(t, "publish", loc[t])
  BY <1>1
<1> QED BY <1>2, <1>8, <1>9, <1>10, <1>11, <1>12, CalmStep

(* Heap g is heap h with one more node x.                                  *)
Adds(h, x, g) ==
    /\ Len(g) = Len(h) + 1 /\ Len(h) + 1 \notin Ptr(h) /\ Len(h) + 1 \in Nat
    /\ Ptr(g) = Ptr(h) \cup {Len(h) + 1}
    /\ \A j \in Ptr(h) : g[j] = h[j] /\ j < Len(h) + 1
    /\ g[Len(h) + 1] = x

LEMMA AppendAdds ==
    ASSUME NEW h, HeapOK(h), NEW x \in Node
    PROVE  Adds(h, x, Append(h, x))
<1> DEFINE g == Append(h, x)
<1>1. Len(h) \in Nat /\ h \in Seq(Node)
  BY HeapBasics DEF HeapOK
<1>2. g \in Seq(Node) /\ Len(g) = Len(h) + 1 /\ g[Len(h) + 1] = x
  BY <1>1
<1>3. \A j \in Ptr(h) : g[j] = h[j] /\ j < Len(h) + 1
  BY <1>1 DEF Ptr
<1> HIDE DEF g
<1>4. Ptr(g) = Ptr(h) \cup {Len(h) + 1} /\ Len(h) + 1 \notin Ptr(h)
  BY <1>1, <1>2 DEF Ptr
<1>5. Adds(h, x, g)
  BY <1>1, <1>2, <1>3, <1>4 DEF Adds
<1> QED BY <1>5 DEF g

(* Node m gets the outcome new, which is the node x that is added.         *)
PublishesJoin(h, m, x, g) ==
    LET new == Len(h) + 1
    IN  /\ Len(g) = Len(h) + 1 /\ Ptr(g) = Ptr(h) \cup {new} /\ new \notin Ptr(h) /\ new \in Nat
        /\ g[new] = x
        /\ \A j \in Ptr(h) : j < new /\ (j /= m => g[j] = h[j])
        /\ SameLinks(h[m], g[m]) /\ g[m].valid = h[m].valid /\ g[m].join_id = h[m].join_id
        /\ g[m].gparent = h[m].gparent /\ g[m].otherb = h[m].otherb
        /\ g[m].neigh1 = h[m].neigh1 /\ g[m].neigh2 = new

LEMMA PublishedHeap ==
    ASSUME JInv, NEW t \in Threads, pc[t] = "publish", NEW m \in Ptr(heap),
           heap' = SetOutcome(Append(heap, Joined(t)), m, Len(heap) + 1)
    PROVE  /\ PublishesJoin(heap, m, heap'[Len(heap) + 1], heap')
           /\ heap'[Len(heap) + 1].type = "join_neighbor"
           /\ heap'[Len(heap) + 1].parent < Len(heap) + 1
<1> DEFINE x == Joined(t)
           g == Append(heap, x)
           new == Len(heap) + 1
<1>1. /\ x \in Node /\ x.type = "join_neighbor" /\ Len(x.data) <= TREAP_NODES
      /\ x.parent \in Routes(heap) \cup {null}
      /\ x.main_node \in Ptr(heap) /\ heap[x.main_node].type = "join_main"
  BY JoinedOK DEF JInv
<1>2. HeapOK(heap)
  BY JoinsState
<1> HIDE DEF x
<1>3. HeapOK(g) /\ Adds(heap, x, g)
  BY <1>1, <1>2, AddNode, AppendAdds
<1>4. m \in Ptr(g) /\ m /= new /\ g[m] = heap[m]
  BY <1>3 DEF Adds
<1>5. heap' = SetOutcome(g, m, new)
  BY DEF x
<1> HIDE DEF g
<1>6. /\ EditOf(g, m, heap') /\ SameLinks(g[m], heap'[m])
      /\ heap'[m].valid = g[m].valid /\ heap'[m].join_id = g[m].join_id
      /\ heap'[m].gparent = g[m].gparent /\ heap'[m].otherb = g[m].otherb
      /\ heap'[m].neigh1 = g[m].neigh1 /\ heap'[m].neigh2 = new
  BY <1>3, <1>4, <1>5, OutcomeEdit
<1>7. x.parent < new
  BY <1>1, <1>2, <1>3, NullIsNoNode, HeapBasics DEF Adds, null
<1>8. Ptr(heap') = Ptr(g) /\ Len(heap') = new
  BY <1>3, <1>6 DEF EditOf, Ptr, Adds
<1> QED BY <1>1, <1>3, <1>4, <1>6, <1>7, <1>8 DEF PublishesJoin, EditOf, Adds

LEMMA PublishJoins ==
    ASSUME JInv, HeapOK(heap'), NEW t \in Threads, Publish(t)
    PROVE  JoinsKept
<1> DEFINE m == loc[t].m
           p == Parent(t)
           g == loc[t].gparent
           undo == IF g = null THEN "undoParent" ELSE "undoGparent"
<1>1. /\ pc[t] = "publish" /\ pc[t] \in OwnerLabels /\ pc[t] \in LocksParent \cap LocksGparent
      /\ root' = root
  BY DEF Publish, OwnerLabels, LocksParent, LocksGparent
<1>2. /\ HeapOK(heap) /\ HeapJoins(heap, root)
      /\ m \in Ptr(heap) /\ heap[m].type = "join_main" /\ m \notin Committed(heap)
      /\ p \in Ptr(heap) /\ p \in Routes(heap) /\ p = heap[m].parent /\ heap[p].join_id = m
      /\ OwnSide(heap, root, m, loc[t].side)
      /\ Holds(heap, root, g, p) /\ g < p /\ (g /= null => heap[g].join_id = m)
      /\ heap[m].gparent = g /\ heap[m].neigh1 = loc[t].n1
      /\ heap[m].neigh2 /= ABORTED => SiblingOK(heap, root, m, heap[m].otherb)
      /\ LocalOK(heap, loc[t], pc[t], call[t])
  BY <1>1, OwnerState DEF Parent, OwnerJoins
<1>3. /\ g \in Routes(heap) \cup {null} /\ loc[t].n1 \in Ptr(heap)
      /\ heap[loc[t].n1].type = "join_neighbor" /\ heap[m].otherb \in Ptr(heap)
  BY <1>1, <1>2 DEF LocalOK, JoinLocalsOK, OwnerLabels, JoinOK
<1>4. CASE /\ heap[m].neigh2 = PREPARING
           /\ heap' = [Append(heap, Joined(t)) EXCEPT ![m].neigh2 = Len(heap) + 1]
           /\ Goto(t, "load", loc[t])
  <2> DEFINE new == Len(heap) + 1
  <2>1. /\ PublishesJoin(heap, m, heap'[new], heap')
        /\ heap'[new].type = "join_neighbor" /\ heap'[new].parent < new
    <3>1. heap' = SetOutcome(Append(heap, Joined(t)), m, new)
      BY <1>4 DEF SetOutcome
    <3> HIDE DEF m
    <3> QED BY <1>1, <1>2, <3>1, PublishedHeap
  <2> HIDE DEF m, p, g, new
  <2>2. /\ Len(heap) <= Len(heap') /\ Ptr(heap') = Ptr(heap) \cup {new} /\ new \notin Ptr(heap)
        /\ new \in Nat /\ heap'[m].neigh2 = new
        /\ \A j \in Ptr(heap) : j /= m => heap'[j] = heap[j]
        /\ \A j \in Ptr(heap) : j < new
    BY <1>2, <2>1, HeapBasics DEF PublishesJoin, new
  <2>3. \A j \in Ptr(heap) :
            /\ SameLinks(heap[j], heap'[j])
            /\ heap'[j].valid = heap[j].valid /\ heap'[j].join_id = heap[j].join_id
            /\ heap'[j].gparent = heap[j].gparent /\ heap'[j].otherb = heap[j].otherb
            /\ heap'[j].neigh1 = heap[j].neigh1 /\ (j /= m => heap'[j].neigh2 = heap[j].neigh2)
    BY <2>1, <2>2 DEF PublishesJoin, SameLinks
  <2>4. /\ Committed(heap) \subseteq Committed(heap') /\ m \notin Committed(heap)
        /\ Committed(heap') \subseteq Committed(heap) \cup {m}
        /\ Routes(heap') = Routes(heap)
    BY SMTT(30), <1>2, <2>1, <2>2, <2>3 DEF Committed, Routes, SameLinks
  <2>5. SameJoins(heap, heap')
    <3>1. PREPARING /= ABORTED
      BY DEF PREPARING, ABORTED
    <3>2. \A n \in Committed(heap) : n \in Ptr(heap)
      BY DEF Committed
    <3> QED BY <1>4, <2>2, <2>3, <2>4, <3>1, <3>2 DEF SameJoins, SameLinks, m
  <2>6. SameSlots(heap, root, heap', root')
    BY <1>1, <2>3, NullIsNoNode DEF SameSlots, Side, SameLinks
  <2>7. ~IsCut(heap', root', m) /\ heap'[m].parent = p /\ heap'[m].gparent = g
    <3>1. heap'[m].parent = p /\ heap'[m].gparent = g
      BY <1>2, <2>3 DEF SameLinks
    <3>2. Holds(heap', root', g, p)
      BY <1>2, <1>3, <2>6, CalmHolds
    <3> QED BY <3>1, <3>2 DEF IsCut
  <2>8. Calm(heap, root, heap', root')
    <3>1. Attached(heap, root, p)
      BY <1>2, LockedIsAttached
    <3>2. PublishedInPlace(heap, root, heap', root')
      BY <1>2, <2>4, <2>7, <3>1 DEF PublishedInPlace
    <3> QED BY <2>5, <2>6, <3>2 DEF Calm
  <2>9. Fresh(heap, heap', root')
    <3>1. \A n \in Ptr(heap') \ Ptr(heap) : n = new
      BY <2>2
    <3> QED BY <2>1, <2>4, <3>1, NullIsNoNode DEF Fresh
  <2>10. KeepsJoins(heap, root, heap', null)
    <3>1. \A n \in Committed(heap) : n \in Ptr(heap) /\ n /= null /\ n /= m
      BY <2>4, NullIsNoNode DEF Committed
    <3> QED BY <2>3, <3>1 DEF KeepsJoins
  <2>11. JoinLocks(heap', root', m)
    <3>1. heap'[m].neigh1 = loc[t].n1 /\ heap'[m].otherb = heap[m].otherb
      BY <1>2, <2>3
    <3>2. heap'[loc[t].n1].type = "join_neighbor" /\ loc[t].n1 < new
      BY <1>3, <2>2, <2>3 DEF SameLinks
    <3>3. heap'[p].join_id = m /\ (g /= null => heap'[g].join_id = m)
      BY <1>2, <1>3, <2>3, NullIsNoNode
    <3>4. SiblingOK(heap', root', m, heap[m].otherb)
      <4>1. SiblingOK(heap, root, m, heap[m].otherb)
        BY <1>2, <1>4 DEF PREPARING, ABORTED, m
      <4> QED BY <1>2, <1>3, <2>8, <4>1, CalmSibling
    <3>5. new /= DONE
      BY <2>2 DEF DONE
    <3> QED BY <1>2, <2>1, <2>2, <2>7, <3>1, <3>2, <3>3, <3>4, <3>5 DEF JoinLocks
  <2>12. \A n \in Committed(heap') \ Committed(heap) : JoinLocks(heap', root', n)
    BY <2>4, <2>11
  <2>13. ThreadJoins(heap', root', loc[t], "load")
    BY DEF ThreadJoins, OwnerJoins, HelperJoins, BaseJoins, LocksParent, LocksGparent, OwnerLabels
  <2>14. Goto(t, "load", loc[t])
    BY <1>4
  <2> QED BY <2>8, <2>9, <2>10, <2>12, <2>13, <2>14, CalmStep
<1>5. CASE heap' = heap /\ Goto(t, undo, loc[t])
  <2>1. /\ undo \in {"undoParent", "undoGparent"}
        /\ g = loc[t].gparent /\ m = loc[t].m
    OBVIOUS
  <2>2. ThreadJoins(heap, root, loc[t], undo)
    <3> HIDE DEF undo, g, m
    <3> QED BY <1>2, <2>1, OwnerAt
  <2> QED BY <1>1, <1>5, <2>2, SameHeapStep
<1> QED BY <1>4, <1>5 DEF Publish, Shared

-----------------------------------------------------------------------------
(* The actions that put a node in the slot of another one                  *)

SameButSlots(x, y) ==
    /\ y.type = x.type /\ y.parent = x.parent /\ y.main_node = x.main_node
    /\ y.join_id = x.join_id /\ y.valid = x.valid
    /\ y.gparent = x.gparent /\ y.otherb = x.otherb /\ y.neigh1 = x.neigh1 /\ y.neigh2 = x.neigh2

(* Heap g and root rt become f and rt2 by putting c for b in slot side of  *)
(* route q, or in root if q is null.                                       *)
Puts(g, rt, f, rt2, q, side, b, c) ==
    /\ Len(f) = Len(g)
    /\ \A n \in Ptr(g) : SameButSlots(g[n], f[n])
    /\ IF q = null THEN rt = b /\ rt2 = c ELSE rt2 = rt /\ Side(g, q, side) = b
    /\ \A n \in Ptr(g), z \in Sides :
        Side(f, n, z) = IF n = q /\ z = side THEN c ELSE Side(g, n, z)

(* Heap g is heap h with more nodes, and no more published joins.          *)
Grows(h, g) ==
    /\ Len(h) <= Len(g) /\ Ptr(h) \subseteq Ptr(g)
    /\ \A j \in Ptr(h) : g[j] = h[j]
    /\ \A n \in Ptr(g) \ Ptr(h) : g[n].type = "join_main" => g[n].neigh2 \in Unpublished

LEMMA SlotEdits ==
    ASSUME NEW x \in Node, NEW c
    PROVE  /\ LET y == [x EXCEPT !.left = c]
              IN  SameButSlots(x, y) /\ y.left = c /\ y.right = x.right
           /\ LET y == [x EXCEPT !.right = c]
              IN  SameButSlots(x, y) /\ y.left = x.left /\ y.right = c
BY DEF Node, SameButSlots

LEMMA ChildPuts ==
    ASSUME NEW h, NEW rt, HeapOK(h), NEW q \in Ptr(h), NEW side \in Sides, NEW c
    PROVE  Puts(h, rt, SetChild(h, q, side, c), rt, q, side, Side(h, q, side), c)
<1> DEFINE x == IF side = "left" THEN [h[q] EXCEPT !.left = c] ELSE [h[q] EXCEPT !.right = c]
           f == [h EXCEPT ![q] = x]
<1>1. h[q] \in Node /\ q /= null
  BY HeapBasics, NullIsNoNode
<1>2. /\ SameButSlots(h[q], x)
      /\ x.left = IF side = "left" THEN c ELSE h[q].left
      /\ x.right = IF side = "right" THEN c ELSE h[q].right
  <2>1. CASE side = "left"
    <3> DEFINE y == [h[q] EXCEPT !.left = c]
    <3>1. SameButSlots(h[q], y) /\ y.left = c /\ y.right = h[q].right
      BY ZenonT(40), <1>1, SlotEdits
    <3>2. x = y
      BY <2>1
    <3> HIDE DEF x, y
    <3> QED BY <2>1, <3>1, <3>2
  <2>2. CASE side = "right"
    <3> DEFINE y == [h[q] EXCEPT !.right = c]
    <3>1. SameButSlots(h[q], y) /\ y.left = h[q].left /\ y.right = c
      BY <1>1, SlotEdits
    <3>2. x = y
      BY <2>2
    <3> HIDE DEF x, y
    <3> QED BY <2>2, <3>1, <3>2
  <2> QED BY <2>1, <2>2 DEF Sides
<1>3. SetChild(h, q, side, c) = f
  BY DEF SetChild
<1> HIDE DEF x
<1>4. EditOf(h, q, f) /\ f[q] = x
  BY EditNode
<1> HIDE DEF f
<1>5. \A n \in Ptr(h) : SameButSlots(h[n], f[n])
  BY <1>2, <1>4 DEF EditOf, SameButSlots
<1>6. ASSUME NEW n \in Ptr(h), NEW z \in Sides
      PROVE  Side(f, n, z) = IF n = q /\ z = side THEN c ELSE Side(h, n, z)
  <2>1. z = "left" \/ z = "right"
    BY DEF Sides
  <2>2. CASE n = q
    BY <1>2, <1>4, <2>1, <2>2 DEF Side, Sides
  <2>3. CASE n /= q
    BY <1>4, <2>3 DEF Side, EditOf
  <2> QED BY <2>2, <2>3
<1>7. Puts(h, rt, f, rt, q, side, Side(h, q, side), c)
  BY <1>1, <1>4, <1>5, <1>6 DEF Puts, EditOf
<1> QED BY <1>3, <1>7

LEMMA InstallPuts ==
    ASSUME HeapOK(heap), NEW g, HeapOK(g), Grows(heap, g),
           NEW b \in Ptr(heap), NEW new, InPlace(b), Install(b, new, g)
    PROVE  \E side \in Sides : Puts(g, root, heap', root', heap[b].parent, side, b, new)
<1> DEFINE p == heap[b].parent
           side == IF heap[p].left = b THEN "left" ELSE "right"
<1>1. \/ p = null /\ root' = new /\ heap' = g /\ root = b
      \/ p /= null /\ root' = root /\ heap' = SetChild(g, p, side, new) /\ b \in {heap[p].left, heap[p].right}
  BY DEF Install, InPlace
<1>2. side \in Sides
  BY DEF Sides
<1>3. p /= null => p \in Ptr(heap)
  BY NullIsNoNode DEF HeapOK, NodeOK
<1>4. Ptr(heap) \subseteq Ptr(g) /\ \A j \in Ptr(heap) : g[j] = heap[j]
  BY DEF Grows
<1>5. CASE p = null /\ root' = new /\ heap' = g /\ root = b
  <2>1. \A n \in Ptr(g) : SameButSlots(g[n], g[n]) /\ n /= null
    BY NullIsNoNode DEF SameButSlots
  <2>2. Puts(g, root, heap', root', p, side, b, new)
    <3> HIDE DEF p, side
    <3> QED BY <1>5, <2>1 DEF Puts
  <2> QED BY <1>2, <2>2
<1>6. CASE p /= null /\ root' = root /\ heap' = SetChild(g, p, side, new) /\ b \in {heap[p].left, heap[p].right}
  <2>1. Side(heap, p, side) = b
    BY <1>6 DEF Side
  <2>2. Side(g, p, side) = b
    BY <1>3, <1>4, <1>6, <2>1 DEF Side
  <2> HIDE DEF p, side
  <2>3. Puts(g, root, SetChild(g, p, side, new), root, p, side, Side(g, p, side), new)
    BY <1>2, <1>3, <1>4, <1>6, ChildPuts
  <2>4. Puts(g, root, heap', root', p, side, b, new)
    BY <1>6, <2>2, <2>3
  <2> QED BY <1>2, <2>4 DEF p
<1> QED BY <1>1, <1>5, <1>6

(* It does so to heap h, which has grown to g: a base b of h gives way to a *)
(* younger node c that is neither a route nor a main node of h.            *)
BasePut(h, rt, g, f, rt2, q, side, b, c) ==
    /\ HeapOK(h) /\ HeapOK(g) /\ HeapOK(f) /\ Grows(h, g)
    /\ q \in Routes(h) \cup {null} /\ side \in Sides /\ Puts(g, rt, f, rt2, q, side, b, c)
    /\ b \notin Routes(h) /\ Harmless(h, c) /\ q < c

CalmPut(h, rt, g, f, rt2) ==
    /\ Calm(h, rt, f, rt2) /\ KeepsJoins(h, rt, f, null) /\ Committed(f) = Committed(h)
    /\ Ptr(f) = Ptr(g) /\ Routes(f) = Routes(g) /\ Ptr(h) \subseteq Ptr(g)

LEMMA PutCalm ==
    ASSUME NEW h, NEW rt, NEW g, NEW f, NEW rt2, NEW q, NEW side, NEW b, NEW c,
           BasePut(h, rt, g, f, rt2, q, side, b, c)
    PROVE  CalmPut(h, rt, g, f, rt2)
<1>0. /\ HeapOK(h) /\ HeapOK(g) /\ HeapOK(f) /\ Grows(h, g)
      /\ q \in Routes(h) \cup {null} /\ side \in Sides /\ Puts(g, rt, f, rt2, q, side, b, c)
      /\ b \notin Routes(h) /\ Harmless(h, c) /\ q < c
  BY DEF BasePut
<1>1. Ptr(f) = Ptr(g) /\ Ptr(h) \subseteq Ptr(g) /\ Len(h) <= Len(f)
  BY <1>0 DEF Ptr, Puts, Grows
<1>2. /\ \A n \in Ptr(g) : SameButSlots(g[n], f[n])
      /\ \A j \in Ptr(h) : g[j] = h[j]
      /\ \A n \in Ptr(g) \ Ptr(h) : g[n].type = "join_main" => g[n].neigh2 \in Unpublished
  BY <1>0 DEF Puts, Grows
<1>3. Routes(f) = Routes(g)
  BY <1>0, <1>1, <1>2 DEF Routes, SameButSlots
<1>4. Committed(f) = Committed(h)
  BY <1>0, <1>1, <1>2 DEF Committed, SameButSlots
<1>5. SameJoins(h, f)
  <2>1. \A n \in Committed(h) : n \in Ptr(h)
    BY DEF Committed
  <2> QED BY <1>1, <1>2, <1>4, <2>1 DEF SameJoins, SameButSlots
<1>6. SameSlots(h, rt, f, rt2)
  <2>1. rt2 = rt \/ (rt \notin Routes(h) /\ Harmless(h, rt2))
    BY <1>0 DEF Puts
  <2>2. ASSUME NEW r \in Routes(h), NEW z \in Sides
        PROVE  \/ Side(f, r, z) = Side(h, r, z)
               \/ Side(h, r, z) \notin Routes(h) /\ Harmless(h, Side(f, r, z)) /\ r < Side(f, r, z)
    <3>1. r \in Ptr(h) /\ r \in Ptr(g) /\ r /= null
      BY <1>0, <1>1, NullIsNoNode
    <3>2. Side(g, r, z) = Side(h, r, z)
      BY <1>2, <3>1 DEF Side
    <3>3. Side(f, r, z) = IF r = q /\ z = side THEN c ELSE Side(h, r, z)
      BY <1>0, <3>1, <3>2 DEF Puts
    <3>4. r = q /\ z = side => Side(h, r, z) = b
      BY <1>0, <3>1, <3>2 DEF Puts
    <3> QED BY <1>0, <3>3, <3>4
  <2> QED BY <2>1, <2>2 DEF SameSlots
<1>7. PublishedInPlace(h, rt, f, rt2)
  BY <1>4 DEF PublishedInPlace
<1>8. KeepsJoins(h, rt, f, null)
  <2>1. \A n \in Committed(h) : n \in Ptr(h) /\ n /= null
    BY <1>0, NullIsNoNode DEF Committed
  <2> QED BY <1>0, <1>1, <1>2, <2>1 DEF KeepsJoins, SameButSlots
<1> QED BY <1>1, <1>3, <1>4, <1>5, <1>6, <1>7, <1>8 DEF Calm, CalmPut

(* A base gives way to a new one that no join of old and no new one needs. *)
LEMMA BasePutStep ==
    ASSUME JInv, HeapOK(heap'), NEW t \in Threads, NEW label, NEW l, Goto(t, label, l),
           NEW b \in Ptr(heap), b \notin Routes(heap), InPlace(b),
           NEW x \in Node, HeapOK(Append(heap, x)), Install(b, Len(heap) + 1, Append(heap, x)),
           x.parent = heap[b].parent, x.type /= "route", x.type = "join_main" => x.neigh2 = ABORTED,
           Calm(heap, root, heap', root') /\ heap'[Len(heap) + 1].type = x.type =>
                ThreadJoins(heap', root', l, label)
    PROVE  JoinsKept
<1> DEFINE g == Append(heap, x)
           new == Len(heap) + 1
           p == heap[b].parent
<1>1. /\ HeapOK(heap) /\ YoungerBelow(heap) /\ p \in Routes(heap) \cup {null} /\ p \in Nat
  <2>1. HeapOK(heap) /\ HeapJoins(heap, root)
    BY JoinsState
  <2> QED BY <2>1, HeapBasics DEF HeapJoins, HeapOK, NodeOK, Node
<1>2. Adds(heap, x, g)
  BY <1>1, AppendAdds
<1> HIDE DEF g
<1>3. /\ Len(heap) <= Len(g) /\ \A j \in Ptr(heap) : g[j] = heap[j]
      /\ new \notin Ptr(heap) /\ new \in Ptr(g) /\ g[new] = x /\ Ptr(g) \ Ptr(heap) = {new}
      /\ Ptr(heap) \subseteq Ptr(g)
  BY <1>1, <1>2, HeapBasics DEF Adds
<1>4. p < new
  <2>1. p < b /\ b < new /\ b \in Nat /\ new \in Nat
    BY <1>1, <1>2, HeapBasics DEF YoungerBelow, Adds
  <2> HIDE DEF p, new
  <2> QED BY <1>1, <2>1
<1>5. Grows(heap, g)
  <2>1. ABORTED \in Unpublished
    BY DEF Unpublished
  <2> HIDE DEF new
  <2> QED BY <1>3, <2>1 DEF Grows
<1>6. PICK side \in Sides : Puts(g, root, heap', root', p, side, b, new)
  BY <1>1, <1>5, InstallPuts DEF g
<1> HIDE DEF p, new
<1>7. Harmless(heap, new)
  BY <1>3, NullIsNoNode DEF Harmless
<1>8. /\ Calm(heap, root, heap', root') /\ KeepsJoins(heap, root, heap', null)
      /\ Committed(heap') = Committed(heap)
      /\ Ptr(heap') = Ptr(g) /\ Routes(heap') = Routes(g) /\ Ptr(heap) \subseteq Ptr(g)
  <2>1. HeapOK(g)
    BY DEF g
  <2>2. BasePut(heap, root, g, heap', root', p, side, b, new)
    BY <1>1, <1>4, <1>5, <1>6, <1>7, <2>1 DEF BasePut
  <2>3. CalmPut(heap, root, g, heap', root')
    BY <2>2, PutCalm
  <2> QED BY <2>3 DEF CalmPut
<1>9. SameButSlots(x, heap'[new])
  BY <1>3, <1>6 DEF Puts
<1>10. Fresh(heap, heap', root')
  <2>1. new \notin Routes(heap') /\ \A n \in Ptr(heap') \ Ptr(heap) : n = new
    BY <1>3, <1>8, <1>9 DEF Routes, SameButSlots
  <2>2. \A c \in Routes(heap') : c \in Ptr(heap')
    BY NullIsNoNode
  <2>3. heap'[new].parent < new /\ (heap'[new].type = "join_main" => heap'[new].neigh2 = ABORTED)
    BY <1>4, <1>9 DEF SameButSlots, p
  <2> QED BY <2>1, <2>2, <2>3 DEF Fresh
<1>11. ThreadJoins(heap', root', l, label)
  BY <1>8, <1>9 DEF SameButSlots, new
<1>12. \A m \in Committed(heap') \ Committed(heap) : JoinLocks(heap', root', m)
  BY <1>8
<1> QED BY <1>8, <1>10, <1>11, <1>12, CalmStep

LEMMA ReplaceJoins ==
    ASSUME JInv, HeapOK(heap'), NEW t \in Threads, Replace(t)
    PROVE  JoinsKept
<1> DEFINE b == loc[t].base
           stat == new_stat(b, loc[t].contended)
           d == NewData(call[t], heap[b].data)
           x == Base(heap[b].parent, d, stat)
           label == IF stat > HIGH_CONT THEN "split" ELSE IF stat < LOW_CONT THEN "join" ELSE "return"
           l == [loc[t] EXCEPT !.base = Len(heap) + 1, !.then = "return",
                               !.result = Result(call[t], heap[b].data)]
<1>1. /\ pc[t] = "replace" /\ loc[t] \in Locals /\ LocalOK(heap, loc[t], "replace", call[t])
      /\ HeapOK(heap) /\ BaseJoins(heap, loc[t], "replace")
  BY JoinsState DEF Replace, ThreadJoins
<1>2. /\ b \in Ptr(heap) /\ Len(heap[b].data) < TREAP_NODES /\ call[t] \in Calls /\ b \notin Routes(heap)
  BY <1>1 DEF LocalOK, BaseOK, StackOK, BaseJoins
<1>3. InPlace(b) /\ Install(b, Len(heap) + 1, Append(heap, x)) /\ Goto(t, label, l)
  BY DEF Replace, Shared
<1>4. heap[b] \in Node /\ NodeOK(heap, b)
  BY <1>1, <1>2, HeapBasics
<1>5. d \in Seq(Int) /\ Len(d) <= TREAP_NODES /\ stat \in Int
  BY <1>1, <1>2, <1>4, NodeTypes_, NewDataOK, NewStatType
<1>6. heap[b].parent \in Routes(heap) \cup {null} /\ heap[b].parent \in Nat
  BY <1>4, NodeTypes_ DEF NodeOK
<1>7. l.base = Len(heap) + 1
  BY <1>1 DEF Locals
<1>8. label \in {"split", "join", "return"}
  OBVIOUS
<1> HIDE DEF label, l, stat, d
<1>9. /\ x \in Node /\ x.type = "normal" /\ x.neigh2 = PREPARING
      /\ x.parent = heap[b].parent /\ x.data = d
  BY <1>5, <1>6, BaseNode
<1> HIDE DEF x
<1>10. HeapOK(Append(heap, x))
  BY <1>1, <1>5, <1>6, <1>9, AddNode
<1>11. heap'[Len(heap) + 1].type = x.type => ThreadJoins(heap', root', l, label)
  BY <1>7, <1>8, <1>9 DEF ThreadJoins, OwnerJoins, HelperJoins, BaseJoins, LocksParent, LocksGparent,
                          OwnerLabels, HelperLabels, Routes
<1> HIDE DEF b
<1> QED BY <1>2, <1>3, <1>9, <1>10, <1>11, BasePutStep

LEMMA CopyBaseJoins ==
    ASSUME JInv, HeapOK(heap'), NEW t \in Threads, CopyBase(t)
    PROVE  JoinsKept
<1> DEFINE b == loc[t].base
           x == heap[b]
<1>1. PICK label, l : /\ Goto(t, label, l) /\ label \in {"return", "next"}
                      /\ InPlace(b) /\ Install(b, Len(heap) + 1, Append(heap, x))
  BY DEF CopyBase, Shared
<1>2. /\ b \in Ptr(heap) /\ HeapOK(heap) /\ b \notin Routes(heap)
      /\ x.type = "join_main" => x.neigh2 = ABORTED
  BY JoinsState DEF CopyBase, LocalOK, BaseOK, ThreadJoins, BaseJoins
<1>3. x \in Node /\ HeapOK(Append(heap, x)) /\ x.type /= "route"
  <2>1. x \in Node /\ NodeOK(heap, b) /\ x.type /= "route"
    BY <1>2, HeapBasics DEF Routes
  <2> QED BY <1>2, <2>1, AddNode DEF NodeOK, JoinOK
<1>4. ThreadJoins(heap', root', l, label)
  BY <1>1, FreeLabel DEF OwnerLabels, HelperLabels
<1> HIDE DEF b
<1> QED BY <1>1, <1>2, <1>3, <1>4, BasePutStep

LEMMA LockNeighborJoins ==
    ASSUME JInv, HeapOK(heap'), NEW t \in Threads, LockNeighbor(t)
    PROVE  JoinsKept
<1> DEFINE n0 == loc[t].cur
           m == loc[t].m
           n1 == Len(heap) + 1
           x == [heap[n0] EXCEPT !.type = "join_neighbor", !.main_node = m]
           l == [loc[t] EXCEPT !.n1 = n1]
<1>1. pc[t] = "lockNeighbor" /\ pc[t] \in OwnerLabels
  BY DEF LockNeighbor, OwnerLabels
<1>2. /\ HeapOK(heap) /\ m \in Ptr(heap) /\ heap[m].type = "join_main"
      /\ OwnSide(heap, root, m, loc[t].side)
      /\ loc[t] \in Locals /\ LocalOK(heap, loc[t], pc[t], call[t]) /\ m \in Nat
      /\ BaseJoins(heap, loc[t], pc[t])
  BY <1>1, OwnerState, JoinsState, HeapBasics DEF ThreadJoins
<1>3. n0 \in Ptr(heap) /\ n0 \notin Routes(heap)
  BY <1>1, <1>2 DEF LocalOK, CurOK, BaseJoins
<1>4. CASE InPlace(n0) /\ Install(n0, n1, Append(heap, x)) /\ Goto(t, "lockParent", l)
  <2>1. heap[n0] \in Node /\ NodeOK(heap, n0)
    BY <1>2, <1>3, HeapBasics
  <2>2. l.m = m /\ l.side = loc[t].side
    BY <1>2 DEF Locals
  <2> HIDE DEF m, l, n0
  <2>3. /\ x \in Node /\ x.type = "join_neighbor" /\ x.main_node = m
        /\ x.data = heap[n0].data /\ x.parent = heap[n0].parent
    BY <1>2, <2>1 DEF Node, NodeTypes
  <2> HIDE DEF x
  <2>4. HeapOK(Append(heap, x))
    <3>1. Len(x.data) <= TREAP_NODES /\ x.parent \in Routes(heap) \cup {null}
      BY <2>1, <2>3 DEF NodeOK
    <3> QED BY <1>2, <2>3, <3>1, AddNode
  <2>5. Calm(heap, root, heap', root') => ThreadJoins(heap', root', l, "lockParent")
    <3> SUFFICES ASSUME Calm(heap, root, heap', root') PROVE ThreadJoins(heap', root', l, "lockParent")
      OBVIOUS
    <3>1. OwnSide(heap', root', m, loc[t].side)
      BY <1>2, CalmOwnSide
    <3> QED BY <2>2, <3>1, OwnerAt
  <2> QED BY <1>3, <1>4, <2>3, <2>4, <2>5, BasePutStep
<1>5. CASE heap' = heap /\ root' = root /\ Goto(t, "undoMain", loc[t])
  <2>1. ThreadJoins(heap, root, loc[t], "undoMain")
    BY <1>2, OwnerAt
  <2> QED BY <1>5, <2>1, SameHeapStep
<1> QED BY <1>4, <1>5 DEF LockNeighbor, Shared

(* The slot that a new node c is put in is the only one that holds it.     *)
LEMMA NewNodeSlot ==
    ASSUME NEW h, NEW rt, NEW g, NEW f, NEW rt2, NEW q, NEW side, NEW b, NEW c,
           BasePut(h, rt, g, f, rt2, q, side, b, c), c \notin Ptr(h),
           \A r \in Routes(g) \ Ptr(h), z \in Sides : Side(g, r, z) /= c
    PROVE  \A r \in Routes(g), z \in Sides : Side(f, r, z) = c => r = q /\ z = side
<1> SUFFICES ASSUME NEW r \in Routes(g), NEW z \in Sides, Side(f, r, z) = c
             PROVE  r = q /\ z = side
  OBVIOUS
<1>0. HeapOK(h) /\ HeapOK(g) /\ Grows(h, g) /\ Puts(g, rt, f, rt2, q, side, b, c)
  BY DEF BasePut
<1>1. r \in Routes(g) /\ r \in Ptr(g)
  BY <1>0, NullIsNoNode
<1>2. Side(g, r, z) /= c
  <2>1. CASE r \in Ptr(h)
    <3>1. g[r] = h[r] /\ r \in Routes(h)
      BY <1>0, <1>1, <2>1 DEF Routes, Grows
    <3> QED BY <1>0, <3>1, SidesOK DEF Side
  <2>2. CASE r \notin Ptr(h)
    BY <1>1, <2>2
  <2> QED BY <2>1, <2>2
<1> QED BY <1>0, <1>1, <1>2 DEF Puts

(* A new join begins where its base was.                                   *)
LEMMA LockMainJoins ==
    ASSUME JInv, HeapOK(heap'), NEW t \in Threads, LockMain(t)
    PROVE  JoinsKept
<1> DEFINE b == loc[t].base
           p == heap[b].parent
           m == Len(heap) + 1
           side == loc[t].side
           x == [heap[b] EXCEPT !.type = "join_main"]
           g == Append(heap, x)
           l == [loc[t] EXCEPT !.m = m]
<1>1. /\ pc[t] = "lockMain" /\ loc[t] \in Locals /\ LocalOK(heap, loc[t], "lockMain", call[t])
      /\ HeapOK(heap) /\ HeapJoins(heap, root) /\ root \in Ptr(heap) /\ root' = root
      /\ BaseJoins(heap, loc[t], "lockMain")
  BY JoinsState DEF LockMain, ThreadJoins
<1>2. /\ b \in Ptr(heap) /\ heap[b].type = "normal" /\ p /= null
      /\ loc[t].cur \in Ptr(heap) /\ loc[t].cur \notin Routes(heap)
  BY <1>1 DEF LocalOK, CurOK, BaseOK, BaseJoins
<1>3. /\ heap[b] \in Node /\ NodeOK(heap, b) /\ side \in Sides /\ p < b
      /\ p \in Routes(heap) /\ p \in Ptr(heap) /\ p \in Nat
  <2>1. heap[b] \in Node /\ NodeOK(heap, b) /\ side \in Sides /\ p < b
    BY <1>1, <1>2, HeapBasics DEF Locals, Sides, HeapJoins, YoungerBelow
  <2>2. p \in Routes(heap)
    BY <1>2, <2>1 DEF NodeOK
  <2> HIDE DEF p
  <2> QED BY <1>1, <2>1, <2>2, NullIsNoNode, HeapBasics
<1>4. CASE Child(p, side) = b /\ heap' = SetChild(g, p, side, m) /\ Goto(t, "lockNeighbor", l)
  <2>1. /\ x \in Node /\ x.type = "join_main" /\ x.neigh2 = PREPARING
        /\ x.data = heap[b].data /\ x.parent = p
    BY <1>2, <1>3 DEF Node, NodeTypes, NodeOK
  <2>2. Len(heap[b].data) <= TREAP_NODES /\ PREPARING \in Unpublished
    BY <1>3 DEF NodeOK, Unpublished
  <2>3. l.m = m /\ l.side = side /\ l.cur = loc[t].cur
    BY <1>1 DEF Locals
  <2> HIDE DEF x, p, l, side, b
  <2>4. HeapOK(g) /\ Adds(heap, x, g)
    BY <1>1, <1>2, <1>3, <2>1, <2>2, AddNode, AppendAdds
  <2> HIDE DEF g
  <2>5. /\ \A j \in Ptr(heap) : g[j] = heap[j] /\ j < m
        /\ Len(heap) <= Len(g) /\ m \notin Ptr(heap) /\ m \in Ptr(g) /\ m \in Nat /\ g[m] = x
        /\ Ptr(g) = Ptr(heap) \cup {m}
    BY <1>1, <2>4, HeapBasics DEF Adds
  <2> HIDE DEF m
  <2>6. Side(g, p, side) = b
    BY <1>3, <1>4, <2>5 DEF Side, Child
  <2>7. Puts(g, root, heap', root', p, side, b, m)
    <3>1. Puts(g, root, SetChild(g, p, side, m), root, p, side, Side(g, p, side), m)
      BY <1>3, <2>4, <2>5, ChildPuts
    <3> QED BY <1>1, <1>4, <2>6, <3>1
  <2>8. b \notin Routes(heap) /\ Harmless(heap, m) /\ p < m /\ Grows(heap, g)
    BY <1>2, <1>3, <2>1, <2>2, <2>5, NullIsNoNode DEF Harmless, Routes, Grows
  <2>9. /\ BasePut(heap, root, g, heap', root', p, side, b, m)
        /\ Calm(heap, root, heap', root') /\ KeepsJoins(heap, root, heap', null)
        /\ Committed(heap') = Committed(heap)
        /\ Ptr(heap') = Ptr(g) /\ Routes(heap') = Routes(g) /\ Ptr(heap) \subseteq Ptr(g)
    <3>1. BasePut(heap, root, g, heap', root', p, side, b, m)
      BY <1>1, <1>3, <2>4, <2>7, <2>8 DEF BasePut
    <3>2. CalmPut(heap, root, g, heap', root')
      BY <3>1, PutCalm
    <3> QED BY <3>1, <3>2 DEF CalmPut
  <2>10. m \notin Routes(g) /\ Routes(g) \ Ptr(heap) = {} /\ p /= m
    BY <1>3, <2>1, <2>5 DEF Routes
  <2>11. ASSUME NEW r \in Routes(heap'), NEW z \in Sides, Side(heap', r, z) = m
         PROVE  r = p /\ z = side
    <3>1. \A s \in Routes(g), y \in Sides : Side(heap', s, y) = m => s = p /\ y = side
      BY <2>5, <2>9, <2>10, NewNodeSlot
    <3> QED BY <2>9, <2>11, <3>1
  <2>12. SameButSlots(x, heap'[m])
    BY <2>5, <2>7 DEF Puts
  <2>13. Fresh(heap, heap', root')
    <3>1. \A n \in Ptr(heap') \ Ptr(heap) : n = m
      BY <2>5, <2>9
    <3>2. heap'[m].parent = p /\ root' /= m
      BY <1>1, <2>1, <2>5, <2>12 DEF SameButSlots
    <3> QED BY <2>8, <2>9, <2>10, <2>11, <3>1, <3>2 DEF Fresh
  <2>14. ThreadJoins(heap', root', l, "lockNeighbor")
    <3>1. heap'[m].parent = p
      BY <2>1, <2>12 DEF SameButSlots
    <3>2. Opposite(side) /= side /\ Opposite(side) \in Sides
      BY DEF Opposite, Sides
    <3>3. Side(heap', p, Opposite(side)) /= m
      <4>1. p \in Routes(heap')
        BY <1>1, <1>3, <2>9, OldNodes DEF Calm
      <4> QED BY <2>11, <3>2, <4>1
    <3>4. OwnSide(heap', root', m, side)
      BY <3>1, <3>3 DEF OwnSide
    <3>5. loc[t].cur \notin Routes(heap')
      BY <1>1, <1>2, <2>9, OldNodes DEF Calm
    <3> QED BY <2>3, <3>4, <3>5 DEF ThreadJoins, OwnerJoins, HelperJoins, BaseJoins, LocksParent,
                                    LocksGparent, HelperLabels
  <2>15. \A n \in Committed(heap') \ Committed(heap) : JoinLocks(heap', root', n)
    BY <2>9
  <2>16. Goto(t, "lockNeighbor", l)
    BY <1>4
  <2> QED BY <2>9, <2>13, <2>14, <2>15, <2>16, CalmStep
<1>5. CASE heap' = heap /\ Goto(t, "return", loc[t])
  BY <1>1, <1>5, FreeLabel, SameHeapStep DEF OwnerLabels, HelperLabels
<1> QED BY <1>4, <1>5 DEF LockMain, Shared

(* A base is split, whether a join has locked it or not.                   *)
LEMMA SplitJoins ==
    ASSUME JInv, HeapOK(heap'), NEW t \in Threads, Split(t)
    PROVE  JoinsKept
<1> DEFINE b == loc[t].base
           r == Len(heap) + 1
           p == heap[b].parent
           g == SplitNodes(b)
<1>1. /\ pc[t] = "split" /\ loc[t] \in Locals /\ LocalOK(heap, loc[t], "split", call[t])
      /\ HeapOK(heap) /\ HeapJoins(heap, root) /\ root \in Ptr(heap)
      /\ BaseJoins(heap, loc[t], "split") /\ Goto(t, loc[t].then, loc[t])
  BY JoinsState DEF Split, ThreadJoins, Shared
<1>2. b \in Ptr(heap) /\ b \notin Routes(heap)
  BY <1>1 DEF LocalOK, BaseOK, BaseJoins
<1>3. p < b /\ p \in Routes(heap) \cup {null} /\ p \in Nat /\ b \in Nat
  BY <1>1, <1>2, HeapBasics DEF HeapJoins, YoungerBelow, NodeOK, Node
<1>4. ThreadJoins(heap', root', loc[t], loc[t].then)
  BY <1>1, ThenIsFree
<1>5. CASE Len(heap[b].data) >= 2 /\ InPlace(b) /\ Install(b, r, g)
  <2>1. HeapOK(g) /\ Extends(heap, g) /\ AddsSplit(heap, g)
    BY <1>1, <1>2, <1>5, SplitNodesOK
  <2> HIDE DEF g, b, p
  <2>2. /\ \A j \in Ptr(heap) : g[j] = heap[j] /\ j < r
        /\ Len(heap) <= Len(g) /\ r \notin Ptr(heap) /\ r + 1 \notin Ptr(heap) /\ r + 2 \notin Ptr(heap)
        /\ r \in Nat
        /\ Ptr(g) = Ptr(heap) \cup {r, r + 1, r + 2}
    <3>1. Len(heap) \in Nat
      BY <1>1, HeapBasics
    <3> QED BY <2>1, <3>1 DEF Extends, AddsSplit, Ptr
  <2>3. /\ g[r].type = "route" /\ g[r].left = r + 1 /\ g[r].right = r + 2 /\ g[r].parent = null
        /\ g[r + 1].type = "normal" /\ g[r + 1].parent = r
        /\ g[r + 2].type = "normal" /\ g[r + 2].parent = r
    BY <2>1 DEF AddsSplit
  <2> HIDE DEF r
  <2>4. PICK side \in Sides : Puts(g, root, heap', root', p, side, b, r)
    <3>1. Grows(heap, g)
      BY <2>2, <2>3 DEF Grows
    <3> QED BY <1>1, <1>2, <1>5, <2>1, <3>1, InstallPuts DEF p
  <2>5. Harmless(heap, r) /\ p < r /\ null < r /\ Grows(heap, g)
    BY <1>2, <1>3, <2>2, <2>3, NullIsNoNode DEF Harmless, null, Grows
  <2>6. /\ BasePut(heap, root, g, heap', root', p, side, b, r)
        /\ Calm(heap, root, heap', root') /\ KeepsJoins(heap, root, heap', null)
        /\ Committed(heap') = Committed(heap)
        /\ Ptr(heap') = Ptr(g) /\ Routes(heap') = Routes(g) /\ Ptr(heap) \subseteq Ptr(g)
    <3>1. BasePut(heap, root, g, heap', root', p, side, b, r)
      BY <1>1, <1>2, <1>3, <2>1, <2>4, <2>5 DEF BasePut
    <3>2. CalmPut(heap, root, g, heap', root')
      BY <3>1, PutCalm
    <3> QED BY <3>1, <3>2 DEF CalmPut
  <2>7. Routes(g) \ Ptr(heap) = {r} /\ r /= p /\ r \in Ptr(g)
    BY <1>3, <2>2, <2>3, NullIsNoNode DEF Routes
  <2>8. \A z \in Sides : Side(g, r, z) \in {r + 1, r + 2} /\ r < Side(g, r, z) /\ Side(g, r, z) /= r
    BY <2>2, <2>3 DEF Side
  <2>9. ASSUME NEW s \in Routes(heap'), NEW z \in Sides, Side(heap', s, z) = r
        PROVE  s = p /\ z = side
    <3>0. \A q \in Routes(g) \ Ptr(heap), y \in Sides : Side(g, q, y) /= r
      BY <2>7, <2>8
    <3>1. \A q \in Routes(g), y \in Sides : Side(heap', q, y) = r => q = p /\ y = side
      BY <2>2, <2>6, <3>0, NewNodeSlot
    <3> QED BY <2>6, <2>9, <3>1
  <2>10. Fresh(heap, heap', root')
    <3>1. ASSUME NEW n \in Ptr(heap') \ Ptr(heap)
          PROVE  heap'[n].parent < n /\ heap'[n].type /= "join_main"
      <4>1. n \in {r, r + 1, r + 2} /\ n \in Ptr(g)
        BY <2>2, <2>6, <3>1
      <4>2. heap'[n].parent = g[n].parent /\ heap'[n].type = g[n].type
        BY <2>4, <4>1 DEF Puts, SameButSlots
      <4> QED BY <2>2, <2>3, <2>5, <4>1, <4>2
    <3>2. ASSUME NEW z \in Sides
          PROVE  r < Side(heap', r, z) /\ Harmless(heap', Side(heap', r, z))
      <4>1. Side(heap', r, z) = Side(g, r, z)
        BY <2>4, <2>7 DEF Puts
      <4>2. ASSUME NEW n \in {r + 1, r + 2} PROVE Harmless(heap', n)
        <5>0. n \in Ptr(g) /\ g[n].type = "normal"
          BY <2>2, <2>3
        <5>1. heap'[n].type = "normal"
          BY <2>4, <5>0 DEF Puts, SameButSlots
        <5>2. "normal" /= "route" /\ "normal" /= "join_main"
          OBVIOUS
        <5> QED BY <5>1, <5>2 DEF Harmless, Routes
      <4> QED BY <2>8, <4>1, <4>2
    <3>3. ASSUME NEW s \in Routes(heap'), NEW z \in Sides, Side(heap', s, z) = r
          PROVE  r /= root'
      <4>1. s = p /\ p /= null
        BY <2>9, <3>3, NullIsNoNode
      <4>2. root' = root
        BY <2>4, <4>1 DEF Puts
      <4> QED BY <1>1, <2>2, <4>2
    <3>4. Routes(heap') \ Ptr(heap) = {r}
      BY <2>6, <2>7
    <3> QED BY <2>9, <3>1, <3>2, <3>3, <3>4 DEF Fresh
  <2>11. \A n \in Committed(heap') \ Committed(heap) : JoinLocks(heap', root', n)
    BY <2>6
  <2> QED BY <1>1, <1>4, <2>6, <2>10, <2>11, CalmStep
<1>6. CASE heap' = heap /\ root' = root
  BY <1>1, <1>4, <1>6, SameHeapStep
<1> QED BY <1>5, <1>6 DEF Split

(* The joined node takes the place of the neighbour, once.                 *)
LEMMA ReplaceNeighborJoins ==
    ASSUME JInv, HeapOK(heap'), NEW t \in Threads, ReplaceNeighbor(t)
    PROVE  JoinsKept
<1> DEFINE m == loc[t].m
           n1 == heap[m].neigh1
           n2 == loc[t].n2
           p == heap[n1].parent
<1>1. pc[t] = "replaceNeighbor" /\ pc[t] \in HelperLabels /\ Goto(t, "invalidate", loc[t])
  BY DEF ReplaceNeighbor, HelperLabels, Shared
<1>2. /\ HeapOK(heap) /\ HeapJoins(heap, root) /\ m \in Committed(heap) /\ m \in Ptr(heap)
      /\ n2 \in Ptr(heap) /\ heap[n2].type = "join_neighbor" /\ n1 < n2
      /\ JoinLocks(heap, root, m)
  BY <1>1, HelperState DEF HelperJoins, HelperLabels
<1>3. n1 \in Ptr(heap) /\ heap[n1].type = "join_neighbor" /\ n1 \notin Routes(heap)
  BY <1>2, CommittedRoutes DEF JoinLocks, Routes
<1>4. p < n1 /\ p \in Routes(heap) \cup {null} /\ p \in Nat /\ n1 \in Nat /\ n2 \in Nat
  BY <1>2, <1>3, HeapBasics DEF HeapJoins, YoungerBelow, NodeOK, Node
<1> HIDE DEF m, n1, n2, p
<1>5. CASE InPlace(n1) /\ Install(n1, n2, heap)
  <2>1. PICK side \in Sides : Puts(heap, root, heap', root', p, side, n1, n2)
    <3>1. Grows(heap, heap)
      BY <1>2, HeapBasics DEF Grows
    <3> QED BY <1>2, <1>3, <1>5, <3>1, InstallPuts DEF p
  <2>2. Harmless(heap, n2) /\ p < n2 /\ Grows(heap, heap)
    BY <1>2, <1>4, HeapBasics DEF Harmless, Routes, Grows
  <2>3. /\ Calm(heap, root, heap', root') /\ KeepsJoins(heap, root, heap', null)
        /\ Committed(heap') = Committed(heap)
        /\ Ptr(heap') = Ptr(heap) /\ Routes(heap') = Routes(heap)
    <3>1. BasePut(heap, root, heap, heap', root', p, side, n1, n2)
      BY <1>2, <1>3, <1>4, <2>1, <2>2 DEF BasePut
    <3>2. CalmPut(heap, root, heap, heap', root')
      BY <3>1, PutCalm
    <3> QED BY <3>2 DEF CalmPut
  <2>4. Fresh(heap, heap', root')
    BY <2>3, NullIsNoNode DEF Fresh
  <2>5. ThreadJoins(heap', root', loc[t], "invalidate")
    <3>1. heap'[n2].type = "join_neighbor" /\ heap'[m].neigh1 = n1
      BY <1>2, <2>3 DEF Calm, SameJoins, n1
    <3> QED BY <1>2, <3>1, HelperAt DEF m, n2
  <2>6. \A n \in Committed(heap') \ Committed(heap) : JoinLocks(heap', root', n)
    BY <2>3
  <2> QED BY <1>1, <2>3, <2>4, <2>5, <2>6, CalmStep
<1>6. CASE heap' = heap /\ root' = root
  <2>1. ThreadJoins(heap, root, loc[t], "invalidate")
    BY <1>2, HelperAt DEF m, n1, n2
  <2> QED BY <1>1, <1>6, <2>1, SameHeapStep
<1> QED BY <1>5, <1>6 DEF ReplaceNeighbor, n1, n2, m

-----------------------------------------------------------------------------
(* The step that cuts a route out: sibling x takes the place that route p  *)
(* has in slot side of route g, or in root if g is null.                   *)
CutsOut(h, rt, f, rt2, m, p, g, x, side) ==
    /\ HeapOK(h) /\ HeapOK(f) /\ HeapJoins(h, rt)
    /\ m \in Committed(h) /\ ~IsCut(h, rt, m) /\ h[m].parent = p /\ h[m].gparent = g /\ ~h[p].valid
    /\ x \in Ptr(h) /\ SiblingOK(h, rt, m, x)
    /\ side \in Sides /\ Puts(h, rt, f, rt2, g, side, p, x)

(* What the edit is in itself, and what m's locks say of p and g.          *)
CutShape(h, rt, f, rt2, m, p, g, x, side) ==
    /\ p \in Routes(h) /\ g \in Routes(h) \cup {null} /\ g < p /\ p < x /\ g < x /\ g /= p /\ p /= x
    /\ h[p].join_id = m /\ (g /= null => h[g].join_id = m)
    /\ Attached(h, rt, p) /\ (g /= null => Attached(h, rt, g))
    /\ Ptr(f) = Ptr(h) /\ Routes(f) = Routes(h) /\ Committed(f) = Committed(h)
    /\ \A n \in Ptr(h) : SameButSlots(h[n], f[n])
    /\ g = null => rt = p /\ rt2 = x
    /\ g /= null => rt2 = rt /\ Side(h, g, side) = p /\ Side(f, g, side) = x
    /\ \A r \in Routes(h), z \in Sides :
        Side(f, r, z) = Side(h, r, z) \/ (r = g /\ z = side)

LEMMA CutShaped ==
    ASSUME NEW h, NEW rt, NEW f, NEW rt2, NEW m, NEW p, NEW g, NEW x, NEW side,
           CutsOut(h, rt, f, rt2, m, p, g, x, side)
    PROVE  CutShape(h, rt, f, rt2, m, p, g, x, side)
<1>1. /\ HeapOK(h) /\ HeapJoins(h, rt) /\ m \in Committed(h) /\ ~IsCut(h, rt, m)
      /\ h[m].parent = p /\ h[m].gparent = g /\ x \in Ptr(h) /\ SiblingOK(h, rt, m, x)
      /\ side \in Sides /\ Puts(h, rt, f, rt2, g, side, p, x)
  BY DEF CutsOut
<1>2. JoinLocks(h, rt, m) /\ p \in Routes(h) /\ g \in Routes(h) \cup {null}
  BY <1>1, CommittedRoutes DEF HeapJoins
<1>3. /\ h[p].join_id = m /\ (g /= null => h[g].join_id = m) /\ g < p /\ p < x
  BY <1>1, <1>2 DEF JoinLocks, SiblingOK
<1>4. g < x /\ g /= p /\ p /= x
  <2>1. p \in Nat /\ x \in Nat /\ g \in Nat
    BY <1>1, <1>2, HeapBasics, NullIsNoNode DEF null
  <2> QED BY <1>3, <2>1
<1>5. \A n \in Committed(h) : h[h[n].parent].join_id = n
  BY <1>1 DEF HeapJoins, JoinLocks
<1>6. Attached(h, rt, p) /\ (g /= null => Attached(h, rt, g))
  BY <1>1, <1>2, <1>3, <1>4, <1>5 DEF Attached
<1>7. Ptr(f) = Ptr(h) /\ \A n \in Ptr(h) : SameButSlots(h[n], f[n])
  BY <1>1 DEF Puts, Ptr
<1>8. Routes(f) = Routes(h) /\ Committed(f) = Committed(h)
  BY <1>7 DEF Routes, Committed, SameButSlots
<1>9. /\ g = null => rt = p /\ rt2 = x
      /\ g /= null => rt2 = rt /\ Side(h, g, side) = p
  BY <1>1 DEF Puts
<1>10. \A r \in Routes(h), z \in Sides :
        Side(f, r, z) = IF r = g /\ z = side THEN x ELSE Side(h, r, z)
  BY <1>1, NullIsNoNode DEF Puts
<1> QED BY <1>1, <1>2, <1>3, <1>4, <1>6, <1>7, <1>8, <1>9, <1>10 DEF CutShape

(* The route of m, and no other one, is cut out.                           *)
CutResult(h, rt, f, rt2, m, p, x) ==
    /\ \A r \in Routes(h) : Attached(f, rt2, r) <=> Attached(h, rt, r) /\ r /= p
    /\ IsCut(f, rt2, m)
    /\ \A n \in Committed(h) : n /= m => (IsCut(f, rt2, n) <=> IsCut(h, rt, n))
    /\ x \in Routes(h) => Attached(h, rt, x) /\ \E z \in Sides : Side(h, p, z) = x
    /\ \A n \in Ptr(h) : Doomed(h, rt, n) => Doomed(f, rt2, n)
    /\ h[x].type = "join_main" /\ h[x].neigh2 /= ABORTED =>
        x /= m /\ x \notin Committed(h) /\ Doomed(f, rt2, x)

(* A route that is in a slot, other than p, stays there.                   *)
LEMMA CutHolds ==
    ASSUME NEW h, NEW rt, NEW f, NEW rt2, NEW m, NEW p, NEW g, NEW x, NEW side,
           CutShape(h, rt, f, rt2, m, p, g, x, side),
           NEW q \in Routes(h) \cup {null}, NEW r, r /= p, Holds(h, rt, q, r)
    PROVE  Holds(f, rt2, q, r)
<1>1. CASE q = null
  BY <1>1 DEF Holds, CutShape
<1>2. CASE q /= null
  <2>1. PICK z \in Sides : Side(h, q, z) = r
    BY <1>2 DEF Holds
  <2>2. Side(f, q, z) = r
    BY <1>2, <2>1 DEF CutShape
  <2> QED BY <1>2, <2>1, <2>2 DEF Holds
<1> QED BY <1>1, <1>2

LEMMA CutDone ==
    ASSUME NEW h, NEW rt, NEW f, NEW rt2, NEW m, NEW p, NEW g, NEW x, NEW side,
           CutsOut(h, rt, f, rt2, m, p, g, x, side)
    PROVE  CutResult(h, rt, f, rt2, m, p, x)
<1>1. CutShape(h, rt, f, rt2, m, p, g, x, side)
  BY CutShaped
<1>2. /\ HeapOK(h) /\ HeapJoins(h, rt) /\ m \in Committed(h) /\ ~IsCut(h, rt, m)
      /\ h[m].parent = p /\ h[m].gparent = g /\ x \in Ptr(h) /\ SiblingOK(h, rt, m, x)
      /\ side \in Sides
  BY DEF CutsOut
<1>3. /\ p \in Routes(h) /\ g \in Routes(h) \cup {null} /\ g /= p /\ p /= x
      /\ Attached(h, rt, p) /\ (g /= null => Attached(h, rt, g)) /\ h[p].join_id = m
      /\ Routes(f) = Routes(h) /\ Committed(f) = Committed(h) /\ m \in Ptr(h)
  BY <1>1, <1>2 DEF CutShape, Committed
<1>4. \A n \in Ptr(h) : SameButSlots(h[n], f[n])
  BY <1>1 DEF CutShape
<1>5. x \in Routes(h) => Attached(h, rt, x) /\ \E z \in Sides : Side(h, p, z) = x
  BY <1>2, <1>3 DEF SiblingOK, HeapJoins, AttachedBelow
<1>6. IsCut(f, rt2, m)
  <2>1. f[m].parent = p /\ f[m].gparent = g
    BY <1>2, <1>3, <1>4 DEF SameButSlots
  <2>2. CASE g = null
    BY <1>1, <1>3, <2>1, <2>2 DEF CutShape, IsCut, Holds
  <2>3. CASE g /= null
    <3>1. g \in Routes(h) /\ Side(h, g, side) = p /\ Side(f, g, side) = x
      BY <1>1, <1>3, <2>3 DEF CutShape
    <3>2. \A z \in Sides : Side(h, g, z) = p => z = side
      BY <1>2, <1>3, <2>3, <3>1 DEF HeapJoins, OneSlot
    <3>3. \A z \in Sides : z /= side => Side(f, g, z) = Side(h, g, z)
      BY <1>1, <3>1 DEF CutShape
    <3>4. \A z \in Sides : Side(f, g, z) /= p
      BY <1>3, <3>1, <3>2, <3>3
    <3> QED BY <2>1, <2>3, <3>4 DEF IsCut, Holds
  <2> QED BY <2>2, <2>3
<1>7. ASSUME NEW n \in Committed(h), n /= m
      PROVE  h[n].parent /= p /\ (IsCut(f, rt2, n) <=> IsCut(h, rt, n))
  <2> DEFINE np == h[n].parent
             ng == h[n].gparent
  <2>1. /\ n \in Ptr(h) /\ np \in Routes(h) /\ ng \in Routes(h) \cup {null} /\ h[np].join_id = n
    BY <1>2, CommittedRoutes DEF HeapJoins, JoinLocks
  <2>2. np /= p
    BY <1>3, <1>7, <2>1
  <2>3. f[n].parent = np /\ f[n].gparent = ng
    BY <1>4, <2>1 DEF SameButSlots
  <2>4. IsCut(h, rt, n) <=> ~Holds(h, rt, ng, np)
    BY DEF IsCut
  <2>5. IsCut(f, rt2, n) <=> ~Holds(f, rt2, ng, np)
    BY <2>3 DEF IsCut
  <2>6. np = x => Holds(h, rt, ng, np)
    BY <1>5, <2>1, <2>4 DEF Attached
  <2> HIDE DEF np, ng
  <2>7. Holds(h, rt, ng, np) => Holds(f, rt2, ng, np)
    BY <1>1, <2>1, <2>2, CutHolds
  <2>8. Holds(f, rt2, ng, np) /\ np /= x => Holds(h, rt, ng, np)
    <3>1. CASE ng = null
      BY <1>1, <3>1 DEF Holds, CutShape
    <3>2. CASE ng /= null
      <4>1. ng \in Routes(h)
        BY <2>1, <3>2
      <4>2. \A z \in Sides : Side(f, ng, z) = np /\ np /= x => Side(h, ng, z) = np
        BY <1>1, <3>2, <4>1 DEF CutShape
      <4> QED BY <3>2, <4>2 DEF Holds
    <3> QED BY <3>1, <3>2
  <2> QED BY <2>2, <2>4, <2>5, <2>6, <2>7, <2>8 DEF np
<1>8. ASSUME NEW r \in Routes(h)
      PROVE  Attached(f, rt2, r) <=> Attached(h, rt, r) /\ r /= p
  <2>1. \A n \in Committed(h) : f[n].parent = h[n].parent
    BY <1>4 DEF Committed, SameButSlots
  <2>2. Attached(f, rt2, r) <=> \A n \in Committed(h) : h[n].parent = r => ~IsCut(f, rt2, n)
    BY <1>3, <2>1 DEF Attached
  <2>3. Attached(h, rt, r) <=> \A n \in Committed(h) : h[n].parent = r => ~IsCut(h, rt, n)
    BY DEF Attached
  <2> QED BY <1>2, <1>6, <1>7, <2>2, <2>3
<1>9. ASSUME NEW n \in Ptr(h), Doomed(h, rt, n) \/ (n \notin Committed(h) /\ h[n].parent = p)
      PROVE  Doomed(f, rt2, n)
  <2>1. f[n].parent = h[n].parent /\ n \notin Committed(f)
    BY <1>3, <1>4, <1>9 DEF SameButSlots, Doomed
  <2>2. ~Attached(f, rt2, h[n].parent)
    BY <1>3, <1>8, <1>9 DEF Doomed, Attached
  <2> QED BY <2>1, <2>2 DEF Doomed
<1>10. h[x].type = "join_main" /\ h[x].neigh2 /= ABORTED =>
        x /= m /\ x \notin Committed(h) /\ Doomed(f, rt2, x)
  BY <1>2, <1>9 DEF SiblingOK
<1> QED BY <1>5, <1>6, <1>7, <1>8, <1>9, <1>10 DEF CutResult

(* The invariant of the heap survives it.                                  *)
LEMMA CutHeap ==
    ASSUME NEW h, NEW rt, NEW f, NEW rt2, NEW m, NEW p, NEW g, NEW x, NEW side,
           CutsOut(h, rt, f, rt2, m, p, g, x, side)
    PROVE  HeapJoins(f, rt2)
<1>1. CutShape(h, rt, f, rt2, m, p, g, x, side)
  BY CutShaped
<1>2. CutResult(h, rt, f, rt2, m, p, x)
  BY CutDone
<1>3. /\ HeapOK(h) /\ HeapJoins(h, rt) /\ m \in Committed(h)
      /\ h[m].parent = p /\ h[m].gparent = g /\ ~h[p].valid /\ x \in Ptr(h) /\ side \in Sides
  BY DEF CutsOut
<1>4. /\ p \in Routes(h) /\ g \in Routes(h) \cup {null} /\ g < x
      /\ Attached(h, rt, p) /\ (g /= null => Attached(h, rt, g)) /\ h[p].join_id = m
      /\ g /= null => h[g].join_id = m
      /\ Ptr(f) = Ptr(h) /\ Routes(f) = Routes(h) /\ Committed(f) = Committed(h)
      /\ g = null => rt = p /\ rt2 = x
      /\ g /= null => rt2 = rt /\ Side(h, g, side) = p /\ Side(f, g, side) = x
  BY <1>1 DEF CutShape
<1>5. \A n \in Ptr(h) : SameButSlots(h[n], f[n])
  BY <1>1 DEF CutShape
<1>6. \A r \in Routes(h), z \in Sides : Side(f, r, z) = Side(h, r, z) \/ (r = g /\ z = side)
  BY <1>1 DEF CutShape
<1>7. \A r \in Routes(h) : Attached(f, rt2, r) <=> Attached(h, rt, r) /\ r /= p
  BY <1>2 DEF CutResult
<1>8. x \in Routes(h) => Attached(h, rt, x) /\ \E z \in Sides : Side(h, p, z) = x
  BY <1>2 DEF CutResult
<1>9. \A r \in Routes(h), y \in Sides :
        Attached(h, rt, r) /\ Side(h, r, y) \in Routes(h) =>
            /\ Side(h, r, y) /= rt /\ Attached(h, rt, Side(h, r, y))
            /\ \A s \in Routes(h), z \in Sides :
                Attached(h, rt, s) /\ Side(h, s, z) = Side(h, r, y) => s = r /\ z = y
  BY <1>3 DEF HeapJoins, OneSlot, AttachedBelow
<1>10. YoungerBelow(f)
  <2>1. \A n \in Routes(h), z \in Sides : n < Side(h, n, z)
    BY <1>3, NullIsNoNode DEF HeapJoins, YoungerBelow, Side, Sides
  <2>2. ASSUME NEW n \in Routes(h), NEW z \in Sides PROVE n < Side(f, n, z)
    BY <1>4, <1>6, <2>1, <2>2, NullIsNoNode
  <2>3. \A n \in Routes(h) : Side(f, n, "left") = f[n].left /\ Side(f, n, "right") = f[n].right
    BY DEF Side
  <2>4. \A n \in Routes(h) : n < f[n].left /\ n < f[n].right
    BY <2>2, <2>3 DEF Sides
  <2>5. \A n \in Ptr(h) : f[n].parent < n
    BY <1>3, <1>5 DEF SameButSlots, HeapJoins, YoungerBelow
  <2>6. ASSUME NEW n \in Routes(f) PROVE f[n].left > n /\ f[n].right > n
    <3>1. n \in Routes(f) /\ f[n].left \in Ptr(f) /\ f[n].right \in Ptr(f) /\ n \in Ptr(f)
      BY NullIsNoNode DEF CutsOut, HeapOK, NodeOK, Routes
    <3>2. n \in Nat /\ f[n].left \in Nat /\ f[n].right \in Nat
      BY <3>1 DEF Ptr, CutsOut
    <3> QED BY <1>4, <2>4, <3>2
  <2> QED BY <1>4, <2>5, <2>6 DEF YoungerBelow
<1>11. AttachedBelow(f, rt2)
  <2>1. rt2 \in Routes(h) => Attached(f, rt2, rt2)
    <3>1. CASE g = null
      BY <1>1, <1>4, <1>7, <1>8, <3>1 DEF CutShape
    <3>2. CASE g /= null
      <4>1. g \in Routes(h) /\ p /= rt
        BY <1>3, <1>4, <1>9, <3>2
      <4>2. rt \in Routes(h) => Attached(h, rt, rt)
        BY <1>3 DEF HeapJoins, AttachedBelow
      <4> QED BY <1>4, <1>7, <3>2, <4>1, <4>2
    <3> QED BY <3>1, <3>2
  <2>2. ASSUME NEW r \in Routes(h), NEW z \in Sides, Attached(f, rt2, r), Side(f, r, z) \in Routes(h)
        PROVE  Attached(f, rt2, Side(f, r, z))
    <3>1. Attached(h, rt, r) /\ r /= p
      BY <1>7, <2>2
    <3>2. CASE Side(f, r, z) = x
      BY <1>1, <1>7, <1>8, <2>2, <3>2 DEF CutShape
    <3>3. CASE Side(f, r, z) /= x
      <4>1. Side(f, r, z) = Side(h, r, z) /\ ~(r = g /\ z = side)
        BY <1>4, <1>6, <3>3, NullIsNoNode
      <4>2. Side(h, r, z) /= p
        <5>1. CASE g = null
          BY <1>4, <1>9, <3>1, <4>1, <5>1, <2>2
        <5>2. CASE g /= null
          BY <1>3, <1>4, <1>9, <3>1, <4>1, <5>2
        <5> QED BY <5>1, <5>2
      <4> QED BY <1>7, <1>9, <2>2, <3>1, <4>1, <4>2
    <3> QED BY <3>2, <3>3
  <2> QED BY <1>4, <2>1, <2>2 DEF AttachedBelow
<1>12. OneSlot(f, rt2)
  <2>1. ASSUME x \in Routes(h), NEW r \in Routes(h), NEW z \in Sides, Attached(h, rt, r), Side(h, r, z) = x
        PROVE  r = p /\ x /= rt
    BY <1>4, <1>8, <1>9, <2>1
  <2>2. ASSUME NEW r \in Routes(h), NEW z \in Sides, Attached(f, rt2, r), Side(f, r, z) \in Routes(h)
        PROVE  Side(f, r, z) /= rt2
    <3>1. Attached(h, rt, r) /\ r /= p
      BY <1>7, <2>2
    <3>2. CASE r = g /\ z = side
      <4>1. PICK y \in Sides : Side(h, p, y) = x
        BY <1>4, <1>8, <2>2, <3>2, NullIsNoNode
      <4> QED BY <1>4, <2>1, <2>2, <3>2, <4>1, NullIsNoNode
    <3>3. CASE ~(r = g /\ z = side)
      <4>1. Side(f, r, z) = Side(h, r, z)
        BY <1>6, <3>3
      <4>2. Side(h, r, z) /= rt
        BY <1>9, <2>2, <3>1, <4>1
      <4>3. Side(h, r, z) /= x
        BY <2>1, <2>2, <3>1, <4>1
      <4> QED BY <1>4, <4>1, <4>2, <4>3
    <3> QED BY <3>2, <3>3
  <2>3. ASSUME NEW r \in Routes(h), NEW z \in Sides, Attached(f, rt2, r), Side(f, r, z) \in Routes(h),
               NEW s \in Routes(h), NEW y \in Sides, Attached(f, rt2, s), Side(f, s, y) = Side(f, r, z)
        PROVE  s = r /\ y = z
    <3>1. Attached(h, rt, r) /\ r /= p /\ Attached(h, rt, s) /\ s /= p
      BY <1>7, <2>3
    <3>2. CASE (r = g /\ z = side) /\ (s = g /\ y = side)
      BY <3>2
    <3>3. CASE (r = g /\ z = side) /\ ~(s = g /\ y = side)
      <4>1. Side(h, s, y) = x /\ x \in Routes(h)
        BY <1>4, <1>6, <2>3, <3>3, NullIsNoNode
      <4> QED BY <2>1, <3>1, <4>1
    <3>4. CASE ~(r = g /\ z = side) /\ (s = g /\ y = side)
      <4>1. Side(h, r, z) = x /\ x \in Routes(h)
        BY <1>4, <1>6, <2>3, <3>4, NullIsNoNode
      <4> QED BY <2>1, <3>1, <4>1
    <3>5. CASE ~(r = g /\ z = side) /\ ~(s = g /\ y = side)
      <4>1. Side(f, r, z) = Side(h, r, z) /\ Side(f, s, y) = Side(h, s, y)
        BY <1>6, <3>5
      <4>2. Side(h, r, z) \in Routes(h) /\ Side(h, s, y) = Side(h, r, z)
        BY <2>3, <4>1
      <4>3. \A q \in Routes(h), w \in Sides :
                Attached(h, rt, q) /\ Side(h, q, w) = Side(h, r, z) => q = r /\ w = z
        BY <1>9, <2>3, <3>1, <4>2
      <4> QED BY <2>3, <3>1, <4>2, <4>3
    <3> QED BY <3>2, <3>3, <3>4, <3>5
  <2> QED BY <1>4, <2>2, <2>3 DEF OneSlot
<1>13. MainsInPlace(f, rt2)
  <2>1. ASSUME NEW n \in Ptr(h), h[n].type = "join_main", h[n].neigh2 /= ABORTED
        PROVE  /\ rt2 = n => Doomed(f, rt2, n)
               /\ \A r \in Routes(h), z \in Sides :
                    Attached(f, rt2, r) /\ Side(f, r, z) = n => r = h[n].parent \/ Doomed(f, rt2, n)
    <3>1. n = x => Doomed(f, rt2, n)
      BY <1>2, <2>1 DEF CutResult
    <3>2. Doomed(h, rt, n) => Doomed(f, rt2, n)
      BY <1>2, <2>1 DEF CutResult
    <3>3. /\ rt = n => Doomed(h, rt, n)
          /\ \A r \in Routes(h), z \in Sides :
                Attached(h, rt, r) /\ Side(h, r, z) = n => r = h[n].parent \/ Doomed(h, rt, n)
      BY <1>3, <2>1 DEF HeapJoins, MainsInPlace
    <3>4. rt2 = rt \/ rt2 = x
      BY <1>4
    <3>5. ASSUME NEW r \in Routes(h), NEW z \in Sides, Attached(f, rt2, r), Side(f, r, z) = n
          PROVE  r = h[n].parent \/ Doomed(f, rt2, n)
      <4>1. Side(f, r, z) = x \/ Side(f, r, z) = Side(h, r, z)
        BY <1>4, <1>6, NullIsNoNode
      <4> QED BY <1>7, <3>1, <3>2, <3>3, <3>5, <4>1
    <3> QED BY <3>1, <3>2, <3>3, <3>4, <3>5
  <2> QED BY <1>4, <1>5, <2>1 DEF MainsInPlace, SameButSlots
<1>14. ASSUME NEW n \in Committed(h) PROVE JoinLocks(f, rt2, n)
  <2> DEFINE np == h[n].parent
             ng == h[n].gparent
             o == h[n].otherb
  <2>1. JoinLocks(h, rt, n)
    BY <1>3 DEF HeapJoins
  <2>2. /\ n \in Ptr(h) /\ np \in Routes(h) /\ np \in Ptr(h) /\ ng \in Routes(h) \cup {null} /\ o \in Ptr(h)
        /\ h[n].neigh1 \in Ptr(h) /\ (h[n].neigh2 /= DONE => h[n].neigh2 \in Ptr(h))
        /\ ng /= null => ng \in Ptr(h)
    BY <1>3, CommittedRoutes, NullIsNoNode
  <2>3. /\ f[n].parent = np /\ f[n].gparent = ng /\ f[n].otherb = o
        /\ f[n].neigh1 = h[n].neigh1 /\ f[n].neigh2 = h[n].neigh2
        /\ f[np].join_id = h[np].join_id /\ f[np].valid = h[np].valid
        /\ ng /= null => f[ng].join_id = h[ng].join_id
        /\ f[h[n].neigh1].type = h[h[n].neigh1].type
        /\ h[n].neigh2 /= DONE => f[h[n].neigh2].type = h[h[n].neigh2].type
    BY <1>5, <2>2 DEF SameButSlots
  <2>4. /\ h[np].join_id = n /\ ng < np /\ h[h[n].neigh1].type = "join_neighbor"
        /\ h[n].neigh2 /= DONE => h[h[n].neigh2].type = "join_neighbor" /\ h[n].neigh1 < h[n].neigh2
        /\ IsCut(h, rt, n) => ~h[np].valid
        /\ ~IsCut(h, rt, n) => h[n].neigh2 /= DONE /\ (ng /= null => h[ng].join_id = n)
                                /\ SiblingOK(h, rt, n, o)
    BY <2>1 DEF JoinLocks
  <2>5. n = m => IsCut(f, rt2, n) /\ ~h[np].valid
    BY <1>2, <1>3 DEF CutResult
  <2>6. n /= m => (IsCut(f, rt2, n) <=> IsCut(h, rt, n))
    BY <1>2 DEF CutResult
  <2>7. ASSUME n /= m, SiblingOK(h, rt, n, o) PROVE SiblingOK(f, rt2, n, o)
    <3>1. np /= g
      BY <1>4, <2>2, <2>4, <2>7, NullIsNoNode
    <3>2. \A z \in Sides : Side(f, np, z) = Side(h, np, z)
      BY <1>6, <2>2, <3>1
    <3>3. Doomed(h, rt, o) => Doomed(f, rt2, o)
      BY <1>2, <2>2 DEF CutResult
    <3>4. f[o].type = h[o].type /\ f[o].neigh2 = h[o].neigh2 /\ f[o].parent = h[o].parent
      BY <1>5, <2>2 DEF SameButSlots
    <3> QED BY <1>4, <2>3, <2>7, <3>2, <3>3, <3>4 DEF SiblingOK
  <2> HIDE DEF np, ng, o
  <2> QED BY <2>3, <2>4, <2>5, <2>6, <2>7 DEF JoinLocks
<1> QED BY <1>4, <1>10, <1>11, <1>12, <1>13, <1>14 DEF HeapJoins

(* And so does what the other threads rely on.                             *)
LEMMA CutThread ==
    ASSUME NEW h, NEW rt, NEW f, NEW rt2, NEW m, NEW p, NEW g, NEW x, NEW side,
           CutsOut(h, rt, f, rt2, m, p, g, x, side),
           NEW l \in Locals, NEW label, NEW c, LocalOK(h, l, label, c), ThreadJoins(h, rt, l, label),
           label \in OwnerLabels => l.m \notin Committed(h)
    PROVE  ThreadJoins(f, rt2, l, label)
<1> DEFINE um == l.m
           pu == h[um].parent
           gu == l.gparent
<1>1. CutShape(h, rt, f, rt2, m, p, g, x, side)
  BY CutShaped
<1>2. CutResult(h, rt, f, rt2, m, p, x)
  BY CutDone
<1>3. HeapOK(h) /\ m \in Committed(h) /\ x \in Ptr(h) /\ h[m].parent = p
  BY DEF CutsOut
<1>4. /\ p \in Routes(h) /\ g \in Routes(h) \cup {null} /\ h[p].join_id = m
      /\ g /= null => h[g].join_id = m
      /\ Ptr(f) = Ptr(h) /\ Routes(f) = Routes(h) /\ Committed(f) = Committed(h)
      /\ g /= null => Side(f, g, side) = x
  BY <1>1 DEF CutShape
<1>5. \A n \in Ptr(h) : SameButSlots(h[n], f[n])
  BY <1>1 DEF CutShape
<1>6. \A r \in Routes(h), z \in Sides : Side(f, r, z) = Side(h, r, z) \/ (r = g /\ z = side)
  BY <1>1 DEF CutShape
<1>7. \A r \in Routes(h) : Attached(f, rt2, r) <=> Attached(h, rt, r) /\ r /= p
  BY <1>2 DEF CutResult
<1>8. label \in OwnerLabels \cup HelperLabels =>
        /\ um \in Ptr(h) /\ h[um].type = "join_main" /\ pu \in Routes(h) /\ pu \in Ptr(h)
        /\ f[um].parent = pu /\ f[um].gparent = h[um].gparent /\ f[um].otherb = h[um].otherb
        /\ f[um].neigh1 = h[um].neigh1 /\ f[um].neigh2 = h[um].neigh2
        /\ f[pu].join_id = h[pu].join_id /\ f[pu].valid = h[pu].valid
  <2>1. label \in OwnerLabels \cup HelperLabels => um \in Ptr(h) /\ h[um].type = "join_main"
    BY DEF LocalOK, JoinLocalsOK
  <2>2. label \in OwnerLabels \cup HelperLabels => pu \in Routes(h) /\ pu \in Ptr(h)
    BY <1>3, <2>1, NullIsNoNode DEF HeapOK, NodeOK
  <2> HIDE DEF um, pu
  <2> QED BY <1>5, <2>1, <2>2 DEF SameButSlots, pu
<1>9. ASSUME label \in OwnerLabels PROVE OwnerJoins(f, rt2, l, label)
  <2>1. /\ um /= m /\ um \notin Committed(h) /\ OwnSide(h, rt, um, l.side)
        /\ label \in LocksParent => h[pu].join_id = um /\ pu /= p /\ pu /= g
    <3>1. um /= m /\ OwnSide(h, rt, um, l.side) /\ (label \in LocksParent => h[pu].join_id = um)
      BY <1>3, <1>9 DEF ThreadJoins, OwnerJoins
    <3> QED BY <1>4, <1>8, <1>9, <3>1, NullIsNoNode
  <2>2. OwnSide(f, rt2, um, l.side)
    <3>1. SUFFICES ASSUME Attached(h, rt, pu), pu /= p, h[um].neigh2 /= ABORTED
                   PROVE  Side(f, pu, Opposite(l.side)) /= um
      BY <1>7, <1>8, <1>9 DEF OwnSide
    <3>2. Opposite(l.side) \in Sides
      BY DEF Opposite, Sides
    <3>3. Side(h, pu, Opposite(l.side)) /= um
      BY <2>1, <3>1 DEF OwnSide
    <3>4. um /= x
      <4>1. SUFFICES ASSUME um = x PROVE FALSE
        OBVIOUS
      <4>2. Doomed(f, rt2, um)
        BY <1>2, <1>8, <1>9, <3>1, <4>1 DEF CutResult
      <4> QED BY <1>7, <1>8, <1>9, <3>1, <4>2 DEF Doomed
    <3>5. Side(f, pu, Opposite(l.side)) = x \/ Side(f, pu, Opposite(l.side)) = Side(h, pu, Opposite(l.side))
      BY <1>4, <1>6, <1>8, <1>9, <3>2, NullIsNoNode
    <3> QED BY <3>3, <3>4, <3>5
  <2>3. /\ label \in {"search", "readOther", "publish"} => gu \in Routes(h) \cup {null}
        /\ label \in {"lockGparent", "undoGparent"} => gu \in Routes(h)
    BY DEF LocalOK, JoinLocalsOK
  <2>4. ASSUME label \in LocksParent, gu \in Routes(h) \cup {null}, Holds(h, rt, gu, pu)
        PROVE  Holds(f, rt2, gu, pu)
    BY <1>1, <2>1, <2>4, CutHolds
  <2>5. ASSUME label \in LocksParent, gu \in Routes(h) \cup {null}, HeldOrGone(h, rt, gu, pu)
        PROVE  HeldOrGone(f, rt2, gu, pu)
    BY <1>7, <2>4, <2>5 DEF HeldOrGone
  <2>6. ASSUME label = "publish", h[um].neigh2 /= ABORTED PROVE SiblingOK(f, rt2, um, h[um].otherb)
    <3> DEFINE o == h[um].otherb
    <3>1. SiblingOK(h, rt, um, o) /\ label \in LocksParent
      BY <1>9, <2>6 DEF ThreadJoins, OwnerJoins, LocksParent
    <3>2. o \in Ptr(h)
      BY <2>6 DEF LocalOK, JoinLocalsOK, JoinOK
    <3>3. \A z \in Sides : Side(f, pu, z) = Side(h, pu, z)
      BY <1>6, <1>8, <1>9, <2>1, <3>1
    <3>4. Doomed(h, rt, o) => Doomed(f, rt2, o)
      BY <1>2, <3>2 DEF CutResult
    <3>5. f[o].type = h[o].type /\ f[o].neigh2 = h[o].neigh2 /\ f[o].parent = h[o].parent
      BY <1>5, <3>2 DEF SameButSlots
    <3> HIDE DEF o
    <3>6. SiblingOK(f, rt2, um, o)
      BY <1>4, <1>8, <1>9, <3>1, <3>3, <3>4, <3>5 DEF SiblingOK
    <3> QED BY <3>6 DEF o
  <2>7. gu \in Routes(h) => f[gu].join_id = h[gu].join_id
    BY <1>5, NullIsNoNode DEF SameButSlots
  <2>8. OwnerJoins(h, rt, l, label)
    BY DEF ThreadJoins
  <2>9. /\ label \in LocksParent => f[pu].join_id = um
        /\ label \in LocksGparent /\ gu /= null => f[gu].join_id = um
    <3>1. label \in LocksGparent => gu \in Routes(h) \cup {null}
      BY <2>3 DEF LocksGparent
    <3>2. label \in LocksGparent /\ gu /= null => h[gu].join_id = um
      BY <2>8 DEF OwnerJoins
    <3> QED BY <1>8, <1>9, <2>1, <2>7, <3>1, <3>2
  <2>10. /\ label \in LocksGparent \cup {"lockGparent"} => gu < pu
         /\ label = "search" => gu < l.cur /\ (l.cur = pu => HeldOrGone(f, rt2, gu, pu))
         /\ label = "lockGparent" => HeldOrGone(f, rt2, gu, pu)
         /\ label \in {"readOther", "publish"} => Holds(f, rt2, gu, pu)
    <3>1. /\ label \in LocksGparent \cup {"lockGparent"} => gu < pu
          /\ label = "search" => gu < l.cur /\ (l.cur = pu => HeldOrGone(h, rt, gu, pu))
          /\ label = "lockGparent" => HeldOrGone(h, rt, gu, pu)
          /\ label \in {"readOther", "publish"} => Holds(h, rt, gu, pu)
      BY <2>8 DEF OwnerJoins
    <3>2. label \in {"search", "lockGparent", "readOther", "publish"} =>
            label \in LocksParent /\ gu \in Routes(h) \cup {null}
      BY <2>3 DEF LocksParent
    <3> QED BY <2>4, <2>5, <3>1, <3>2
  <2>11. label = "publish" => /\ h[um].gparent = gu /\ h[um].neigh1 = l.n1
                              /\ f[um].gparent = gu /\ f[um].neigh1 = l.n1
    <3>1. label = "publish" => h[um].gparent = gu /\ h[um].neigh1 = l.n1
      BY <2>8 DEF OwnerJoins
    <3> QED BY <1>8, <1>9, <3>1
  <2> QED BY <1>8, <1>9, <2>2, <2>6, <2>9, <2>10, <2>11 DEF OwnerJoins
<1>10. ASSUME label \in HelperLabels PROVE HelperJoins(f, rt2, l, label)
  <2> DEFINE gh == h[um].gparent
  <2>1. um \in Committed(h) /\ gh \in Routes(h) \cup {null}
    <3>1. um \in Committed(h)
      BY <1>8, <1>10 DEF LocalOK, JoinLocalsOK, Committed
    <3> QED BY <1>3, <3>1, CommittedRoutes
  <2>2. HelperJoins(h, rt, l, label)
    BY DEF ThreadJoins
  <2>3. label /= "load" => l.n2 \in Ptr(h) /\ f[l.n2].type = h[l.n2].type
    <3>1. label /= "load" => l.n2 \in Ptr(h)
      BY <1>10 DEF LocalOK, JoinLocalsOK
    <3> QED BY <1>5, <3>1 DEF SameButSlots
  <2>4. IsCut(h, rt, um) => IsCut(f, rt2, um)
    BY <1>2, <2>1 DEF CutResult
  <2>5. ASSUME label = "splice", gh /= null, ~IsCut(f, rt2, um) PROVE Side(f, gh, l.slot) = pu
    <3>1. ~IsCut(h, rt, um) /\ um /= m
      BY <1>2, <2>4, <2>5 DEF CutResult
    <3>2. Side(h, gh, l.slot) = pu
      BY <2>2, <2>5, <3>1 DEF HelperJoins
    <3>3. pu /= p
      <4>1. h[pu].join_id = um
        BY <2>1 DEF CutsOut, HeapJoins, JoinLocks
      <4> QED BY <1>4, <3>1, <4>1
    <3>4. l.slot \in Sides
      BY DEF Locals, Sides
    <3>5. ~(gh = g /\ l.slot = side)
      BY <1>1, <2>5, <3>2, <3>3 DEF CutShape
    <3> QED BY <1>6, <2>1, <2>5, <3>2, <3>4, <3>5
  <2> QED BY <1>8, <1>10, <2>2, <2>3, <2>4, <2>5 DEF HelperJoins
<1>11. BaseJoins(f, l, label)
  <2>1. BaseJoins(h, l, label)
    BY DEF ThreadJoins
  <2>2. label = "copy" => l.base \in Ptr(h)
    BY DEF LocalOK, BaseOK
  <2> QED BY <1>4, <1>5, <2>1, <2>2 DEF BaseJoins, SameButSlots
<1>12. label \notin OwnerLabels => OwnerJoins(f, rt2, l, label)
  BY DEF OwnerJoins, OwnerLabels, LocksParent, LocksGparent
<1>13. label \notin HelperLabels => HelperJoins(f, rt2, l, label)
  BY DEF HelperJoins, HelperLabels
<1> QED BY <1>9, <1>10, <1>11, <1>12, <1>13 DEF ThreadJoins

LEMMA CutTree ==
    ASSUME NEW h, NEW rt, NEW f, NEW rt2, NEW m, NEW p, NEW g, NEW x, NEW side,
           CutsOut(h, rt, f, rt2, m, p, g, x, side), rt \in Ptr(h)
    PROVE  OldRoutesStay(h, rt, f, rt2)
<1>1. CutShape(h, rt, f, rt2, m, p, g, x, side) /\ CutResult(h, rt, f, rt2, m, p, x)
  BY CutShaped, CutDone
<1>2. HeapOK(h) /\ HeapJoins(h, rt) /\ side \in Sides
  BY DEF CutsOut
<1>3. /\ p \in Routes(h) /\ g \in Routes(h) \cup {null} /\ Routes(f) = Routes(h)
      /\ g = null => rt = p /\ rt2 = x
      /\ g /= null => rt2 = rt /\ Side(h, g, side) = p /\ Side(f, g, side) = x
      /\ \A r \in Routes(h), z \in Sides : Side(f, r, z) = Side(h, r, z) \/ (r = g /\ z = side)
  BY <1>1 DEF CutShape
<1>4. /\ rt \in Below(h, rt)
      /\ \A r \in Below(h, rt), z \in Sides : r \in Routes(h) => Side(h, r, z) \in Below(h, rt)
  BY <1>2, TreeLinks
<1>5. x \in Routes(h) /\ p \in Below(h, rt) => x \in Below(h, rt)
  BY <1>1, <1>3, <1>4 DEF CutResult
<1>6. rt2 \in Routes(h) => rt2 \in Below(h, rt)
  BY <1>3, <1>4, <1>5
<1>7. ASSUME NEW r \in Below(h, rt), NEW z \in Sides, r \in Routes(h), Side(f, r, z) \in Routes(h)
      PROVE  Side(f, r, z) \in Below(h, rt)
  <2>1. CASE r = g /\ z = side
    <3>1. g /= null
      BY <1>7, <2>1, NullIsNoNode
    <3> QED BY <1>3, <1>4, <1>5, <1>7, <2>1, <3>1
  <2>2. CASE ~(r = g /\ z = side)
    BY <1>3, <1>4, <1>7, <2>2
  <2> QED BY <2>1, <2>2
<1> QED BY <1>3, <1>6, <1>7 DEF OldRoutesStay

(* The compare-and-swap that cuts a route out succeeds once.               *)
LEMMA SpliceCuts ==
    ASSUME JInv, HeapOK(heap'), NEW t \in Threads, Splice(t)
    PROVE  LET m == loc[t].m
               p == Parent(t)
               g == heap[m].gparent
               x == IF heap[m].otherb = heap[m].neigh1 THEN loc[t].n2 ELSE heap[m].otherb
               side == IF g = null THEN "left" ELSE loc[t].slot
           IN  IF IsCut(heap, root, m) THEN heap' = heap /\ root' = root
               ELSE CutsOut(heap, root, heap', root', m, p, g, x, side)
<1> DEFINE m == loc[t].m
           p == Parent(t)
           g == heap[m].gparent
           x == IF heap[m].otherb = heap[m].neigh1 THEN loc[t].n2 ELSE heap[m].otherb
           side == IF g = null THEN "left" ELSE loc[t].slot
<1> SUFFICES IF IsCut(heap, root, m) THEN heap' = heap /\ root' = root
             ELSE CutsOut(heap, root, heap', root', m, p, g, x, side)
  OBVIOUS
<1>1. pc[t] = "splice" /\ pc[t] \in HelperLabels
  BY DEF Splice, HelperLabels
<1>2. /\ HeapOK(heap) /\ HeapJoins(heap, root) /\ m \in Committed(heap) /\ m \in Ptr(heap)
      /\ p = heap[m].parent /\ p \in Routes(heap) /\ p \in Ptr(heap) /\ loc[t].n2 \in Ptr(heap)
      /\ g \in Routes(heap) \cup {null} /\ JoinLocks(heap, root, m)
      /\ heap[loc[t].n2].type = "join_neighbor" /\ heap[m].neigh1 < loc[t].n2
      /\ ~heap[p].valid /\ loc[t] \in Locals
      /\ g /= null /\ ~IsCut(heap, root, m) => Side(heap, g, loc[t].slot) = p
  BY <1>1, HelperState DEF HelperJoins, HelperLabels
<1>3. side \in Sides
  BY <1>2 DEF Locals, Sides
<1>4. IF g = null
      THEN root' = (IF root = p THEN x ELSE root) /\ heap' = heap
      ELSE /\ heap' = IF Child(g, loc[t].slot) = p THEN SetChild(heap, g, loc[t].slot, x) ELSE heap
           /\ root' = root
  BY <1>2 DEF Splice
<1>5. CASE IsCut(heap, root, m)
  <2>1. g = null => root /= p
    BY <1>2, <1>5 DEF IsCut, Holds
  <2>2. g /= null => Child(g, loc[t].slot) /= p
    <3>1. loc[t].slot \in Sides /\ Child(g, loc[t].slot) = Side(heap, g, loc[t].slot)
      BY <1>2 DEF Locals, Sides, Child, Side
    <3> QED BY <1>2, <1>5, <3>1 DEF IsCut, Holds
  <2> HIDE DEF x, p, g
  <2> QED BY <1>4, <1>5, <2>1, <2>2
<1>6. CASE ~IsCut(heap, root, m)
  <2>1. x \in Ptr(heap) /\ SiblingOK(heap, root, m, x)
    <3>1. SiblingOK(heap, root, m, heap[m].otherb) /\ heap[m].otherb \in Ptr(heap)
      BY <1>2, <1>6, CommittedRoutes DEF JoinLocks
    <3>2. CASE heap[m].otherb = heap[m].neigh1
      <4>1. p < loc[t].n2
        <5>1. p < heap[m].neigh1
          BY <1>2, <3>1, <3>2 DEF SiblingOK
        <5>2. p \in Nat /\ heap[m].neigh1 \in Nat /\ loc[t].n2 \in Nat
          BY <1>2, CommittedRoutes, HeapBasics
        <5> HIDE DEF p, m
        <5> QED BY <1>2, <5>1, <5>2
      <4>2. loc[t].n2 \notin Routes(heap)
        BY <1>2 DEF Routes
      <4> QED BY <1>2, <3>2, <4>1, <4>2 DEF SiblingOK
    <3>3. CASE heap[m].otherb /= heap[m].neigh1
      BY <3>1, <3>3
    <3> QED BY <3>2, <3>3
  <2>2. Puts(heap, root, heap', root', g, side, p, x)
    <3>1. CASE g = null
      <4>1. root = p
        BY <1>2, <1>6, <3>1 DEF IsCut, Holds
      <4>2. heap' = heap /\ root' = x
        BY <1>4, <3>1, <4>1
      <4>3. \A n \in Ptr(heap) : SameButSlots(heap[n], heap[n]) /\ n /= null
        BY NullIsNoNode DEF SameButSlots
      <4> HIDE DEF x, p, g, side
      <4> QED BY <3>1, <4>1, <4>2, <4>3 DEF Puts
    <3>2. CASE g /= null
      <4>1. Side(heap, g, side) = p /\ Child(g, side) = p /\ g \in Ptr(heap) /\ side = loc[t].slot
        BY <1>2, <1>6, <3>2, NullIsNoNode DEF Side, Child
      <4>2. heap' = SetChild(heap, g, side, x) /\ root' = root
        BY <1>4, <3>2, <4>1
      <4> HIDE DEF x, p, g, side
      <4> QED BY <1>2, <1>3, <4>1, <4>2, ChildPuts
    <3> QED BY <3>1, <3>2
  <2> HIDE DEF x, p, side
  <2> QED BY <1>2, <1>3, <1>6, <2>1, <2>2 DEF CutsOut
<1> QED BY <1>5, <1>6

(* It leaves all other locks and routes as they are.                       *)
LEMMA SpliceJoins ==
    ASSUME JInv, HeapOK(heap'), NEW t \in Threads, Splice(t)
    PROVE  JoinsKept
<1> DEFINE m == loc[t].m
           p == Parent(t)
           g == heap[m].gparent
           x == IF heap[m].otherb = heap[m].neigh1 THEN loc[t].n2 ELSE heap[m].otherb
           label == IF g = null THEN "done" ELSE "unlock"
           side == IF g = null THEN "left" ELSE loc[t].slot
<1>1. pc[t] = "splice" /\ pc[t] \in HelperLabels /\ Goto(t, label, loc[t])
  BY DEF Splice, HelperLabels, Shared
<1>2. /\ HeapOK(heap) /\ m \in Committed(heap) /\ m \in Ptr(heap)
      /\ p = heap[m].parent /\ p \in Ptr(heap) /\ loc[t].n2 \in Ptr(heap)
      /\ heap[loc[t].n2].type = "join_neighbor" /\ heap[m].neigh1 < loc[t].n2
      /\ ~heap[p].valid
  BY <1>1, HelperState DEF HelperJoins, HelperLabels
<1>3. IF IsCut(heap, root, m) THEN heap' = heap /\ root' = root
      ELSE CutsOut(heap, root, heap', root', m, p, g, x, side)
  BY SpliceCuts
<1>4. label \in {"unlock", "done"}
  OBVIOUS
<1> HIDE DEF x, p, side, label
<1>5. CASE IsCut(heap, root, m)
  <2>1. ThreadJoins(heap, root, loc[t], label)
    BY <1>2, <1>4, <1>5, HelperAt DEF p
  <2> QED BY <1>1, <1>3, <1>5, <2>1, SameHeapStep
<1>6. CASE ~IsCut(heap, root, m)
  <2>1. CutsOut(heap, root, heap', root', m, p, g, x, side)
    BY <1>3, <1>6
  <2>2. CutResult(heap, root, heap', root', m, p, x) /\ CutShape(heap, root, heap', root', m, p, g, x, side)
    BY <2>1, CutDone, CutShaped
  <2>3. HeapJoins(heap', root')
    BY <2>1, CutHeap
  <2>4. ThreadJoins(heap', root', loc[t], label)
    <3>1. /\ heap'[loc[t].n2].type = "join_neighbor" /\ heap'[m].neigh1 = heap[m].neigh1
          /\ heap'[m].parent = p /\ heap'[p].valid = heap[p].valid
      BY <1>2, <2>2 DEF CutShape, SameButSlots
    <3>2. IsCut(heap', root', m)
      BY <2>2 DEF CutResult
    <3> QED BY <1>2, <1>4, <3>1, <3>2, HelperAt
  <2>5. ASSUME NEW u \in Threads, u /= t PROVE ThreadJoins(heap', root', loc[u], pc[u])
    <3>1. /\ loc[u] \in Locals /\ LocalOK(heap, loc[u], pc[u], call[u])
          /\ ThreadJoins(heap, root, loc[u], pc[u])
      BY JoinsState
    <3>2. pc[u] \in OwnerLabels => loc[u].m \notin Committed(heap)
      BY DEF JInv, IInv, WellFormed, OwnersOK, Committed
    <3> QED BY <2>1, <3>1, <3>2, CutThread
  <2>6. RoutesAreHeld'
    BY <1>1, <2>3, <2>4, <2>5, JoinsStep
  <2>7. root \in Ptr(heap)
    BY JoinsState
  <2>8. OldRoutesStay(heap, root, heap', root')
    BY <1>2, <2>1, <2>7, CutTree
  <2> QED BY <2>6, <2>8 DEF JoinsKept
<1> QED BY <1>5, <1>6

-----------------------------------------------------------------------------
(* The invariant                                                           *)

LEMMA JoinsInit == Init => JInv
<1> SUFFICES ASSUME Init PROVE JInv
  OBVIOUS
<1>1. IInv
  BY InitOK
<1> DEFINE empty == <<>>
           b == Base(null, empty, 0)
<1>2. empty \in Seq(Int) /\ 0 \in Int /\ null \in Nat
  BY EmptySeq DEF null
<1> HIDE DEF empty
<1>3. b \in Node /\ b.type = "normal" /\ b.parent = null
  BY <1>2, BaseNode
<1> HIDE DEF b
<1>4. heap = <<b>> /\ root = 1
  BY DEF Init, InitTree, b, empty
<1>5. heap[1] = b /\ Ptr(heap) = {1}
  <2>1. heap[1] = b /\ Len(heap) = 1
    BY <1>4
  <2> QED BY <2>1 DEF Ptr
<1>6. /\ Routes(heap) = {} /\ Committed(heap) = {}
      /\ \A n \in Ptr(heap) : heap[n].type /= "join_main" /\ heap[n].parent < n
  BY <1>3, <1>5 DEF Routes, Committed, null
<1>7. HeapJoins(heap, root)
  BY <1>6 DEF HeapJoins, YoungerBelow, AttachedBelow, OneSlot, MainsInPlace
<1>8. \A t \in Threads : pc[t] = "idle"
  BY DEF Init, InitThreads
<1>9. \A t \in Threads : ThreadJoins(heap, root, loc[t], pc[t])
  BY <1>8, FreeLabel DEF OwnerLabels, HelperLabels
<1> QED BY <1>1, <1>7, <1>9 DEF JInv, RoutesAreHeld

LEMMA ThreadKeepsJoins ==
    ASSUME JInv, HeapOK(heap'), NEW t \in Threads, Thread(t)
    PROVE  JoinsKept
BY FreeSteps, BaseSteps, HelpJoins, ParentSteps, LoadJoinedJoins, FindSlotJoins,
   LockParentJoins, LockGparentJoins, UndoGparentJoins, UndoParentJoins, UndoMainJoins,
   InvalidateJoins, UnlockJoins, AbortJoins, DoneJoins, ReadOtherJoins, PublishJoins,
   ReplaceJoins, CopyBaseJoins, LockNeighborJoins, LockMainJoins, SplitJoins,
   ReplaceNeighborJoins, SpliceJoins
   DEF Thread

LEMMA JoinsNext == JInv /\ [Next]_vars => JInv' /\ OldRoutesStay(heap, root, heap', root')
<1> SUFFICES ASSUME JInv, [Next]_vars PROVE JInv' /\ OldRoutesStay(heap, root, heap', root')
  OBVIOUS
<1>1. IInv'
  BY NextOK DEF JInv
<1>2. HeapOK(heap')
  BY <1>1 DEF IInv, WellFormed
<1>3. CASE UNCHANGED vars
  <2>1. heap' = heap /\ root' = root /\ loc' = loc /\ pc' = pc
    BY <1>3 DEF vars, client
  <2>2. RoutesAreHeld'
    BY <2>1 DEF JInv, RoutesAreHeld
  <2>3. HeapOK(heap) /\ HeapJoins(heap, root) /\ root \in Ptr(heap)
    BY DEF JInv, IInv, WellFormed, RoutesAreHeld
  <2>4. OldRoutesStay(heap, root, heap', root')
    BY <2>1, <2>3, SameTree
  <2> QED BY <1>1, <2>2, <2>4 DEF JInv
<1>4. CASE \E t \in Threads : Thread(t)
  <2>1. JoinsKept
    BY <1>2, <1>4, ThreadKeepsJoins
  <2> QED BY <1>1, <2>1 DEF JInv, JoinsKept
<1> QED BY <1>3, <1>4 DEF Next, Finished

(* The whole invariant is inductive.                                       *)
LEMMA JoinsInductive == Spec => []JInv
BY JoinsInit, JoinsNext, PTL DEF Spec

(* A join keeps the locks of the two routes it needs from its publication  *)
(* until its route is cut out, the routes stay where it found them, and    *)
(* the sibling that it will put there stays a sibling: whatever the other  *)
(* threads do, and however many of them complete the join (lfca.cpp:       *)
(* 354-490).                                                               *)
THEOREM JoinsHoldTheirRoutes == Spec => []RoutesAreHeld
<1>1. JInv => RoutesAreHeld
  BY DEF JInv
<1> QED BY <1>1, JoinsInductive, PTL

-----------------------------------------------------------------------------
(* What the invariant says of the nodes that are in the tree               *)

(* No route in it is cut out.                                              *)
LEMMA TreeIsAttached ==
    ASSUME NEW h, NEW rt, HeapOK(h), HeapJoins(h, rt), rt \in Ptr(h),
           NEW r \in Below(h, rt), r \in Routes(h)
    PROVE  Attached(h, rt, r)
<1> DEFINE S == {n \in Ptr(h) : n \in Routes(h) => Attached(h, rt, n)}
<1>1. rt \in S
  BY DEF HeapJoins, AttachedBelow
<1>2. Closed(h, S)
  <2> SUFFICES ASSUME NEW n \in Routes(h), Attached(h, rt, n)
               PROVE  h[n].left \in S /\ h[n].right \in S
    BY DEF Closed
  <2>1. h[n].left = Side(h, n, "left") /\ h[n].right = Side(h, n, "right")
    BY DEF Side
  <2>2. \A z \in Sides : Side(h, n, z) \in Ptr(h)
    BY SidesOK
  <2>3. \A z \in Sides : Side(h, n, z) \in S
    BY <2>2 DEF HeapJoins, AttachedBelow
  <2> HIDE DEF S
  <2> QED BY <2>1, <2>3 DEF Sides
<1>3. Below(h, rt) \subseteq S
  <2> HIDE DEF S
  <2>1. S \in SUBSET Ptr(h)
    BY DEF S
  <2> QED BY <1>1, <1>2, <2>1, TreeOf
<1> QED BY <1>3

(* Every node of it but the root is the child of a route of it.            *)
LEMMA TreeSlot ==
    ASSUME NEW h, NEW rt, HeapOK(h), HeapJoins(h, rt), rt \in Ptr(h),
           NEW n \in Below(h, rt), n /= rt
    PROVE  \E r \in Below(h, rt) : r \in Routes(h) /\ \E z \in Sides : Side(h, r, z) = n
<1> DEFINE S == Below(h, rt) \ {n}
<1>1. SUFFICES ASSUME \A r \in Below(h, rt) : r \in Routes(h) => h[r].left /= n /\ h[r].right /= n
               PROVE  FALSE
  BY DEF Side, Sides
<1>2. rt \in S /\ S \in SUBSET Ptr(h) /\ Closed(h, Below(h, rt))
  BY TreeOf
<1>3. Closed(h, S)
  BY <1>1, <1>2 DEF Closed
<1>4. Below(h, rt) \subseteq S
  <2> HIDE DEF S
  <2> QED BY <1>2, <1>3, TreeOf
<1> QED BY <1>4

LEMMA JoinsTree ==
    ASSUME JInv
    PROVE  /\ HeapOK(heap) /\ HeapJoins(heap, root) /\ root \in Ptr(heap) /\ Pointers = Ptr(heap)
           /\ \A n \in Pointers : IsRoute(n) <=> n \in Routes(heap)
BY DEF JInv, IInv, WellFormed, RoutesAreHeld, Pointers, Ptr, IsRoute, Routes

LEMMA HeldRoutes == JInv => JoinHoldsRoutes
<1> SUFFICES ASSUME JInv, NEW m \in Pointers, Published(m), heap[m].parent \in InTree
             PROVE  LET p == heap[m].parent
                        g == heap[m].gparent
                        b == heap[m].otherb
                    IN  /\ heap[p].join_id = m
                        /\ IF g = null THEN root = p
                           ELSE heap[g].join_id = m /\ g \in InTree /\ p \in {heap[g].left, heap[g].right}
                        /\ IsRoute(b) => b \in {heap[p].left, heap[p].right}
  BY DEF JoinHoldsRoutes
<1> DEFINE p == heap[m].parent
           g == heap[m].gparent
           b == heap[m].otherb
<1>1. /\ HeapOK(heap) /\ HeapJoins(heap, root) /\ root \in Ptr(heap) /\ Pointers = Ptr(heap)
      /\ \A n \in Pointers : IsRoute(n) <=> n \in Routes(heap)
  BY JoinsTree
<1>2. m \in Committed(heap)
  BY <1>1 DEF Published, JoinMains, Committed, Unpublished, PREPARING, ABORTED
<1>3. /\ p \in Routes(heap) /\ g \in Routes(heap) \cup {null} /\ b \in Ptr(heap)
      /\ JoinLocks(heap, root, m) /\ p \in Below(heap, root)
  BY <1>1, <1>2, CommittedRoutes DEF HeapJoins, InTree
<1>4. Attached(heap, root, p)
  BY <1>1, <1>3, TreeIsAttached
<1>5. ~IsCut(heap, root, m)
  BY <1>2, <1>4 DEF Attached
<1>6. /\ heap[p].join_id = m /\ (g /= null => heap[g].join_id = m)
      /\ b \in Routes(heap) => \E z \in Sides : Side(heap, p, z) = b
      /\ Holds(heap, root, g, p) /\ g < p
  BY <1>3, <1>5 DEF JoinLocks, SiblingOK, IsCut
<1>7. b \in Routes(heap) => b \in {heap[p].left, heap[p].right}
  BY <1>6 DEF Side
<1>8. ASSUME g /= null PROVE g \in Below(heap, root) /\ p \in {heap[g].left, heap[g].right}
  <2>1. PICK z \in Sides : Side(heap, g, z) = p
    BY <1>6, <1>8 DEF Holds
  <2>2. Attached(heap, root, g)
    <3>1. g \in Routes(heap) /\ g /= p
      <4>1. p \in Nat
        BY <1>1, <1>3, NullIsNoNode, HeapBasics
      <4> QED BY <1>3, <1>6, <1>8, <4>1
    <3>2. \A n \in Committed(heap) : heap[n].parent = g => n = m
      BY <1>1, <1>6, <1>8 DEF HeapJoins, JoinLocks
    <3> QED BY <3>1, <3>2 DEF Attached
  <2>3. p /= root /\ \A s \in Routes(heap), y \in Sides :
                        Attached(heap, root, s) /\ Side(heap, s, y) = p => s = g
    <3> HIDE DEF p, g
    <3> QED BY <1>1, <1>3, <1>8, <2>1, <2>2 DEF HeapJoins, OneSlot
  <2>4. PICK r \in Below(heap, root) : r \in Routes(heap) /\ \E y \in Sides : Side(heap, r, y) = p
    <3> HIDE DEF p
    <3> QED BY <1>1, <1>3, <2>3, TreeSlot
  <2>5. Attached(heap, root, r)
    BY <1>1, <2>4, TreeIsAttached
  <2>6. r = g
    BY <2>3, <2>4, <2>5
  <2> QED BY <2>1, <2>4, <2>6 DEF Side
<1>9. g = null => root = p
  BY <1>6 DEF Holds
<1> QED BY <1>1, <1>3, <1>6, <1>7, <1>8, <1>9 DEF InTree

LEMMA SplicedWhenDone == JInv => DoneIsSpliced
<1> SUFFICES ASSUME JInv, NEW m \in JoinMains, heap[m].neigh2 = DONE
             PROVE  m \notin InTree /\ heap[m].parent \notin InTree /\ ~heap[heap[m].parent].valid
  BY DEF DoneIsSpliced
<1> DEFINE p == heap[m].parent
           T == Below(heap, root)
<1>1. HeapOK(heap) /\ HeapJoins(heap, root) /\ root \in Ptr(heap) /\ Pointers = Ptr(heap)
  BY JoinsTree
<1>2. m \in Committed(heap) /\ m \in Ptr(heap) /\ heap[m].type = "join_main" /\ heap[m].neigh2 /= ABORTED
  BY <1>1 DEF JoinMains, Committed, Unpublished, PREPARING, ABORTED, DONE
<1>3. p \in Routes(heap) /\ IsCut(heap, root, m) /\ ~heap[p].valid
  BY <1>1, <1>2, CommittedRoutes DEF HeapJoins, JoinLocks
<1>4. ~Attached(heap, root, p)
  BY <1>2, <1>3 DEF Attached
<1>5. p \notin T
  BY <1>1, <1>3, <1>4, TreeIsAttached
<1>6. m \notin T
  <2>1. ~Doomed(heap, root, m)
    BY <1>2 DEF Doomed
  <2>2. m /= root
    BY <1>1, <1>2, <2>1 DEF HeapJoins, MainsInPlace
  <2>3. ASSUME NEW r \in T, r \in Routes(heap), NEW z \in Sides, Side(heap, r, z) = m PROVE FALSE
    <3>1. Attached(heap, root, r)
      BY <1>1, <2>3, TreeIsAttached
    <3>2. r = p
      BY <1>1, <1>2, <2>1, <2>3, <3>1 DEF HeapJoins, MainsInPlace
    <3> QED BY <1>4, <3>1, <3>2
  <2> QED BY <1>1, <2>2, <2>3, TreeSlot
<1> QED BY <1>3, <1>5, <1>6 DEF InTree

(* A published join whose route is in the tree holds the locks of that     *)
(* route and of the one above it, which are where it found them, so that   *)
(* complete_join (lfca.cpp:448-490) writes to the right slot.              *)
THEOREM RoutesStayLocked == Spec => []JoinHoldsRoutes
BY HeldRoutes, JoinsInductive, PTL

(* Whoever stores DONE (lfca.cpp:478), and however many threads have helped,*)
(* the route and the main node of the join are out of the tree.            *)
THEOREM DoneMeansSpliced == Spec => []DoneIsSpliced
BY SplicedWhenDone, JoinsInductive, PTL

LEMMA RoutesStayOut ==
    JInv /\ JInv' /\ OldRoutesStay(heap, root, heap', root') => RouteNotAgain
<1> SUFFICES ASSUME JInv, JInv', OldRoutesStay(heap, root, heap', root') PROVE RouteNotAgain
  OBVIOUS
<1> DEFINE T == Below(heap, root)
           S == {n \in Ptr(heap') : n \in Routes(heap) => n \in T}
<1>1. /\ Pointers = Ptr(heap) /\ \A n \in Pointers : IsRoute(n) <=> n \in Routes(heap)
  BY JoinsTree
<1>2. HeapOK(heap') /\ HeapJoins(heap', root') /\ root' \in Ptr(heap')
  BY DEF JInv, IInv, WellFormed, RoutesAreHeld
<1>3. root' \in S
  BY <1>2 DEF OldRoutesStay
<1>4. Closed(heap', S)
  <2> SUFFICES ASSUME NEW n \in S, n \in Routes(heap')
               PROVE  heap'[n].left \in S /\ heap'[n].right \in S
    BY DEF Closed
  <2>1. ASSUME NEW z \in Sides PROVE Side(heap', n, z) \in S
    <3>1. Side(heap', n, z) \in Ptr(heap')
      BY <1>2, SidesOK
    <3>2. Side(heap', n, z) \in Routes(heap) => Side(heap', n, z) \in T
      BY DEF OldRoutesStay
    <3> QED BY <3>1, <3>2
  <2>2. heap'[n].left = Side(heap', n, "left") /\ heap'[n].right = Side(heap', n, "right")
    BY DEF Side
  <2> HIDE DEF S
  <2> QED BY <2>1, <2>2 DEF Sides
<1>5. Below(heap', root') \subseteq S
  <2>1. S \in SUBSET Ptr(heap')
    OBVIOUS
  <2> HIDE DEF S
  <2> QED BY <1>2, <1>3, <1>4, <2>1, TreeOf
<1>6. ASSUME NEW n \in Below(heap', root'), n \notin T, n \in Pointers PROVE ~IsRoute(n)
  BY <1>1, <1>5, <1>6
<1> QED BY <1>6 DEF RouteNotAgain, InTree

(* A route that has been cut out, or has been lost with a base that was    *)
(* split, is never linked again, however late a helper of a join writes    *)
(* (lfca.cpp:464-471), so that what threads find below it is out of date   *)
(* for ever.                                                               *)
THEOREM CutRoutesStayOut == Spec => RoutesNeverReturn
<1>1. JInv /\ [Next]_vars => [RouteNotAgain]_<<heap, root>>
  BY JoinsNext, RoutesStayOut
<1> QED BY <1>1, JoinsInductive, PTL DEF Spec, RoutesNeverReturn
=============================================================================
