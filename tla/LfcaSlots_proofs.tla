--------------------------- MODULE LfcaSlots_proofs ---------------------------
(***************************************************************************)
(* Proofs about the slots of LfcaTree and the bases in them, for any       *)
(* number of threads, any programs and any treap size.                     *)
(*                                                                         *)
(* No node ever gets a second place in the tree: neither by the            *)
(* compare-and-swaps that replace a base, nor by the late ones of the      *)
(* threads that complete a join.                                           *)
(*                                                                         *)
(* As long as no full base is split that a join has locked, the bases of a *)
(* join stay where they are until it is completed, and no node comes back. *)
(***************************************************************************)
EXTENDS LfcaBases, LfcaJoins_proofs

(* A join is as it was published, or its merge is over.                    *)
SameMerge(h, rt, g, m) ==
    /\ g[m].gparent = h[m].gparent /\ g[m].otherb = h[m].otherb /\ g[m].neigh1 = h[m].neigh1
    /\ \/ g[m].neigh2 = h[m].neigh2
       \/ g[m].neigh2 = DONE /\ IsCut(h, rt, m) /\ ~Placed(h, rt, h[m].neigh1)

(* Old nodes keep what they are, and only M changes what it says of a join.*)
SameNodes(h, rt, g, M) ==
    /\ Len(h) <= Len(g)
    /\ \A n \in Ptr(h) :
        /\ g[n].type = h[n].type /\ g[n].parent = h[n].parent /\ g[n].main_node = h[n].main_node
        /\ n /= M => /\ g[n].gparent = h[n].gparent /\ g[n].otherb = h[n].otherb
                     /\ g[n].neigh1 = h[n].neigh1 /\ g[n].neigh2 = h[n].neigh2
        /\ h[n].join_id \in Claimants(h, rt) => g[n].join_id = h[n].join_id
    /\ M \in Ptr(h) => h[M].type = "join_main"
    /\ M \in Committed(h) => SameMerge(h, rt, g, M)

(* A new node has not read anything yet.                                   *)
NewNodes(h, g) ==
    \A n \in Ptr(g) \ Ptr(h) :
        /\ g[n].type = "normal" => g[n].otherb = null
        /\ g[n].type = "join_main" =>
            g[n].neigh2 \in Unpublished /\ (g[n].otherb = null \/ g[n].neigh2 = ABORTED)

(* The only old node that gets a slot is c, in route q, or the root if q   *)
(* is null.                                                                *)
Shifts(h, rt, g, rt2, q, c) ==
    /\ rt2 = rt \/ rt2 \notin Ptr(h) \/ (rt2 = c /\ q = null)
    /\ \A r \in Routes(h), z \in Sides :
        \/ Side(g, r, z) = Side(h, r, z) \/ Side(g, r, z) \notin Ptr(h)
        \/ Side(g, r, z) = c /\ r = q
        \/ Side(g, r, z) \notin Routes(h) /\ ~Attached(h, rt, r)
    /\ \A r \in Routes(g) \ Ptr(h), z \in Sides : Side(g, r, z) \notin Ptr(h)
    /\ c \in Routes(h) => Attached(h, rt, c)

Stays(h, rt, g, rt2, M, q, c) ==
    /\ HeapOK(h) /\ HeapOK(g) /\ HeapJoins(h, rt) /\ HeapJoins(g, rt2)
    /\ rt \in Ptr(h) /\ rt2 \in Ptr(g) /\ HeapSlots(h, rt)
    /\ SameNodes(h, rt, g, M) /\ NewNodes(h, g) /\ Shifts(h, rt, g, rt2, q, c)

LEMMA StaysNodes ==
    ASSUME NEW h, NEW rt, NEW g, NEW rt2, NEW M, NEW q, NEW c, Stays(h, rt, g, rt2, M, q, c)
    PROVE  /\ Ptr(h) \subseteq Ptr(g) /\ Routes(h) \subseteq Routes(g)
           /\ \A n \in Ptr(h) : n \in Routes(g) <=> n \in Routes(h)
           /\ \A n \in Ptr(h) : g[n].type = h[n].type /\ g[n].parent = h[n].parent
                                /\ g[n].main_node = h[n].main_node
           /\ \A r \in Routes(h), z \in Sides : Side(h, r, z) \in Ptr(h)
           /\ \A r \in Routes(g), z \in Sides : Side(g, r, z) \in Ptr(g)
<1>1. HeapOK(h) /\ HeapOK(g) /\ SameNodes(h, rt, g, M)
  BY DEF Stays
<1>2. Len(h) \in Nat /\ Len(g) \in Nat
  BY <1>1, HeapBasics
<1> QED BY <1>1, <1>2, SidesOK DEF SameNodes, Ptr, Routes

(* Joins stay published, and what they have cut out stays cut out.         *)
LEMMA StaysCommitted ==
    ASSUME NEW h, NEW rt, NEW g, NEW rt2, NEW M, NEW q, NEW c, Stays(h, rt, g, rt2, M, q, c)
    PROVE  /\ \A m \in Committed(h) :
                /\ m \in Ptr(h) /\ m \in Committed(g) /\ SameMerge(h, rt, g, m)
                /\ g[m].parent = h[m].parent
                /\ IsCut(h, rt, m) => IsCut(g, rt2, m)
           /\ \A m \in Committed(g) : m \in Committed(h) \/ (m = M /\ M \in Ptr(h))
<1>1. /\ HeapOK(h) /\ HeapOK(g) /\ SameNodes(h, rt, g, M) /\ NewNodes(h, g)
      /\ Shifts(h, rt, g, rt2, q, c)
  BY DEF Stays
<1>2. /\ Ptr(h) \subseteq Ptr(g)
      /\ \A n \in Ptr(h) : g[n].type = h[n].type /\ g[n].parent = h[n].parent
  BY StaysNodes
<1>3. ASSUME NEW m \in Committed(h)
      PROVE  /\ m \in Ptr(h) /\ m \in Committed(g) /\ SameMerge(h, rt, g, m)
             /\ g[m].parent = h[m].parent
             /\ IsCut(h, rt, m) => IsCut(g, rt2, m)
  <2> DEFINE p == h[m].parent
             gp == h[m].gparent
  <2>1. /\ m \in Ptr(h) /\ h[m].type = "join_main" /\ h[m].neigh2 \notin Unpublished
        /\ p \in Routes(h) /\ gp \in Routes(h) \cup {null}
    BY <1>1, CommittedRoutes
  <2>2. SameMerge(h, rt, g, m)
    BY <1>1, <2>1 DEF SameNodes, SameMerge
  <2>3. m \in Committed(g) /\ g[m].parent = p /\ g[m].gparent = gp
    BY <1>2, <2>1, <2>2 DEF SameMerge, Committed, Unpublished, DONE, PREPARING, ABORTED
  <2>4. p = c => ~IsCut(h, rt, m)
    BY <1>1, <2>1 DEF Shifts, Attached
  <2>5. p \in Ptr(h)
    BY <2>1, NullIsNoNode
  <2> HIDE DEF p, gp
  <2>6. Holds(g, rt2, gp, p) /\ p /= c => Holds(h, rt, gp, p)
    BY <1>1, <2>1, <2>5 DEF Shifts, Holds
  <2>7. IsCut(h, rt, m) => IsCut(g, rt2, m)
    BY <2>3, <2>4, <2>6 DEF IsCut, p, gp
  <2> QED BY <2>1, <2>2, <2>3, <2>7 DEF p
<1>4. ASSUME NEW m \in Committed(g), m \notin Committed(h)
      PROVE  m = M /\ M \in Ptr(h)
  <2>1. m \in Ptr(g) /\ g[m].type = "join_main" /\ g[m].neigh2 \notin Unpublished
    BY DEF Committed
  <2>2. m \in Ptr(h)
    BY <1>1, <2>1 DEF NewNodes
  <2>3. h[m].type = "join_main"
    BY <1>2, <2>1, <2>2
  <2> QED BY <1>1, <1>4, <2>1, <2>2, <2>3 DEF SameNodes, Committed
<1> QED BY <1>3, <1>4

LEMMA StaysAttached ==
    ASSUME NEW h, NEW rt, NEW g, NEW rt2, NEW M, NEW q, NEW c, Stays(h, rt, g, rt2, M, q, c)
    PROVE  /\ \A r \in Ptr(h) : Attached(g, rt2, r) => Attached(h, rt, r)
           /\ \A r : Detached(h, rt, r) => Detached(g, rt2, r)
<1>1. /\ Routes(h) \subseteq Routes(g)
      /\ \A n \in Ptr(h) : n \in Routes(g) <=> n \in Routes(h)
  BY StaysNodes
<1>2. \A m \in Committed(h) :
        /\ m \in Committed(g) /\ g[m].parent = h[m].parent
        /\ IsCut(h, rt, m) => IsCut(g, rt2, m)
  BY StaysCommitted
<1>3. ASSUME NEW r \in Ptr(h), Attached(g, rt2, r) PROVE Attached(h, rt, r)
  BY <1>1, <1>2, <1>3 DEF Attached
<1> QED BY <1>1, <1>3, NullIsNoNode DEF Detached

(* The joins that may still put a node somewhere are old ones, but M.      *)
LEMMA StaysClaimants ==
    ASSUME NEW h, NEW rt, NEW g, NEW rt2, NEW M, NEW q, NEW c, Stays(h, rt, g, rt2, M, q, c),
           NEW k \in Claimants(g, rt2), k /= M
    PROVE  /\ k \in Claimants(h, rt) /\ k \in Ptr(h) /\ Claims(h, rt, k)
           /\ h[k].parent \in Routes(h) /\ h[k].parent \in Ptr(h)
           /\ g[k].parent = h[k].parent /\ g[k].otherb = h[k].otherb
           /\ Replacement(g, k) = Replacement(h, k)
           /\ g[h[k].parent].join_id = k
<1>1. /\ HeapOK(h) /\ HeapOK(g) /\ SameNodes(h, rt, g, M) /\ NewNodes(h, g) /\ HeapSlots(h, rt)
  BY DEF Stays
<1>2. /\ k \in Ptr(g) /\ g[k].type = "join_main" /\ g[k].otherb /= null
      /\ g[k].neigh2 = PREPARING \/ (k \in Committed(g) /\ ~IsCut(g, rt2, k))
  BY DEF Claimants
<1>3. k \in Ptr(h)
  BY <1>1, <1>2 DEF NewNodes, Committed, PREPARING, ABORTED, Unpublished
<1>4. /\ h[k].type = "join_main" /\ g[k].parent = h[k].parent /\ g[k].otherb = h[k].otherb
      /\ g[k].neigh1 = h[k].neigh1 /\ g[k].neigh2 = h[k].neigh2
  BY <1>1, <1>2, <1>3 DEF SameNodes
<1>5. k \in Committed(g) => k \in Committed(h)
  BY StaysCommitted
<1>6. k \in Committed(h) /\ IsCut(h, rt, k) => IsCut(g, rt2, k)
  BY StaysCommitted
<1>7. k \in Claimants(h, rt)
  BY <1>2, <1>3, <1>4, <1>5, <1>6 DEF Claimants
<1>8. Claims(h, rt, k) /\ h[h[k].parent].join_id = k
  BY <1>1, <1>7 DEF HeapSlots, Claims
<1>9. h[k].parent \in Routes(h) /\ h[k].parent \in Ptr(h)
  BY <1>1, <1>3, <1>4, NullIsNoNode DEF HeapOK, NodeOK
<1>10. g[h[k].parent].join_id = k
  BY <1>1, <1>7, <1>8, <1>9 DEF SameNodes
<1> QED BY <1>3, <1>4, <1>7, <1>8, <1>9, <1>10 DEF Replacement

(* A claimant's route is attached, and what replaces it is an old node.    *)
LEMMA ClaimantAttached ==
    ASSUME NEW h, NEW rt, HeapOK(h), HeapJoins(h, rt), NEW k \in Claimants(h, rt),
           h[h[k].parent].join_id = k
    PROVE  Attached(h, rt, h[k].parent)
<1>1. k \in Ptr(h) /\ h[k].type = "join_main" /\ h[k].parent \in Routes(h)
  BY DEF Claimants, HeapOK, NodeOK
<1>2. \A n \in Committed(h) : h[n].parent = h[k].parent => n = k
  BY DEF HeapJoins, JoinLocks
<1>3. k \in Committed(h) => ~IsCut(h, rt, k)
  BY DEF Claimants, Committed, Unpublished
<1> QED BY <1>1, <1>2, <1>3 DEF Attached

LEMMA ReplacementOld ==
    ASSUME NEW h, NEW rt, HeapOK(h), NEW k \in Claimants(h, rt), Claims(h, rt, k)
    PROVE  Replacement(h, k) \in Ptr(h) \cup {null, DONE}
<1>1. h[k].otherb \in Ptr(h)
  BY DEF Claims
<1>2. k \in Committed(h) => h[k].neigh2 = DONE \/ h[k].neigh2 \in Ptr(h)
  BY CommittedRoutes
<1>3. k \notin Committed(h) => h[k].neigh2 = null
  BY DEF Claimants, PREPARING, null
<1> QED BY <1>1, <1>2, <1>3 DEF Replacement

(* But for c, what is in the slots now was there before.                   *)
LEMMA StaysSlots ==
    ASSUME NEW h, NEW rt, NEW g, NEW rt2, NEW M, NEW q, NEW c, Stays(h, rt, g, rt2, M, q, c)
    PROVE  /\ \A r \in Routes(g), z \in Sides :
                Attached(g, rt2, r) /\ Side(g, r, z) \in Ptr(h) /\ Side(g, r, z) /= c =>
                    r \in Routes(h) /\ Attached(h, rt, r) /\ Side(h, r, z) = Side(g, r, z)
           /\ \A n \in Ptr(h) : n /= c =>
                /\ \A r : Elsewhere(g, rt2, r, n) => Elsewhere(h, rt, r, n)
                /\ Placed(g, rt2, n) => Placed(h, rt, n)
<1>1. /\ \A n \in Ptr(h) : n \in Routes(g) <=> n \in Routes(h)
      /\ \A n \in Ptr(h) : g[n].parent = h[n].parent
  BY StaysNodes
<1>2. \A r \in Ptr(h) : Attached(g, rt2, r) => Attached(h, rt, r)
  BY StaysAttached
<1>3. Shifts(h, rt, g, rt2, q, c) /\ HeapOK(h)
  BY DEF Stays
<1>4. ASSUME NEW r \in Routes(g), NEW z \in Sides, Attached(g, rt2, r),
             Side(g, r, z) \in Ptr(h), Side(g, r, z) /= c
      PROVE  r \in Routes(h) /\ Attached(h, rt, r) /\ Side(h, r, z) = Side(g, r, z)
  <2>1. r \in Ptr(h)
    BY <1>3, <1>4 DEF Shifts
  <2> QED BY <1>1, <1>2, <1>3, <1>4, <2>1 DEF Shifts
<1>5. ASSUME NEW n \in Ptr(h), n /= c, NEW r, Elsewhere(g, rt2, r, n)
      PROVE  Elsewhere(h, rt, r, n)
  <2>1. CASE rt2 = n
    BY <1>3, <1>5, <2>1 DEF Shifts, Elsewhere
  <2>2. CASE rt2 /= n
    BY <1>4, <1>5, <2>2 DEF Elsewhere
  <2> QED BY <2>1, <2>2
<1>6. ASSUME NEW n \in Ptr(h), n /= c, Placed(g, rt2, n)
      PROVE  Placed(h, rt, n)
  <2>1. CASE h[n].parent = null
    BY <1>1, <1>3, <1>6, <2>1 DEF Shifts, Placed
  <2>2. CASE h[n].parent /= null
    <3>1. h[n].parent \in Routes(h)
      BY <1>3, <2>2 DEF HeapOK, NodeOK
    <3>2. h[n].parent \in Routes(g) /\ Attached(g, rt2, h[n].parent)
      BY <1>1, <1>6, <2>2, <3>1, NullIsNoNode DEF Placed
    <3> QED BY <1>1, <1>4, <1>6, <2>2, <3>1, <3>2 DEF Placed
  <2> QED BY <2>1, <2>2
<1> QED BY <1>4, <1>5, <1>6

LEMMA StaysKnows ==
    ASSUME NEW h, NEW rt, NEW g, NEW rt2, NEW M, NEW q, NEW c, Stays(h, rt, g, rt2, M, q, c),
           NEW r \in Ptr(h), Attached(g, rt2, r), NEW n \in Ptr(h), Knows(h, rt, r, n)
    PROVE  Knows(g, rt2, r, n)
<1>1. /\ g[n].parent = h[n].parent
      /\ Detached(h, rt, h[n].parent) => Detached(g, rt2, h[n].parent)
      /\ Attached(h, rt, r)
  BY StaysNodes, StaysAttached
<1>2. ASSUME NEW m \in Committed(h), h[m].neigh2 = n, h[m].parent = r
      PROVE  m \in Committed(g) /\ g[m].neigh2 = n /\ g[m].parent = r
  <2>1. m \in Committed(g) /\ SameMerge(h, rt, g, m) /\ g[m].parent = h[m].parent
    BY StaysCommitted
  <2>2. ~IsCut(h, rt, m)
    BY <1>1, <1>2 DEF Attached
  <2> QED BY <1>2, <2>1, <2>2 DEF SameMerge
<1> QED BY <1>1, <1>2 DEF Knows

-----------------------------------------------------------------------------
(* What is to be shown of the new nodes, of c and of M in each step.       *)

NewSlots(h, g, rt2) ==
    /\ \A r \in Routes(g), x \in Sides : Side(g, r, x) \notin Ptr(h) =>
        /\ Side(g, r, x) /= rt2
        /\ \A s \in Routes(g), y \in Sides : Side(g, s, y) = Side(g, r, x) => s = r /\ y = x
        /\ Side(g, r, x) \notin Routes(g) => g[Side(g, r, x)].parent = r
    /\ rt2 \notin Ptr(h) /\ rt2 \notin Routes(g) => g[rt2].parent = null

PutOnce(h, rt, g, rt2, q, c) ==
    c \in Ptr(h) =>
        /\ \A r \in Routes(h), x \in Sides : Attached(g, rt2, r) /\ Side(g, r, x) = c =>
            r = q /\ \A y \in Sides : Side(g, r, y) = c => y = x
        /\ rt2 = c => q = null
        /\ c \notin Routes(h) =>
            /\ rt2 = c => h[c].parent = null \/ Detached(g, rt2, h[c].parent)
            /\ q /= null /\ Attached(g, rt2, q) => Knows(g, rt2, q, c)
        /\ \A m \in Committed(h) : c \in {h[m].neigh1, h[m].neigh2} => ~Placed(g, rt2, h[m].neigh1)
        /\ \A k \in Claimants(g, rt2) : Replacement(g, k) = c => q = g[k].parent

ChangeOK(h, rt, g, rt2, M) ==
    /\ M \in Committed(g) \ Committed(h) => Merges(g, M) /\ Unmerged(g, rt2, M)
    /\ M \in Claimants(g, rt2) =>
        /\ Claims(g, rt2, M)
        /\ \A m \in Committed(h) : m /= M /\ Placed(g, rt2, h[m].neigh1) =>
            Replacement(g, M) /= h[m].neigh2

(* A route is cut out only after the neighbour has been replaced.          *)
CutsLate(h, rt, g, rt2) ==
    \A m \in Committed(h) : IsCut(g, rt2, m) => IsCut(h, rt, m) \/ ~Placed(h, rt, h[m].neigh1)

KeepsSlots(h, rt, g, rt2, M, q, c) ==
    /\ Stays(h, rt, g, rt2, M, q, c) /\ NewSlots(h, g, rt2) /\ CutsLate(h, rt, g, rt2)
    /\ PutOnce(h, rt, g, rt2, q, c) /\ ChangeOK(h, rt, g, rt2, M)

LEMMA KeepsOneSlot ==
    ASSUME NEW h, NEW rt, NEW g, NEW rt2, NEW M, NEW q, NEW c, KeepsSlots(h, rt, g, rt2, M, q, c)
    PROVE  OneSlotEach(g, rt2)
<1>1. /\ Stays(h, rt, g, rt2, M, q, c) /\ NewSlots(h, g, rt2) /\ PutOnce(h, rt, g, rt2, q, c)
      /\ Shifts(h, rt, g, rt2, q, c) /\ OneSlotEach(h, rt)
  BY DEF KeepsSlots, Stays, HeapSlots
<1>2. \A n \in Ptr(h) : n \in Routes(g) <=> n \in Routes(h)
  BY <1>1, StaysNodes
<1>3. \A r \in Routes(g), z \in Sides :
        Attached(g, rt2, r) /\ Side(g, r, z) \in Ptr(h) /\ Side(g, r, z) /= c =>
            r \in Routes(h) /\ Attached(h, rt, r) /\ Side(h, r, z) = Side(g, r, z)
  BY <1>1, StaysSlots
<1>4. \A r \in Routes(g), z \in Sides : Side(g, r, z) \in Ptr(h) => r \in Ptr(h) /\ r \in Routes(h)
  BY <1>1, <1>2 DEF Shifts
<1> SUFFICES ASSUME NEW r \in Routes(g), NEW x \in Sides, Attached(g, rt2, r)
             PROVE  /\ Side(g, r, x) /= rt2
                    /\ \A s \in Routes(g), y \in Sides :
                        Attached(g, rt2, s) /\ Side(g, s, y) = Side(g, r, x) => s = r /\ y = x
  BY DEF OneSlotEach
<1>5. CASE Side(g, r, x) \notin Ptr(h)
  BY <1>1, <1>5 DEF NewSlots
<1>6. CASE Side(g, r, x) \in Ptr(h) /\ Side(g, r, x) = c
  <2>1. r \in Routes(h) /\ r = q /\ \A y \in Sides : Side(g, r, y) = c => y = x
    BY <1>1, <1>4, <1>6 DEF PutOnce
  <2>2. \A s \in Routes(g), y \in Sides : Attached(g, rt2, s) /\ Side(g, s, y) = c => s = q
    BY <1>1, <1>4, <1>6 DEF PutOnce
  <2>3. rt2 /= c
    BY <1>1, <1>6, <2>1, NullIsNoNode DEF PutOnce
  <2> QED BY <1>6, <2>1, <2>2, <2>3
<1>7. CASE Side(g, r, x) \in Ptr(h) /\ Side(g, r, x) /= c
  <2>1. r \in Routes(h) /\ Attached(h, rt, r) /\ Side(h, r, x) = Side(g, r, x)
    BY <1>3, <1>7
  <2>2. rt2 /= Side(g, r, x)
    BY <1>1, <1>7, <2>1 DEF Shifts, OneSlotEach
  <2> QED BY <1>1, <1>3, <1>7, <2>1, <2>2 DEF OneSlotEach
<1> QED BY <1>5, <1>6, <1>7

LEMMA KeepsKnow ==
    ASSUME NEW h, NEW rt, NEW g, NEW rt2, NEW M, NEW q, NEW c, KeepsSlots(h, rt, g, rt2, M, q, c)
    PROVE  BasesKnow(g, rt2)
<1>1. /\ Stays(h, rt, g, rt2, M, q, c) /\ NewSlots(h, g, rt2) /\ PutOnce(h, rt, g, rt2, q, c)
      /\ Shifts(h, rt, g, rt2, q, c) /\ BasesKnow(h, rt)
  BY DEF KeepsSlots, Stays, HeapSlots
<1>2. /\ \A n \in Ptr(h) : n \in Routes(g) <=> n \in Routes(h)
      /\ \A n \in Ptr(h) : g[n].parent = h[n].parent
  BY <1>1, StaysNodes
<1>3. \A r \in Routes(g), z \in Sides :
        Attached(g, rt2, r) /\ Side(g, r, z) \in Ptr(h) /\ Side(g, r, z) /= c =>
            r \in Routes(h) /\ Attached(h, rt, r) /\ Side(h, r, z) = Side(g, r, z)
  BY <1>1, StaysSlots
<1>4. \A r : Detached(h, rt, r) => Detached(g, rt2, r)
  BY <1>1, StaysAttached
<1>5. ASSUME rt2 \notin Routes(g)
      PROVE  g[rt2].parent = null \/ Detached(g, rt2, g[rt2].parent)
  <2>1. CASE rt2 \notin Ptr(h)
    BY <1>1, <1>5, <2>1 DEF NewSlots
  <2>2. CASE rt2 \in Ptr(h) /\ rt2 = c
    BY <1>1, <1>2, <1>5, <2>2 DEF PutOnce
  <2>3. CASE rt2 \in Ptr(h) /\ rt2 /= c
    BY <1>1, <1>2, <1>4, <1>5, <2>3 DEF Shifts, BasesKnow
  <2> QED BY <2>1, <2>2, <2>3
<1>6. ASSUME NEW r \in Routes(g), NEW x \in Sides, Attached(g, rt2, r), Side(g, r, x) \notin Routes(g)
      PROVE  Knows(g, rt2, r, Side(g, r, x))
  <2>1. CASE Side(g, r, x) \notin Ptr(h)
    BY <1>1, <1>6, <2>1 DEF NewSlots, Knows
  <2>2. CASE Side(g, r, x) \in Ptr(h) /\ Side(g, r, x) = c
    <3>1. r \in Routes(h)
      BY <1>1, <1>2, <2>2 DEF Shifts
    <3> QED BY <1>1, <1>2, <1>6, <2>2, <3>1, NullIsNoNode DEF PutOnce
  <2>3. CASE Side(g, r, x) \in Ptr(h) /\ Side(g, r, x) /= c
    <3>1. r \in Routes(h) /\ r \in Ptr(h) /\ Attached(h, rt, r) /\ Side(h, r, x) = Side(g, r, x)
      BY <1>3, <1>6, <2>3, NullIsNoNode
    <3>2. Knows(h, rt, r, Side(g, r, x))
      BY <1>1, <1>2, <1>6, <2>3, <3>1 DEF BasesKnow
    <3> QED BY <1>1, <1>6, <2>3, <3>1, <3>2, StaysKnows
  <2> QED BY <2>1, <2>2, <2>3
<1> QED BY <1>5, <1>6 DEF BasesKnow

LEMMA KeepsMerges ==
    ASSUME NEW h, NEW rt, NEW g, NEW rt2, NEW M, NEW q, NEW c, KeepsSlots(h, rt, g, rt2, M, q, c),
           NEW m \in Committed(h)
    PROVE  Merges(g, m) /\ Unmerged(g, rt2, m)
<1>1. /\ Stays(h, rt, g, rt2, M, q, c) /\ PutOnce(h, rt, g, rt2, q, c)
      /\ ChangeOK(h, rt, g, rt2, M) /\ HeapOK(h) /\ Merges(h, m) /\ Unmerged(h, rt, m)
  BY DEF KeepsSlots, Stays, HeapSlots
<1> DEFINE n1 == h[m].neigh1
           n2 == h[m].neigh2
<1>2. n1 \in Ptr(h) /\ (n2 /= DONE => n2 \in Ptr(h))
  BY <1>1, CommittedRoutes
<1>3. SameMerge(h, rt, g, m)
  BY <1>1, StaysCommitted
<1>4. \A n \in Ptr(h) : g[n].parent = h[n].parent /\ g[n].main_node = h[n].main_node
  BY <1>1, StaysNodes
<1>5. Merges(g, m)
  BY <1>1, <1>2, <1>3, <1>4 DEF Merges, SameMerge
<1>6. ASSUME Placed(g, rt2, n1)
      PROVE  /\ ~IsCut(g, rt2, m) /\ g[m].neigh2 /= DONE
             /\ ~Elsewhere(g, rt2, null, g[m].neigh2)
             /\ \A k \in Claimants(g, rt2) : k /= m => Replacement(g, k) /= g[m].neigh2
  <2>1. n1 /= c /\ (n2 /= DONE => n2 /= c)
    BY <1>1, <1>2, <1>6 DEF PutOnce
  <2>2. Placed(h, rt, n1)
    BY <1>1, <1>2, <1>6, <2>1, StaysSlots
  <2>3. /\ ~IsCut(h, rt, m) /\ n2 /= DONE /\ ~Elsewhere(h, rt, null, n2)
        /\ \A k \in Claimants(h, rt) : k /= m => Replacement(h, k) /= n2
    BY <1>1, <2>2 DEF Unmerged
  <2>4. g[m].neigh2 = n2
    BY <1>3, <2>2 DEF SameMerge
  <2>5. ~Elsewhere(g, rt2, null, n2)
    BY <1>1, <1>2, <2>1, <2>3, StaysSlots
  <2>6. ASSUME NEW k \in Claimants(g, rt2), k /= m PROVE Replacement(g, k) /= n2
    <3>1. CASE k = M
      BY <1>1, <1>6, <2>6, <3>1 DEF ChangeOK
    <3>2. CASE k /= M
      <4>1. k \in Claimants(h, rt) /\ Replacement(g, k) = Replacement(h, k)
        BY <1>1, <3>2, StaysClaimants
      <4> QED BY <2>3, <2>6, <4>1
    <3> QED BY <3>1, <3>2
  <2>7. ~IsCut(g, rt2, m)
    BY <2>2, <2>3 DEF KeepsSlots, CutsLate
  <2> QED BY <2>3, <2>4, <2>5, <2>6, <2>7
<1>7. g[m].neigh1 = n1
  BY <1>3 DEF SameMerge
<1> QED BY <1>5, <1>6, <1>7 DEF Unmerged

LEMMA KeepsClaims ==
    ASSUME NEW h, NEW rt, NEW g, NEW rt2, NEW M, NEW q, NEW c, KeepsSlots(h, rt, g, rt2, M, q, c),
           NEW m \in Claimants(g, rt2), m /= M
    PROVE  Claims(g, rt2, m)
<1>1. /\ Stays(h, rt, g, rt2, M, q, c) /\ PutOnce(h, rt, g, rt2, q, c)
      /\ ChangeOK(h, rt, g, rt2, M) /\ HeapOK(h) /\ HeapOK(g) /\ HeapJoins(g, rt2)
      /\ Shifts(h, rt, g, rt2, q, c)
  BY DEF KeepsSlots, Stays
<1> DEFINE p == h[m].parent
           x == Replacement(h, m)
<1>2. /\ m \in Claimants(h, rt) /\ m \in Ptr(h) /\ Claims(h, rt, m)
      /\ p \in Routes(h) /\ p \in Ptr(h) /\ g[m].parent = p /\ g[m].otherb = h[m].otherb
      /\ Replacement(g, m) = x /\ g[p].join_id = m
  BY <1>1, StaysClaimants
<1>3. /\ Ptr(h) \subseteq Ptr(g)
      /\ \A n \in Ptr(h) : n \in Routes(g) <=> n \in Routes(h)
  BY <1>1, StaysNodes
<1>4. Attached(g, rt2, p)
  BY <1>1, <1>2, ClaimantAttached
<1>5. g[m].otherb \notin Routes(g) => Knows(g, rt2, p, g[m].otherb)
  <2>1. h[m].otherb \in Ptr(h) /\ (h[m].otherb \notin Routes(h) => Knows(h, rt, p, h[m].otherb))
    BY <1>2 DEF Claims
  <2> QED BY <1>1, <1>2, <1>3, <1>4, <2>1, StaysKnows
<1>6. ASSUME x \in Ptr(g) PROVE ~Elsewhere(g, rt2, p, x)
  <2>1. x \in Ptr(h)
    BY <1>1, <1>2, <1>6, ReplacementOld, NullIsNoNode, HeapBasics DEF DONE, Ptr
  <2>2. CASE x = c
    <3>1. q = p /\ p /= null
      BY <1>1, <1>2, <2>1, <2>2, NullIsNoNode DEF PutOnce
    <3>2. rt2 /= c
      BY <1>1, <2>1, <2>2, <3>1 DEF PutOnce
    <3>3. \A s \in Routes(g), z \in Sides : Attached(g, rt2, s) /\ Side(g, s, z) = c => s = p
      <4> SUFFICES ASSUME NEW s \in Routes(g), NEW z \in Sides, Attached(g, rt2, s), Side(g, s, z) = c
                   PROVE  s = p
        OBVIOUS
      <4>1. s \in Routes(h)
        BY <1>1, <1>3, <2>1, <2>2 DEF Shifts
      <4> QED BY <1>1, <2>1, <2>2, <3>1, <4>1 DEF PutOnce
    <3> QED BY <2>2, <3>2, <3>3 DEF Elsewhere
  <2>3. CASE x /= c
    <3>1. ~Elsewhere(h, rt, p, x)
      BY <1>2, <2>1 DEF Claims
    <3> QED BY <1>1, <2>1, <2>3, <3>1, StaysSlots
  <2> QED BY <2>2, <2>3
<1>7. ASSUME x \in Ptr(g), NEW k \in Claimants(g, rt2), k /= m PROVE Replacement(g, k) /= x
  <2>1. CASE k = M
    <3>1. Claims(g, rt2, M)
      BY <1>1, <2>1 DEF ChangeOK
    <3> QED BY <1>2, <1>7, <2>1, <3>1 DEF Claims
  <2>2. CASE k /= M
    <3>1. k \in Claimants(h, rt) /\ Replacement(g, k) = Replacement(h, k)
      BY <1>1, <2>2, StaysClaimants
    <3>2. x \in Ptr(h)
      BY <1>1, <1>2, <1>7, ReplacementOld, NullIsNoNode, HeapBasics DEF DONE, Ptr
    <3> QED BY <1>2, <1>7, <3>1, <3>2 DEF Claims
  <2> QED BY <2>1, <2>2
<1>8. g[m].otherb \in Ptr(g)
  BY <1>2, <1>3 DEF Claims
<1> QED BY <1>2, <1>5, <1>6, <1>7, <1>8 DEF Claims

LEMMA KeepsHeapSlots ==
    ASSUME NEW h, NEW rt, NEW g, NEW rt2, NEW M, NEW q, NEW c, KeepsSlots(h, rt, g, rt2, M, q, c)
    PROVE  HeapSlots(g, rt2)
<1>1. Stays(h, rt, g, rt2, M, q, c) /\ ChangeOK(h, rt, g, rt2, M)
  BY DEF KeepsSlots
<1>2. OneSlotEach(g, rt2) /\ BasesKnow(g, rt2)
  BY KeepsOneSlot, KeepsKnow
<1>3. ASSUME NEW n \in Ptr(g), g[n].type = "normal" PROVE g[n].otherb = null
  <2>1. CASE n \notin Ptr(h)
    BY <1>1, <1>3, <2>1 DEF Stays, NewNodes
  <2>2. CASE n \in Ptr(h)
    <3>1. h[n].type = "normal" /\ n /= M
      BY <1>1, <1>3, <2>2, StaysNodes DEF Stays, SameNodes
    <3> QED BY <1>1, <2>2, <3>1 DEF Stays, SameNodes, HeapSlots
  <2> QED BY <2>1, <2>2
<1>4. ASSUME NEW m \in Committed(g) PROVE Merges(g, m) /\ Unmerged(g, rt2, m)
  <2>1. CASE m \in Committed(h)
    BY <2>1, KeepsMerges
  <2>2. CASE m \notin Committed(h)
    BY <1>1, <2>2, StaysCommitted DEF ChangeOK
  <2> QED BY <2>1, <2>2
<1>5. ASSUME NEW m \in Claimants(g, rt2) PROVE Claims(g, rt2, m)
  <2>1. CASE m = M
    BY <1>1, <2>1 DEF ChangeOK
  <2>2. CASE m /= M
    BY <2>2, KeepsClaims
  <2> QED BY <2>1, <2>2
<1> QED BY <1>2, <1>3, <1>4, <1>5 DEF HeapSlots

(* What a thread relies on stays so, unless it owns the join that changes. *)
LEMMA KeepsThread ==
    ASSUME NEW h, NEW rt, NEW g, NEW rt2, NEW M, NEW q, NEW c, KeepsSlots(h, rt, g, rt2, M, q, c),
           NEW l, NEW label, NEW cl, LocalOK(h, l, label, cl), ThreadSlots(h, rt, l, label),
           label \in OwnerLabels /\ l.m = M =>
                g[M].otherb = h[M].otherb /\ (h[M].neigh2 = ABORTED => g[M].neigh2 = ABORTED)
    PROVE  ThreadSlots(g, rt2, l, label)
<1> DEFINE m == l.m
<1>1. /\ Stays(h, rt, g, rt2, M, q, c) /\ PutOnce(h, rt, g, rt2, q, c)
      /\ SameNodes(h, rt, g, M) /\ HeapOK(h)
  BY DEF KeepsSlots, Stays
<1>2. ASSUME label \in OwnerLabels \ {"publish"}
      PROVE  g[m].otherb = null \/ g[m].neigh2 = ABORTED
  <2>1. m \in Ptr(h) /\ (h[m].otherb = null \/ h[m].neigh2 = ABORTED)
    BY <1>2 DEF LocalOK, JoinLocalsOK, ThreadSlots
  <2> QED BY <1>1, <1>2, <2>1 DEF SameNodes
<1>3. ASSUME label \in OwnerLabels \ {"lockNeighbor", "undoMain"}
      PROVE  g[l.n1].main_node = m
  <2>1. l.n1 \in Ptr(h) /\ h[l.n1].main_node = m
    BY <1>3 DEF LocalOK, JoinLocalsOK, ThreadSlots
  <2> QED BY <1>1, <2>1, StaysNodes
<1>4. ASSUME label \in HelperLabels
      PROVE  m \in Committed(h) /\ SameMerge(h, rt, g, m) /\ h[m].neigh1 \in Ptr(h)
  <2>1. m \in Committed(h)
    BY <1>4 DEF LocalOK, JoinLocalsOK, Committed
  <2> QED BY <1>1, <2>1, StaysCommitted, CommittedRoutes
<1>5. label \in HelperLabels \ {"load"} => g[m].neigh2 \in {l.n2, DONE}
  BY <1>4 DEF SameMerge, ThreadSlots
<1>6. ASSUME label \in HelperLabels \ {"load", "replaceNeighbor"}
      PROVE  ~Placed(g, rt2, g[m].neigh1)
  <2>1. g[m].neigh1 = h[m].neigh1 /\ ~Placed(h, rt, h[m].neigh1)
    BY <1>4, <1>6 DEF SameMerge, ThreadSlots
  <2>2. CASE h[m].neigh1 = c
    BY <1>1, <1>4, <1>6, <2>1, <2>2 DEF PutOnce
  <2>3. CASE h[m].neigh1 /= c
    BY <1>1, <1>4, <1>6, <2>1, <2>3, StaysSlots
  <2> QED BY <2>2, <2>3
<1> QED BY <1>2, <1>3, <1>5, <1>6 DEF ThreadSlots

-----------------------------------------------------------------------------
(* Steps                                                                   *)

LEMMA SlotsState ==
    ASSUME SInv, NEW t \in Threads
    PROVE  /\ JInv /\ HeapOK(heap) /\ root \in Ptr(heap) /\ HeapJoins(heap, root)
           /\ HeapSlots(heap, root) /\ ThreadSlots(heap, root, loc[t], pc[t])
           /\ loc[t] \in Locals /\ LocalOK(heap, loc[t], pc[t], call[t])
           /\ ThreadJoins(heap, root, loc[t], pc[t])
BY JoinsState DEF SInv, SlotsAreKept

LEMMA SlotsStep ==
    ASSUME SInv, NEW t \in Threads, NEW label, NEW l, Goto(t, label, l),
           HeapSlots(heap', root'), ThreadSlots(heap', root', l, label),
           \A u \in Threads : u /= t => ThreadSlots(heap', root', loc[u], pc[u])
    PROVE  SlotsAreKept'
<1>1. pc \in [Threads -> Labels] /\ loc \in [Threads -> Locals]
  BY DEF SInv, JInv, IInv, TypeOK
<1>2. /\ pc'[t] = label /\ loc'[t] = l
      /\ \A u \in Threads : u /= t => pc'[u] = pc[u] /\ loc'[u] = loc[u]
  BY <1>1 DEF Goto
<1>3. ASSUME NEW u \in Threads PROVE ThreadSlots(heap', root', loc'[u], pc'[u])
  <2>1. CASE u = t
    BY <1>2, <2>1
  <2>2. CASE u /= t
    BY <1>2, <2>2
  <2> QED BY <2>1, <2>2
<1> QED BY <1>3 DEF SlotsAreKept

(* A step that changes the heap.                                           *)
LEMMA KeepsStep ==
    ASSUME SInv, NEW t \in Threads, NEW label, NEW l, Goto(t, label, l),
           NEW M, NEW q, NEW c, KeepsSlots(heap, root, heap', root', M, q, c),
           \/ M = null \/ Owns(t, M)
           \/ heap'[M].otherb = heap[M].otherb /\ (heap[M].neigh2 = ABORTED => heap'[M].neigh2 = ABORTED),
           ThreadSlots(heap', root', l, label)
    PROVE  SlotsAreKept'
<1>1. HeapSlots(heap', root')
  BY KeepsHeapSlots
<1>2. ASSUME NEW u \in Threads, u /= t PROVE ThreadSlots(heap', root', loc[u], pc[u])
  <2>1. LocalOK(heap, loc[u], pc[u], call[u]) /\ ThreadSlots(heap, root, loc[u], pc[u])
    BY SlotsState
  <2>2. ASSUME pc[u] \in OwnerLabels, loc[u].m = M
        PROVE  heap'[M].otherb = heap[M].otherb /\ (heap[M].neigh2 = ABORTED => heap'[M].neigh2 = ABORTED)
    <3>1. loc[u].m \in Ptr(heap) /\ \A w \in Threads : Owns(w, loc[u].m) => w = u
      BY <2>1, <2>2 DEF SInv, JInv, IInv, WellFormed, OwnersOK, LocalOK, JoinLocalsOK
    <3> QED BY <1>2, <2>2, <3>1, NullIsNoNode
  <2> QED BY <2>1, <2>2, KeepsThread
<1> QED BY <1>1, <1>2, SlotsStep

(* A step that leaves the heap alone.                                      *)
LEMMA SameSlotsStep ==
    ASSUME SInv, NEW t \in Threads, NEW label, NEW l, Goto(t, label, l), heap' = heap, root' = root,
           ThreadSlots(heap, root, l, label)
    PROVE  SlotsAreKept'
<1>1. HeapSlots(heap, root) /\ \A u \in Threads : ThreadSlots(heap, root, loc[u], pc[u])
  BY DEF SInv, SlotsAreKept
<1> QED BY <1>1, SlotsStep

LEMMA NoSlotsYet ==
    ASSUME NEW h, NEW rt, NEW l, NEW label,
           label \notin OwnerLabels \cup HelperLabels \/ label = "load"
    PROVE  ThreadSlots(h, rt, l, label)
BY DEF ThreadSlots, OwnerLabels, HelperLabels

LEMMA ThenHasNoSlots ==
    ASSUME NEW l \in Locals, NEW h, NEW rt, NEW l2
    PROVE  ThreadSlots(h, rt, l2, l.then)
<1>1. l.then \in {"root", "next", "return"}
  BY DEF Locals
<1> QED BY <1>1, NoSlotsYet DEF OwnerLabels, HelperLabels

LEMMA FreeSlots ==
    ASSUME SInv, NEW t \in Threads,
           \/ Begin(t) \/ Return(t) \/ LoadRoot(t) \/ FindBase(t) \/ Lookup(t) \/ FindFull(t)
           \/ CheckBase(t) \/ ReplaceFails(t) \/ ChooseSide(t) \/ LoadSibling(t) \/ FindNeighbor(t)
           \/ CheckNeighbor(t) \/ FindBaseStack(t) \/ CheckRangeBase(t) \/ FindNextBase(t)
           \/ Climb(t) \/ GoRight(t) \/ GoLeft(t)
    PROVE  SlotsAreKept'
<1>1. PICK label, l : /\ Goto(t, label, l) /\ heap' = heap /\ root' = root
                      /\ label \in {"idle", "root", "find", "return", "help", "sibling", "outermost",
                                    "goRight", "goLeft", "climb", "split", "replace", "lockMain", "copy"}
  BY DEF Begin, Return, LoadRoot, FindBase, Lookup, FindFull, CheckBase, ReplaceFails, ChooseSide,
         LoadSibling, FindNeighbor, CheckNeighbor, FindBaseStack, CheckRangeBase, FindNextBase, Climb,
         GoRight, GoLeft, Local
<1>2. ThreadSlots(heap, root, l, label)
  BY <1>1, NoSlotsYet DEF OwnerLabels, HelperLabels
<1> QED BY <1>1, <1>2, SameSlotsStep

LEMMA HelpSlots ==
    ASSUME SInv, NEW t \in Threads, Help(t) \/ CopyFails(t) \/ LoadJoined(t)
    PROVE  SlotsAreKept'
<1>1. loc[t] \in Locals
  BY SlotsState
<1>2. ASSUME Help(t) \/ CopyFails(t) PROVE SlotsAreKept'
  <2>1. PICK label, l : /\ Goto(t, label, l) /\ heap' = heap /\ root' = root
                        /\ label \in {"abort", "load", loc[t].then}
    BY <1>2 DEF Help, CopyFails, Local
  <2>2. ThreadSlots(heap, root, l, label)
    BY <1>1, <2>1, NoSlotsYet, ThenHasNoSlots DEF OwnerLabels, HelperLabels
  <2> QED BY SMTT(30), <2>1, <2>2, SameSlotsStep
<1>3. ASSUME LoadJoined(t) PROVE SlotsAreKept'
  <2> DEFINE n2 == heap[loc[t].m].neigh2
             l == [loc[t] EXCEPT !.n2 = n2]
  <2>1. CASE Goto(t, loc[t].then, loc[t]) /\ heap' = heap /\ root' = root
    BY <1>1, <2>1, ThenHasNoSlots, SameSlotsStep
  <2>2. CASE Goto(t, "replaceNeighbor", l) /\ heap' = heap /\ root' = root
    <3>1. l.m = loc[t].m /\ l.n2 = n2
      BY <1>1 DEF Locals
    <3>2. ThreadSlots(heap, root, l, "replaceNeighbor")
      BY <3>1 DEF ThreadSlots, OwnerLabels
    <3> HIDE DEF l
    <3> QED BY <2>2, <3>2, SameSlotsStep
  <2> QED BY <1>3, <2>1, <2>2 DEF LoadJoined, Local
<1> QED BY <1>2, <1>3

LEMMA ParentSlots ==
    ASSUME SInv, NEW t \in Threads,
           ParentOf(t) \/ SearchParent(t) \/ ParentFound(t) \/ ParentNotFound(t)
    PROVE  SlotsAreKept'
<1>1. loc[t] \in Locals /\ ThreadSlots(heap, root, loc[t], pc[t])
  BY SlotsState
<1>2. PICK label, l : /\ Goto(t, label, l) /\ heap' = heap /\ root' = root
                      /\ label \in {"search", "readOther", "lockGparent", "undoParent"}
                      /\ l.m = loc[t].m /\ l.n1 = loc[t].n1 /\ pc[t] \in {"parentOf", "search"}
  <2>1. ASSUME ParentOf(t) \/ SearchParent(t)
        PROVE  \E cur, gp : Local(t, "search", [loc[t] EXCEPT !.gparent = gp, !.cur = cur])
                            /\ pc[t] \in {"parentOf", "search"}
    <3>1. CASE ParentOf(t)
      <4>1. [loc[t] EXCEPT !.cur = root, !.gparent = null] = [loc[t] EXCEPT !.gparent = null, !.cur = root]
        BY <1>1 DEF Locals
      <4> QED BY <3>1, <4>1 DEF ParentOf
    <3>2. CASE SearchParent(t)
      BY <3>2 DEF SearchParent
    <3> QED BY <2>1, <3>1, <3>2
  <2>2. ASSUME NEW cur, NEW gp
        PROVE  LET l == [loc[t] EXCEPT !.gparent = gp, !.cur = cur]
               IN  l.m = loc[t].m /\ l.n1 = loc[t].n1
    BY <1>1 DEF Locals
  <2> QED BY <2>1, <2>2 DEF ParentFound, ParentNotFound, Local
<1>3. ThreadSlots(heap, root, l, label)
  BY <1>1, <1>2 DEF ThreadSlots, OwnerLabels, HelperLabels
<1> QED BY <1>2, <1>3, SameSlotsStep

LEMMA FindSlotSlots ==
    ASSUME SInv, NEW t \in Threads, FindSlot(t)
    PROVE  SlotsAreKept'
<1>1. loc[t] \in Locals /\ ThreadSlots(heap, root, loc[t], pc[t])
  BY SlotsState
<1>2. PICK label, l : /\ Goto(t, label, l) /\ heap' = heap /\ root' = root
                      /\ label \in {"splice", "done"} /\ pc[t] = "findSlot"
                      /\ l.m = loc[t].m /\ l.n2 = loc[t].n2
  <2>1. ASSUME NEW x
        PROVE  LET l == [loc[t] EXCEPT !.slot = x] IN l.m = loc[t].m /\ l.n2 = loc[t].n2
    BY <1>1 DEF Locals
  <2>2. \/ Local(t, "done", loc[t]) /\ pc[t] = "findSlot"
        \/ \E x : Local(t, "splice", [loc[t] EXCEPT !.slot = x]) /\ pc[t] = "findSlot"
    BY DEF FindSlot
  <2> QED BY <2>1, <2>2 DEF Local
<1>3. ThreadSlots(heap, root, l, label)
  BY <1>1, <1>2 DEF ThreadSlots, OwnerLabels, HelperLabels
<1> QED BY <1>2, <1>3, SameSlotsStep

-----------------------------------------------------------------------------
(* Stores to the fields of one node                                        *)

LEMMA EditStays ==
    ASSUME NEW h, NEW rt, NEW g, HeapOK(h), HeapOK(g), HeapJoins(h, rt), HeapJoins(g, rt),
           rt \in Ptr(h), HeapSlots(h, rt),
           NEW i \in Ptr(h), EditOf(h, i, g), SameLinks(h[i], g[i]),
           h[i].join_id \in Claimants(h, rt) => g[i].join_id = h[i].join_id,
           NEW M, \/ M = null /\ SameJoin(h[i], g[i])
                  \/ M = i /\ h[i].type = "join_main" /\ (i \in Committed(h) => SameMerge(h, rt, g, i))
    PROVE  /\ Stays(h, rt, g, rt, M, null, null) /\ NewSlots(h, g, rt) /\ CutsLate(h, rt, g, rt)
           /\ PutOnce(h, rt, g, rt, null, null)
<1>1. Ptr(g) = Ptr(h) /\ Len(g) = Len(h) /\ Len(h) \in Nat /\ null \notin Ptr(h)
  BY HeapBasics, NullIsNoNode DEF EditOf, Ptr
<1>2. \A n \in Ptr(h) : SameLinks(h[n], g[n])
  BY DEF EditOf, SameLinks
<1>3. Routes(g) = Routes(h) /\ Routes(h) \subseteq Ptr(h) /\ null \notin Routes(h)
  BY <1>1, <1>2, NullIsNoNode DEF Routes, SameLinks
<1>4. \A r \in Routes(h), z \in Sides : Side(g, r, z) = Side(h, r, z) /\ Side(h, r, z) \in Ptr(h)
  BY <1>2, <1>3, SidesOK DEF Side, SameLinks
<1>5. \A n \in Ptr(h) : n /= M => SameJoin(h[n], g[n])
  BY DEF EditOf, SameJoin
<1>6. \A n \in Ptr(h) : h[n].join_id \in Claimants(h, rt) => g[n].join_id = h[n].join_id
  BY DEF EditOf
<1>7. M \in Committed(h) => SameMerge(h, rt, g, M)
  BY <1>1 DEF Committed
<1>8. SameNodes(h, rt, g, M)
  BY <1>1, <1>2, <1>5, <1>6, <1>7 DEF SameNodes, SameLinks, SameJoin
<1>9. NewNodes(h, g) /\ Shifts(h, rt, g, rt, null, null) /\ NewSlots(h, g, rt)
      /\ PutOnce(h, rt, g, rt, null, null)
  BY <1>1, <1>3, <1>4 DEF NewNodes, Shifts, NewSlots, PutOnce
<1>10. CutsLate(h, rt, g, rt)
  <2>1. ASSUME NEW m \in Committed(h), IsCut(g, rt, m), ~IsCut(h, rt, m)
        PROVE  ~Placed(h, rt, h[m].neigh1)
    <3>1. m \in Ptr(h) /\ h[m].gparent \in Routes(h) \cup {null}
      BY CommittedRoutes
    <3>2. g[m].gparent = h[m].gparent /\ g[m].parent = h[m].parent
      BY <1>2, <1>5, <1>7, <3>1 DEF SameLinks, SameJoin, SameMerge
    <3> QED BY <1>4, <2>1, <3>1, <3>2 DEF IsCut, Holds
  <2> QED BY <2>1 DEF CutsLate
<1>11. rt \in Ptr(g)
  BY <1>1
<1> QED BY <1>8, <1>9, <1>10, <1>11 DEF Stays

LEMMA EditKeeps ==
    ASSUME NEW h, NEW rt, NEW g, HeapOK(h), HeapOK(g), HeapJoins(h, rt), HeapJoins(g, rt),
           rt \in Ptr(h), HeapSlots(h, rt),
           NEW i \in Ptr(h), EditOf(h, i, g), SameLinks(h[i], g[i]),
           h[i].join_id \in Claimants(h, rt) => g[i].join_id = h[i].join_id,
           NEW M, \/ M = null /\ SameJoin(h[i], g[i])
                  \/ M = i /\ h[i].type = "join_main" /\ (i \in Committed(h) => SameMerge(h, rt, g, i)),
           ChangeOK(h, rt, g, rt, M)
    PROVE  KeepsSlots(h, rt, g, rt, M, null, null)
BY EditStays DEF KeepsSlots

(* What is so in the state after every step.                               *)
LEMMA SlotsNext ==
    ASSUME JInv'
    PROVE  HeapOK(heap') /\ HeapJoins(heap', root') /\ root' \in Ptr(heap')
BY DEF JInv, IInv, WellFormed, RoutesAreHeld

(* A lock is taken, or released by a join that puts nothing anywhere.      *)
LEMMA LocksKeepSlots ==
    ASSUME SInv, JInv', NEW t \in Threads, NEW label, Goto(t, label, loc[t]), root' = root,
           NEW i \in Ptr(heap), EditOf(heap, i, heap'),
           SameLinks(heap[i], heap'[i]), SameJoin(heap[i], heap'[i]),
           heap[i].join_id \in Claimants(heap, root) => heap'[i].join_id = heap[i].join_id,
           ThreadSlots(heap', root', loc[t], pc[t]) => ThreadSlots(heap', root', loc[t], label)
    PROVE  SlotsAreKept'
<1>1. /\ HeapOK(heap) /\ HeapJoins(heap, root) /\ root \in Ptr(heap) /\ HeapSlots(heap, root)
      /\ LocalOK(heap, loc[t], pc[t], call[t]) /\ ThreadSlots(heap, root, loc[t], pc[t])
  BY SlotsState
<1>2. HeapOK(heap') /\ HeapJoins(heap', root')
  BY SlotsNext
<1>3. ChangeOK(heap, root, heap', root', null)
  BY NullIsNoNode DEF ChangeOK, Committed, Claimants
<1>4. KeepsSlots(heap, root, heap', root', null, null, null)
  <2>1. KeepsSlots(heap, root, heap', root, null, null, null)
    BY <1>1, <1>2, <1>3, EditKeeps
  <2> QED BY <2>1
<1>5. pc[t] \in OwnerLabels => loc[t].m /= null
  BY <1>1, NullIsNoNode DEF LocalOK, JoinLocalsOK
<1>6. ThreadSlots(heap', root', loc[t], label)
  BY <1>1, <1>4, <1>5, KeepsThread
<1> QED BY <1>4, <1>6, KeepsStep

LEMMA NoClaimYet ==
    ASSUME SInv, NEW t \in Threads, pc[t] \in OwnerLabels \ {"publish"}
    PROVE  loc[t].m \notin Claimants(heap, root)
<1>1. JInv /\ ThreadSlots(heap, root, loc[t], pc[t])
  BY SlotsState
<1>2. loc[t].m \notin Committed(heap) /\ (heap[loc[t].m].otherb = null \/ heap[loc[t].m].neigh2 = ABORTED)
  BY <1>1, OwnerState DEF ThreadSlots
<1> QED BY <1>2 DEF Claimants, PREPARING, ABORTED

LEMMA LockSlots ==
    ASSUME SInv, JInv', NEW t \in Threads,
           LockParent(t) \/ LockGparent(t) \/ UndoGparent(t) \/ UndoParent(t)
    PROVE  SlotsAreKept'
<1> DEFINE m == loc[t].m
<1>1. JInv /\ HeapOK(heap) /\ LocalOK(heap, loc[t], pc[t], call[t])
      /\ ThreadSlots(heap, root, loc[t], pc[t])
  BY SlotsState
<1>2. PICK label, i, j : /\ Goto(t, label, loc[t]) /\ root' = root
                         /\ \/ heap' = heap
                            \/ heap' = SetLock(heap, i, j)
                         /\ i = Parent(t) \/ (i = loc[t].gparent /\ pc[t] \in {"lockGparent", "undoGparent"})
                         /\ heap[i].join_id = null \/
                            (j = null /\ i = Parent(t) /\ pc[t] = "undoParent") \/
                            (j = null /\ i = loc[t].gparent /\ pc[t] = "undoGparent")
                            \/ heap' = heap
                         /\ pc[t] \in {"lockParent", "lockGparent", "undoGparent", "undoParent"}
                         /\ label \in {"parentOf", "undoMain", "readOther", "undoParent"}
                         /\ pc[t] = "lockParent" => label \in {"parentOf", "undoMain"}
  <2>1. CASE LockParent(t)
    BY <2>1 DEF LockParent, Shared, SetLock
  <2>2. CASE LockGparent(t)
    BY <2>2 DEF LockGparent, Shared, SetLock
  <2>3. CASE UndoGparent(t)
    BY <2>3 DEF UndoGparent, Shared, SetLock
  <2>4. CASE UndoParent(t)
    BY <2>4 DEF UndoParent, Shared, SetLock
  <2> QED BY <2>1, <2>2, <2>3, <2>4
<1>3. pc[t] \in OwnerLabels \ {"publish"}
  BY <1>2 DEF OwnerLabels
<1>4. ThreadSlots(heap', root', loc[t], pc[t]) => ThreadSlots(heap', root', loc[t], label)
  BY <1>2 DEF ThreadSlots, OwnerLabels, HelperLabels
<1>5. CASE heap' = heap
  BY <1>1, <1>2, <1>4, <1>5, SameSlotsStep
<1>6. CASE heap' = SetLock(heap, i, j) /\ heap' /= heap
  <2>1. i \in Ptr(heap)
    <3>1. Parent(t) \in Ptr(heap)
      BY <1>1, <1>3, OwnerState
    <3>2. pc[t] \in {"lockGparent", "undoGparent"} => loc[t].gparent \in Ptr(heap)
      BY <1>1, NullIsNoNode DEF LocalOK, JoinLocalsOK
    <3> QED BY <1>2, <3>1, <3>2
  <2>2. /\ EditOf(heap, i, heap') /\ SameLinks(heap[i], heap'[i]) /\ SameJoin(heap[i], heap'[i])
    BY <1>1, <1>6, <2>1, LockEdit
  <2>3. heap[i].join_id \notin Claimants(heap, root)
    <3>1. m \notin Claimants(heap, root)
      BY <1>3, NoClaimYet
    <3>2. null \notin Claimants(heap, root)
      BY NullIsNoNode DEF Claimants
    <3>3. pc[t] = "undoParent" => heap[Parent(t)].join_id = m
      BY <1>1, <1>3, OwnerState DEF LocksParent
    <3>4. pc[t] = "undoGparent" => heap[loc[t].gparent].join_id = m
      <4>1. OwnerJoins(heap, root, loc[t], pc[t])
        BY <1>1, <1>3, OwnerState
      <4>2. pc[t] = "undoGparent" => loc[t].gparent /= null
        BY <1>1, NullIsNoNode DEF LocalOK, JoinLocalsOK
      <4> QED BY <4>1, <4>2 DEF OwnerJoins, LocksGparent
    <3> QED BY <1>2, <1>6, <3>1, <3>2, <3>3, <3>4
  <2> QED BY <1>2, <1>4, <2>1, <2>2, <2>3, LocksKeepSlots
<1> QED BY <1>2, <1>5, <1>6

LEMMA InvalidateSlots ==
    ASSUME SInv, JInv', NEW t \in Threads, Invalidate(t)
    PROVE  SlotsAreKept'
<1> DEFINE p == Parent(t)
           label == IF heap[loc[t].m].gparent = null THEN "splice" ELSE "findSlot"
<1>1. /\ pc[t] = "invalidate" /\ pc[t] \in HelperLabels
      /\ heap' = SetInvalid(heap, p) /\ root' = root /\ Goto(t, label, loc[t])
  BY DEF Invalidate, HelperLabels, Shared, SetInvalid
<1>2. HeapOK(heap) /\ p \in Ptr(heap)
  BY <1>1, SlotsState, HelperState
<1>3. ThreadSlots(heap', root', loc[t], pc[t]) => ThreadSlots(heap', root', loc[t], label)
  BY <1>1 DEF ThreadSlots, OwnerLabels, HelperLabels
<1> HIDE DEF p, label
<1>4. /\ EditOf(heap, p, heap') /\ SameLinks(heap[p], heap'[p]) /\ SameJoin(heap[p], heap'[p])
      /\ heap'[p].join_id = heap[p].join_id
  BY <1>1, <1>2, ValidEdit
<1> QED BY <1>1, <1>2, <1>3, <1>4, LocksKeepSlots

LEMMA UnlockSlots ==
    ASSUME SInv, JInv', NEW t \in Threads, Unlock(t)
    PROVE  SlotsAreKept'
<1> DEFINE m == loc[t].m
           i == heap[m].gparent
<1>1. pc[t] = "unlock" /\ pc[t] \in HelperLabels /\ root' = root /\ Goto(t, "done", loc[t])
  BY DEF Unlock, HelperLabels, Shared
<1>2. /\ HeapOK(heap) /\ m \in Committed(heap) /\ IsCut(heap, root, m)
      /\ LocalOK(heap, loc[t], pc[t], call[t]) /\ ThreadSlots(heap, root, loc[t], pc[t])
      /\ heap[m].gparent \in Routes(heap) \cup {null}
  BY <1>1, SlotsState, HelperState DEF HelperJoins
<1>3. m \notin Claimants(heap, root)
  BY <1>2 DEF Claimants, Committed, Unpublished
<1>4. i \in Ptr(heap)
  BY <1>1, <1>2, NullIsNoNode DEF LocalOK, JoinLocalsOK
<1>5. \A h, rt : ThreadSlots(h, rt, loc[t], pc[t]) => ThreadSlots(h, rt, loc[t], "done")
  BY <1>1 DEF ThreadSlots, OwnerLabels, HelperLabels
<1>6. CASE heap[i].join_id = m /\ heap' = [heap EXCEPT ![i].join_id = null]
  <2> HIDE DEF i, m
  <2>1. heap' = SetLock(heap, i, null)
    BY <1>6 DEF SetLock
  <2>2. /\ EditOf(heap, i, heap') /\ SameLinks(heap[i], heap'[i]) /\ SameJoin(heap[i], heap'[i])
    BY <1>2, <1>4, <2>1, LockEdit
  <2> QED BY <1>1, <1>3, <1>4, <1>5, <1>6, <2>2, LocksKeepSlots
<1>7. CASE heap' = heap
  BY <1>1, <1>2, <1>5, <1>7, SameSlotsStep
<1> QED BY <1>6, <1>7 DEF Unlock

(* A join is aborted, or it is done.                                       *)
LEMMA OutcomesKeepSlots ==
    ASSUME SInv, JInv', NEW t \in Threads, Goto(t, loc[t].then, loc[t]), root' = root,
           NEW i \in Ptr(heap), heap[i].type = "join_main", NEW o,
           heap' = SetOutcome(heap, i, o),
           \/ i \notin Committed(heap) /\ o = ABORTED
           \/ /\ i \in Committed(heap) /\ o = DONE /\ IsCut(heap, root, i)
              /\ ~Placed(heap, root, heap[i].neigh1)
    PROVE  SlotsAreKept'
<1>1. /\ HeapOK(heap) /\ HeapJoins(heap, root) /\ root \in Ptr(heap) /\ HeapSlots(heap, root)
      /\ loc[t] \in Locals
  BY SlotsState
<1>2. HeapOK(heap') /\ HeapJoins(heap', root')
  BY SlotsNext
<1>3. /\ EditOf(heap, i, heap') /\ SameLinks(heap[i], heap'[i])
      /\ heap'[i].join_id = heap[i].join_id
      /\ heap'[i].gparent = heap[i].gparent /\ heap'[i].otherb = heap[i].otherb
      /\ heap'[i].neigh1 = heap[i].neigh1 /\ heap'[i].neigh2 = o
  BY <1>1, OutcomeEdit
<1>4. i \in Committed(heap) => SameMerge(heap, root, heap', i)
  BY <1>3 DEF SameMerge
<1>5. i \in Committed(heap) /\ IsCut(heap, root, i) => IsCut(heap', root', i)
  <2>1. \A n \in Ptr(heap) : heap'[n].left = heap[n].left /\ heap'[n].right = heap[n].right
    BY <1>3 DEF EditOf, SameLinks
  <2>2. i \in Committed(heap) => heap[i].gparent \in Ptr(heap) \cup {null}
    BY <1>1, CommittedRoutes, NullIsNoNode
  <2>3. heap'[i].parent = heap[i].parent
    BY <1>3 DEF SameLinks
  <2> QED BY <1>3, <2>1, <2>2, <2>3 DEF IsCut, Holds, Side
<1>6. i \notin Claimants(heap', root') /\ (i \in Committed(heap') => i \in Committed(heap))
  <2>1. CASE o = ABORTED
    BY <1>3, <2>1 DEF Claimants, Committed, ABORTED, PREPARING, Unpublished
  <2>2. CASE o = DONE /\ i \in Committed(heap) /\ IsCut(heap, root, i)
    BY <1>3, <1>5, <2>2 DEF Claimants, DONE, PREPARING
  <2> QED BY <2>1, <2>2
<1>7. ChangeOK(heap, root, heap', root', i)
  BY <1>6 DEF ChangeOK
<1>8. KeepsSlots(heap, root, heap', root', i, null, null)
  <2>1. KeepsSlots(heap, root, heap', root, i, null, null)
    BY <1>1, <1>2, <1>3, <1>4, <1>7, EditKeeps
  <2> QED BY <2>1
<1>9. heap[i].neigh2 = ABORTED => heap'[i].neigh2 = ABORTED
  BY <1>3 DEF Committed, Unpublished
<1>10. ThreadSlots(heap', root', loc[t], loc[t].then)
  BY <1>1, ThenHasNoSlots
<1> QED BY <1>3, <1>8, <1>9, <1>10, KeepsStep

LEMMA AbortSlots ==
    ASSUME SInv, JInv', NEW t \in Threads, Abort(t)
    PROVE  SlotsAreKept'
<1> DEFINE m == loc[t].m
<1>1. /\ pc[t] = "abort" /\ Goto(t, loc[t].then, loc[t]) /\ root' = root
      /\ heap' = IF heap[m].neigh2 = PREPARING THEN SetOutcome(heap, m, ABORTED) ELSE heap
  BY DEF Abort, Shared, SetOutcome
<1>2. loc[t] \in Locals /\ m \in Ptr(heap) /\ heap[m].type = "join_main"
  BY <1>1, SlotsState DEF LocalOK, JoinLocalsOK
<1>3. CASE heap[m].neigh2 = PREPARING
  <2>1. m \notin Committed(heap)
    BY <1>3 DEF Committed, Unpublished
  <2> QED BY <1>1, <1>2, <1>3, <2>1, OutcomesKeepSlots
<1>4. CASE heap' = heap
  BY <1>1, <1>2, <1>4, ThenHasNoSlots, SameSlotsStep
<1> QED BY <1>1, <1>3, <1>4

LEMMA UndoMainSlots ==
    ASSUME SInv, JInv', NEW t \in Threads, UndoMain(t)
    PROVE  SlotsAreKept'
<1>1. /\ pc[t] \in OwnerLabels /\ Goto(t, loc[t].then, loc[t]) /\ root' = root
      /\ heap' = SetOutcome(heap, loc[t].m, ABORTED)
  BY DEF UndoMain, Shared, SetOutcome, OwnerLabels
<1>2. loc[t].m \in Ptr(heap) /\ heap[loc[t].m].type = "join_main" /\ loc[t].m \notin Committed(heap)
  BY <1>1, SlotsState, OwnerState
<1> QED BY <1>1, <1>2, OutcomesKeepSlots

LEMMA DoneSlots ==
    ASSUME SInv, JInv', NEW t \in Threads, Done(t)
    PROVE  SlotsAreKept'
<1>1. /\ pc[t] = "done" /\ pc[t] \in HelperLabels /\ Goto(t, loc[t].then, loc[t]) /\ root' = root
      /\ heap' = SetOutcome(heap, loc[t].m, DONE)
  BY DEF Done, Shared, SetOutcome, HelperLabels
<1>2. /\ loc[t].m \in Committed(heap) /\ loc[t].m \in Ptr(heap) /\ heap[loc[t].m].type = "join_main"
      /\ IsCut(heap, root, loc[t].m)
  BY <1>1, SlotsState, HelperState DEF HelperJoins
<1>3. ~Placed(heap, root, heap[loc[t].m].neigh1)
  <2>1. ThreadSlots(heap, root, loc[t], pc[t])
    BY SlotsState
  <2> QED BY <1>1, <2>1 DEF ThreadSlots
<1> QED BY <1>1, <1>2, <1>3, OutcomesKeepSlots

-----------------------------------------------------------------------------
(* A join reads what will replace its route, and is published              *)

(* What is in a slot of the attached route p that m has locked may become  *)
(* the claim of m.                                                         *)
LEMMA SlotIsClaimed ==
    ASSUME NEW h, NEW rt, HeapOK(h), HeapSlots(h, rt),
           NEW p \in Routes(h), Attached(h, rt, p), NEW z \in Sides
    PROVE  LET x == Side(h, p, z)
           IN  /\ x \in Ptr(h) /\ ~Elsewhere(h, rt, p, x)
               /\ x \notin Routes(h) => Knows(h, rt, p, x)
               /\ \A k \in Claimants(h, rt) : k /= h[p].join_id => Replacement(h, k) /= x
               /\ \A m \in Committed(h) : Placed(h, rt, h[m].neigh1) => x /= h[m].neigh2
<1> DEFINE x == Side(h, p, z)
<1>1. x \in Ptr(h)
  BY SidesOK
<1>2. \A s \in Routes(h), y \in Sides : Attached(h, rt, s) /\ Side(h, s, y) = x => s = p
  BY DEF HeapSlots, OneSlotEach
<1>3. rt /= x
  BY DEF HeapSlots, OneSlotEach
<1>4. ~Elsewhere(h, rt, p, x)
  BY <1>2, <1>3 DEF Elsewhere
<1>5. x \notin Routes(h) => Knows(h, rt, p, x)
  BY DEF HeapSlots, BasesKnow
<1>6. ASSUME NEW k \in Claimants(h, rt), k /= h[p].join_id, Replacement(h, k) = x PROVE FALSE
  <2>1. Claims(h, rt, k)
    BY DEF HeapSlots
  <2>2. h[h[k].parent].join_id = k /\ ~Elsewhere(h, rt, h[k].parent, x)
    BY <1>1, <1>6, <2>1 DEF Claims
  <2>3. h[k].parent = p
    BY <2>2 DEF Elsewhere
  <2> QED BY <1>6, <2>2, <2>3
<1>7. ASSUME NEW m \in Committed(h), Placed(h, rt, h[m].neigh1), x = h[m].neigh2 PROVE FALSE
  <2>1. ~Elsewhere(h, rt, null, x)
    BY <1>7 DEF HeapSlots, Unmerged
  <2>2. p /= null
    BY NullIsNoNode
  <2> QED BY <2>1, <2>2 DEF Elsewhere
<1> QED BY <1>1, <1>4, <1>5, <1>6, <1>7

LEMMA ReadOtherSlots ==
    ASSUME SInv, JInv', NEW t \in Threads, ReadOther(t)
    PROVE  SlotsAreKept'
<1> DEFINE m == loc[t].m
           p == Parent(t)
           g == loc[t].gparent
           z == Opposite(loc[t].side)
           other == Child(p, z)
           x == [heap[m] EXCEPT !.gparent = g, !.otherb = other, !.neigh1 = loc[t].n1]
<1>1. /\ pc[t] = "readOther" /\ pc[t] \in OwnerLabels \ {"publish"} /\ pc[t] \in LocksParent
      /\ root' = root /\ Goto(t, "publish", loc[t])
      /\ heap' = [heap EXCEPT ![m] = x]
  BY DEF ReadOther, Shared, OwnerLabels, LocksParent
<1>2. /\ HeapOK(heap) /\ HeapJoins(heap, root) /\ root \in Ptr(heap) /\ HeapSlots(heap, root)
      /\ LocalOK(heap, loc[t], pc[t], call[t]) /\ ThreadSlots(heap, root, loc[t], pc[t])
      /\ loc[t] \in Locals
  BY SlotsState
<1>3. /\ m \in Ptr(heap) /\ heap[m].type = "join_main" /\ Owns(t, m) /\ m \notin Committed(heap)
      /\ p \in Ptr(heap) /\ p \in Routes(heap) /\ p = heap[m].parent /\ heap[p].join_id = m
  BY <1>1, SlotsState, OwnerState DEF Parent
<1>4. z \in Sides /\ other = Side(heap, p, z)
  BY <1>2 DEF Opposite, Sides, Child, Side
<1>5. /\ SameLinks(heap[m], x) /\ x.neigh2 = heap[m].neigh2 /\ x.join_id = heap[m].join_id
      /\ x.gparent = g /\ x.otherb = other /\ x.neigh1 = loc[t].n1
  <2>1. heap[m] \in Node
    BY <1>2, <1>3, HeapBasics
  <2> HIDE DEF m, other, g
  <2> QED BY <2>1 DEF Node, SameLinks
<1>6. Attached(heap, root, p)
  BY <1>2, <1>3, LockedIsAttached
<1> HIDE DEF x, other, m, p, g, z
<1>7. EditOf(heap, m, heap') /\ heap'[m] = x
  <2>1. LET f == [heap EXCEPT ![m] = x] IN EditOf(heap, m, f) /\ f[m] = x
    BY <1>2, <1>3, EditNode
  <2> QED BY <1>1, <2>1
<1>8. /\ other \in Ptr(heap) /\ ~Elsewhere(heap, root, p, other)
      /\ other \notin Routes(heap) => Knows(heap, root, p, other)
      /\ \A k \in Claimants(heap, root) : k /= m => Replacement(heap, k) /= other
      /\ \A n \in Committed(heap) : Placed(heap, root, heap[n].neigh1) => other /= heap[n].neigh2
  BY <1>2, <1>3, <1>4, <1>6, SlotIsClaimed
<1>9. HeapOK(heap') /\ HeapJoins(heap', root') /\ root' \in Ptr(heap')
  BY SlotsNext
<1>10. m \notin Committed(heap')
  BY <1>3, <1>5, <1>7 DEF Committed, EditOf, Ptr, SameLinks
<1>11. Stays(heap, root, heap', root', m, null, null)
  <2>1. Stays(heap, root, heap', root, m, null, null)
    BY <1>1, <1>2, <1>3, <1>5, <1>7, <1>9, EditStays
  <2> QED BY <1>1, <2>1
<1>12. /\ heap'[m].parent = p /\ heap'[m].otherb = other /\ heap'[m].neigh2 = heap[m].neigh2
       /\ heap'[p].join_id = m /\ other \in Ptr(heap') /\ null \notin Ptr(heap)
  <2>1. heap'[m].parent = p
    BY <1>3, <1>5, <1>7 DEF SameLinks
  <2>2. heap'[p].join_id = m
    BY <1>3, <1>5, <1>7 DEF EditOf
  <2>3. other \in Ptr(heap')
    BY <1>7, <1>8 DEF EditOf, Ptr
  <2> QED BY <1>5, <1>7, <2>1, <2>2, <2>3, NullIsNoNode
<1>13. ASSUME m \in Claimants(heap', root')
       PROVE  /\ Claims(heap', root', m)
              /\ \A n \in Committed(heap) : n /= m /\ Placed(heap', root', heap[n].neigh1) =>
                    Replacement(heap', m) /= heap[n].neigh2
  <2>1. heap'[m].neigh2 = null
    BY <1>10, <1>13 DEF Claimants, PREPARING, null
  <2>2. Replacement(heap', m) \in {null, other}
    BY <1>12, <2>1 DEF Replacement
  <2>3. Attached(heap', root', p)
    BY <1>9, <1>12, <1>13, ClaimantAttached
  <2>4. other \notin Routes(heap') => Knows(heap', root', p, other)
    BY <1>3, <1>8, <1>11, <2>3, StaysNodes, StaysKnows
  <2>5. ~Elsewhere(heap', root', p, other)
    BY <1>8, <1>11, <1>12, StaysSlots
  <2>6. \A k \in Claimants(heap', root') : k /= m => Replacement(heap', k) /= other
    BY <1>8, <1>11, StaysClaimants
  <2>7. null \notin Ptr(heap')
    BY NullIsNoNode
  <2>8. Claims(heap', root', m)
    BY <1>12, <2>2, <2>4, <2>5, <2>6, <2>7 DEF Claims
  <2>9. ASSUME NEW n \in Committed(heap), Placed(heap', root', heap[n].neigh1)
        PROVE  Replacement(heap', m) /= heap[n].neigh2
    <3>1. heap[n].neigh1 \in Ptr(heap) /\ heap[n].neigh2 \notin Unpublished
      BY <1>2, CommittedRoutes
    <3>2. Placed(heap, root, heap[n].neigh1)
      BY <1>11, <1>12, <2>9, <3>1, StaysSlots
    <3> QED BY <1>8, <2>2, <3>1, <3>2 DEF Unpublished, null, PREPARING
  <2> QED BY <2>8, <2>9
<1>14. ChangeOK(heap, root, heap', root', m)
  BY <1>10, <1>13 DEF ChangeOK
<1>15. KeepsSlots(heap, root, heap', root', m, null, null)
  <2>1. KeepsSlots(heap, root, heap', root, m, null, null)
    BY <1>1, <1>2, <1>3, <1>5, <1>7, <1>9, <1>14, EditKeeps
  <2> QED BY <1>1, <2>1
<1>16. ThreadSlots(heap', root', loc[t], "publish")
  <2>1. loc[t].n1 \in Ptr(heap) /\ heap[loc[t].n1].main_node = m
    BY <1>1, <1>2 DEF ThreadSlots, OwnerLabels, LocalOK, JoinLocalsOK, m
  <2>2. heap'[loc[t].n1].main_node = m
    BY <1>11, <2>1, StaysNodes
  <2> QED BY <2>2 DEF ThreadSlots, OwnerLabels, HelperLabels, m
<1>17. Goto(t, "publish", loc[t])
  BY <1>1
<1> QED BY <1>3, <1>15, <1>16, <1>17, KeepsStep

(* The node that replaces the neighbour of m.                              *)
LEMMA PublishedNode ==
    ASSUME JInv, NEW t \in Threads, pc[t] = "publish",
           heap' = SetOutcome(Append(heap, Joined(t)), loc[t].m, Len(heap) + 1)
    PROVE  LET x == heap'[Len(heap) + 1]
               m == loc[t].m
               n1 == loc[t].n1
           IN  /\ x.type = "join_neighbor" /\ x.main_node = heap[n1].main_node
               /\ x.parent = IF heap[m].otherb = n1 THEN loc[t].gparent ELSE heap[n1].parent
<1> DEFINE x == Joined(t)
           g == Append(heap, x)
           new == Len(heap) + 1
           m == loc[t].m
           n1 == loc[t].n1
<1>1. /\ x \in Node /\ x.type = "join_neighbor" /\ Len(x.data) <= TREAP_NODES
      /\ x.parent \in Routes(heap) \cup {null}
      /\ x.main_node \in Ptr(heap) /\ heap[x.main_node].type = "join_main"
  BY JoinedOK DEF JInv
<1>2. HeapOK(heap) /\ m \in Ptr(heap) /\ n1 \in Ptr(heap)
  BY JoinsState DEF LocalOK, JoinLocalsOK, OwnerLabels
<1>3. heap[n1] \in Node
  BY <1>2, HeapBasics
<1>4. /\ x.main_node = heap[n1].main_node
      /\ x.parent = IF heap[m].otherb = n1 THEN loc[t].gparent ELSE heap[n1].parent
  BY <1>3 DEF Joined, Node
<1> HIDE DEF x, m, n1
<1>5. HeapOK(g) /\ Adds(heap, x, g)
  BY <1>1, <1>2, AddNode, AppendAdds
<1>6. heap' = SetOutcome(g, m, new)
  BY DEF x, m
<1> HIDE DEF g
<1>7. m \in Ptr(g) /\ m /= new
  BY <1>2, <1>5 DEF Adds
<1>8. EditOf(g, m, heap')
  BY <1>5, <1>6, <1>7, OutcomeEdit
<1>9. heap'[new] = x
  BY <1>5, <1>7, <1>8 DEF EditOf, Adds
<1> QED BY <1>1, <1>4, <1>9 DEF m, n1

LEMMA PublishSlots ==
    ASSUME SInv, JInv', NEW t \in Threads, Publish(t)
    PROVE  SlotsAreKept'
<1> DEFINE m == loc[t].m
           p == Parent(t)
           g == loc[t].gparent
           n1 == loc[t].n1
           undo == IF g = null THEN "undoParent" ELSE "undoGparent"
           b == heap[m].otherb
<1>1. /\ pc[t] = "publish" /\ pc[t] \in OwnerLabels /\ pc[t] \in LocksParent \cap LocksGparent
      /\ root' = root
  BY DEF Publish, OwnerLabels, LocksParent, LocksGparent
<1>2. /\ JInv /\ HeapOK(heap) /\ HeapJoins(heap, root) /\ root \in Ptr(heap) /\ HeapSlots(heap, root)
      /\ LocalOK(heap, loc[t], pc[t], call[t]) /\ ThreadSlots(heap, root, loc[t], pc[t])
  BY SlotsState
<1>3. /\ m \in Ptr(heap) /\ heap[m].type = "join_main" /\ m \notin Committed(heap) /\ Owns(t, m)
      /\ p \in Ptr(heap) /\ p \in Routes(heap) /\ p = heap[m].parent /\ heap[p].join_id = m
      /\ Holds(heap, root, g, p) /\ heap[m].gparent = g /\ heap[m].neigh1 = n1
  BY <1>1, <1>2, OwnerState DEF Parent, OwnerJoins
<1>4. /\ g \in Routes(heap) \cup {null} /\ n1 \in Ptr(heap)
      /\ heap[n1].type = "join_neighbor" /\ b \in Ptr(heap) /\ heap[n1].main_node = m
  BY <1>1, <1>2 DEF LocalOK, JoinLocalsOK, OwnerLabels, JoinOK, ThreadSlots
<1>5. CASE /\ heap[m].neigh2 = PREPARING
           /\ heap' = [Append(heap, Joined(t)) EXCEPT ![m].neigh2 = Len(heap) + 1]
           /\ Goto(t, "load", loc[t])
  <2> DEFINE new == Len(heap) + 1
  <2>1. /\ PublishesJoin(heap, m, heap'[new], heap')
        /\ heap'[new].type = "join_neighbor" /\ heap'[new].main_node = m
        /\ heap'[new].parent = IF b = n1 THEN g ELSE heap[n1].parent
    <3>1. heap' = SetOutcome(Append(heap, Joined(t)), m, new)
      BY <1>5 DEF SetOutcome
    <3>2. LET x == heap'[Len(heap) + 1]
          IN  /\ x.type = "join_neighbor" /\ x.main_node = heap[loc[t].n1].main_node
              /\ x.parent = IF heap[loc[t].m].otherb = loc[t].n1 THEN loc[t].gparent
                            ELSE heap[loc[t].n1].parent
      BY <1>1, <1>2, <3>1, PublishedNode
    <3>3. PublishesJoin(heap, m, heap'[new], heap')
      <4> HIDE DEF m
      <4> QED BY <1>1, <1>2, <1>3, <3>1, PublishedHeap
    <3> QED BY <1>4, <3>2, <3>3
  <2> HIDE DEF m, p, g, n1, b, new
  <2>2. /\ Len(heap) <= Len(heap') /\ Ptr(heap') = Ptr(heap) \cup {new} /\ new \notin Ptr(heap)
        /\ new \in Nat /\ new > 0 /\ heap'[m].neigh2 = new
        /\ \A j \in Ptr(heap) : j /= m => heap'[j] = heap[j]
    BY <1>2, <2>1, HeapBasics DEF PublishesJoin, new
  <2>3. \A j \in Ptr(heap) :
            /\ SameLinks(heap[j], heap'[j]) /\ heap'[j].join_id = heap[j].join_id
            /\ heap'[j].gparent = heap[j].gparent /\ heap'[j].otherb = heap[j].otherb
            /\ heap'[j].neigh1 = heap[j].neigh1 /\ (j /= m => heap'[j].neigh2 = heap[j].neigh2)
    BY <2>1, <2>2 DEF PublishesJoin, SameLinks
  <2>4. Routes(heap') = Routes(heap) /\ Routes(heap) \subseteq Ptr(heap) /\ null \notin Ptr(heap)
    BY <2>1, <2>2, <2>3, NullIsNoNode DEF Routes, SameLinks
  <2>5. \A r \in Routes(heap), z \in Sides :
            Side(heap', r, z) = Side(heap, r, z) /\ Side(heap, r, z) \in Ptr(heap)
    BY <1>2, <2>3, <2>4, SidesOK DEF Side, SameLinks
  <2>6. SameNodes(heap, root, heap', m)
    BY <1>3, <2>2, <2>3 DEF SameNodes, SameLinks
  <2>7. NewNodes(heap, heap')
    BY <2>1, <2>2 DEF NewNodes
  <2>8. /\ Shifts(heap, root, heap', root', null, null) /\ NewSlots(heap, heap', root')
        /\ PutOnce(heap, root, heap', root', null, null)
    BY <1>1, <1>2, <2>4, <2>5 DEF Shifts, NewSlots, PutOnce
  <2>9. HeapOK(heap') /\ HeapJoins(heap', root') /\ root' \in Ptr(heap')
    BY SlotsNext
  <2>10. Stays(heap, root, heap', root', m, null, null)
    BY <1>2, <2>6, <2>7, <2>8, <2>9 DEF Stays
  <2>11. \A n \in Ptr(heap) :
            n /= m => heap'[n].gparent = heap[n].gparent /\ heap'[n].parent = heap[n].parent
    BY <2>3 DEF SameLinks
  <2>12. CutsLate(heap, root, heap', root')
    <3>1. ASSUME NEW n \in Committed(heap), IsCut(heap', root', n), ~IsCut(heap, root, n) PROVE FALSE
      <4>1. n \in Ptr(heap) /\ heap[n].gparent \in Routes(heap) \cup {null} /\ n /= m
        BY <1>2, <1>3, CommittedRoutes
      <4> QED BY <1>1, <2>5, <2>11, <3>1, <4>1 DEF IsCut, Holds
    <3> QED BY <3>1 DEF CutsLate
  <2>13. /\ heap'[m].parent = p /\ heap'[m].gparent = g /\ heap'[m].otherb = b /\ heap'[m].neigh1 = n1
         /\ heap'[m].type = "join_main" /\ heap'[p].join_id = m
         /\ heap'[n1].main_node = m /\ heap'[n1].parent = heap[n1].parent
    BY <1>3, <1>4, <2>3 DEF SameLinks, b
  <2>14. ~IsCut(heap', root', m)
    BY <1>1, <1>3, <1>4, <2>5, <2>13 DEF IsCut, Holds
  <2>15. /\ new /= DONE /\ new /= null
         /\ \A r : ~Elsewhere(heap', root', r, new)
         /\ \A k \in Claimants(heap', root') : k /= m => Replacement(heap', k) /= new
    <3>1. new /= DONE /\ new /= null
      BY <2>2 DEF DONE, null
    <3>2. \A r : ~Elsewhere(heap', root', r, new)
      BY <1>1, <1>2, <2>2, <2>4, <2>5 DEF Elsewhere
    <3>3. ASSUME NEW k \in Claimants(heap', root'), k /= m PROVE Replacement(heap', k) /= new
      <4>1. /\ k \in Claimants(heap, root) /\ Claims(heap, root, k)
            /\ Replacement(heap', k) = Replacement(heap, k)
        BY <2>10, <3>3, StaysClaimants
      <4>2. Replacement(heap, k) \in Ptr(heap) \cup {null, DONE}
        BY <1>2, <4>1, ReplacementOld
      <4> QED BY <2>2, <3>1, <4>1, <4>2
    <3> QED BY <3>1, <3>2, <3>3
  <2>16. Merges(heap', m) /\ Unmerged(heap', root', m)
    <3>1. new /= b
      BY <1>4, <2>2
    <3>2. Merges(heap', m)
      BY <2>1, <2>2, <2>13, <3>1 DEF Merges
    <3>3. Unmerged(heap', root', m)
      BY <2>2, <2>14, <2>15 DEF Unmerged
    <3> QED BY <3>2, <3>3
  <2>17. m \in Claimants(heap, root) /\ Claims(heap, root, m)
    <3>1. b /= null
      BY <1>4, <2>4
    <3>2. m \in Claimants(heap, root)
      BY <1>3, <1>5, <3>1 DEF Claimants, b, m
    <3> QED BY <1>2, <3>2 DEF HeapSlots
  <2>18. Replacement(heap', m) = IF b = n1 THEN new ELSE b
    BY <2>2, <2>13 DEF Replacement
  <2>19. b /= n1 => Replacement(heap, m) = b
    BY <1>3 DEF Replacement, b, m
  <2>20. Claims(heap', root', m)
    <3>1. m \in Claimants(heap', root')
      <4>1. m \in Committed(heap')
        BY <1>3, <2>2, <2>13, <2>15 DEF Committed, Unpublished, PREPARING, ABORTED, null
      <4> QED BY <1>3, <1>4, <2>2, <2>4, <2>13, <2>14, <4>1 DEF Claimants
    <3>2. Attached(heap', root', p)
      BY <2>9, <2>13, <3>1, ClaimantAttached
    <3>3. b \notin Routes(heap') => Knows(heap', root', p, b)
      <4>1. b \notin Routes(heap) => Knows(heap, root, p, b)
        BY <1>3, <2>17 DEF Claims, b, m
      <4> QED BY <1>3, <1>4, <2>4, <2>10, <3>2, <4>1, StaysKnows
    <3>4. b /= n1 => ~Elsewhere(heap', root', p, b)
      <4>1. b /= n1 => ~Elsewhere(heap, root, p, b)
        BY <1>3, <1>4, <2>17, <2>19 DEF Claims
      <4> QED BY <1>4, <2>4, <2>10, <4>1, StaysSlots
    <3>5. b /= n1 => \A k \in Claimants(heap', root') : k /= m => Replacement(heap', k) /= b
      <4>1. b /= n1 => \A k \in Claimants(heap, root) : k /= m => Replacement(heap, k) /= b
        BY <1>3, <1>4, <2>17, <2>19 DEF Claims
      <4> QED BY <2>10, <4>1, StaysClaimants
    <3> QED BY <1>4, <2>2, <2>13, <2>15, <2>18, <3>3, <3>4, <3>5 DEF Claims
  <2>21. ASSUME NEW n \in Committed(heap), n /= m, Placed(heap', root', heap[n].neigh1)
         PROVE  Replacement(heap', m) /= heap[n].neigh2
    <3>1. heap[n].neigh1 \in Ptr(heap) /\ (heap[n].neigh2 /= DONE => heap[n].neigh2 \in Ptr(heap))
      BY <1>2, CommittedRoutes
    <3>2. Placed(heap, root, heap[n].neigh1)
      BY <2>4, <2>10, <2>21, <3>1, StaysSlots
    <3>3. Unmerged(heap, root, n)
      BY <1>2 DEF HeapSlots
    <3>4. b /= n1 => b /= heap[n].neigh2
      BY <2>17, <2>19, <2>21, <3>2, <3>3 DEF Unmerged
    <3> QED BY <2>2, <2>15, <2>18, <3>1, <3>4
  <2>22. ChangeOK(heap, root, heap', root', m)
    BY <2>16, <2>20, <2>21 DEF ChangeOK
  <2>23. KeepsSlots(heap, root, heap', root', m, null, null)
    BY <2>8, <2>10, <2>12, <2>22 DEF KeepsSlots
  <2>24. ThreadSlots(heap', root', loc[t], "load")
    BY NoSlotsYet
  <2>25. Goto(t, "load", loc[t])
    BY <1>5
  <2> QED BY <1>3, <2>23, <2>24, <2>25, KeepsStep
<1>6. CASE heap[m].neigh2 /= PREPARING /\ heap' = heap /\ Goto(t, undo, loc[t])
  <2>1. heap[m].neigh2 = ABORTED
    BY <1>3, <1>6 DEF Committed, Unpublished
  <2>2. heap[loc[t].n1].main_node = loc[t].m
    BY <1>4
  <2>3. undo \in {"undoParent", "undoGparent"}
    OBVIOUS
  <2>4. ThreadSlots(heap, root, loc[t], undo)
    BY <2>1, <2>2, <2>3 DEF ThreadSlots, OwnerLabels, HelperLabels
  <2> HIDE DEF undo
  <2> QED BY <1>1, <1>6, <2>4, SameSlotsStep
<1> QED BY <1>5, <1>6 DEF Publish, Shared

-----------------------------------------------------------------------------
(* The steps that put a new node in the slot of a base                     *)

LEMMA FreshPutKeeps ==
    ASSUME NEW h, NEW rt, NEW g, NEW f, NEW rt2, NEW q, NEW side, NEW b, NEW c,
           BasePut(h, rt, g, f, rt2, q, side, b, c),
           HeapJoins(h, rt), HeapJoins(f, rt2), rt \in Ptr(h), rt2 \in Ptr(f), HeapSlots(h, rt),
           c \in Ptr(g), c \notin Ptr(h), NewNodes(h, g), c \notin Routes(g) => g[c].parent = q,
           \A r \in Routes(g) \ Ptr(h), z \in Sides :
                /\ Side(g, r, z) \notin Ptr(h) /\ Side(g, r, z) /= c
                /\ Side(g, r, z) \notin Routes(g) /\ g[Side(g, r, z)].parent = r
                /\ \A s \in Routes(g) \ Ptr(h), y \in Sides : Side(g, s, y) = Side(g, r, z) => s = r /\ y = z
    PROVE  KeepsSlots(h, rt, f, rt2, null, q, c)
<1>1. /\ HeapOK(h) /\ HeapOK(g) /\ HeapOK(f) /\ Grows(h, g) /\ q \in Routes(h) \cup {null}
      /\ side \in Sides /\ Puts(g, rt, f, rt2, q, side, b, c)
  BY DEF BasePut
<1>2. /\ Calm(h, rt, f, rt2) /\ Committed(f) = Committed(h)
      /\ Ptr(f) = Ptr(g) /\ Routes(f) = Routes(g) /\ Ptr(h) \subseteq Ptr(g)
  BY PutCalm DEF CalmPut
<1>3. /\ \A n \in Ptr(g) : SameButSlots(g[n], f[n])
      /\ \A j \in Ptr(h) : g[j] = h[j]
      /\ Len(h) <= Len(f) /\ null \notin Ptr(h) /\ null \notin Ptr(g)
  BY <1>1, NullIsNoNode DEF Puts, Grows
<1>4. /\ \A n \in Ptr(h) : n \in Routes(g) <=> n \in Routes(h)
      /\ Routes(g) \subseteq Ptr(g) /\ Routes(h) \subseteq Ptr(h) /\ null \notin Routes(g)
  BY <1>2, <1>3, NullIsNoNode DEF Routes
<1>5. \A r \in Ptr(g), z \in Sides :
        Side(f, r, z) = IF r = q /\ z = side THEN c ELSE Side(g, r, z)
  BY <1>1 DEF Puts
<1>6. \A r \in Routes(h), z \in Sides : Side(g, r, z) = Side(h, r, z) /\ Side(h, r, z) \in Ptr(h)
  BY <1>1, <1>3, <1>4, SidesOK DEF Side
<1>7. IF q = null THEN rt2 = c ELSE rt2 = rt
  BY <1>1 DEF Puts
<1>8. SameNodes(h, rt, f, null)
  <2>1. \A n \in Ptr(h) : SameButSlots(h[n], f[n])
    BY <1>2, <1>3
  <2>2. null \notin Committed(h)
    BY <1>3 DEF Committed
  <2> QED BY <1>3, <2>1, <2>2 DEF SameNodes, SameButSlots
<1>9. NewNodes(h, f)
  BY <1>2, <1>3 DEF NewNodes, SameButSlots
<1>10. \A r \in Routes(g) \ Ptr(h), z \in Sides : Side(f, r, z) = Side(g, r, z)
  BY <1>1, <1>4, <1>5
<1>11. Shifts(h, rt, f, rt2, q, c)
  <2>1. rt2 = rt \/ rt2 \notin Ptr(h)
    BY <1>7
  <2>2. \A r \in Routes(h), z \in Sides : Side(f, r, z) = Side(h, r, z) \/ Side(f, r, z) \notin Ptr(h)
    BY <1>2, <1>4, <1>5, <1>6
  <2>3. \A r \in Routes(f) \ Ptr(h), z \in Sides : Side(f, r, z) \notin Ptr(h)
    BY <1>2, <1>10
  <2>4. c \notin Routes(h)
    BY <1>4
  <2> QED BY <2>1, <2>2, <2>3, <2>4 DEF Shifts
<1>12. NewSlots(h, f, rt2)
  <2>1. ASSUME NEW r \in Routes(g), NEW z \in Sides, Side(f, r, z) \notin Ptr(h)
        PROVE  \/ r = q /\ z = side /\ Side(f, r, z) = c
               \/ r \in Routes(g) \ Ptr(h) /\ Side(f, r, z) = Side(g, r, z)
    BY <1>4, <1>5, <1>6, <1>10, <2>1
  <2>2. ASSUME NEW r \in Routes(g), NEW z \in Sides, Side(f, r, z) \notin Ptr(h)
        PROVE  /\ Side(f, r, z) /= rt2
               /\ \A s \in Routes(g), y \in Sides : Side(f, s, y) = Side(f, r, z) => s = r /\ y = z
               /\ Side(f, r, z) \notin Routes(g) => f[Side(f, r, z)].parent = r
    <3>1. CASE r = q /\ z = side /\ Side(f, r, z) = c
      <4>1. rt2 /= c
        BY <1>3, <1>4, <1>7, <3>1
      <4>2. \A s \in Routes(g), y \in Sides : Side(f, s, y) = c => s = r /\ y = z
        BY <2>1, <3>1
      <4>3. f[c].parent = g[c].parent
        BY <1>3 DEF SameButSlots
      <4> QED BY <3>1, <4>1, <4>2, <4>3
    <3>2. CASE r \in Routes(g) \ Ptr(h) /\ Side(f, r, z) = Side(g, r, z)
      <4>1. Side(g, r, z) \in Ptr(g)
        BY <1>1, SidesOK
      <4>2. f[Side(g, r, z)].parent = r
        BY <1>3, <3>2, <4>1 DEF SameButSlots
      <4>3. rt2 /= Side(g, r, z)
        BY <1>7, <3>2
      <4>4. \A s \in Routes(g), y \in Sides : Side(f, s, y) = Side(f, r, z) => s = r /\ y = z
        BY <2>1, <3>2
      <4> QED BY <3>2, <4>2, <4>3, <4>4
    <3> QED BY <2>1, <2>2, <3>1, <3>2
  <2>3. rt2 \notin Ptr(h) /\ rt2 \notin Routes(g) => f[rt2].parent = null
    BY <1>3, <1>7 DEF SameButSlots
  <2> QED BY <1>2, <2>2, <2>3 DEF NewSlots
<1>13. CutsLate(h, rt, f, rt2)
  BY <1>1, <1>2, CalmAttached DEF CutsLate
<1>14. PutOnce(h, rt, f, rt2, q, c) /\ ChangeOK(h, rt, f, rt2, null)
  BY NullIsNoNode DEF PutOnce, ChangeOK, Committed, Claimants
<1> QED BY <1>1, <1>8, <1>9, <1>11, <1>12, <1>13, <1>14 DEF KeepsSlots, Stays

LEMMA FreshBaseKeeps ==
    ASSUME NEW h, NEW rt, HeapOK(h), HeapJoins(h, rt), rt \in Ptr(h), HeapSlots(h, rt),
           NEW x \in Node, NEW g, HeapOK(g), Adds(h, x, g),
           NEW f, NEW rt2, HeapOK(f), HeapJoins(f, rt2), rt2 \in Ptr(f),
           NEW b \in Ptr(h), b \notin Routes(h), NEW side \in Sides,
           Puts(g, rt, f, rt2, h[b].parent, side, b, Len(h) + 1),
           x.parent = h[b].parent, x.type /= "route", x.type = "normal" => x.otherb = null,
           x.type = "join_main" => x.neigh2 \in Unpublished /\ (x.otherb = null \/ x.neigh2 = ABORTED)
    PROVE  /\ KeepsSlots(h, rt, f, rt2, null, h[b].parent, Len(h) + 1)
           /\ SameButSlots(x, f[Len(h) + 1])
           /\ \A n \in Ptr(h) : SameButSlots(h[n], f[n])
<1> DEFINE new == Len(h) + 1
           q == h[b].parent
<1>1. /\ q \in Routes(h) \cup {null} /\ q \in Nat /\ q < b /\ b \in Nat
  BY HeapBasics DEF HeapJoins, YoungerBelow, HeapOK, NodeOK, Node
<1>2. /\ \A j \in Ptr(h) : g[j] = h[j] /\ j < new
      /\ Len(h) <= Len(g) /\ Len(h) \in Nat
      /\ new \notin Ptr(h) /\ new \in Ptr(g) /\ new \in Nat /\ g[new] = x
      /\ Ptr(g) = Ptr(h) \cup {new}
  BY HeapBasics DEF Adds
<1> HIDE DEF new, q
<1>3. \A n \in Ptr(g) : SameButSlots(g[n], f[n])
  BY DEF Puts
<1>4. Grows(h, g)
  BY <1>2 DEF Grows
<1>5. Harmless(h, new) /\ q < new
  BY <1>1, <1>2, NullIsNoNode DEF Harmless
<1>6. BasePut(h, rt, g, f, rt2, q, side, b, new)
  BY <1>1, <1>4, <1>5 DEF BasePut, q, new
<1>7. NewNodes(h, g)
  BY <1>2 DEF NewNodes
<1>8. Routes(g) \ Ptr(h) = {} /\ g[new].parent = q
  BY <1>2 DEF Routes, q
<1>9. KeepsSlots(h, rt, f, rt2, null, q, new)
  BY <1>2, <1>6, <1>7, <1>8, FreshPutKeeps
<1> QED BY <1>2, <1>3, <1>9 DEF q, new

(* A base gives way to a new one.                                          *)
LEMMA BasePutSlots ==
    ASSUME SInv, JInv', NEW t \in Threads, NEW label, NEW l, Goto(t, label, l),
           NEW b \in Ptr(heap), b \notin Routes(heap), InPlace(b),
           NEW x \in Node, HeapOK(Append(heap, x)), Install(b, Len(heap) + 1, Append(heap, x)),
           x.parent = heap[b].parent, x.type /= "route", x.type = "normal" => x.otherb = null,
           x.type = "join_main" => x.neigh2 = ABORTED,
           SameButSlots(x, heap'[Len(heap) + 1]) /\ (\A n \in Ptr(heap) : SameButSlots(heap[n], heap'[n]))
                => ThreadSlots(heap', root', l, label)
    PROVE  SlotsAreKept'
<1> DEFINE g == Append(heap, x)
           new == Len(heap) + 1
<1>1. /\ HeapOK(heap) /\ HeapJoins(heap, root) /\ root \in Ptr(heap) /\ HeapSlots(heap, root)
  BY SlotsState
<1>2. /\ HeapOK(heap') /\ HeapJoins(heap', root') /\ root' \in Ptr(heap')
  BY SlotsNext
<1>3. Adds(heap, x, g)
  BY <1>1, AppendAdds
<1> HIDE DEF g
<1>4. Grows(heap, g) /\ ABORTED \in Unpublished
  BY <1>1, <1>3, HeapBasics DEF Adds, Grows, Unpublished
<1>5. PICK side \in Sides : Puts(g, root, heap', root', heap[b].parent, side, b, new)
  BY <1>1, <1>4, InstallPuts DEF g
<1>6. /\ KeepsSlots(heap, root, heap', root', null, heap[b].parent, new)
      /\ SameButSlots(x, heap'[new])
      /\ \A n \in Ptr(heap) : SameButSlots(heap[n], heap'[n])
  <2>1. HeapOK(g)
    BY DEF g
  <2> QED BY <1>1, <1>2, <1>3, <1>4, <1>5, <2>1, FreshBaseKeeps
<1>7. ThreadSlots(heap', root', l, label)
  BY <1>6
<1> HIDE DEF new
<1> QED BY <1>6, <1>7, KeepsStep

LEMMA ReplaceSlots ==
    ASSUME SInv, JInv', NEW t \in Threads, Replace(t)
    PROVE  SlotsAreKept'
<1> DEFINE b == loc[t].base
           stat == new_stat(b, loc[t].contended)
           d == NewData(call[t], heap[b].data)
           x == Base(heap[b].parent, d, stat)
           label == IF stat > HIGH_CONT THEN "split" ELSE IF stat < LOW_CONT THEN "join" ELSE "return"
           l == [loc[t] EXCEPT !.base = Len(heap) + 1, !.then = "return",
                               !.result = Result(call[t], heap[b].data)]
<1>1. /\ pc[t] = "replace" /\ loc[t] \in Locals /\ LocalOK(heap, loc[t], "replace", call[t])
      /\ HeapOK(heap) /\ BaseJoins(heap, loc[t], "replace")
  BY SlotsState DEF Replace, ThreadJoins
<1>2. /\ b \in Ptr(heap) /\ Len(heap[b].data) < TREAP_NODES /\ call[t] \in Calls /\ b \notin Routes(heap)
  BY <1>1 DEF LocalOK, BaseOK, StackOK, BaseJoins
<1>3. InPlace(b) /\ Install(b, Len(heap) + 1, Append(heap, x)) /\ Goto(t, label, l)
  BY DEF Replace, Shared
<1>4. heap[b] \in Node /\ NodeOK(heap, b)
  BY <1>1, <1>2, HeapBasics
<1>5. d \in Seq(Int) /\ Len(d) <= TREAP_NODES /\ stat \in Int
  BY <1>1, <1>2, <1>4, NodeTypes_, NewDataOK, NewStatType
<1>6. heap[b].parent \in Routes(heap) \cup {null} /\ heap[b].parent \in Nat
  BY <1>4, NodeTypes_ DEF NodeOK
<1>7. label \notin OwnerLabels \cup HelperLabels
  BY DEF OwnerLabels, HelperLabels
<1>8. x.otherb = null
  BY DEF Base, NewNode
<1> HIDE DEF label, l, stat, d
<1>9. /\ x \in Node /\ x.type = "normal" /\ x.neigh2 = PREPARING
      /\ x.parent = heap[b].parent /\ x.data = d
  BY <1>5, <1>6, BaseNode
<1> HIDE DEF x
<1>10. HeapOK(Append(heap, x))
  BY <1>1, <1>5, <1>6, <1>9, AddNode
<1>11. ThreadSlots(heap', root', l, label)
  BY <1>7, NoSlotsYet
<1> HIDE DEF b
<1> QED BY <1>2, <1>3, <1>8, <1>9, <1>10, <1>11, BasePutSlots

LEMMA CopyBaseSlots ==
    ASSUME SInv, JInv', NEW t \in Threads, CopyBase(t)
    PROVE  SlotsAreKept'
<1> DEFINE b == loc[t].base
           x == heap[b]
<1>1. PICK label, l : /\ Goto(t, label, l) /\ label \in {"return", "next"}
                      /\ InPlace(b) /\ Install(b, Len(heap) + 1, Append(heap, x))
  BY DEF CopyBase, Shared
<1>2. /\ b \in Ptr(heap) /\ HeapOK(heap) /\ b \notin Routes(heap) /\ HeapSlots(heap, root)
      /\ x.type = "join_main" => x.neigh2 = ABORTED
  BY SlotsState DEF CopyBase, LocalOK, BaseOK, ThreadJoins, BaseJoins
<1>3. x \in Node /\ HeapOK(Append(heap, x)) /\ x.type /= "route"
  <2>1. x \in Node /\ NodeOK(heap, b) /\ x.type /= "route"
    BY <1>2, HeapBasics DEF Routes
  <2> QED BY <1>2, <2>1, AddNode DEF NodeOK, JoinOK
<1>4. x.type = "normal" => x.otherb = null
  BY <1>2 DEF HeapSlots
<1>5. ThreadSlots(heap', root', l, label)
  BY <1>1, NoSlotsYet DEF OwnerLabels, HelperLabels
<1> HIDE DEF b
<1> QED BY <1>1, <1>2, <1>3, <1>4, <1>5, BasePutSlots

LEMMA LockNeighborSlots ==
    ASSUME SInv, JInv', NEW t \in Threads, LockNeighbor(t)
    PROVE  SlotsAreKept'
<1> DEFINE n0 == loc[t].cur
           m == loc[t].m
           n1 == Len(heap) + 1
           x == [heap[n0] EXCEPT !.type = "join_neighbor", !.main_node = m]
           l == [loc[t] EXCEPT !.n1 = n1]
<1>1. pc[t] = "lockNeighbor" /\ pc[t] \in OwnerLabels
  BY DEF LockNeighbor, OwnerLabels
<1>2. /\ HeapOK(heap) /\ m \in Ptr(heap) /\ heap[m].type = "join_main"
      /\ loc[t] \in Locals /\ LocalOK(heap, loc[t], pc[t], call[t]) /\ m \in Nat
      /\ BaseJoins(heap, loc[t], pc[t]) /\ ThreadSlots(heap, root, loc[t], pc[t])
  BY <1>1, SlotsState, OwnerState, HeapBasics DEF ThreadJoins
<1>3. n0 \in Ptr(heap) /\ n0 \notin Routes(heap) /\ (heap[m].otherb = null \/ heap[m].neigh2 = ABORTED)
  BY <1>1, <1>2 DEF LocalOK, CurOK, BaseJoins, ThreadSlots
<1>4. CASE InPlace(n0) /\ Install(n0, n1, Append(heap, x)) /\ Goto(t, "lockParent", l)
  <2>1. heap[n0] \in Node /\ NodeOK(heap, n0)
    BY <1>2, <1>3, HeapBasics
  <2>2. l.m = m /\ l.n1 = n1
    BY <1>2 DEF Locals
  <2> HIDE DEF m, l, n0
  <2>3. /\ x \in Node /\ x.type = "join_neighbor" /\ x.main_node = m
        /\ x.data = heap[n0].data /\ x.parent = heap[n0].parent
    BY <1>2, <2>1 DEF Node, NodeTypes
  <2> HIDE DEF x
  <2>4. HeapOK(Append(heap, x))
    <3>1. Len(x.data) <= TREAP_NODES /\ x.parent \in Routes(heap) \cup {null}
      BY <2>1, <2>3 DEF NodeOK
    <3> QED BY <1>2, <2>3, <3>1, AddNode
  <2> HIDE DEF n1
  <2>5. SameButSlots(x, heap'[n1]) /\ (\A n \in Ptr(heap) : SameButSlots(heap[n], heap'[n])) =>
            ThreadSlots(heap', root', l, "lockParent")
    BY <1>2, <1>3, <2>2, <2>3 DEF ThreadSlots, SameButSlots, OwnerLabels, HelperLabels
  <2>6. /\ Goto(t, "lockParent", l) /\ InPlace(n0) /\ Install(n0, Len(heap) + 1, Append(heap, x))
        /\ x.type /= "route" /\ x.type /= "normal" /\ x.type /= "join_main"
    BY <1>4, <2>3 DEF n1
  <2>7. SameButSlots(x, heap'[Len(heap) + 1]) /\ (\A n \in Ptr(heap) : SameButSlots(heap[n], heap'[n])) =>
            ThreadSlots(heap', root', l, "lockParent")
    BY <2>5 DEF n1
  <2> QED BY <1>3, <2>3, <2>4, <2>6, <2>7, BasePutSlots
<1>5. CASE heap' = heap /\ root' = root /\ Goto(t, "undoMain", loc[t])
  <2>1. ThreadSlots(heap, root, loc[t], "undoMain")
    BY <1>3 DEF ThreadSlots, OwnerLabels, HelperLabels
  <2> QED BY <1>5, <2>1, SameSlotsStep
<1> QED BY <1>4, <1>5 DEF LockNeighbor, Shared

(* A new join has not read anything, since its base had not.               *)
LEMMA LockMainSlots ==
    ASSUME SInv, JInv', NEW t \in Threads, LockMain(t)
    PROVE  SlotsAreKept'
<1> DEFINE b == loc[t].base
           p == heap[b].parent
           m == Len(heap) + 1
           side == loc[t].side
           x == [heap[b] EXCEPT !.type = "join_main"]
           g == Append(heap, x)
           l == [loc[t] EXCEPT !.m = m]
<1>1. /\ pc[t] = "lockMain" /\ loc[t] \in Locals /\ LocalOK(heap, loc[t], "lockMain", call[t])
      /\ HeapOK(heap) /\ HeapJoins(heap, root) /\ root \in Ptr(heap) /\ root' = root
      /\ HeapSlots(heap, root)
  BY SlotsState DEF LockMain
<1>2. b \in Ptr(heap) /\ heap[b].type = "normal" /\ p /= null /\ heap[b].otherb = null
  BY <1>1 DEF LocalOK, BaseOK, HeapSlots
<1>3. /\ heap[b] \in Node /\ NodeOK(heap, b) /\ side \in Sides
      /\ p \in Routes(heap) /\ p \in Ptr(heap)
  <2>1. heap[b] \in Node /\ NodeOK(heap, b) /\ side \in Sides
    BY <1>1, <1>2, HeapBasics DEF Locals, Sides
  <2>2. p \in Routes(heap)
    BY <1>2, <2>1 DEF NodeOK
  <2> QED BY <2>1, <2>2, NullIsNoNode
<1>4. CASE Child(p, side) = b /\ heap' = SetChild(g, p, side, m) /\ Goto(t, "lockNeighbor", l)
  <2>1. /\ x \in Node /\ x.type = "join_main" /\ x.neigh2 = PREPARING /\ x.otherb = null
        /\ x.data = heap[b].data /\ x.parent = p
    BY <1>2, <1>3 DEF Node, NodeTypes, NodeOK
  <2>2. Len(heap[b].data) <= TREAP_NODES /\ PREPARING \in Unpublished
    BY <1>3 DEF NodeOK, Unpublished
  <2>3. l.m = m
    BY <1>1 DEF Locals
  <2> HIDE DEF x, p, l, side, b
  <2>4. HeapOK(g) /\ Adds(heap, x, g)
    BY <1>1, <1>2, <1>3, <2>1, <2>2, AddNode, AppendAdds
  <2> HIDE DEF g
  <2>5. \A j \in Ptr(heap) : g[j] = heap[j] /\ j \in Ptr(g)
    BY <1>1, <2>4, HeapBasics DEF Adds
  <2>6. Side(g, p, side) = b
    BY <1>3, <1>4, <2>5 DEF Side, Child
  <2>7. Puts(g, root, heap', root', heap[b].parent, side, b, Len(heap) + 1)
    <3> HIDE DEF m
    <3>1. Puts(g, root, SetChild(g, p, side, m), root, p, side, Side(g, p, side), m)
      BY <1>3, <2>4, <2>5, ChildPuts
    <3> QED BY <1>1, <1>4, <2>6, <3>1 DEF p, m
  <2>8. b \notin Routes(heap)
    BY <1>2 DEF Routes
  <2>9. HeapOK(heap') /\ HeapJoins(heap', root') /\ root' \in Ptr(heap')
    BY SlotsNext
  <2>10. x.parent = heap[b].parent /\ x.type /= "route" /\ x.type /= "normal"
    BY <2>1 DEF p
  <2>11. /\ KeepsSlots(heap, root, heap', root', null, heap[b].parent, Len(heap) + 1)
         /\ SameButSlots(x, heap'[Len(heap) + 1])
    BY <1>1, <1>2, <1>3, <2>1, <2>2, <2>4, <2>7, <2>8, <2>9, <2>10, FreshBaseKeeps
  <2>12. ThreadSlots(heap', root', l, "lockNeighbor")
    <3>1. heap'[m].otherb = null
      BY <2>1, <2>11 DEF SameButSlots, m
    <3> QED BY <2>3, <3>1 DEF ThreadSlots, OwnerLabels, HelperLabels
  <2>13. Goto(t, "lockNeighbor", l)
    BY <1>4
  <2> HIDE DEF m
  <2> QED BY <2>11, <2>12, <2>13, KeepsStep
<1>5. CASE heap' = heap /\ Goto(t, "return", loc[t])
  BY <1>1, <1>5, NoSlotsYet, SameSlotsStep DEF OwnerLabels, HelperLabels
<1> QED BY <1>4, <1>5 DEF LockMain, Shared

(* A split adds a route with two bases that have no other place.           *)
LEMMA SplitSlots ==
    ASSUME SInv, JInv', NEW t \in Threads, Split(t)
    PROVE  SlotsAreKept'
<1> DEFINE b == loc[t].base
           r == Len(heap) + 1
           p == heap[b].parent
           g == SplitNodes(b)
<1>1. /\ pc[t] = "split" /\ loc[t] \in Locals /\ LocalOK(heap, loc[t], "split", call[t])
      /\ HeapOK(heap) /\ HeapJoins(heap, root) /\ root \in Ptr(heap) /\ HeapSlots(heap, root)
      /\ BaseJoins(heap, loc[t], "split") /\ Goto(t, loc[t].then, loc[t])
  BY SlotsState DEF Split, ThreadJoins, Shared
<1>2. b \in Ptr(heap) /\ b \notin Routes(heap)
  BY <1>1 DEF LocalOK, BaseOK, BaseJoins
<1>3. p < b /\ p \in Routes(heap) \cup {null} /\ p \in Nat /\ b \in Nat
  BY <1>1, <1>2, HeapBasics DEF HeapJoins, YoungerBelow, NodeOK, Node
<1>4. ThreadSlots(heap', root', loc[t], loc[t].then)
  BY <1>1, ThenHasNoSlots
<1>5. CASE Len(heap[b].data) >= 2 /\ InPlace(b) /\ Install(b, r, g)
  <2>1. HeapOK(g) /\ Extends(heap, g) /\ AddsSplit(heap, g)
    BY <1>1, <1>2, <1>5, SplitNodesOK
  <2>2. g[r + 1].otherb = null /\ g[r + 2].otherb = null
    BY <1>1, HeapBasics DEF SplitNodes, Base, NewNode
  <2> HIDE DEF g, b, p
  <2>3. /\ \A j \in Ptr(heap) : g[j] = heap[j] /\ j < r
        /\ Len(heap) <= Len(g) /\ r \notin Ptr(heap) /\ r + 1 \notin Ptr(heap) /\ r + 2 \notin Ptr(heap)
        /\ r \in Nat
        /\ Ptr(g) = Ptr(heap) \cup {r, r + 1, r + 2}
    <3>1. Len(heap) \in Nat
      BY <1>1, HeapBasics
    <3> QED BY <2>1, <3>1 DEF Extends, AddsSplit, Ptr
  <2>4. /\ g[r].type = "route" /\ g[r].left = r + 1 /\ g[r].right = r + 2 /\ g[r].parent = null
        /\ g[r + 1].type = "normal" /\ g[r + 1].parent = r
        /\ g[r + 2].type = "normal" /\ g[r + 2].parent = r
    BY <2>1 DEF AddsSplit
  <2> HIDE DEF r
  <2>5. PICK side \in Sides : Puts(g, root, heap', root', p, side, b, r)
    <3>1. Grows(heap, g)
      BY <2>3, <2>4 DEF Grows
    <3> QED BY <1>1, <1>2, <1>5, <2>1, <3>1, InstallPuts DEF p
  <2>6. Harmless(heap, r) /\ p < r /\ Grows(heap, g)
    <3>1. p < r
      BY <1>2, <1>3, <2>3
    <3>2. Grows(heap, g)
      BY <2>3, <2>4 DEF Grows
    <3> QED BY <2>3, <3>1, <3>2, NullIsNoNode DEF Harmless
  <2>7. HeapOK(heap') /\ HeapJoins(heap', root') /\ root' \in Ptr(heap')
    BY SlotsNext
  <2>8. BasePut(heap, root, g, heap', root', p, side, b, r)
    BY <1>1, <1>2, <1>3, <2>1, <2>5, <2>6, <2>7 DEF BasePut
  <2>9. Routes(g) \ Ptr(heap) = {r} /\ r \in Routes(g) /\ r \in Ptr(g)
    BY <2>3, <2>4 DEF Routes
  <2>10. ASSUME NEW z \in Sides
         PROVE  /\ Side(g, r, z) \notin Ptr(heap) /\ Side(g, r, z) /= r
                /\ Side(g, r, z) \notin Routes(g) /\ g[Side(g, r, z)].parent = r
                /\ \A y \in Sides : Side(g, r, y) = Side(g, r, z) => y = z
    <3>1. r + 1 /= r /\ r + 2 /= r /\ r + 1 /= r + 2
      BY <2>3
    <3> QED BY <2>3, <2>4, <3>1 DEF Side, Sides, Routes
  <2>11. NewNodes(heap, g)
    <3>1. \A n \in Ptr(g) \ Ptr(heap) : n \in {r, r + 1, r + 2}
      BY <2>3
    <3> QED BY <2>2, <2>4, <3>1 DEF NewNodes, r
  <2>12. \A s \in Routes(g) \ Ptr(heap), z \in Sides :
            /\ Side(g, s, z) \notin Ptr(heap) /\ Side(g, s, z) /= r
            /\ Side(g, s, z) \notin Routes(g) /\ g[Side(g, s, z)].parent = s
            /\ \A u \in Routes(g) \ Ptr(heap), y \in Sides : Side(g, u, y) = Side(g, s, z) => u = s /\ y = z
    BY <2>9, <2>10
  <2>13. KeepsSlots(heap, root, heap', root', null, p, r)
    BY <1>1, <2>3, <2>7, <2>8, <2>9, <2>11, <2>12, FreshPutKeeps
  <2> QED BY <1>1, <1>4, <2>13, KeepsStep
<1>6. CASE heap' = heap /\ root' = root
  <2>1. ThreadSlots(heap, root, loc[t], loc[t].then)
    BY <1>1, ThenHasNoSlots
  <2> QED BY <1>1, <1>6, <2>1, SameSlotsStep
<1> QED BY <1>5, <1>6 DEF Split

-----------------------------------------------------------------------------
(* The merged node takes the place of the neighbour                        *)

LEMMA ClaimedNeighbor ==
    ASSUME NEW h, NEW rt, HeapOK(h), HeapJoins(h, rt), HeapSlots(h, rt),
           NEW m \in Committed(h), h[m].neigh2 /= DONE, ~IsCut(h, rt, m), h[m].otherb = h[m].neigh1,
           LET q == h[h[m].neigh1].parent IN q = null \/ Attached(h, rt, q)
    PROVE  h[h[m].neigh1].parent = h[m].parent
<1> DEFINE n1 == h[m].neigh1
           p == h[m].parent
<1>1. /\ m \in Ptr(h) /\ h[m].type = "join_main" /\ n1 \in Ptr(h) /\ p \in Routes(h)
      /\ h[m].otherb \in Ptr(h)
  BY CommittedRoutes
<1>2. h[n1].type = "join_neighbor" /\ n1 < h[m].neigh2
  BY DEF HeapJoins, JoinLocks
<1>3. m \in Claimants(h, rt)
  BY <1>1, NullIsNoNode DEF Claimants
<1>4. n1 \notin Routes(h)
  BY <1>2 DEF Routes
<1>5. Knows(h, rt, p, n1)
  BY <1>3, <1>4 DEF HeapSlots, Claims
<1>6. ~Detached(h, rt, h[n1].parent)
  BY NullIsNoNode DEF Detached
<1>7. ASSUME NEW k \in Committed(h), h[k].neigh2 = n1 PROVE FALSE
  <2>1. n1 /= DONE /\ n1 \in Nat
    BY <1>1, HeapBasics DEF DONE, Ptr
  <2>2. Merges(h, k) /\ Merges(h, m)
    BY DEF HeapSlots
  <2>3. h[n1].main_node = k /\ h[n1].main_node = m
    BY <1>7, <2>1, <2>2 DEF Merges
  <2> QED BY <1>2, <1>7, <2>1, <2>3
<1> QED BY <1>5, <1>6, <1>7 DEF Knows

LEMMA MergeKeeps ==
    ASSUME NEW h, NEW rt, NEW f, NEW rt2, NEW q, NEW side, NEW n1, NEW n2,
           BasePut(h, rt, h, f, rt2, q, side, n1, n2),
           HeapJoins(h, rt), HeapJoins(f, rt2), rt \in Ptr(h), rt2 \in Ptr(f), HeapSlots(h, rt),
           NEW m \in Committed(h), n1 = h[m].neigh1, q = h[n1].parent,
           n2 \in Ptr(h), n2 \notin Routes(h), n1 < n2, h[m].neigh2 \in {n2, DONE}
    PROVE  /\ \E to, c : KeepsSlots(h, rt, f, rt2, null, to, c)
           /\ ~Placed(f, rt2, n1) /\ SameButSlots(h[m], f[m])
<1>1. /\ HeapOK(h) /\ HeapOK(f) /\ Grows(h, h) /\ q \in Routes(h) \cup {null}
      /\ side \in Sides /\ Puts(h, rt, f, rt2, q, side, n1, n2)
  BY DEF BasePut
<1>2. /\ Calm(h, rt, f, rt2) /\ Committed(f) = Committed(h)
      /\ Ptr(f) = Ptr(h) /\ Routes(f) = Routes(h) /\ Routes(h) \subseteq Ptr(h)
      /\ null \notin Ptr(h) /\ null \notin Routes(h)
  BY PutCalm, NullIsNoNode DEF CalmPut
<1>3. /\ \A n \in Ptr(h) : SameButSlots(h[n], f[n])
      /\ Len(f) = Len(h) /\ Len(h) \in Nat
  BY <1>1, HeapBasics DEF Puts
<1>4. \A r \in Routes(h), z \in Sides :
        Side(f, r, z) = IF r = q /\ z = side THEN n2 ELSE Side(h, r, z)
  BY <1>1, <1>2 DEF Puts
<1>5. /\ IF q = null THEN rt2 = n2 /\ rt = n1 ELSE rt2 = rt /\ Side(h, q, side) = n1
      /\ q /= null => Side(f, q, side) = n2
  BY <1>1, <1>4 DEF Puts
<1>6. /\ m \in Ptr(h) /\ n1 \in Ptr(h) /\ n1 /= n2 /\ h[m].parent \in Routes(h)
      /\ n1 \in Nat /\ n2 \in Nat
  <2>1. m \in Ptr(h) /\ n1 \in Ptr(h) /\ h[m].parent \in Routes(h)
    BY <1>1, CommittedRoutes
  <2>2. n1 \in Nat /\ n2 \in Nat
    BY <1>1, <2>1, HeapBasics
  <2> QED BY <2>1, <2>2
<1>7. \A r \in Routes(h) : Attached(f, rt2, r) <=> Attached(h, rt, r)
  BY <1>1, <1>2, CalmAttached
<1>8. SameNodes(h, rt, f, null) /\ NewNodes(h, f)
  <2>1. null \notin Committed(h)
    BY <1>2 DEF Committed
  <2> QED BY <1>2, <1>3, <2>1 DEF SameNodes, NewNodes, SameButSlots
<1>9. CutsLate(h, rt, f, rt2)
  BY <1>1, <1>2, CalmAttached DEF CutsLate
<1>10. NewSlots(h, f, rt2)
  BY <1>1, <1>2, SidesOK DEF NewSlots
<1>11. ChangeOK(h, rt, f, rt2, null)
  BY <1>2 DEF ChangeOK, Committed, Claimants
<1>12. f[n1].parent = q /\ SameButSlots(h[m], f[m])
  BY <1>3, <1>6 DEF SameButSlots
<1>13. CASE q /= null /\ ~Attached(h, rt, q)
  <2>1. Shifts(h, rt, f, rt2, null, null)
    BY <1>2, <1>4, <1>5, <1>13 DEF Shifts
  <2>2. PutOnce(h, rt, f, rt2, null, null)
    BY <1>2 DEF PutOnce
  <2>3. Stays(h, rt, f, rt2, null, null, null)
    BY <1>1, <1>8, <2>1 DEF Stays
  <2>4. KeepsSlots(h, rt, f, rt2, null, null, null)
    BY <1>9, <1>10, <1>11, <2>2, <2>3 DEF KeepsSlots
  <2>5. ~Placed(f, rt2, n1)
    BY <1>1, <1>7, <1>12, <1>13 DEF Placed
  <2> QED BY <1>12, <2>4, <2>5
<1>14. CASE q = null \/ Attached(h, rt, q)
  <2>1. Placed(h, rt, n1)
    BY <1>1, <1>5, <1>14 DEF Placed
  <2>2. /\ ~IsCut(h, rt, m) /\ h[m].neigh2 /= DONE /\ h[m].neigh2 = n2
        /\ ~Elsewhere(h, rt, null, n2)
        /\ \A k \in Claimants(h, rt) : k /= m => Replacement(h, k) /= n2
    BY <2>1 DEF HeapSlots, Unmerged
  <2>3. h[m].otherb = n1 => q = h[m].parent
    BY <1>1, <1>14, <2>2, ClaimedNeighbor
  <2>4. /\ h[n1].main_node = m /\ n2 /= h[m].otherb /\ h[n2].main_node = m
        /\ h[n2].parent = IF h[m].otherb = n1 THEN h[m].gparent ELSE q
    BY <2>2 DEF HeapSlots, Merges
  <2>5. rt /= n2 /\ \A r \in Routes(h), z \in Sides : Attached(h, rt, r) => Side(h, r, z) /= n2
    BY <1>2, <2>2 DEF Elsewhere
  <2>6. ~Placed(f, rt2, n1)
    <3>1. CASE q = null
      BY <1>5, <1>6, <1>12, <3>1 DEF Placed
    <3>2. CASE q /= null
      <4>1. q \in Routes(h) /\ Attached(h, rt, q) /\ Side(h, q, side) = n1
        BY <1>1, <1>5, <1>14, <3>2
      <4>2. \A y \in Sides : Side(h, q, y) = n1 => y = side
        BY <1>1, <4>1 DEF HeapSlots, OneSlotEach
      <4>3. \A y \in Sides : Side(f, q, y) /= n1
        BY <1>4, <1>6, <4>1, <4>2
      <4> QED BY <1>12, <3>2, <4>3 DEF Placed
    <3> QED BY <3>1, <3>2
  <2>7. Shifts(h, rt, f, rt2, q, n2)
    BY <1>2, <1>4, <1>5 DEF Shifts
  <2>8. Stays(h, rt, f, rt2, null, q, n2)
    BY <1>1, <1>8, <2>7 DEF Stays
  <2>9. ASSUME NEW r \in Routes(h), NEW x \in Sides, Attached(f, rt2, r), Side(f, r, x) = n2
        PROVE  r = q /\ x = side
    BY <1>4, <1>7, <2>5, <2>9
  <2>10. rt2 = n2 => q = null
    BY <1>5, <2>5
  <2>11. rt2 = n2 => h[n2].parent = null
    <3>1. rt2 = n2 => h[m].otherb /= n1
      BY <1>2, <1>6, <2>3, <2>10
    <3> QED BY <2>4, <2>10, <3>1
  <2>12. q /= null => Knows(f, rt2, q, n2)
    <3>1. f[n2].parent = h[n2].parent /\ f[m].neigh2 = n2 /\ f[m].parent = h[m].parent /\ m \in Committed(f)
      BY <1>2, <1>3, <1>6, <2>2 DEF SameButSlots
    <3> QED BY <2>3, <2>4, <3>1 DEF Knows
  <2>13. ASSUME NEW k \in Committed(h), n2 \in {h[k].neigh1, h[k].neigh2}
         PROVE  ~Placed(f, rt2, h[k].neigh1)
    <3>1. Merges(h, k)
      BY DEF HeapSlots
    <3>2. n2 /= DONE
      BY <2>2
    <3>3. h[n2].main_node = k
      BY <2>13, <3>1, <3>2 DEF Merges
    <3> QED BY <2>4, <2>6, <3>3
  <2>14. ASSUME NEW k \in Claimants(f, rt2), Replacement(f, k) = n2
         PROVE  q = f[k].parent
    <3>1. k /= null
      BY <1>2 DEF Claimants
    <3>2. k \in Claimants(h, rt) /\ Replacement(h, k) = n2 /\ f[k].parent = h[k].parent
      BY <2>8, <2>14, <3>1, StaysClaimants
    <3>3. k = m
      BY <2>2, <3>2
    <3>4. h[m].otherb = n1
      BY <2>4, <3>2, <3>3 DEF Replacement
    <3> QED BY <2>3, <3>2, <3>3, <3>4
  <2>15. PutOnce(h, rt, f, rt2, q, n2)
    BY <2>9, <2>10, <2>11, <2>12, <2>13, <2>14 DEF PutOnce
  <2>16. KeepsSlots(h, rt, f, rt2, null, q, n2)
    BY <1>9, <1>10, <1>11, <2>8, <2>15 DEF KeepsSlots
  <2> QED BY <1>12, <2>6, <2>16
<1> QED BY <1>13, <1>14

LEMMA ReplaceNeighborSlots ==
    ASSUME SInv, JInv', NEW t \in Threads, ReplaceNeighbor(t)
    PROVE  SlotsAreKept'
<1> DEFINE m == loc[t].m
           n1 == heap[m].neigh1
           n2 == loc[t].n2
           p == heap[n1].parent
<1>1. pc[t] = "replaceNeighbor" /\ pc[t] \in HelperLabels \ {"load"} /\ Goto(t, "invalidate", loc[t])
  BY DEF ReplaceNeighbor, HelperLabels, Shared
<1>2. /\ HeapOK(heap) /\ HeapJoins(heap, root) /\ m \in Committed(heap) /\ m \in Ptr(heap)
      /\ n2 \in Ptr(heap) /\ heap[n2].type = "join_neighbor" /\ n1 < n2
      /\ JoinLocks(heap, root, m)
  BY <1>1, SlotsState, HelperState DEF HelperJoins, HelperLabels
<1>3. n1 \in Ptr(heap) /\ heap[n1].type = "join_neighbor" /\ n1 \notin Routes(heap)
  BY <1>2, CommittedRoutes DEF JoinLocks, Routes
<1>4. /\ p < n1 /\ p \in Routes(heap) \cup {null} /\ p \in Nat /\ n1 \in Nat /\ n2 \in Nat
      /\ root \in Ptr(heap) /\ HeapSlots(heap, root) /\ heap[m].neigh2 \in {n2, DONE}
  <2>1. p < n1 /\ p \in Routes(heap) \cup {null} /\ p \in Nat /\ n1 \in Nat /\ n2 \in Nat
    BY <1>2, <1>3, HeapBasics DEF HeapJoins, YoungerBelow, NodeOK, Node
  <2>2. root \in Ptr(heap) /\ HeapSlots(heap, root) /\ ThreadSlots(heap, root, loc[t], pc[t])
    BY SlotsState
  <2> QED BY <1>1, <2>1, <2>2 DEF ThreadSlots
<1> HIDE DEF m, n1, n2, p
<1>5. CASE InPlace(n1) /\ Install(n1, n2, heap)
  <2>1. PICK side \in Sides : Puts(heap, root, heap', root', p, side, n1, n2)
    <3>1. Grows(heap, heap)
      BY <1>2, HeapBasics DEF Grows
    <3> QED BY <1>2, <1>3, <1>5, <3>1, InstallPuts DEF p
  <2>2. Harmless(heap, n2) /\ p < n2 /\ Grows(heap, heap) /\ n2 \notin Routes(heap)
    BY <1>2, <1>4, HeapBasics DEF Harmless, Routes, Grows
  <2>3. HeapOK(heap') /\ HeapJoins(heap', root') /\ root' \in Ptr(heap')
    BY SlotsNext
  <2>4. BasePut(heap, root, heap, heap', root', p, side, n1, n2)
    BY <1>2, <1>3, <1>4, <2>1, <2>2, <2>3 DEF BasePut
  <2>5. /\ \E to, c : KeepsSlots(heap, root, heap', root', null, to, c)
        /\ ~Placed(heap', root', n1) /\ SameButSlots(heap[m], heap'[m])
    BY <1>2, <1>4, <2>2, <2>3, <2>4, MergeKeeps DEF n1, p
  <2>6. ThreadSlots(heap', root', loc[t], "invalidate")
    BY <1>4, <2>5 DEF ThreadSlots, SameButSlots, OwnerLabels, m, n1, n2
  <2> QED BY <1>1, <2>5, <2>6, KeepsStep
<1>6. CASE heap' = heap /\ root' = root /\ ~InPlace(n1)
  <2>1. ~Placed(heap, root, n1)
    BY <1>6 DEF Placed, InPlace, Sides, Side
  <2>2. ThreadSlots(heap, root, loc[t], "invalidate")
    BY <1>4, <2>1 DEF ThreadSlots, OwnerLabels, m, n1, n2
  <2> QED BY <1>1, <1>6, <2>2, SameSlotsStep
<1> QED BY <1>5, <1>6 DEF ReplaceNeighbor, n1, n2, m

-----------------------------------------------------------------------------
(* What replaces a route takes its place                                   *)

(* If it is a base, its parent field says so, or leads nowhere.            *)
LEMMA ClaimedBase ==
    ASSUME NEW h, NEW rt, HeapOK(h), HeapJoins(h, rt), HeapSlots(h, rt),
           NEW m \in Committed(h), ~IsCut(h, rt, m), Replacement(h, m) \notin Routes(h)
    PROVE  LET x == Replacement(h, m)
           IN  IF h[m].otherb = h[m].neigh1 THEN h[x].parent = h[m].gparent /\ h[x].main_node = m
               ELSE h[x].parent = h[m].parent \/ Detached(h, rt, h[x].parent)
<1> DEFINE p == h[m].parent
           x == Replacement(h, m)
<1>1. /\ m \in Ptr(h) /\ h[m].type = "join_main" /\ p \in Routes(h) /\ h[m].otherb \in Ptr(h)
  BY CommittedRoutes
<1>2. h[m].neigh2 /= DONE /\ h[p].join_id = m
  BY DEF HeapJoins, JoinLocks
<1>3. Merges(h, m)
  BY DEF HeapSlots
<1>4. CASE h[m].otherb = h[m].neigh1
  BY <1>2, <1>3, <1>4 DEF Replacement, Merges
<1>5. CASE h[m].otherb /= h[m].neigh1
  <2>1. m \in Claimants(h, rt)
    BY <1>1, NullIsNoNode DEF Claimants
  <2>2. x = h[m].otherb
    BY <1>5 DEF Replacement
  <2>3. Knows(h, rt, p, x)
    BY <2>1, <2>2 DEF HeapSlots, Claims
  <2>4. ASSUME NEW k \in Committed(h), h[k].neigh2 = x, h[k].parent = p PROVE FALSE
    <3>1. k = m
      BY <1>2, <2>4 DEF HeapJoins, JoinLocks
    <3> QED BY <1>2, <1>3, <2>2, <2>4, <3>1 DEF Merges
  <2> QED BY <1>5, <2>3, <2>4 DEF Knows
<1> QED BY <1>4, <1>5

LEMMA SpliceKeeps ==
    ASSUME NEW h, NEW rt, NEW f, NEW rt2, NEW m, NEW p, NEW g, NEW x, NEW side,
           CutsOut(h, rt, f, rt2, m, p, g, x, side), x = Replacement(h, m),
           HeapJoins(f, rt2), rt \in Ptr(h), rt2 \in Ptr(f), HeapSlots(h, rt),
           ~Placed(h, rt, h[m].neigh1)
    PROVE  KeepsSlots(h, rt, f, rt2, null, g, x)
<1>1. /\ HeapOK(h) /\ HeapOK(f) /\ HeapJoins(h, rt) /\ m \in Committed(h) /\ ~IsCut(h, rt, m)
      /\ h[m].parent = p /\ h[m].gparent = g /\ x \in Ptr(h) /\ side \in Sides /\ Len(f) = Len(h)
  BY DEF CutsOut, Puts
<1>2. /\ p \in Routes(h) /\ g \in Routes(h) \cup {null}
      /\ Ptr(f) = Ptr(h) /\ Routes(f) = Routes(h) /\ Committed(f) = Committed(h)
      /\ \A n \in Ptr(h) : SameButSlots(h[n], f[n])
      /\ g = null => rt = p /\ rt2 = x
      /\ g /= null => rt2 = rt /\ Side(f, g, side) = x
      /\ \A r \in Routes(h), z \in Sides :
            Side(f, r, z) = Side(h, r, z) \/ (r = g /\ z = side)
  BY CutShaped DEF CutShape
<1>3. /\ \A r \in Routes(h) : Attached(f, rt2, r) <=> Attached(h, rt, r) /\ r /= p
      /\ IsCut(f, rt2, m)
      /\ \A n \in Committed(h) : n /= m => (IsCut(f, rt2, n) <=> IsCut(h, rt, n))
      /\ x \in Routes(h) => Attached(h, rt, x)
  BY CutDone DEF CutResult
<1>4. /\ m \in Ptr(h) /\ h[m].type = "join_main" /\ h[m].otherb \in Ptr(h)
      /\ h[m].neigh2 \notin Unpublished /\ null \notin Ptr(h)
      /\ Routes(h) \subseteq Ptr(h) /\ null \notin Routes(h)
  BY <1>1, CommittedRoutes, NullIsNoNode
<1>5. m \in Claimants(h, rt)
  BY <1>1, <1>4 DEF Claimants
<1>6. /\ ~Elsewhere(h, rt, p, x)
      /\ \A k \in Claimants(h, rt) : k /= m => Replacement(h, k) /= x
  BY <1>1, <1>5 DEF HeapSlots, Claims
<1>7. h[m].neigh2 /= DONE /\ h[m].neigh1 < h[m].neigh2 /\ h[m].neigh2 \in Nat /\ h[m].neigh1 \in Nat
  <2>1. h[m].neigh2 /= DONE /\ h[m].neigh1 < h[m].neigh2
    BY <1>1 DEF HeapJoins, JoinLocks
  <2>2. h[m].neigh2 \in Ptr(h) /\ h[m].neigh1 \in Ptr(h)
    BY <1>1, <2>1, CommittedRoutes
  <2> QED BY <1>1, <2>1, <2>2, HeapBasics
<1>8. x /= h[m].neigh1
  BY <1>7 DEF Replacement
<1>9. SameNodes(h, rt, f, null) /\ NewNodes(h, f)
  <2>1. null \notin Committed(h)
    BY <1>4 DEF Committed
  <2>2. Len(h) <= Len(f)
    BY <1>1, HeapBasics
  <2> QED BY <1>2, <1>4, <2>1, <2>2 DEF SameNodes, NewNodes, SameButSlots
<1>10. Shifts(h, rt, f, rt2, g, x)
  BY <1>2, <1>3, <1>4 DEF Shifts
<1>11. Stays(h, rt, f, rt2, null, g, x)
  BY <1>1, <1>9, <1>10 DEF Stays
<1>12. NewSlots(h, f, rt2) /\ ChangeOK(h, rt, f, rt2, null)
  BY <1>1, <1>2, <1>4, SidesOK DEF NewSlots, ChangeOK, Committed, Claimants
<1>13. CutsLate(h, rt, f, rt2)
  BY <1>3 DEF CutsLate
<1>14. \A r \in Routes(h), z \in Sides : Attached(f, rt2, r) /\ Side(f, r, z) = x => r = g /\ z = side
  BY <1>2, <1>3, <1>6 DEF Elsewhere
<1>15. rt2 = x => g = null
  BY <1>2, <1>6 DEF Elsewhere
<1>16. x \notin Routes(h) =>
        IF h[m].otherb = h[m].neigh1 THEN h[x].parent = g /\ h[x].main_node = m
        ELSE Detached(f, rt2, h[x].parent)
  <2>1. Detached(f, rt2, p)
    BY <1>2, <1>3 DEF Detached
  <2>2. \A r : Detached(h, rt, r) => Detached(f, rt2, r)
    BY <1>11, StaysAttached
  <2> QED BY <1>1, <2>1, <2>2, ClaimedBase
<1>17. f[x].parent = h[x].parent
  BY <1>1, <1>2 DEF SameButSlots
<1>18. ASSUME NEW n \in Committed(h), x \in {h[n].neigh1, h[n].neigh2}, Placed(f, rt2, h[n].neigh1)
       PROVE  FALSE
  <2>1. h[n].neigh1 \in Ptr(h) /\ JoinLocks(h, rt, n) /\ Merges(h, n) /\ Unmerged(h, rt, n)
    BY <1>1, CommittedRoutes DEF HeapJoins, HeapSlots
  <2>2. h[n].neigh1 /= x => Placed(h, rt, h[n].neigh1)
    BY <1>11, <2>1, <1>18, StaysSlots
  <2>3. n /= m
    BY <1>8, <2>2
  <2>4. CASE h[n].neigh1 /= x
    BY <1>5, <1>18, <2>1, <2>2, <2>3, <2>4 DEF Unmerged
  <2>5. CASE h[n].neigh1 = x
    <3>1. h[x].main_node = n /\ h[x].type = "join_neighbor"
      BY <2>1, <2>5 DEF Merges, JoinLocks
    <3>2. x \notin Routes(h)
      BY <3>1 DEF Routes
    <3>3. Detached(f, rt2, h[x].parent)
      BY <1>16, <2>3, <3>1, <3>2
    <3> QED BY <1>2, <1>4, <1>17, <1>18, <2>5, <3>3 DEF Placed, Detached
  <2> QED BY <2>4, <2>5
<1>19. ASSUME NEW k \in Claimants(f, rt2), Replacement(f, k) = x PROVE FALSE
  <2>1. k /= null
    BY <1>2, <1>4 DEF Claimants
  <2>2. k \in Claimants(h, rt) /\ Replacement(h, k) = x
    BY <1>11, <1>19, <2>1, StaysClaimants
  <2>3. k = m
    BY <1>6, <2>2
  <2>4. f[m].neigh2 = h[m].neigh2
    BY <1>2, <1>4 DEF SameButSlots
  <2> QED BY <1>3, <1>4, <2>3, <2>4 DEF Claimants, Unpublished
<1>20. PutOnce(h, rt, f, rt2, g, x)
  <2>1. \A r \in Routes(h), z \in Sides : Attached(f, rt2, r) /\ Side(f, r, z) = x =>
            r = g /\ \A y \in Sides : Side(f, r, y) = x => y = z
    BY <1>14
  <2>2. x \notin Routes(h) /\ rt2 = x => h[x].parent = null \/ Detached(f, rt2, h[x].parent)
    BY <1>15, <1>16
  <2>3. x \notin Routes(h) => Knows(f, rt2, g, x)
    BY <1>16, <1>17 DEF Knows
  <2>4. \A n \in Committed(h) : x \in {h[n].neigh1, h[n].neigh2} => ~Placed(f, rt2, h[n].neigh1)
    BY <1>18
  <2> QED BY <1>15, <1>19, <2>1, <2>2, <2>3, <2>4 DEF PutOnce
<1> QED BY <1>11, <1>12, <1>13, <1>20 DEF KeepsSlots

LEMMA SpliceSlots ==
    ASSUME SInv, JInv', NEW t \in Threads, Splice(t)
    PROVE  SlotsAreKept'
<1> DEFINE m == loc[t].m
           p == Parent(t)
           g == heap[m].gparent
           x == IF heap[m].otherb = heap[m].neigh1 THEN loc[t].n2 ELSE heap[m].otherb
           label == IF g = null THEN "done" ELSE "unlock"
           side == IF g = null THEN "left" ELSE loc[t].slot
<1>1. /\ pc[t] = "splice" /\ pc[t] \in HelperLabels /\ Goto(t, label, loc[t])
      /\ ThreadSlots(heap, root, loc[t], "splice") /\ LocalOK(heap, loc[t], "splice", call[t])
      /\ root \in Ptr(heap) /\ HeapSlots(heap, root)
  BY SlotsState DEF Splice, HelperLabels, Shared
<1>2. IF IsCut(heap, root, m) THEN heap' = heap /\ root' = root
      ELSE CutsOut(heap, root, heap', root', m, p, g, x, side)
  BY SlotsNext, SpliceCuts DEF SInv
<1>3. \A h, rt : ThreadSlots(h, rt, loc[t], "splice") => ThreadSlots(h, rt, loc[t], label)
  BY DEF ThreadSlots, OwnerLabels, HelperLabels
<1>4. CASE IsCut(heap, root, m)
  <2> HIDE DEF label
  <2> QED BY <1>1, <1>2, <1>3, <1>4, SameSlotsStep
<1>5. CASE ~IsCut(heap, root, m)
  <2>1. HeapOK(heap') /\ HeapJoins(heap', root') /\ root' \in Ptr(heap')
    BY SlotsNext
  <2>2. heap[m].neigh2 = loc[t].n2 /\ ~Placed(heap, root, heap[m].neigh1)
    <3>1. m \in Committed(heap) /\ HeapJoins(heap, root)
      BY <1>2, <1>5 DEF CutsOut
    <3>2. heap[m].neigh2 /= DONE
      BY <1>5, <3>1 DEF HeapJoins, JoinLocks
    <3> QED BY <1>1, <3>2 DEF ThreadSlots, HelperLabels
  <2>3. x = Replacement(heap, m)
    BY <2>2 DEF Replacement
  <2> HIDE DEF m, p, g, x, side, label
  <2>4. KeepsSlots(heap, root, heap', root', null, g, x)
    BY <1>1, <1>2, <1>5, <2>1, <2>2, <2>3, SpliceKeeps
  <2>5. ThreadSlots(heap', root', loc[t], "splice")
    <3>1. "splice" \notin OwnerLabels
      BY DEF OwnerLabels
    <3> QED BY <1>1, <2>4, <3>1, KeepsThread
  <2>6. ThreadSlots(heap', root', loc[t], label)
    BY <1>3, <2>5
  <2> QED BY <1>1, <2>4, <2>6, KeepsStep
<1> QED BY <1>4, <1>5

-----------------------------------------------------------------------------
(* The invariant                                                           *)

LEMMA SlotsInit == Init => SInv
<1> SUFFICES ASSUME Init PROVE SInv
  OBVIOUS
<1>1. JInv
  BY JoinsInit
<1> DEFINE empty == <<>>
           b == Base(null, empty, 0)
<1>2. empty \in Seq(Int) /\ 0 \in Int /\ null \in Nat
  BY EmptySeq DEF null
<1>3. b.otherb = null
  BY DEF Base, NewNode
<1> HIDE DEF empty
<1>4. b \in Node /\ b.type = "normal" /\ b.parent = null
  BY <1>2, BaseNode
<1> HIDE DEF b
<1>5. heap = <<b>> /\ root = 1
  BY DEF Init, InitTree, b, empty
<1>6. heap[1] = b /\ Ptr(heap) = {1}
  <2>1. heap[1] = b /\ Len(heap) = 1
    BY <1>5
  <2> QED BY <2>1 DEF Ptr
<1>7. /\ Routes(heap) = {} /\ Committed(heap) = {} /\ Claimants(heap, root) = {}
      /\ heap[root].parent = null
  BY <1>4, <1>5, <1>6 DEF Routes, Committed, Claimants
<1>8. HeapSlots(heap, root)
  BY <1>3, <1>6, <1>7 DEF HeapSlots, OneSlotEach, BasesKnow
<1>9. \A t \in Threads : pc[t] = "idle"
  BY DEF Init, InitThreads
<1>10. \A t \in Threads : ThreadSlots(heap, root, loc[t], pc[t])
  BY <1>9, NoSlotsYet DEF OwnerLabels, HelperLabels
<1> QED BY <1>1, <1>8, <1>10 DEF SInv, SlotsAreKept

LEMMA ThreadKeepsSlots ==
    ASSUME SInv, JInv', NEW t \in Threads, Thread(t)
    PROVE  SlotsAreKept'
BY FreeSlots, HelpSlots, ParentSlots, FindSlotSlots, LockSlots, InvalidateSlots, UnlockSlots,
   AbortSlots, UndoMainSlots, DoneSlots, ReadOtherSlots, PublishSlots, ReplaceSlots, CopyBaseSlots,
   LockNeighborSlots, LockMainSlots, SplitSlots, ReplaceNeighborSlots, SpliceSlots
   DEF Thread

LEMMA SlotsNextStep == SInv /\ [Next]_vars => SInv'
<1> SUFFICES ASSUME SInv, [Next]_vars PROVE SInv'
  OBVIOUS
<1>1. JInv'
  BY JoinsNext DEF SInv
<1>2. CASE UNCHANGED vars
  <2>1. heap' = heap /\ root' = root /\ loc' = loc /\ pc' = pc
    BY <1>2 DEF vars, client
  <2>2. SlotsAreKept'
    BY <2>1 DEF SInv, SlotsAreKept
  <2> QED BY <1>1, <2>2 DEF SInv
<1>3. CASE \E t \in Threads : Thread(t)
  <2>1. SlotsAreKept'
    BY <1>1, <1>3, ThreadKeepsSlots
  <2> QED BY <1>1, <2>1 DEF SInv
<1> QED BY <1>2, <1>3 DEF Next, Finished

LEMMA SlotsInductive == Spec => []SInv
BY SlotsInit, SlotsNextStep, PTL DEF Spec

(* Whatever a thread links into the tree, and however late, a new node or  *)
(* a merged one or a sibling, has no other slot there then and gets none   *)
(* later: also the threads that complete the same join twice, or joins of  *)
(* neighbouring bases at a time, never give a node two parents.            *)
THEOREM SlotsStayApart == Spec => []SlotsAreKept
<1>1. SInv => SlotsAreKept
  BY DEF SInv
<1> QED BY <1>1, SlotsInductive, PTL

-----------------------------------------------------------------------------
(* So the two subtrees of a route have no node in common                   *)

(* All nodes of a subtree but its root are children of routes of it.       *)
LEMMA SubtreeSlot ==
    ASSUME NEW h, HeapOK(h), YoungerBelow(h), NEW x \in Ptr(h), NEW n \in From(h, x), n /= x
    PROVE  \E r \in From(h, x) : r \in Routes(h) /\ \E z \in Sides : Side(h, r, z) = n
<1> DEFINE S == From(h, x) \ {n}
<1>1. SUFFICES ASSUME \A r \in From(h, x) : r \in Routes(h) => h[r].left /= n /\ h[r].right /= n
               PROVE  FALSE
  BY DEF Side, Sides
<1>2. x \in S /\ S \in SUBSET Ptr(h) /\ Closed(h, From(h, x))
  BY FromRoutes
<1>3. Closed(h, S)
  BY <1>1, <1>2 DEF Closed
<1>4. From(h, x) \subseteq S
  <2> HIDE DEF S
  <2> QED BY <1>2, <1>3, FromRoutes
<1> QED BY <1>4

(* And none of them is older than its root.                                *)
LEMMA SubtreeYounger ==
    ASSUME NEW h, HeapOK(h), YoungerBelow(h), NEW x \in Ptr(h)
    PROVE  \A n \in From(h, x) : n \in Ptr(h) /\ n >= x
<1> DEFINE S == {n \in Ptr(h) : n >= x}
<1>1. x \in S /\ S \in SUBSET Ptr(h) /\ \A n \in Ptr(h) : n \in Nat
  BY HeapBasics
<1>2. Closed(h, S)
  <2> SUFFICES ASSUME NEW n \in Ptr(h), n >= x, n \in Routes(h)
               PROVE  h[n].left \in S /\ h[n].right \in S
    BY DEF Closed
  <2>1. /\ h[n].left \in Ptr(h) /\ h[n].right \in Ptr(h) /\ h[n].left > n /\ h[n].right > n
    BY DEF HeapOK, NodeOK, Routes, YoungerBelow
  <2> QED BY <1>1, <2>1
<1>3. From(h, x) \subseteq S
  <2> HIDE DEF S
  <2> QED BY <1>1, <1>2, FromRoutes
<1> QED BY <1>3

LEMMA SubtreesApart ==
    ASSUME NEW h, NEW rt, HeapOK(h), HeapJoins(h, rt), rt \in Ptr(h), OneSlotEach(h, rt),
           NEW n \in Below(h, rt), n \in Routes(h)
    PROVE  From(h, h[n].left) \cap From(h, h[n].right) = {}
<1> DEFINE a == h[n].left
           b == h[n].right
           tree == Below(h, rt)
           Both == {k \in Ptr(h) : k \in From(h, a) /\ k \in From(h, b)}
<1>1. /\ YoungerBelow(h) /\ tree = From(h, rt) /\ tree \subseteq Ptr(h) /\ Closed(h, tree)
  BY BelowIsFrom, TreeOf DEF HeapJoins
<1>2. a \in Ptr(h) /\ b \in Ptr(h) /\ a \in tree /\ b \in tree /\ n \in Ptr(h) /\ a > n /\ b > n
  BY <1>1 DEF Closed, HeapOK, NodeOK, Routes, YoungerBelow
<1>3. From(h, a) \subseteq tree /\ From(h, b) \subseteq tree
  BY <1>1, <1>2, FromRoutes
<1>4. \A r \in tree : r \in Routes(h) => Attached(h, rt, r)
  BY TreeIsAttached
<1>5. \A r, s \in tree, y, z \in Sides :
        r \in Routes(h) /\ s \in Routes(h) /\ Side(h, r, y) = Side(h, s, z) => r = s /\ y = z
  BY <1>4 DEF OneSlotEach
<1>6. /\ n \in tree /\ Side(h, n, "left") = a /\ Side(h, n, "right") = b
      /\ "left" \in Sides /\ "right" \in Sides /\ "left" /= "right"
  BY DEF Side, Sides
<1>7. n \notin From(h, a) /\ n \notin From(h, b)
  <2>1. \A k \in Ptr(h) : k \in Nat
    BY HeapBasics
  <2> QED BY <1>1, <1>2, <2>1, SubtreeYounger
<1> HIDE DEF a, b, tree
<1>8. ASSUME NEW k \in Both PROVE \E j \in Both : j < k
  <2>1. k \in From(h, a) /\ k \in From(h, b)
    OBVIOUS
  <2>2. k /= a
    <3> SUFFICES ASSUME k = a PROVE FALSE
      OBVIOUS
    <3>1. a /= b
      BY <1>5, <1>6
    <3>2. PICK r \in From(h, b) : r \in Routes(h) /\ \E z \in Sides : Side(h, r, z) = a
      BY <1>1, <1>2, <2>1, <3>1, SubtreeSlot
    <3> QED BY <1>3, <1>5, <1>6, <1>7, <3>2
  <2>3. k /= b
    <3> SUFFICES ASSUME k = b PROVE FALSE
      OBVIOUS
    <3>1. a /= b
      BY <1>5, <1>6
    <3>2. PICK r \in From(h, a) : r \in Routes(h) /\ \E z \in Sides : Side(h, r, z) = b
      BY <1>1, <1>2, <2>1, <3>1, SubtreeSlot
    <3> QED BY <1>3, <1>5, <1>6, <1>7, <3>2
  <2>4. PICK r \in From(h, a) : r \in Routes(h) /\ \E z \in Sides : Side(h, r, z) = k
    BY <1>1, <1>2, <2>1, <2>2, SubtreeSlot
  <2>5. PICK s \in From(h, b) : s \in Routes(h) /\ \E z \in Sides : Side(h, s, z) = k
    BY <1>1, <1>2, <2>1, <2>3, SubtreeSlot
  <2>6. r = s
    BY <1>3, <1>5, <2>4, <2>5
  <2>7. r \in Both
    BY <2>4, <2>5, <2>6, NullIsNoNode
  <2>8. r < k
    BY <1>1, <2>4, NullIsNoNode DEF YoungerBelow, Side
  <2> QED BY <2>7, <2>8
<1>9. Both = {}
  <2> SUFFICES ASSUME Both /= {} PROVE FALSE
    OBVIOUS
  <2>1. Both \in SUBSET Nat
    BY HeapBasics
  <2>2. PICK k \in Both : \A j \in Both : ~(<<j, k>> \in OpToRel(<, Nat))
    <3> HIDE DEF Both
    <3> QED BY <2>1, NatLessThanWellFounded, WFMin, Zenon
  <2> HIDE DEF Both
  <2>3. PICK j \in Both : j < k
    BY <1>8
  <2> QED BY <2>1, <2>2, <2>3 DEF OpToRel
<1>10. From(h, a) \subseteq Ptr(h)
  BY <1>2, FromRoutes
<1> QED BY <1>9, <1>10 DEF a, b

LEMMA SlotsOfTree == SInv => SingleSlot
<1> SUFFICES ASSUME SInv, NEW n \in InTree, IsRoute(n)
             PROVE  Subtree(heap[n].left) \cap Subtree(heap[n].right) = {}
  BY DEF SingleSlot
<1>1. /\ HeapOK(heap) /\ HeapJoins(heap, root) /\ root \in Ptr(heap) /\ OneSlotEach(heap, root)
      /\ Pointers = Ptr(heap) /\ \A k \in Pointers : IsRoute(k) <=> k \in Routes(heap)
  BY JoinsTree DEF SInv, SlotsAreKept, HeapSlots
<1>2. n \in Below(heap, root) /\ n \in Routes(heap)
  <2>1. n \in Below(heap, root)
    BY DEF InTree
  <2> QED BY <1>1, <2>1, TreeOf
<1>3. From(heap, heap[n].left) \cap From(heap, heap[n].right) = {}
  BY <1>1, <1>2, SubtreesApart
<1>4. heap[n].left \in Ptr(heap) /\ heap[n].right \in Ptr(heap)
  BY <1>1, <1>2 DEF HeapOK, NodeOK, Routes
<1>5. /\ Below(heap, heap[n].left) = From(heap, heap[n].left)
      /\ Below(heap, heap[n].right) = From(heap, heap[n].right)
  BY <1>1, <1>4, BelowIsFrom DEF HeapJoins
<1> QED BY <1>3, <1>5 DEF Subtree

(* No node of the tree has two places in it, so that try_replace, which    *)
(* looks at the left child of the parent first (lfca.cpp:64-79), cannot    *)
(* mistake the slot, and no value is ever found twice on account of it.    *)
THEOREM NodesHaveOneSlot == Spec => []SingleSlot
BY SlotsOfTree, SlotsInductive, PTL

-----------------------------------------------------------------------------
(* A step of any thread, seen from the bases                               *)

OutcomeMoves(old, new) ==
    \/ new = old
    \/ old = PREPARING /\ new /= DONE
    \/ old \notin Unpublished /\ new = DONE

KeepsNodes(h, g) ==
    /\ Len(h) <= Len(g)
    /\ \A n \in Ptr(h) :
        /\ g[n].type = h[n].type /\ g[n].parent = h[n].parent /\ g[n].main_node = h[n].main_node
        /\ OutcomeMoves(h[n].neigh2, g[n].neigh2)
    /\ \A m \in Committed(h) :
        g[m].gparent = h[m].gparent /\ g[m].otherb = h[m].otherb /\ g[m].neigh1 = h[m].neigh1

(* Of the slots of the nodes of h one has changed, from b to c, if any.    *)
Moves(h, rt, g, rt2, q, z, b, c) ==
    /\ q \in Routes(h) \cup {null} /\ z \in Sides
    /\ IF q = null THEN rt = b /\ rt2 = c ELSE rt2 = rt /\ Side(h, q, z) = b
    /\ \A r \in Routes(h), y \in Sides :
        Side(g, r, y) = IF r = q /\ y = z THEN c ELSE Side(h, r, y)

(* The routes in P are cut out.                                            *)
CutsFrom(h, rt, g, rt2, P) ==
    /\ \A r \in Routes(h) : Attached(g, rt2, r) <=> (Attached(h, rt, r) /\ r \notin P)
    /\ \A r \in Routes(g) \ Ptr(h) : Attached(g, rt2, r)

(* What the new nodes and the newly published joins are like.              *)
Unlinked(g, rt2, n) == rt2 /= n /\ \A r \in Routes(g), y \in Sides : Side(g, r, y) /= n

NewBase(g, rt2, n) ==
    \/ g[n].parent = null /\ rt2 = n
    \/ Attached(g, rt2, g[n].parent) /\ InSlot(g, rt2, n)
    \/ g[n].type = "join_neighbor" /\ g[n].main_node \in Committed(g) /\ Unlinked(g, rt2, n)

NewLinks(h, g, rt2) ==
    /\ \A r \in Routes(g), y \in Sides :
        Side(g, r, y) \notin Ptr(h) \cup Routes(g) => g[Side(g, r, y)].parent = r
    /\ rt2 \notin Ptr(h) \cup Routes(g) => g[rt2].parent = null
    /\ \A r \in Routes(g) \ Ptr(h), y \in Sides : Side(g, r, y) \notin Ptr(h)

NewJoin(h, g, rt2, m) ==
    LET n1 == g[m].neigh1
    IN  /\ m \in Ptr(h) /\ g[m].neigh2 \notin Ptr(h)
        /\ g[n1].parent /= null /\ \E y \in Sides : Side(g, g[n1].parent, y) = n1
        /\ g[m].otherb \in Routes(g) \/ (g[m].otherb = n1 /\ g[n1].parent = g[m].parent)

Settled(h, g, rt2) ==
    /\ \A n \in Ptr(g) \ Ptr(h) : n \notin Routes(g) => NewBase(g, rt2, n)
    /\ NewLinks(h, g, rt2)
    /\ \A m \in Committed(g) \ Committed(h) : NewJoin(h, g, rt2, m)

(* No slot changes; or a new node takes the place of a base; or the merged *)
(* node that of its neighbour; or a route is cut out.                      *)
Stands(b, c, P) == b = c /\ P = {}

Renews(h, rt, q, b, c, P) ==
    /\ b \in Ptr(h) \ Routes(h) /\ Replaceable(h, b) /\ q = h[b].parent
    /\ q = null \/ Attached(h, rt, q)
    /\ c \notin Ptr(h) /\ P = {}

MergesInto(h, rt, q, b, c, P) ==
    /\ Attached(h, rt, q) /\ P = {}
    /\ \E m \in Committed(h) : b = h[m].neigh1 /\ c = h[m].neigh2 /\ c /= DONE /\ q = h[b].parent

CutsRoute(h, rt, q, b, c, P) ==
    /\ q = null \/ Attached(h, rt, q)
    /\ P = {b}
    /\ \E m \in Committed(h) :
        /\ ~IsCut(h, rt, m) /\ ~Placed(h, rt, h[m].neigh1)
        /\ b = h[m].parent /\ q = h[m].gparent /\ c = Replacement(h, m)

State(h, rt) == HeapOK(h) /\ HeapJoins(h, rt) /\ HeapSlots(h, rt) /\ rt \in Ptr(h)

Step(h, rt, g, rt2, q, z, b, c, P) ==
    /\ State(h, rt) /\ State(g, rt2) /\ HeapBases(h, rt)
    /\ KeepsNodes(h, g) /\ Moves(h, rt, g, rt2, q, z, b, c) /\ CutsFrom(h, rt, g, rt2, P)
    /\ Settled(h, g, rt2)
    /\ \/ Stands(b, c, P) \/ Renews(h, rt, q, b, c, P)
       \/ MergesInto(h, rt, q, b, c, P) \/ CutsRoute(h, rt, q, b, c, P)

LEMMA OldOutcomes ==
    ASSUME NEW h, NEW g, HeapOK(h), HeapOK(g), KeepsNodes(h, g)
    PROVE  /\ Ptr(h) \subseteq Ptr(g) /\ Routes(h) \subseteq Routes(g) /\ Committed(h) \subseteq Committed(g)
           /\ \A n \in Ptr(h) : n \in Routes(g) <=> n \in Routes(h)
           /\ \A m \in Ptr(h) : h[m].neigh2 = ABORTED => g[m].neigh2 = ABORTED
           /\ \A m \in Ptr(h) : h[m].neigh2 = DONE => g[m].neigh2 = DONE
           /\ \A m \in Ptr(h) : g[m].neigh2 = PREPARING => h[m].neigh2 = PREPARING
           /\ \A m \in Committed(h) : g[m].neigh2 \in {h[m].neigh2, DONE}
<1>1. Ptr(h) \subseteq Ptr(g)
  BY HeapBasics DEF KeepsNodes, Ptr
<1>2. \A n \in Ptr(h) : g[n].type = h[n].type /\ OutcomeMoves(h[n].neigh2, g[n].neigh2)
  BY DEF KeepsNodes
<1>3. DONE \notin Unpublished /\ PREPARING /= DONE /\ ABORTED /= PREPARING /\ ABORTED /= DONE
      /\ Unpublished = {PREPARING, ABORTED}
  BY DEF Unpublished, PREPARING, ABORTED, DONE
<1> QED BY <1>1, <1>2, <1>3 DEF OutcomeMoves, Routes, Committed

(* What is so before any step, and which nodes it is about.                *)
LEMMA StepNodes ==
    ASSUME NEW h, NEW rt, NEW g, NEW rt2, NEW q, NEW z, NEW b, NEW c, NEW P,
           Step(h, rt, g, rt2, q, z, b, c, P)
    PROVE  /\ State(h, rt) /\ State(g, rt2) /\ HeapBases(h, rt) /\ KeepsNodes(h, g)
           /\ Moves(h, rt, g, rt2, q, z, b, c) /\ CutsFrom(h, rt, g, rt2, P) /\ Settled(h, g, rt2)
           /\ Ptr(h) \subseteq Ptr(g) /\ Routes(h) \subseteq Routes(g) /\ Committed(h) \subseteq Committed(g)
           /\ \A n \in Ptr(h) : n \in Routes(g) <=> n \in Routes(h)
           /\ Routes(h) \subseteq Ptr(h) /\ Routes(g) \subseteq Ptr(g) /\ null \notin Ptr(g)
           /\ b \in Ptr(h) /\ c \in Ptr(g)
           /\ \A r \in Routes(h), y \in Sides : Side(h, r, y) \in Ptr(h)
           /\ \A r \in Routes(g), y \in Sides : Side(g, r, y) \in Ptr(g)
<1>1. /\ State(h, rt) /\ State(g, rt2) /\ HeapBases(h, rt) /\ KeepsNodes(h, g)
      /\ Moves(h, rt, g, rt2, q, z, b, c) /\ CutsFrom(h, rt, g, rt2, P) /\ Settled(h, g, rt2)
      /\ HeapOK(h) /\ HeapOK(g) /\ rt \in Ptr(h) /\ rt2 \in Ptr(g)
  BY DEF Step, State
<1>2. /\ Ptr(h) \subseteq Ptr(g) /\ Routes(h) \subseteq Routes(g) /\ Committed(h) \subseteq Committed(g)
      /\ \A n \in Ptr(h) : n \in Routes(g) <=> n \in Routes(h)
  BY <1>1, OldOutcomes
<1>3. Routes(h) \subseteq Ptr(h) /\ Routes(g) \subseteq Ptr(g) /\ null \notin Ptr(g)
  BY NullIsNoNode
<1>4. /\ \A r \in Routes(h), y \in Sides : Side(h, r, y) \in Ptr(h)
      /\ \A r \in Routes(g), y \in Sides : Side(g, r, y) \in Ptr(g)
  BY <1>1, SidesOK
<1>5. b \in Ptr(h) /\ c \in Ptr(g)
  BY <1>1, <1>2, <1>3, <1>4 DEF Moves
<1> QED BY <1>1, <1>2, <1>3, <1>4, <1>5

(* The neighbour of a published join and the merged node are no routes and *)
(* name the join.                                                          *)
LEMMA MergedNodes ==
    ASSUME NEW h, NEW rt, State(h, rt), NEW m \in Committed(h)
    PROVE  LET n1 == h[m].neigh1
               n2 == h[m].neigh2
           IN  /\ m \in Ptr(h) /\ h[m].type = "join_main" /\ m \notin Routes(h)
               /\ n1 \in Ptr(h) \ Routes(h) /\ h[n1].type = "join_neighbor" /\ h[n1].main_node = m
               /\ n2 /= DONE => /\ n2 \in Ptr(h) \ Routes(h) /\ h[n2].type = "join_neighbor"
                                /\ h[n2].main_node = m /\ n1 < n2 /\ n1 /= n2 /\ n2 /= h[m].otherb
                                /\ h[n2].parent = IF h[m].otherb = n1 THEN h[m].gparent ELSE h[n1].parent
               /\ h[m].neigh2 \notin Unpublished
<1>1. JoinLocks(h, rt, m) /\ Merges(h, m)
  BY DEF State, HeapJoins, HeapSlots
<1>2. /\ m \in Ptr(h) /\ h[m].type = "join_main" /\ h[m].neigh2 \notin Unpublished
      /\ h[m].neigh1 \in Ptr(h) /\ (h[m].neigh2 /= DONE => h[m].neigh2 \in Ptr(h))
  BY CommittedRoutes DEF State
<1>3. \A n \in Ptr(h) : n \in Nat
  BY HeapBasics DEF State
<1> QED BY <1>1, <1>2, <1>3 DEF JoinLocks, Merges, Routes

(* Neither of them may be replaced before the join is DONE.                *)
LEMMA MergedNotReplaceable ==
    ASSUME NEW h, NEW rt, State(h, rt), NEW m \in Committed(h), h[m].neigh2 /= DONE
    PROVE  ~Replaceable(h, h[m].neigh1) /\ ~Replaceable(h, h[m].neigh2) /\ ~Replaceable(h, m)
<1>1. h[m].neigh2 \notin {ABORTED, DONE}
  BY DEF Committed, Unpublished
<1> QED BY <1>1, MergedNodes DEF Replaceable

(* A route is cut out with the main node; the other slot of the route has  *)
(* what replaces it.                                                       *)
LEMMA CutRoute ==
    ASSUME NEW h, NEW rt, NEW q, NEW b, NEW c, NEW P, State(h, rt), HeapBases(h, rt),
           CutsRoute(h, rt, q, b, c, P)
    PROVE  \E m \in Committed(h) :
            /\ ~IsCut(h, rt, m) /\ h[m].neigh2 /= DONE /\ h[m].parent = b /\ h[m].gparent = q
            /\ b \in Routes(h) /\ Attached(h, rt, b) /\ q < b /\ q /= b /\ c /= b
            /\ c \in Ptr(h) /\ c /= m
            /\ \E y \in Sides : Side(h, b, y) = c
            /\ \A y \in Sides : Side(h, b, y) \in {c, m}
            /\ c \notin Routes(h) => h[c].parent = q /\ c = h[m].neigh2
<1>1. PICK m \in Committed(h) :
        /\ ~IsCut(h, rt, m) /\ ~Placed(h, rt, h[m].neigh1)
        /\ b = h[m].parent /\ q = h[m].gparent /\ c = Replacement(h, m)
  BY DEF CutsRoute
<1> DEFINE n1 == h[m].neigh1
           n2 == h[m].neigh2
           s == h[m].otherb
<1>2. /\ HeapOK(h) /\ HeapJoins(h, rt) /\ HeapSlots(h, rt) /\ MergesStay(h) /\ MainsStay(h, rt)
  BY DEF State, HeapBases
<1>3. /\ m \in Ptr(h) /\ h[m].type = "join_main" /\ b \in Routes(h) /\ b \in Ptr(h) /\ b /= null
      /\ s \in Ptr(h) /\ m \notin Routes(h)
  BY <1>1, <1>2, CommittedRoutes, NullIsNoNode, MergedNodes
<1>4. JoinLocks(h, rt, m) /\ n2 /= DONE /\ q < b /\ SiblingOK(h, rt, m, s)
  BY <1>1, <1>2 DEF HeapJoins, JoinLocks
<1>5. /\ n1 \in Ptr(h) \ Routes(h) /\ n2 \in Ptr(h) \ Routes(h) /\ h[n2].type = "join_neighbor"
      /\ h[n2].parent = IF s = n1 THEN q ELSE h[n1].parent
  BY <1>1, <1>4, MergedNodes
<1>6. Attached(h, rt, b)
  <2>1. ASSUME NEW k \in Committed(h), h[k].parent = b PROVE ~IsCut(h, rt, k)
    BY <1>1, <1>2, <1>4, <2>1 DEF HeapJoins, JoinLocks
  <2> QED BY <1>3, <2>1 DEF Attached
<1>7. \E y \in Sides : Side(h, b, y) = m
  <2>1. h[m].neigh2 /= ABORTED
    BY DEF Committed, Unpublished
  <2>2. InSlot(h, rt, m)
    BY <1>2, <1>3, <2>1 DEF MainsStay
  <2> QED BY <1>1, <1>3, <2>2 DEF InSlot
<1>8. CASE s \in Routes(h)
  <2>1. c = s
    BY <1>1, <1>5, <1>8 DEF Replacement
  <2>2. \E y \in Sides : Side(h, b, y) = c
    BY <1>1, <1>4, <1>8, <2>1 DEF SiblingOK
  <2>3. c /= m
    BY <1>3, <1>8, <2>1
  <2>4. \A y \in Sides : Side(h, b, y) \in {c, m}
    BY <1>7, <2>2, <2>3 DEF Sides
  <2>5. b < c
    BY <1>1, <1>4, <2>1 DEF SiblingOK
  <2> QED BY <1>1, <1>3, <1>4, <1>6, <1>8, <2>1, <2>2, <2>3, <2>4, <2>5, HeapBasics, <1>2
<1>9. CASE s \notin Routes(h)
  <2>1. s = n1 /\ h[n1].parent = b
    BY <1>1, <1>2, <1>9 DEF MergesStay
  <2>2. c = n2 /\ c \in Ptr(h) \ Routes(h) /\ h[c].parent = q /\ c /= m
    BY <1>1, <1>3, <1>5, <2>1 DEF Replacement
  <2>3. \E y \in Sides : Side(h, b, y) \in {n1, n2}
    BY <1>2, <1>4, <2>1 DEF MergesStay
  <2>4. \A y \in Sides : Side(h, b, y) /= n1
    BY <1>1, <1>3, <1>6, <2>1 DEF Placed
  <2>5. \E y \in Sides : Side(h, b, y) = c
    BY <2>2, <2>3, <2>4
  <2>6. \A y \in Sides : Side(h, b, y) \in {c, m}
    BY <1>7, <2>2, <2>5 DEF Sides
  <2> QED BY <1>1, <1>3, <1>4, <1>6, <2>2, <2>5, <2>6, HeapBasics, <1>2
<1> QED BY <1>8, <1>9

-----------------------------------------------------------------------------
(* Every step keeps the bases in their places                              *)

(* A join whose route is attached is not DONE.                             *)
LEMMA AttachedNotDone ==
    ASSUME NEW h, NEW rt, State(h, rt), NEW m \in Committed(h), Attached(h, rt, h[m].parent)
    PROVE  ~IsCut(h, rt, m) /\ h[m].neigh2 /= DONE
<1>1. ~IsCut(h, rt, m)
  BY DEF Attached
<1>2. JoinLocks(h, rt, m)
  BY DEF State, HeapJoins
<1> QED BY <1>1, <1>2 DEF JoinLocks

LEMMA StepAtHome ==
    ASSUME NEW h, NEW rt, NEW g, NEW rt2, NEW q, NEW z, NEW b, NEW c, NEW P,
           Step(h, rt, g, rt2, q, z, b, c, P)
    PROVE  BasesAtHome(g, rt2)
<1>1. /\ State(h, rt) /\ State(g, rt2) /\ HeapBases(h, rt) /\ KeepsNodes(h, g)
      /\ Moves(h, rt, g, rt2, q, z, b, c) /\ CutsFrom(h, rt, g, rt2, P) /\ NewLinks(h, g, rt2)
      /\ Routes(h) \subseteq Routes(g) /\ Committed(h) \subseteq Committed(g)
      /\ \A n \in Ptr(h) : n \in Routes(g) <=> n \in Routes(h)
      /\ Routes(h) \subseteq Ptr(h) /\ null \notin Ptr(g) /\ Ptr(h) \subseteq Ptr(g)
  BY StepNodes DEF Settled
<1>2. /\ BasesAtHome(h, rt) /\ MergesStay(h)
      /\ \A n \in Ptr(h) : g[n].parent = h[n].parent
      /\ \A m \in Committed(h) : m \in Ptr(h) /\ g[m].neigh2 \in {h[m].neigh2, DONE}
  BY <1>1, OldOutcomes DEF HeapBases, KeepsNodes, State, Committed
<1>3. \/ Stands(b, c, P) \/ Renews(h, rt, q, b, c, P)
      \/ MergesInto(h, rt, q, b, c, P) \/ CutsRoute(h, rt, q, b, c, P)
  BY DEF Step
<1>4. CutsRoute(h, rt, q, b, c, P) => (c \notin Routes(h) => h[c].parent = q)
  BY <1>1, CutRoute
<1>5. ASSUME rt2 \notin Routes(g) PROVE g[rt2].parent = null
  <2>1. CASE rt2 \notin Ptr(h)
    BY <1>1, <1>5, <2>1 DEF NewLinks
  <2>2. CASE rt2 \in Ptr(h) /\ rt2 = rt
    BY <1>1, <1>2, <1>5, <2>2 DEF BasesAtHome
  <2>3. CASE rt2 \in Ptr(h) /\ rt2 /= rt
    <3>1. q = null /\ rt2 = c /\ b /= c
      BY <1>1, <2>3 DEF Moves
    <3>2. CutsRoute(h, rt, q, b, c, P)
      BY <1>1, <1>3, <2>3, <3>1 DEF Stands, Renews, MergesInto, Attached
    <3> QED BY <1>1, <1>2, <1>4, <1>5, <2>3, <3>1, <3>2
  <2> QED BY <2>1, <2>2, <2>3
<1>6. ASSUME NEW r \in Routes(g), NEW y \in Sides, Attached(g, rt2, r),
             NEW m \in Committed(h), h[m].neigh2 = Side(g, r, y), h[m].parent = r
      PROVE  \E k \in Committed(g) : g[k].neigh2 = Side(g, r, y) /\ g[k].parent = r
  <2>1. m \in Committed(g) /\ g[m].parent = r
    BY <1>1, <1>2, <1>6
  <2>2. g[m].neigh2 /= DONE
    BY <1>1, <1>6, <2>1, AttachedNotDone
  <2> QED BY <1>2, <1>6, <2>1, <2>2
<1>7. ASSUME NEW r \in Routes(g), NEW y \in Sides, Attached(g, rt2, r), Side(g, r, y) \notin Routes(g)
      PROVE  \/ g[Side(g, r, y)].parent = r
             \/ \E m \in Committed(g) : g[m].neigh2 = Side(g, r, y) /\ g[m].parent = r
  <2> DEFINE x == Side(g, r, y)
  <2>1. CASE x \notin Ptr(h)
    BY <1>1, <1>7, <2>1 DEF NewLinks
  <2>2. CASE x \in Ptr(h)
    <3>1. r \in Routes(h) /\ Attached(h, rt, r) /\ x \notin Routes(h)
      <4>1. r \in Ptr(h)
        BY <1>1, <2>2 DEF NewLinks
      <4> QED BY <1>1, <1>7, <2>2, <4>1 DEF CutsFrom
    <3>2. CASE x = Side(h, r, y)
      <4>1. \/ h[x].parent = r
            \/ \E m \in Committed(h) : h[m].neigh2 = x /\ h[m].parent = r
        BY <1>2, <3>1, <3>2 DEF BasesAtHome
      <4> QED BY <1>2, <1>6, <1>7, <2>2, <4>1
    <3>3. CASE x /= Side(h, r, y)
      <4>1. r = q /\ x = c /\ b /= c
        BY <1>1, <3>1, <3>3 DEF Moves
      <4>2. CASE CutsRoute(h, rt, q, b, c, P)
        BY <1>2, <1>4, <2>2, <3>1, <4>1, <4>2
      <4>3. CASE MergesInto(h, rt, q, b, c, P)
        <5>1. PICK m \in Committed(h) : b = h[m].neigh1 /\ c = h[m].neigh2 /\ c /= DONE /\ q = h[b].parent
          BY <4>3 DEF MergesInto
        <5>2. h[c].parent = IF h[m].otherb = b THEN h[m].gparent ELSE q
          BY <1>1, <5>1, MergedNodes
        <5>3. b \notin Routes(h)
          BY <1>1, <5>1, MergedNodes
        <5>4. h[m].otherb = b => h[m].parent = q
          BY <1>2, <5>1, <5>3 DEF MergesStay
        <5> QED BY <1>2, <1>6, <1>7, <2>2, <4>1, <5>1, <5>2, <5>4
      <4> QED BY <1>3, <2>2, <4>1, <4>2, <4>3 DEF Stands, Renews
    <3> QED BY <3>2, <3>3
  <2> QED BY <2>1, <2>2
<1> QED BY <1>5, <1>7 DEF BasesAtHome

(* The slots of a route that is cut out do not change any more.            *)
LEMMA StepOldSlot ==
    ASSUME NEW h, NEW rt, NEW g, NEW rt2, NEW q, NEW z, NEW b, NEW c, NEW P,
           Step(h, rt, g, rt2, q, z, b, c, P),
           NEW p \in Routes(h), ~Attached(g, rt2, p), NEW y \in Sides
    PROVE  Side(g, p, y) = Side(h, p, y)
<1>1. Moves(h, rt, g, rt2, q, z, b, c) /\ CutsFrom(h, rt, g, rt2, P) /\ State(h, rt) /\ HeapBases(h, rt)
  BY DEF Step
<1>2. CASE q /= p \/ b = c
  BY <1>1, <1>2, NullIsNoNode DEF Moves
<1>3. CASE q = p /\ b /= c
  <2>1. CutsRoute(h, rt, q, b, c, P) => q /= b
    BY <1>1, CutRoute
  <2>2. Attached(h, rt, q) /\ q \notin P
    BY <1>3, <2>1, NullIsNoNode DEF Step, Stands, Renews, MergesInto, CutsRoute
  <2> QED BY <1>1, <1>3, <2>2 DEF CutsFrom
<1> QED BY <1>2, <1>3

LEMMA StepCutOutEmpty ==
    ASSUME NEW h, NEW rt, NEW g, NEW rt2, NEW q, NEW z, NEW b, NEW c, NEW P,
           Step(h, rt, g, rt2, q, z, b, c, P)
    PROVE  CutOutEmpty(g, rt2)
<1> SUFFICES ASSUME NEW n \in Ptr(g), n \notin Routes(g), InSlot(g, rt2, n), Detached(g, rt2, g[n].parent)
             PROVE  n \in Committed(g)
  BY DEF CutOutEmpty
<1> DEFINE p == g[n].parent
<1>1. /\ State(h, rt) /\ State(g, rt2) /\ HeapBases(h, rt) /\ KeepsNodes(h, g)
      /\ CutsFrom(h, rt, g, rt2, P) /\ Settled(h, g, rt2)
      /\ Routes(h) \subseteq Routes(g) /\ Committed(h) \subseteq Committed(g)
      /\ \A k \in Ptr(h) : k \in Routes(g) <=> k \in Routes(h)
      /\ null \notin Ptr(g) /\ Routes(g) \subseteq Ptr(g)
  BY StepNodes
<1>2. p \in Routes(g) /\ ~Attached(g, rt2, p) /\ p /= null
  BY <1>1 DEF Detached
<1>3. PICK y \in Sides : Side(g, p, y) = n
  BY <1>2 DEF InSlot
<1>4. CASE n \notin Ptr(h)
  BY <1>1, <1>2, <1>3, <1>4 DEF Settled, NewBase, Unlinked
<1>5. CASE n \in Ptr(h)
  <2>1. p = h[n].parent /\ p \in Routes(h)
    <3>1. p = h[n].parent
      BY <1>1, <1>5 DEF KeepsNodes
    <3>2. NodeOK(h, n)
      BY <1>1, <1>5 DEF State, HeapOK
    <3> QED BY <1>2, <3>1, <3>2 DEF NodeOK
  <2>2. Side(h, p, y) = n /\ n \notin Routes(h)
    BY <1>1, <1>2, <1>3, <1>5, <2>1, StepOldSlot
  <2>3. CASE ~Attached(h, rt, p)
    <3>1. Detached(h, rt, h[n].parent) /\ InSlot(h, rt, n)
      BY <1>2, <2>1, <2>2, <2>3 DEF Detached, InSlot
    <3> QED BY <1>1, <1>5, <2>2, <3>1 DEF HeapBases, CutOutEmpty
  <2>4. CASE Attached(h, rt, p)
    <3>1. p \in P
      BY <1>1, <1>2, <2>1, <2>4 DEF CutsFrom
    <3>2. CutsRoute(h, rt, q, b, c, P) /\ p = b
      BY <3>1 DEF Step, Stands, Renews, MergesInto, CutsRoute
    <3>3. PICK m \in Committed(h) : /\ q /= b /\ \A x \in Sides : Side(h, b, x) \in {c, m}
                                    /\ c \notin Routes(h) => h[c].parent = q
      BY <1>1, <3>2, CutRoute
    <3> QED BY <1>1, <2>1, <2>2, <3>2, <3>3
  <2> QED BY <2>3, <2>4
<1> QED BY <1>4, <1>5

(* Whatever is in the slot that n names stays there, unless it is replaced.*)
LEMMA StepKeepsSlot ==
    ASSUME NEW h, NEW rt, NEW g, NEW rt2, NEW q, NEW z, NEW b, NEW c, NEW P,
           Step(h, rt, g, rt2, q, z, b, c, P),
           NEW n \in Ptr(h), InSlot(h, rt, n), n /= b \/ b = c
    PROVE  InSlot(g, rt2, n)
<1>1. Moves(h, rt, g, rt2, q, z, b, c) /\ g[n].parent = h[n].parent /\ h[n].parent \in Routes(h) \cup {null}
  BY DEF Step, State, KeepsNodes, HeapOK, NodeOK
<1>2. CASE h[n].parent = null
  BY <1>1, <1>2 DEF InSlot, Moves
<1>3. CASE h[n].parent /= null
  BY <1>1, <1>3 DEF InSlot, Moves
<1> QED BY <1>2, <1>3

LEMMA StepMains ==
    ASSUME NEW h, NEW rt, NEW g, NEW rt2, NEW q, NEW z, NEW b, NEW c, NEW P,
           Step(h, rt, g, rt2, q, z, b, c, P)
    PROVE  MainsStay(g, rt2)
<1> SUFFICES ASSUME NEW m \in Ptr(g), g[m].type = "join_main", g[m].neigh2 /= ABORTED
             PROVE  InSlot(g, rt2, m)
  BY DEF MainsStay
<1>1. /\ State(h, rt) /\ State(g, rt2) /\ HeapBases(h, rt) /\ KeepsNodes(h, g) /\ Settled(h, g, rt2)
  BY StepNodes
<1>2. CASE m \notin Ptr(h)
  <2>1. m \notin Routes(g)
    BY DEF Routes
  <2> QED BY <1>1, <1>2, <2>1 DEF Settled, NewBase, InSlot
<1>3. CASE m \in Ptr(h)
  <2>1. h[m].type = "join_main" /\ h[m].neigh2 /= ABORTED
    <3>1. h[m].type = g[m].type
      BY <1>1, <1>3 DEF KeepsNodes
    <3> QED BY <1>1, <1>3, <3>1, OldOutcomes DEF State
  <2>2. InSlot(h, rt, m)
    BY <1>1, <1>3, <2>1 DEF HeapBases, MainsStay
  <2>3. ASSUME m = b, b /= c PROVE FALSE
    <3>1. ~Replaceable(h, m) /\ m \notin Routes(h)
      BY <2>1 DEF Replaceable, Routes
    <3>2. \A k \in Committed(h) : h[k].neigh1 /= m
      BY <1>1, <2>1, MergedNodes
    <3>3. CutsRoute(h, rt, q, b, c, P) => b \in Routes(h)
      BY <1>1, CutRoute
    <3> QED BY <2>3, <3>1, <3>2, <3>3 DEF Step, Stands, Renews, MergesInto
  <2> QED BY <1>3, <2>2, <2>3, StepKeepsSlot
<1> QED BY <1>2, <1>3

LEMMA StepNeighbors ==
    ASSUME NEW h, NEW rt, NEW g, NEW rt2, NEW q, NEW z, NEW b, NEW c, NEW P,
           Step(h, rt, g, rt2, q, z, b, c, P)
    PROVE  NeighborsStay(g, rt2)
<1> SUFFICES ASSUME NEW n \in Ptr(g), g[n].type = "join_neighbor", g[g[n].main_node].neigh2 = PREPARING
             PROVE  InSlot(g, rt2, n)
  BY DEF NeighborsStay
<1>1. /\ State(h, rt) /\ State(g, rt2) /\ HeapBases(h, rt) /\ KeepsNodes(h, g) /\ Settled(h, g, rt2)
  BY StepNodes
<1>2. CASE n \notin Ptr(h)
  <2>1. n \notin Routes(g) /\ g[n].main_node \notin Committed(g)
    BY DEF Routes, Committed, Unpublished
  <2> QED BY <1>1, <1>2, <2>1 DEF Settled, NewBase, InSlot
<1>3. CASE n \in Ptr(h)
  <2> DEFINE k == h[n].main_node
  <2>1. h[n].type = "join_neighbor" /\ k = g[n].main_node /\ k \in Ptr(h)
    <3>1. h[n].type = g[n].type /\ k = g[n].main_node
      BY <1>1, <1>3 DEF KeepsNodes
    <3>2. NodeOK(h, n)
      BY <1>1, <1>3 DEF State, HeapOK
    <3> QED BY <3>1, <3>2 DEF NodeOK
  <2>2. h[k].neigh2 = PREPARING /\ k \notin Committed(h)
    <3>1. h[k].neigh2 = PREPARING
      BY <1>1, <2>1, OldOutcomes DEF State
    <3> QED BY <3>1 DEF Committed, Unpublished
  <2>3. InSlot(h, rt, n)
    BY <1>1, <1>3, <2>1, <2>2 DEF HeapBases, NeighborsStay
  <2>4. ASSUME n = b, b /= c PROVE FALSE
    <3>1. ~Replaceable(h, n) /\ n \notin Routes(h)
      BY <2>1, <2>2 DEF Replaceable, Routes, PREPARING, ABORTED, DONE
    <3>2. \A m \in Committed(h) : h[m].neigh1 /= n
      BY <1>1, <2>2, MergedNodes
    <3>3. CutsRoute(h, rt, q, b, c, P) => b \in Routes(h)
      BY <1>1, CutRoute
    <3> QED BY <2>4, <3>1, <3>2, <3>3 DEF Step, Stands, Renews, MergesInto
  <2> QED BY <1>3, <2>3, <2>4, StepKeepsSlot
<1> QED BY <1>2, <1>3

LEMMA StepMerges ==
    ASSUME NEW h, NEW rt, NEW g, NEW rt2, NEW q, NEW z, NEW b, NEW c, NEW P,
           Step(h, rt, g, rt2, q, z, b, c, P)
    PROVE  MergesStay(g)
<1> SUFFICES ASSUME NEW m \in Committed(g)
             PROVE  LET n1 == g[m].neigh1
                        n2 == g[m].neigh2
                    IN  /\ g[m].otherb \in Routes(g) \/ (g[m].otherb = n1 /\ g[n1].parent = g[m].parent)
                        /\ n2 /= DONE =>
                            /\ g[n1].parent /= null
                            /\ \E side \in Sides : Side(g, g[n1].parent, side) \in {n1, n2}
  BY DEF MergesStay
<1>1. /\ State(h, rt) /\ State(g, rt2) /\ HeapBases(h, rt) /\ KeepsNodes(h, g) /\ Settled(h, g, rt2)
      /\ Moves(h, rt, g, rt2, q, z, b, c) /\ Routes(h) \subseteq Routes(g)
  BY StepNodes
<1>2. CASE m \notin Committed(h)
  BY <1>1, <1>2 DEF Settled, NewJoin
<1>3. CASE m \in Committed(h)
  <2> DEFINE n1 == h[m].neigh1
             n2 == h[m].neigh2
             p == h[n1].parent
  <2>1. /\ m \in Ptr(h) /\ n1 \in Ptr(h) \ Routes(h) /\ h[n1].main_node = m
        /\ n2 /= DONE => n2 \in Ptr(h) \ Routes(h) /\ h[n2].main_node = m /\ n1 /= n2
    BY <1>1, <1>3, MergedNodes
  <2>2. /\ g[m].neigh1 = n1 /\ g[m].otherb = h[m].otherb /\ g[m].parent = h[m].parent /\ g[n1].parent = p
        /\ g[m].neigh2 \in {n2, DONE}
    BY <1>1, <1>3, <2>1, OldOutcomes DEF KeepsNodes, State
  <2>3. /\ h[m].otherb \in Routes(h) \/ (h[m].otherb = n1 /\ p = h[m].parent)
        /\ n2 /= DONE => p /= null /\ \E y \in Sides : Side(h, p, y) \in {n1, n2}
    BY <1>1, <1>3 DEF HeapBases, MergesStay
  <2>4. ASSUME n2 /= DONE PROVE \E y \in Sides : Side(g, p, y) \in {n1, n2}
    <3>1. PICK y \in Sides : Side(h, p, y) \in {n1, n2}
      BY <2>3, <2>4
    <3>2. p \in Routes(h)
      <4>1. NodeOK(h, n1)
        BY <1>1, <2>1 DEF State, HeapOK
      <4> QED BY <2>3, <2>4, <4>1 DEF NodeOK
    <3>3. CASE q /= p \/ y /= z \/ b = c
      BY <1>1, <3>1, <3>2, <3>3, NullIsNoNode DEF Moves
    <3>4. CASE q = p /\ y = z /\ b /= c
      <4>1. b \in {n1, n2} /\ Side(g, p, y) = c
        BY <1>1, <3>1, <3>2, <3>4, NullIsNoNode DEF Moves
      <4>2. ~Renews(h, rt, q, b, c, P)
        BY <1>1, <1>3, <2>4, <4>1, MergedNotReplaceable DEF Renews
      <4>3. ~CutsRoute(h, rt, q, b, c, P)
        BY <1>1, <2>1, <2>4, <4>1, CutRoute
      <4>4. PICK k \in Committed(h) : b = h[k].neigh1 /\ c = h[k].neigh2
        BY <3>4, <4>2, <4>3 DEF Step, Stands, MergesInto
      <4>5. h[b].main_node = k
        BY <1>1, <4>4, MergedNodes
      <4>6. k = m
        BY <2>1, <2>4, <4>1, <4>5
      <4> QED BY <4>1, <4>4, <4>6
    <3> QED BY <3>3, <3>4
  <2> HIDE DEF p, n1, n2
  <2>5. g[m].neigh2 /= DONE => n2 /= DONE /\ g[m].neigh2 = n2
    BY <2>2
  <2> QED BY <1>1, <2>2, <2>3, <2>4, <2>5 DEF n1, n2, p
<1> QED BY <1>2, <1>3

LEMMA StepBases ==
    ASSUME NEW h, NEW rt, NEW g, NEW rt2, NEW q, NEW z, NEW b, NEW c, NEW P,
           Step(h, rt, g, rt2, q, z, b, c, P)
    PROVE  HeapBases(g, rt2)
BY StepAtHome, StepCutOutEmpty, StepMains, StepNeighbors, StepMerges DEF HeapBases

-----------------------------------------------------------------------------
(* What a step does to the subtrees                                        *)

(* The links of the old nodes.                                             *)
LEMMA StepSides ==
    ASSUME NEW h, NEW rt, NEW g, NEW rt2, NEW q, NEW z, NEW b, NEW c, NEW P,
           Step(h, rt, g, rt2, q, z, b, c, P)
    PROVE  /\ HeapOK(h) /\ HeapOK(g) /\ YoungerBelow(h) /\ YoungerBelow(g)
           /\ \A k \in Routes(h), y \in Sides :
                Side(g, k, y) = Side(h, k, y) \/ (b /= c /\ k = q /\ y = z /\ Side(g, k, y) = c)
           /\ \A k \in Routes(h), y \in Sides :
                Side(g, k, y) = Side(h, k, y) \/ (b /= c /\ k = q /\ y = z /\ Side(h, k, y) = b)
           /\ b /= c /\ q /= null => q \in Routes(h) /\ Side(g, q, z) = c /\ Side(h, q, z) = b /\ z \in Sides
           /\ \A k \in Routes(h) : h[k].left = Side(h, k, "left") /\ h[k].right = Side(h, k, "right")
           /\ \A k \in Routes(g) : g[k].left = Side(g, k, "left") /\ g[k].right = Side(g, k, "right")
           /\ "left" \in Sides /\ "right" \in Sides
<1>1. HeapOK(h) /\ HeapOK(g) /\ YoungerBelow(h) /\ YoungerBelow(g) /\ Moves(h, rt, g, rt2, q, z, b, c)
  BY DEF Step, State, HeapJoins
<1>2. q \in Routes(h) \cup {null} /\ z \in Sides /\ (q /= null => Side(h, q, z) = b)
      /\ \A r \in Routes(h), y \in Sides :
            Side(g, r, y) = IF r = q /\ y = z THEN c ELSE Side(h, r, y)
  BY <1>1 DEF Moves
<1>3. "left" \in Sides /\ "right" \in Sides
  BY DEF Sides
<1>4. /\ \A k \in Routes(h) : h[k].left = Side(h, k, "left") /\ h[k].right = Side(h, k, "right")
      /\ \A k \in Routes(g) : g[k].left = Side(g, k, "left") /\ g[k].right = Side(g, k, "right")
  BY DEF Side
<1>5. /\ \A k \in Routes(h), y \in Sides :
            Side(g, k, y) = Side(h, k, y) \/ (b /= c /\ k = q /\ y = z /\ Side(g, k, y) = c)
      /\ \A k \in Routes(h), y \in Sides :
            Side(g, k, y) = Side(h, k, y) \/ (b /= c /\ k = q /\ y = z /\ Side(h, k, y) = b)
  BY <1>2, NullIsNoNode
<1>6. b /= c /\ q /= null => q \in Routes(h) /\ Side(g, q, z) = c /\ Side(h, q, z) = b /\ z \in Sides
  BY <1>2
<1> QED BY <1>1, <1>3, <1>4, <1>5, <1>6

(* What is below x now was below x, or is below what a slot below x got.   *)
LEMMA StepReaches ==
    ASSUME NEW h, NEW rt, NEW g, NEW rt2, NEW q, NEW z, NEW b, NEW c, NEW P,
           Step(h, rt, g, rt2, q, z, b, c, P),
           NEW x \in Ptr(h), NEW n \in From(g, x)
    PROVE  n \in From(h, x) \/ (b /= c /\ q \in From(h, x) /\ n \in From(g, c))
<1> DEFINE T == {k \in Ptr(g) : k \in From(h, x) \/ (b /= c /\ q \in From(h, x) /\ k \in From(g, c))}
<1>1. /\ Ptr(h) \subseteq Ptr(g) /\ c \in Ptr(g) /\ \A k \in Ptr(h) : k \in Routes(g) <=> k \in Routes(h)
      /\ \A r \in Routes(g), y \in Sides : Side(g, r, y) \in Ptr(g)
  BY StepNodes
<1>2. /\ HeapOK(h) /\ HeapOK(g)
      /\ \A k \in Routes(h), y \in Sides :
            Side(g, k, y) = Side(h, k, y) \/ (b /= c /\ k = q /\ y = z /\ Side(g, k, y) = c)
      /\ \A k \in Routes(h) : h[k].left = Side(h, k, "left") /\ h[k].right = Side(h, k, "right")
      /\ \A k \in Routes(g) : g[k].left = Side(g, k, "left") /\ g[k].right = Side(g, k, "right")
      /\ "left" \in Sides /\ "right" \in Sides
  BY StepSides
<1>3. /\ x \in From(h, x) /\ Closed(h, From(h, x)) /\ From(h, x) \subseteq Ptr(h)
      /\ c \in From(g, c) /\ Closed(g, From(g, c)) /\ From(g, c) \subseteq Ptr(g)
  BY <1>1, <1>2, FromRoutes
<1>4. \A y \in Sides : y = "left" \/ y = "right"
  BY DEF Sides
<1>5. ASSUME NEW k \in T, k \in Routes(g), NEW y \in Sides PROVE Side(g, k, y) \in T
  <2>1. Side(g, k, y) \in Ptr(g)
    BY <1>1, <1>5
  <2>2. CASE k \in From(h, x)
    <3>1. k \in Routes(h)
      BY <1>1, <1>3, <1>5, <2>2
    <3>2. Side(h, k, y) \in From(h, x)
      BY <1>2, <1>3, <1>4, <2>2, <3>1 DEF Closed
    <3> QED BY <1>2, <1>3, <2>1, <2>2, <3>1, <3>2
  <2>3. CASE b /= c /\ q \in From(h, x) /\ k \in From(g, c)
    <3>1. Side(g, k, y) \in From(g, c)
      BY <1>2, <1>3, <1>4, <1>5, <2>3 DEF Closed
    <3> QED BY <2>1, <2>3, <3>1
  <2> QED BY <1>5, <2>2, <2>3
<1>6. Closed(g, T)
  <2> HIDE DEF T
  <2> QED BY <1>2, <1>5 DEF Closed
<1>7. x \in T /\ T \in SUBSET Ptr(g) /\ x \in Ptr(g)
  BY <1>1, <1>3
<1>8. From(g, x) \subseteq T
  <2> HIDE DEF T
  <2> QED BY <1>2, <1>6, <1>7, FromRoutes
<1> QED BY <1>8

(* The nodes that leave the tree.                                          *)
Gone(h, rt, q, b, c, P, n) ==
    /\ b /= c
    /\ \/ n = b
       \/ CutsRoute(h, rt, q, b, c, P) /\ n \in Committed(h) /\ n \notin Routes(h) /\ h[n].parent = b
          /\ ~IsCut(h, rt, n) /\ h[n].neigh2 /= DONE

(* What was below x is still below x, or below what x gave way to.         *)
LEMMA StepKeepsBelow ==
    ASSUME NEW h, NEW rt, NEW g, NEW rt2, NEW q, NEW z, NEW b, NEW c, NEW P,
           Step(h, rt, g, rt2, q, z, b, c, P),
           NEW x \in Ptr(h), NEW x2, x2 = x \/ (x = b /\ x2 = c), NEW n \in From(h, x)
    PROVE  n \in From(g, x2) \/ Gone(h, rt, q, b, c, P, n)
<1>1. /\ Ptr(h) \subseteq Ptr(g) /\ c \in Ptr(g) /\ b \in Ptr(h) /\ null \notin Ptr(g)
      /\ \A k \in Ptr(h) : k \in Routes(g) <=> k \in Routes(h)
      /\ State(h, rt) /\ HeapBases(h, rt)
      /\ \A r \in Routes(h), y \in Sides : Side(h, r, y) \in Ptr(h)
  BY StepNodes
<1>2. /\ HeapOK(h) /\ HeapOK(g)
      /\ \A k \in Routes(h), y \in Sides :
            Side(g, k, y) = Side(h, k, y) \/ (b /= c /\ k = q /\ y = z /\ Side(h, k, y) = b)
      /\ b /= c /\ q /= null => q \in Routes(h) /\ Side(g, q, z) = c /\ Side(h, q, z) = b /\ z \in Sides
      /\ \A k \in Routes(h) : h[k].left = Side(h, k, "left") /\ h[k].right = Side(h, k, "right")
      /\ \A k \in Routes(g) : g[k].left = Side(g, k, "left") /\ g[k].right = Side(g, k, "right")
      /\ "left" \in Sides /\ "right" \in Sides
  BY StepSides
<1>3. x2 \in Ptr(g)
  BY <1>1
<1> DEFINE T == From(g, x2)
<1>4. x2 \in T /\ Closed(g, T) /\ T \subseteq Ptr(g)
  BY <1>2, <1>3, FromRoutes
<1>5. \A y \in Sides : y = "left" \/ y = "right"
  BY DEF Sides
<1> HIDE DEF T
<1>6. ASSUME NEW k \in T, k \in Routes(h), NEW y \in Sides
      PROVE  Side(g, k, y) \in T /\ (Side(h, k, y) \in T \/ (b /= c /\ Side(h, k, y) = b /\ c \in T))
  <2>1. k \in Routes(g)
    BY <1>1, <1>6, NullIsNoNode
  <2>2. Side(g, k, y) \in T
    BY <1>2, <1>4, <1>5, <1>6, <2>1 DEF Closed
  <2>3. k /= null
    BY <1>1, <1>4
  <2> QED BY <1>2, <1>6, <2>2, <2>3
<1>7. ASSUME NEW G \in SUBSET Ptr(h), b /= c => b \in G \/ c \notin T, x \in T \/ x \in G,
             \A k \in G, y \in Sides : k \in Routes(h) => Side(h, k, y) \in T \cup G
      PROVE  n \in T \cup G
  <2> DEFINE S == {k \in Ptr(h) : k \in T \/ k \in G}
  <2>1. ASSUME NEW k \in S, k \in Routes(h), NEW y \in Sides PROVE Side(h, k, y) \in S
    <3>1. Side(h, k, y) \in Ptr(h)
      BY <1>1, <2>1
    <3>2. Side(h, k, y) \in T \cup G
      BY <1>6, <1>7, <2>1
    <3> QED BY <3>1, <3>2
  <2>2. x \in S /\ S \in SUBSET Ptr(h)
    BY <1>7
  <2>3. Closed(h, S)
    <3> HIDE DEF S
    <3> QED BY <1>2, <2>1 DEF Closed
  <2>4. From(h, x) \subseteq S
    <3> HIDE DEF S
    <3> QED BY <1>2, <2>2, <2>3, FromRoutes
  <2> QED BY <2>4
<1>8. CASE Stands(b, c, P)
  <2>1. n \in T \cup {}
    <3>1. b = c /\ x2 = x
      BY <1>8 DEF Stands
    <3> QED BY <1>4, <1>7, <3>1
  <2> QED BY <2>1 DEF T
<1>9. CASE b /= c /\ b \notin Routes(h)
  <2>1. n \in T \cup {b}
    BY <1>1, <1>4, <1>7, <1>9
  <2> QED BY <1>9, <2>1 DEF T, Gone
<1>10. CASE CutsRoute(h, rt, q, b, c, P)
  <2>1. PICK m \in Committed(h) :
            /\ ~IsCut(h, rt, m) /\ h[m].neigh2 /= DONE /\ h[m].parent = b
            /\ b \in Routes(h) /\ q /= b /\ c /= b
            /\ \E y \in Sides : Side(h, b, y) = c
            /\ \A y \in Sides : Side(h, b, y) \in {c, m}
    BY <1>1, <1>10, CutRoute
  <2>2. m \in Ptr(h) /\ m \notin Routes(h)
    BY <1>1, MergedNodes
  <2>3. Gone(h, rt, q, b, c, P, b) /\ Gone(h, rt, q, b, c, P, m)
    BY <1>10, <2>1, <2>2 DEF Gone
  <2>4. CASE c \in T
    <3>1. n \in T \cup {b, m}
      <4>1. x \in T \/ x \in {b, m}
        BY <1>4
      <4>2. \A k \in {b, m}, y \in Sides : k \in Routes(h) => Side(h, k, y) \in T \cup {b, m}
        BY <2>1, <2>2, <2>4
      <4>3. {b, m} \in SUBSET Ptr(h)
        BY <1>1, <2>2
      <4> QED BY <1>7, <4>1, <4>2, <4>3
    <3> QED BY <2>3, <3>1 DEF T
  <2>5. CASE c \notin T
    <3>1. x2 = x
      BY <1>4, <2>5
    <3>2. n \in T \cup {}
      BY <1>4, <1>7, <2>5, <3>1
    <3> QED BY <3>2 DEF T
  <2> QED BY <2>4, <2>5
<1>11. Renews(h, rt, q, b, c, P) => b /= c /\ b \notin Routes(h)
  BY <1>1 DEF Renews
<1>12. MergesInto(h, rt, q, b, c, P) => b /= c /\ b \notin Routes(h)
  BY <1>1, MergedNodes DEF MergesInto
<1> QED BY <1>8, <1>9, <1>10, <1>11, <1>12 DEF Step

(* The slot that a step changes is the only one that held b.               *)
LEMMA StepTakesOut ==
    ASSUME NEW h, NEW rt, NEW g, NEW rt2, NEW q, NEW z, NEW b, NEW c, NEW P,
           Step(h, rt, g, rt2, q, z, b, c, P), b /= c, q = null \/ Attached(h, rt, q)
    PROVE  ~Elsewhere(g, rt2, null, b)
<1> SUFFICES ASSUME Elsewhere(g, rt2, null, b) PROVE FALSE
  OBVIOUS
<1>1. /\ State(h, rt) /\ State(g, rt2) /\ OneSlotEach(h, rt) /\ NewLinks(h, g, rt2)
      /\ Moves(h, rt, g, rt2, q, z, b, c) /\ CutsFrom(h, rt, g, rt2, P) /\ b \in Ptr(h)
  BY StepNodes DEF Settled, State, HeapSlots
<1>2. IF q = null THEN rt = b /\ rt2 = c ELSE rt2 = rt /\ q \in Routes(h) /\ z \in Sides /\ Side(h, q, z) = b
  BY <1>1 DEF Moves
<1>3. rt2 /= b
  BY <1>1, <1>2 DEF OneSlotEach
<1>4. PICK s \in Routes(g), y \in Sides : Attached(g, rt2, s) /\ Side(g, s, y) = b
  BY <1>3 DEF Elsewhere
<1>5. s \in Routes(h) /\ Attached(h, rt, s)
  <2>1. s \in Ptr(h)
    BY <1>1, <1>4 DEF NewLinks
  <2>2. s \in Routes(h)
    BY <2>1, StepNodes
  <2> QED BY <1>1, <1>4, <2>2 DEF CutsFrom
<1>6. Side(h, s, y) = b /\ ~(s = q /\ y = z)
  BY <1>1, <1>4, <1>5 DEF Moves
<1> QED BY <1>1, <1>2, <1>5, <1>6 DEF OneSlotEach

(* What leaves the tree is dead: nothing links it any more.                *)
LEMMA GoneIsDead ==
    ASSUME NEW h, NEW rt, NEW g, NEW rt2, NEW q, NEW z, NEW b, NEW c, NEW P,
           Step(h, rt, g, rt2, q, z, b, c, P), NEW n, Gone(h, rt, q, b, c, P, n)
    PROVE  ~Alive(g, rt2, n)
<1> SUFFICES ASSUME Alive(g, rt2, n) PROVE FALSE
  OBVIOUS
<1>1. /\ State(h, rt) /\ State(g, rt2) /\ HeapBases(h, rt) /\ KeepsNodes(h, g) /\ Settled(h, g, rt2)
      /\ CutsFrom(h, rt, g, rt2, P) /\ Committed(h) \subseteq Committed(g)
      /\ \A k \in Ptr(h) : k \in Routes(g) <=> k \in Routes(h)
      /\ b \in Ptr(h) /\ Ptr(h) \subseteq Ptr(g) /\ Routes(h) \subseteq Ptr(h)
  BY StepNodes
<1>2. DONE \notin Ptr(h)
  BY <1>1, HeapBasics DEF State, DONE
<1>3. CASE CutsRoute(h, rt, q, b, c, P)
  <2>1. b \in Routes(h) /\ b \in Routes(g) /\ ~Attached(g, rt2, b)
    <3>1. b \in Routes(h)
      BY <1>1, <1>3, CutRoute
    <3>2. b \in P
      BY <1>3 DEF CutsRoute
    <3> QED BY <1>1, <3>1, <3>2 DEF CutsFrom
  <2>2. CASE n = b
    BY <1>1, <1>2, <2>1, <2>2, MergedNodes DEF Alive
  <2>3. CASE n /= b
    <3>1. n \in Committed(h) /\ h[n].parent = b
      BY <2>3 DEF Gone
    <3>2. /\ n \in Ptr(h) /\ n \in Committed(g) /\ g[n].parent = b
          /\ g[n].type = "join_main" /\ g[n].neigh2 /= ABORTED /\ n \notin Routes(g)
      BY <1>1, <3>1 DEF KeepsNodes, Committed, Unpublished, Routes
    <3>3. MainsInPlace(g, rt2) /\ n \in Ptr(g)
      BY <1>1, <3>2 DEF State, HeapJoins
    <3>4. ASSUME NEW k \in Committed(g), g[k].neigh2 = n PROVE FALSE
      BY <1>1, <1>2, <3>2, <3>4, MergedNodes
    <3>5. Elsewhere(g, rt2, null, n)
      BY <3>2, <3>4 DEF Alive
    <3>6. ~Doomed(g, rt2, n)
      BY <3>2 DEF Doomed
    <3> QED BY <2>1, <3>2, <3>3, <3>5, <3>6 DEF Elsewhere, MainsInPlace
  <2> QED BY <2>2, <2>3
<1>4. CASE ~CutsRoute(h, rt, q, b, c, P)
  <2>1. n = b /\ b /= c
    BY <1>4 DEF Gone
  <2>2. Renews(h, rt, q, b, c, P) \/ MergesInto(h, rt, q, b, c, P)
    BY <1>4, <2>1 DEF Step, Stands
  <2>3. b \notin Routes(g) /\ (q = null \/ Attached(h, rt, q))
    BY <1>1, <2>2, MergedNodes DEF Renews, MergesInto
  <2>4. ~Elsewhere(g, rt2, null, b)
    BY <2>1, <2>3, StepTakesOut
  <2>5. PICK k \in Committed(g) : g[k].neigh2 = b
    BY <2>1, <2>3, <2>4 DEF Alive
  <2>6. k \in Committed(h) /\ h[k].neigh2 = b /\ h[k].neigh2 /= DONE
    <3>1. k \in Committed(h)
      BY <1>1, <2>5 DEF Settled, NewJoin
    <3> QED BY <1>1, <1>2, <2>5, <3>1, OldOutcomes DEF State
  <2>7. CASE Renews(h, rt, q, b, c, P)
    BY <1>1, <2>6, <2>7, MergedNotReplaceable DEF Renews
  <2>8. CASE MergesInto(h, rt, q, b, c, P)
    <3>1. PICK m \in Committed(h) : b = h[m].neigh1
      BY <2>8 DEF MergesInto
    <3>2. h[b].main_node = m /\ h[b].main_node = k
      BY <1>1, <2>6, <3>1, MergedNodes
    <3> QED BY <1>1, <2>6, <3>1, <3>2, MergedNodes
  <2> QED BY <2>2, <2>7, <2>8
<1> QED BY <1>3, <1>4

(* No step brings a dead node back.                                        *)
LEMMA StaysDead ==
    ASSUME NEW h, NEW rt, NEW g, NEW rt2, NEW q, NEW z, NEW b, NEW c, NEW P,
           Step(h, rt, g, rt2, q, z, b, c, P), NEW n \in Ptr(h), Alive(g, rt2, n)
    PROVE  Alive(h, rt, n)
<1>1. /\ State(h, rt) /\ State(g, rt2) /\ HeapBases(h, rt) /\ KeepsNodes(h, g) /\ Settled(h, g, rt2)
      /\ CutsFrom(h, rt, g, rt2, P) /\ Moves(h, rt, g, rt2, q, z, b, c)
      /\ \A k \in Ptr(h) : k \in Routes(g) <=> k \in Routes(h)
      /\ Ptr(h) \subseteq Ptr(g) /\ Routes(h) \subseteq Ptr(h) /\ null \notin Ptr(g)
  BY StepNodes
<1>2. DONE \notin Ptr(h)
  BY <1>1, HeapBasics DEF State, DONE
<1>3. ASSUME NEW s \in Routes(g), NEW y \in Sides, Attached(g, rt2, s), NEW k \in Ptr(h), Side(g, s, y) = k
      PROVE  /\ s \in Routes(h) /\ Attached(h, rt, s)
             /\ Side(h, s, y) = k \/ (s = q /\ k = c /\ b /= c)
  <2>1. s \in Ptr(h)
    BY <1>1, <1>3 DEF Settled, NewLinks
  <2>2. s \in Routes(h)
    BY <1>1, <2>1
  <2> QED BY <1>1, <1>3, <2>2 DEF CutsFrom, Moves
<1>4. CASE n \in Routes(h)
  <2>1. n \in Routes(g)
    BY <1>1, <1>4
  <2>2. \A k \in Committed(g) : g[k].neigh2 /= n
    <3> SUFFICES ASSUME NEW k \in Committed(g), g[k].neigh2 = n PROVE FALSE
      OBVIOUS
    <3> QED BY <1>1, <1>2, <2>1, MergedNodes
  <2> QED BY <1>1, <1>4, <2>1, <2>2 DEF Alive, CutsFrom
<1>5. CASE n \notin Routes(h) /\ Elsewhere(g, rt2, null, n)
  <2>1. CASE n /= c \/ b = c
    <3>1. CASE rt2 = n
      BY <1>1, <1>5, <2>1, <3>1 DEF Moves, Alive, Elsewhere
    <3>2. CASE rt2 /= n
      <4>1. PICK s \in Routes(g), y \in Sides : Attached(g, rt2, s) /\ Side(g, s, y) = n
        BY <1>5, <3>2 DEF Elsewhere
      <4>2. s \in Routes(h) /\ Attached(h, rt, s) /\ Side(h, s, y) = n /\ s /= null
        BY <1>1, <1>3, <2>1, <4>1
      <4> QED BY <1>5, <4>2 DEF Alive, Elsewhere
    <3> QED BY <3>1, <3>2
  <2>2. CASE n = c /\ b /= c
    <3>1. CASE MergesInto(h, rt, q, b, c, P)
      <4>1. PICK m \in Committed(h) : b = h[m].neigh1 /\ c = h[m].neigh2 /\ q = h[b].parent
        BY <3>1 DEF MergesInto
      <4>2. q \in Routes(h) /\ Attached(h, rt, q) /\ q /= null
        BY <1>1, <3>1 DEF MergesInto, Attached
      <4>3. Placed(h, rt, h[m].neigh1)
        BY <1>1, <4>1, <4>2 DEF Placed, Moves
      <4> QED BY <2>2, <4>1, <4>3 DEF Alive
    <3>2. CASE CutsRoute(h, rt, q, b, c, P)
      <4>1. b \in Routes(h) /\ Attached(h, rt, b) /\ b /= null /\ \E y \in Sides : Side(h, b, y) = c
        BY <1>1, <3>2, CutRoute
      <4> QED BY <1>5, <2>2, <4>1 DEF Alive, Elsewhere
    <3>3. ~Stands(b, c, P) /\ ~Renews(h, rt, q, b, c, P)
      BY <2>2 DEF Stands, Renews
    <3> QED BY <3>1, <3>2, <3>3 DEF Step
  <2> QED BY <2>1, <2>2
<1>6. CASE n \notin Routes(h) /\ ~Elsewhere(g, rt2, null, n)
  <2>1. PICK k \in Committed(g) : g[k].neigh2 = n /\ Placed(g, rt2, g[k].neigh1)
    BY <1>1, <1>6 DEF Alive
  <2>2. k \in Committed(h)
    BY <1>1, <2>1 DEF Settled, NewJoin
  <2>3. h[k].neigh2 = n /\ h[k].neigh2 /= DONE /\ g[k].neigh1 = h[k].neigh1
    BY <1>1, <1>2, <2>1, <2>2, OldOutcomes DEF State, KeepsNodes
  <2> DEFINE n1 == h[k].neigh1
             p1 == h[n1].parent
  <2>4. n1 \in Ptr(h) /\ n1 \notin Routes(h) /\ h[n1].main_node = k /\ n1 /= n /\ g[n1].parent = p1
    BY <1>1, <2>2, <2>3, MergedNodes DEF KeepsNodes
  <2>5. ~(n1 = c /\ b /= c)
    <3> SUFFICES ASSUME n1 = c, b /= c PROVE FALSE
      OBVIOUS
    <3>1. CASE MergesInto(h, rt, q, b, c, P)
      <4>1. PICK m \in Committed(h) : c = h[m].neigh2 /\ c /= DONE
        BY <3>1 DEF MergesInto
      <4> QED BY <1>1, <2>3, <2>4, <4>1, MergedNodes
    <3>2. CASE CutsRoute(h, rt, q, b, c, P)
      <4>1. PICK m \in Committed(h) : c = h[m].neigh2 /\ h[m].neigh2 /= DONE
        BY <1>1, <2>4, <3>2, CutRoute
      <4> QED BY <1>1, <2>3, <2>4, <4>1, MergedNodes
    <3>3. ~Stands(b, c, P) /\ ~Renews(h, rt, q, b, c, P)
      BY <2>4 DEF Stands, Renews
    <3> QED BY <3>1, <3>2, <3>3 DEF Step
  <2> HIDE DEF n1, p1
  <2>6. Placed(h, rt, n1)
    <3>1. CASE p1 = null
      <4>1. rt2 = n1
        BY <2>1, <2>3, <2>4, <3>1 DEF Placed, n1
      <4> QED BY <1>1, <2>5, <3>1, <4>1 DEF Placed, Moves, p1
    <3>2. CASE p1 /= null
      <4>1. PICK y \in Sides : Attached(g, rt2, p1) /\ Side(g, p1, y) = n1
        BY <2>1, <2>3, <2>4, <3>2 DEF Placed, n1
      <4>2. p1 \in Routes(g)
        BY <4>1 DEF Attached
      <4>3. Attached(h, rt, p1) /\ Side(h, p1, y) = n1
        BY <1>3, <2>4, <2>5, <4>1, <4>2
      <4> QED BY <3>2, <4>3 DEF Placed, p1
    <3> QED BY <3>1, <3>2
  <2> QED BY <2>2, <2>3, <2>6 DEF Alive, n1
<1> QED BY <1>4, <1>5, <1>6

(* What all threads rely on stays so                                       *)

(* The child p has on a side, before and after.                            *)
LEMMA StepChild ==
    ASSUME NEW h, NEW rt, NEW g, NEW rt2, NEW q, NEW z, NEW b, NEW c, NEW P,
           Step(h, rt, g, rt2, q, z, b, c, P), NEW p \in Routes(h), NEW y \in Sides
    PROVE  LET x == Side(h, p, y)
               x2 == Side(g, p, y)
           IN  x \in Ptr(h) /\ x2 \in Ptr(g) /\ (x2 = x \/ (x = b /\ x2 = c))
<1>1. /\ \A r \in Routes(h), u \in Sides : Side(h, r, u) \in Ptr(h)
      /\ \A r \in Routes(g), u \in Sides : Side(g, r, u) \in Ptr(g)
      /\ p \in Routes(g)
  BY StepNodes
<1>2. Moves(h, rt, g, rt2, q, z, b, c) /\ p /= null
  BY NullIsNoNode DEF Step
<1> QED BY <1>1, <1>2 DEF Moves

(* A live node below x stays below it.                                     *)
LEMMA AliveStaysBelow ==
    ASSUME NEW h, NEW rt, NEW g, NEW rt2, NEW q, NEW z, NEW b, NEW c, NEW P,
           Step(h, rt, g, rt2, q, z, b, c, P),
           NEW x \in Ptr(h), NEW x2, x2 = x \/ (x = b /\ x2 = c), NEW n \in From(h, x), Alive(g, rt2, n)
    PROVE  n \in From(g, x2)
BY StepKeepsBelow, GoneIsDead

LEMMA StepLeads ==
    ASSUME NEW h, NEW rt, NEW g, NEW rt2, NEW q, NEW z, NEW b, NEW c, NEW P,
           Step(h, rt, g, rt2, q, z, b, c, P),
           NEW p \in Routes(h), NEW y \in Sides, NEW cur \in Ptr(h),
           Leads(h, rt, cur, Side(h, p, y))
    PROVE  Leads(g, rt2, cur, Side(g, p, y))
<1> DEFINE x == Side(h, p, y)
           x2 == Side(g, p, y)
<1>1. x \in Ptr(h) /\ x2 \in Ptr(g) /\ (x2 = x \/ (x = b /\ x2 = c))
  BY StepChild
<1>2. /\ HeapOK(h) /\ HeapOK(g) /\ YoungerBelow(h) /\ YoungerBelow(g)
      /\ b /= c /\ q /= null => q \in Routes(h) /\ Side(g, q, z) = c /\ z \in Sides
      /\ \A k \in Routes(g) : g[k].left = Side(g, k, "left") /\ g[k].right = Side(g, k, "right")
      /\ Ptr(h) \subseteq Ptr(g) /\ c \in Ptr(g) /\ null \notin Ptr(h) /\ Routes(h) \subseteq Routes(g)
      /\ Routes(h) \subseteq Ptr(h) /\ CutsFrom(h, rt, g, rt2, P) /\ State(h, rt) /\ HeapBases(h, rt)
  BY StepSides, StepNodes
<1> HIDE DEF x, x2
<1>3. /\ Below(h, cur) = From(h, cur) /\ Below(g, cur) = From(g, cur)
      /\ Below(h, x) = From(h, x) /\ Below(g, x2) = From(g, x2)
  BY <1>1, <1>2, BelowIsFrom
<1>4. \A n \in From(h, cur) : Alive(h, rt, n) => n \in From(h, x)
  BY <1>3 DEF Leads, x
<1>5. ASSUME NEW n \in From(h, cur), Alive(g, rt2, n) PROVE n \in From(g, x2)
  <2>1. n \in Ptr(h)
    BY <1>2, FromRoutes
  <2>2. Alive(h, rt, n)
    BY <1>5, <2>1, StaysDead
  <2> QED BY <1>1, <1>4, <1>5, <2>2, AliveStaysBelow
<1>6. ASSUME b /= c, q \in From(h, cur), NEW n \in From(g, c) PROVE n \in From(g, x2)
  <2>1. q \in Ptr(h) /\ q /= null /\ q \in Routes(h) /\ q \in Routes(g)
    BY <1>2, <1>6, FromRoutes
  <2>2. Attached(h, rt, q)
    BY <1>6, <2>1 DEF Step, Stands, Renews, MergesInto, CutsRoute
  <2>3. q \notin P
    <3>1. CutsRoute(h, rt, q, b, c, P) => q /= b
      BY <1>2, CutRoute
    <3> QED BY <1>6, <3>1 DEF Step, Stands, Renews, MergesInto, CutsRoute
  <2>4. Alive(g, rt2, q)
    BY <1>2, <2>1, <2>2, <2>3 DEF CutsFrom, Alive
  <2>5. q \in From(g, x2)
    BY <1>5, <1>6, <2>4
  <2>6. c \in From(g, x2)
    <3>1. Closed(g, From(g, x2)) /\ Side(g, q, z) = c
      BY <1>1, <1>2, <1>6, <2>1, FromRoutes
    <3> QED BY <1>2, <2>1, <2>5, <3>1 DEF Closed, Side
  <2> QED BY <1>1, <1>2, <2>6, FromRoutes
<1>7. \A n \in From(g, cur) : Alive(g, rt2, n) => n \in From(g, x2)
  BY <1>5, <1>6, StepReaches
<1> QED BY <1>3, <1>7 DEF Leads, x2

LEMMA StepReplaceable ==
    ASSUME NEW h, NEW g, HeapOK(h), HeapOK(g), KeepsNodes(h, g), NEW n \in Ptr(h), Replaceable(h, n)
    PROVE  Replaceable(g, n)
<1>1. g[n].type = h[n].type /\ g[n].main_node = h[n].main_node
  BY DEF KeepsNodes
<1>2. h[n].type = "join_neighbor" => h[n].main_node \in Ptr(h)
  BY DEF HeapOK, NodeOK
<1>3. \A m \in Ptr(h) : /\ h[m].neigh2 = ABORTED => g[m].neigh2 = ABORTED
                        /\ h[m].neigh2 = DONE => g[m].neigh2 = DONE
  BY OldOutcomes
<1> QED BY <1>1, <1>2, <1>3 DEF Replaceable

LEMMA StepThread ==
    ASSUME NEW h, NEW rt, NEW g, NEW rt2, NEW q, NEW z, NEW b, NEW c, NEW P,
           Step(h, rt, g, rt2, q, z, b, c, P),
           NEW l \in Locals, NEW label, NEW cl, LocalOK(h, l, label, cl), ThreadSlots(h, rt, l, label),
           ThreadBases(h, rt, l, label),
           label = "publish" => g[l.m].otherb = h[l.m].otherb
    PROVE  ThreadBases(g, rt2, l, label)
<1>1. /\ State(h, rt) /\ State(g, rt2) /\ HeapBases(h, rt) /\ KeepsNodes(h, g) /\ HeapOK(h) /\ HeapOK(g)
      /\ CutsFrom(h, rt, g, rt2, P) /\ Routes(h) \subseteq Routes(g) /\ null \notin Ptr(g)
      /\ Ptr(h) \subseteq Ptr(g) /\ Routes(h) \subseteq Ptr(h)
      /\ \A n \in Ptr(h) : g[n].parent = h[n].parent /\ h[n].parent \in Routes(h) \cup {null}
  BY StepNodes DEF State, KeepsNodes, HeapOK, NodeOK
<1>2. Opposite(l.side) \in Sides
  BY DEF Locals, Opposite, Sides
<1>3. ASSUME label \in {"replace", "copy"} PROVE Replaceable(g, l.base)
  <2>1. l.base \in Ptr(h) /\ Replaceable(h, l.base)
    BY <1>3 DEF LocalOK, BaseOK, ThreadBases
  <2> QED BY <1>1, <2>1, StepReplaceable
<1>4. ASSUME label \in {"lockMain", "lockNeighbor"} PROVE Replaceable(g, l.cur)
  <2>1. l.cur \in Ptr(h) /\ Replaceable(h, l.cur)
    BY <1>4 DEF LocalOK, CurOK, ThreadBases
  <2> QED BY <1>1, <2>1, StepReplaceable
<1>5. \A n \in Ptr(h) : Attached(g, rt2, g[n].parent) =>
        h[n].parent \in Routes(h) /\ g[n].parent = h[n].parent /\ Attached(h, rt, h[n].parent)
  BY <1>1, NullIsNoNode DEF Attached, CutsFrom
<1>6. ASSUME label \in {"outermost", "lockMain"}, Attached(g, rt2, g[l.base].parent)
      PROVE  Leads(g, rt2, l.cur, Sibling(g, g[l.base].parent, l.side))
  <2>1. l.base \in Ptr(h) /\ l.cur \in Ptr(h)
    BY <1>6 DEF LocalOK, BaseOK, CurOK
  <2>2. /\ h[l.base].parent \in Routes(h) /\ g[l.base].parent = h[l.base].parent
        /\ Attached(h, rt, h[l.base].parent)
    BY <1>5, <1>6, <2>1
  <2>3. Leads(h, rt, l.cur, Side(h, h[l.base].parent, Opposite(l.side)))
    BY <1>6, <2>2 DEF ThreadBases, Sibling
  <2>4. Leads(g, rt2, l.cur, Side(g, h[l.base].parent, Opposite(l.side)))
    BY <1>2, <2>1, <2>2, <2>3, StepLeads
  <2> QED BY <2>2, <2>4 DEF Sibling
<1>7. ASSUME label = "lockNeighbor", Attached(g, rt2, g[l.m].parent)
      PROVE  Leads(g, rt2, l.cur, Sibling(g, g[l.m].parent, l.side))
  <2>1. l.m \in Ptr(h) /\ l.cur \in Ptr(h)
    BY <1>7 DEF LocalOK, JoinLocalsOK, CurOK, OwnerLabels
  <2>2. /\ h[l.m].parent \in Routes(h) /\ g[l.m].parent = h[l.m].parent
        /\ Attached(h, rt, h[l.m].parent)
    BY <1>5, <1>7, <2>1
  <2>3. Leads(h, rt, l.cur, Side(h, h[l.m].parent, Opposite(l.side)))
    BY <1>7, <2>2 DEF ThreadBases, Sibling
  <2>4. Leads(g, rt2, l.cur, Side(g, h[l.m].parent, Opposite(l.side)))
    BY <1>2, <2>1, <2>2, <2>3, StepLeads
  <2> QED BY <2>2, <2>4 DEF Sibling
<1>8. ASSUME label \in {"lockParent", "parentOf", "search", "lockGparent", "readOther"},
             g[l.m].neigh2 = PREPARING, Attached(g, rt2, g[l.m].parent)
      PROVE  l.n1 \in Below(g, Sibling(g, g[l.m].parent, l.side))
  <2> DEFINE p == h[l.m].parent
             x == Side(h, p, Opposite(l.side))
             x2 == Side(g, p, Opposite(l.side))
  <2>1. label \in OwnerLabels \ {"lockNeighbor", "undoMain"}
    BY <1>8 DEF OwnerLabels
  <2>2. /\ l.m \in Ptr(h) /\ l.n1 \in Ptr(h) /\ h[l.n1].type = "join_neighbor" /\ h[l.n1].main_node = l.m
    BY <2>1 DEF LocalOK, JoinLocalsOK, ThreadSlots
  <2>3. p \in Routes(h) /\ g[l.m].parent = p /\ Attached(h, rt, p)
    BY <1>5, <1>8, <2>2
  <2>4. h[l.m].neigh2 = PREPARING /\ l.m \notin Committed(h)
    <3>1. h[l.m].neigh2 = PREPARING
      BY <1>1, <1>8, <2>2, OldOutcomes
    <3> QED BY <3>1 DEF Committed, Unpublished
  <2>5. x \in Ptr(h) /\ x2 \in Ptr(g) /\ (x2 = x \/ (x = b /\ x2 = c))
    BY <1>2, <2>3, StepChild
  <2> HIDE DEF p
  <2>6. l.n1 \in Below(h, x)
    BY <1>8, <2>3, <2>4 DEF ThreadBases, Sibling, p
  <2> HIDE DEF x, x2
  <2>7. Below(h, x) = From(h, x) /\ Below(g, x2) = From(g, x2)
    BY <1>1, <2>5, BelowIsFrom DEF State, HeapJoins
  <2>8. ~Gone(h, rt, q, b, c, P, l.n1)
    <3> SUFFICES ASSUME Gone(h, rt, q, b, c, P, l.n1) PROVE FALSE
      OBVIOUS
    <3>1. l.n1 = b /\ b /= c
      BY <2>2 DEF Gone, Committed
    <3>2. ~Replaceable(h, b) /\ b \notin Routes(h)
      BY <2>2, <2>4, <3>1 DEF Replaceable, Routes, PREPARING, ABORTED, DONE
    <3>3. \A m \in Committed(h) : h[m].neigh1 /= b
      BY <1>1, <2>2, <2>4, <3>1, MergedNodes
    <3>4. CutsRoute(h, rt, q, b, c, P) => b \in Routes(h)
      BY <1>1, CutRoute
    <3> QED BY <3>1, <3>2, <3>3, <3>4 DEF Step, Stands, Renews, MergesInto
  <2>9. l.n1 \in From(g, x2)
    BY <2>5, <2>6, <2>7, <2>8, StepKeepsBelow
  <2> QED BY <2>3, <2>7, <2>9 DEF Sibling, p, x2
<1>9. ASSUME label = "publish", g[l.m].neigh2 = PREPARING
      PROVE  /\ g[l.n1].parent /= null
             /\ g[l.m].otherb \in Routes(g) \/ (g[l.m].otherb = l.n1 /\ g[l.n1].parent = g[l.m].parent)
  <2>1. l.m \in Ptr(h) /\ l.n1 \in Ptr(h)
    BY <1>9 DEF LocalOK, JoinLocalsOK, OwnerLabels
  <2>2. h[l.m].neigh2 = PREPARING
    BY <1>1, <1>9, <2>1, OldOutcomes
  <2> QED BY <1>1, <1>9, <2>1, <2>2 DEF ThreadBases
<1> QED BY <1>3, <1>4, <1>6, <1>7, <1>8, <1>9 DEF ThreadBases

(* What enters the tree is new or the merged node of a join.               *)
LEMMA StepEnters ==
    ASSUME NEW h, NEW rt, NEW g, NEW rt2, NEW q, NEW z, NEW b, NEW c, NEW P,
           Step(h, rt, g, rt2, q, z, b, c, P), NEW n \in Below(g, rt2), n \notin Below(h, rt)
    PROVE  n \notin Ptr(h) \/ \E m \in Committed(h) : h[m].neigh2 = n /\ h[m].neigh2 /= DONE
<1>1. /\ State(h, rt) /\ State(g, rt2) /\ HeapBases(h, rt) /\ Moves(h, rt, g, rt2, q, z, b, c)
      /\ Settled(h, g, rt2) /\ b \in Ptr(h) /\ c \in Ptr(g) /\ null \notin Ptr(g)
      /\ Ptr(h) \subseteq Ptr(g) /\ Routes(h) \subseteq Ptr(h)
      /\ \A k \in Ptr(h) : k \in Routes(g) <=> k \in Routes(h)
      /\ \A r \in Routes(g), y \in Sides : Side(g, r, y) \in Ptr(g)
  BY StepNodes
<1>2. /\ HeapOK(h) /\ HeapOK(g) /\ YoungerBelow(h) /\ YoungerBelow(g) /\ rt \in Ptr(h) /\ rt2 \in Ptr(g)
      /\ b /= c /\ q /= null => q \in Routes(h) /\ Side(h, q, z) = b
      /\ \A k \in Routes(h) : h[k].left = Side(h, k, "left") /\ h[k].right = Side(h, k, "right")
      /\ \A k \in Routes(g) : g[k].left = Side(g, k, "left") /\ g[k].right = Side(g, k, "right")
      /\ "left" \in Sides /\ "right" \in Sides
  BY <1>1, StepSides DEF State
<1>3. /\ Below(h, rt) = From(h, rt) /\ Below(g, rt2) = From(g, rt2)
      /\ From(g, rt2) \subseteq Ptr(g) /\ From(h, rt) \subseteq Ptr(h)
      /\ rt \in From(h, rt) /\ Closed(h, From(h, rt))
  BY <1>2, BelowIsFrom, FromRoutes
<1>4. /\ b /= c /\ n \in From(g, c)
      /\ (q = null /\ rt = b) \/ q \in From(h, rt)
  <2>1. CASE rt2 = rt
    <3>1. b /= c /\ q \in From(h, rt) /\ n \in From(g, c)
      BY <1>2, <1>3, <2>1, StepReaches
    <3> QED BY <3>1
  <2>2. CASE rt2 /= rt
    <3>1. q = null /\ rt = b /\ rt2 = c
      BY <1>1, <2>2 DEF Moves
    <3> QED BY <1>3, <2>2, <3>1
  <2> QED BY <2>1, <2>2
<1>5. b \in From(h, rt)
  <2>1. q \in From(h, rt) => q \in Routes(h) /\ Side(h, q, z) = b
    BY <1>1, <1>2, <1>3, <1>4
  <2> QED BY <1>2, <1>3, <1>4, <2>1 DEF Closed, Side
<1>6. CASE Renews(h, rt, q, b, c, P)
  <2> DEFINE S == Ptr(g) \ Ptr(h)
  <2>1. c \in S /\ S \in SUBSET Ptr(g)
    BY <1>1, <1>6 DEF Renews
  <2>2. Closed(g, S)
    <3> SUFFICES ASSUME NEW k \in S, k \in Routes(g) PROVE g[k].left \in S /\ g[k].right \in S
      BY DEF Closed
    <3>1. \A y \in Sides : Side(g, k, y) \in Ptr(g) /\ Side(g, k, y) \notin Ptr(h)
      BY <1>1 DEF Settled, NewLinks
    <3> QED BY <1>2, <3>1
  <2>3. From(g, c) \subseteq S
    <3> HIDE DEF S
    <3> QED BY <1>1, <1>2, <2>1, <2>2, FromRoutes
  <2> QED BY <1>4, <2>3
<1>7. CASE MergesInto(h, rt, q, b, c, P)
  <2>1. PICK m \in Committed(h) : c = h[m].neigh2 /\ c /= DONE
    BY <1>7 DEF MergesInto
  <2>2. c \in Ptr(h) /\ c \notin Routes(g)
    BY <1>1, <2>1, MergedNodes
  <2>3. From(g, c) = {c}
    BY <1>1, <1>2, <2>2, FromRoutes DEF Routes
  <2> QED BY <1>4, <2>1, <2>3
<1>8. CASE CutsRoute(h, rt, q, b, c, P)
  <2>1. /\ b \in Routes(h) /\ q < b /\ c \in Ptr(h) /\ \E y \in Sides : Side(h, b, y) = c
    BY <1>1, <1>8, CutRoute
  <2>2. b < c /\ q \in Routes(h) \cup {null}
    BY <1>1, <1>2, <2>1 DEF YoungerBelow, Side, Moves
  <2>3. q < c
    <3>1. q \in Nat /\ b \in Nat /\ c \in Nat
      BY <1>1, <1>2, <2>1, <2>2, HeapBasics DEF null
    <3> QED BY <2>1, <2>2, <3>1
  <2>4. q \notin From(h, c)
    <3> SUFFICES ASSUME q \in From(h, c) PROVE FALSE
      OBVIOUS
    <3>1. q >= c /\ q \in Ptr(h)
      BY <1>2, <2>1, SubtreeYounger
    <3>2. q \in Nat /\ c \in Nat
      BY <1>2, <2>1, <3>1, HeapBasics
    <3> QED BY <2>3, <3>1, <3>2
  <2>5. n \in From(h, c)
    BY <1>4, <2>1, <2>4, StepReaches
  <2>6. c \in From(h, rt)
    <3>1. h[b].left \in From(h, rt) /\ h[b].right \in From(h, rt)
      BY <1>3, <1>5, <2>1 DEF Closed
    <3> QED BY <2>1, <3>1 DEF Side
  <2>7. n \in From(h, rt)
    BY <1>2, <1>3, <2>1, <2>5, <2>6, FromRoutes
  <2> QED BY <1>3, <2>7
<1>9. ~Stands(b, c, P)
  BY <1>4 DEF Stands
<1> QED BY <1>6, <1>7, <1>8, <1>9 DEF Step

(* What leaves it is a route, was replaceable, or belongs to a published   *)
(* join.                                                                   *)
LEMMA StepLeaves ==
    ASSUME NEW h, NEW rt, NEW g, NEW rt2, NEW q, NEW z, NEW b, NEW c, NEW P,
           Step(h, rt, g, rt2, q, z, b, c, P), NEW n \in Below(h, rt), n \notin Below(g, rt2)
    PROVE  \/ n \in Routes(h) \/ Replaceable(h, n)
           \/ \E m \in Committed(h) : h[m].neigh2 /= DONE /\ n \in {m, h[m].neigh1}
<1>1. /\ State(h, rt) /\ State(g, rt2) /\ HeapBases(h, rt) /\ Moves(h, rt, g, rt2, q, z, b, c)
      /\ rt \in Ptr(h) /\ rt2 \in Ptr(g) /\ Routes(h) \subseteq Ptr(h)
  BY StepNodes DEF State
<1>2. Below(h, rt) = From(h, rt) /\ Below(g, rt2) = From(g, rt2)
  BY <1>1, StepSides, BelowIsFrom
<1>3. rt2 = rt \/ (rt = b /\ rt2 = c)
  BY <1>1 DEF Moves
<1>4. Gone(h, rt, q, b, c, P, n)
  BY <1>1, <1>2, <1>3, StepKeepsBelow
<1>5. CASE n = b
  <2>1. CASE MergesInto(h, rt, q, b, c, P)
    BY <1>5, <2>1 DEF MergesInto
  <2>2. CASE CutsRoute(h, rt, q, b, c, P)
    BY <1>1, <1>5, <2>2, CutRoute
  <2>3. CASE Renews(h, rt, q, b, c, P)
    BY <1>5, <2>3 DEF Renews
  <2> QED BY <1>4, <2>1, <2>2, <2>3 DEF Step, Stands, Gone
<1>6. CASE n /= b
  BY <1>4, <1>6 DEF Gone
<1> QED BY <1>5, <1>6

-----------------------------------------------------------------------------
(* The steps of the threads                                                *)

Moved == \E q, z, b, c, P : Step(heap, root, heap', root', q, z, b, c, P)

LEMMA BasesState ==
    ASSUME BInv, NEW t \in Threads
    PROVE  /\ SInv /\ JInv /\ State(heap, root) /\ HeapBases(heap, root)
           /\ HeapOK(heap) /\ HeapJoins(heap, root) /\ HeapSlots(heap, root) /\ root \in Ptr(heap)
           /\ ThreadBases(heap, root, loc[t], pc[t]) /\ ThreadSlots(heap, root, loc[t], pc[t])
           /\ ThreadJoins(heap, root, loc[t], pc[t])
           /\ loc[t] \in Locals /\ LocalOK(heap, loc[t], pc[t], call[t])
<1>1. SInv /\ BasesAreHeld
  BY DEF BInv
<1> QED BY <1>1, SlotsState DEF BasesAreHeld, State

LEMMA NextState ==
    ASSUME SInv'
    PROVE  /\ State(heap', root') /\ HeapOK(heap') /\ HeapJoins(heap', root')
           /\ HeapSlots(heap', root') /\ root' \in Ptr(heap')
<1>1. JInv' /\ HeapSlots(heap', root')
  BY DEF SInv, SlotsAreKept
<1> QED BY <1>1, SlotsNext DEF State

LEMMA OutcomesMove ==
    ASSUME OutcomesAreFinal, HeapOK(heap)
    PROVE  \A n \in Ptr(heap) : OutcomeMoves(heap[n].neigh2, heap'[n].neigh2)
<1>1. Pointers = Ptr(heap)
  BY DEF Pointers, Ptr
<1>2. \A k : k > 0 => k \notin Unpublished \/ k \notin Int
  BY DEF Unpublished, PREPARING, ABORTED
<1>3. \A n \in Ptr(heap) : heap[n].neigh2 \in Int
  BY SMTT(30), HeapBasics DEF Node, DONE, ABORTED
<1> QED BY <1>1, <1>2, <1>3 DEF OutcomesAreFinal, OutcomeMoves

(* A step that leaves the heap alone.                                      *)
LEMMA SameMoves ==
    ASSUME BInv, NEW t \in Threads, heap' = heap, root' = root
    PROVE  Moved
<1>1. State(heap, root) /\ HeapBases(heap, root) /\ HeapOK(heap) /\ root \in Ptr(heap)
  BY BasesState
<1>2. null \notin Routes(heap) /\ Routes(heap) \subseteq Ptr(heap)
  BY NullIsNoNode
<1>3. KeepsNodes(heap, heap)
  BY <1>1, HeapBasics DEF KeepsNodes, OutcomeMoves
<1>4. Moves(heap, root, heap, root, null, "left", root, root)
  BY <1>2 DEF Moves, Sides
<1>5. CutsFrom(heap, root, heap, root, {})
  BY <1>2 DEF CutsFrom
<1>6. Settled(heap, heap, root)
  <2>1. \A r \in Routes(heap), y \in Sides : Side(heap, r, y) \in Ptr(heap)
    BY <1>1, SidesOK
  <2> QED BY <1>1, <1>2, <2>1 DEF Settled, NewLinks
<1>7. Step(heap, root, heap, root, null, "left", root, root, {})
  BY <1>1, <1>3, <1>4, <1>5, <1>6 DEF Step, Stands
<1> QED BY <1>7 DEF Moved

(* A store to fields of a node.                                            *)
LEMMA EditMoves ==
    ASSUME BInv, SInv', OutcomesAreFinal, NEW t \in Threads, root' = root,
           NEW i \in Ptr(heap), EditOf(heap, i, heap'), SameLinks(heap[i], heap'[i]),
           heap'[i].neigh2 \notin Unpublished <=> heap[i].neigh2 \notin Unpublished,
           i \in Committed(heap) => /\ heap'[i].gparent = heap[i].gparent
                                    /\ heap'[i].otherb = heap[i].otherb
                                    /\ heap'[i].neigh1 = heap[i].neigh1
    PROVE  Moved
<1>1. State(heap, root) /\ HeapBases(heap, root) /\ HeapOK(heap) /\ root \in Ptr(heap)
  BY BasesState
<1>2. State(heap', root) /\ HeapOK(heap')
  BY NextState
<1>3. null \notin Routes(heap) /\ Routes(heap) \subseteq Ptr(heap)
  BY NullIsNoNode
<1>4. \A n \in Ptr(heap) : OutcomeMoves(heap[n].neigh2, heap'[n].neigh2)
  BY <1>1, OutcomesMove
<1>5. \A n \in Ptr(heap) : SameLinks(heap[n], heap'[n])
  BY DEF EditOf, SameLinks
<1>6. Ptr(heap') = Ptr(heap) /\ Len(heap) <= Len(heap')
  BY <1>1, HeapBasics DEF EditOf, Ptr
<1>7. Routes(heap') = Routes(heap)
  BY <1>5, <1>6 DEF Routes, SameLinks
<1>8. \A r \in Routes(heap), y \in Sides :
        Side(heap', r, y) = Side(heap, r, y) /\ Side(heap, r, y) \in Ptr(heap)
  BY <1>1, <1>3, <1>5, SidesOK DEF Side, SameLinks
<1>9. Calm(heap, root, heap', root) /\ Committed(heap') = Committed(heap)
  <2>1. heap[i].neigh2 = ABORTED => heap'[i].neigh2 = ABORTED
    BY <1>4 DEF OutcomeMoves, Unpublished, ABORTED, PREPARING
  <2> QED BY <1>1, <1>2, <2>1, EditCalm
<1>10. \A r \in Ptr(heap) : Attached(heap', root, r) <=> Attached(heap, root, r)
  BY <1>1, <1>2, <1>9, CalmAttached
<1>11. KeepsNodes(heap, heap')
  <2>1. \A m \in Committed(heap) : m \in Ptr(heap)
    BY DEF Committed
  <2> QED BY <1>4, <1>5, <1>6, <2>1 DEF KeepsNodes, SameLinks, EditOf
<1>12. Moves(heap, root, heap', root, null, "left", root, root)
  BY <1>3, <1>8 DEF Moves, Sides
<1>13. CutsFrom(heap, root, heap', root, {})
  BY <1>3, <1>7, <1>10 DEF CutsFrom
<1>14. Settled(heap, heap', root)
  BY <1>1, <1>3, <1>6, <1>7, <1>8, <1>9 DEF Settled, NewLinks
<1>15. Step(heap, root, heap', root, null, "left", root, root, {})
  BY <1>1, <1>2, <1>11, <1>12, <1>13, <1>14 DEF Step, Stands
<1> QED BY <1>15 DEF Moved

(* What a thread relies on stays so.                                       *)
LEMMA OwnStable ==
    ASSUME BInv, NEW t \in Threads, Moved, pc[t] /= "publish"
    PROVE  ThreadBases(heap', root', loc[t], pc[t])
<1>1. PICK q, z, b, c, P : Step(heap, root, heap', root', q, z, b, c, P)
  BY DEF Moved
<1>2. /\ loc[t] \in Locals /\ LocalOK(heap, loc[t], pc[t], call[t])
      /\ ThreadSlots(heap, root, loc[t], pc[t]) /\ ThreadBases(heap, root, loc[t], pc[t])
  BY BasesState
<1> QED BY <1>1, <1>2, StepThread

LEMMA BasesStep ==
    ASSUME BInv, NEW t \in Threads, NEW label, NEW l, Goto(t, label, l), Moved,
           ThreadBases(heap', root', l, label),
           \A n \in Ptr(heap) : heap'[n].otherb = heap[n].otherb \/ Owns(t, n)
    PROVE  BasesAreHeld'
<1>1. pc \in [Threads -> Labels] /\ loc \in [Threads -> Locals]
  BY DEF BInv, SInv, JInv, IInv, TypeOK
<1>2. /\ pc'[t] = label /\ loc'[t] = l
      /\ \A u \in Threads : u /= t => pc'[u] = pc[u] /\ loc'[u] = loc[u]
  BY <1>1 DEF Goto
<1>3. PICK q, z, b, c, P : Step(heap, root, heap', root', q, z, b, c, P)
  BY DEF Moved
<1>4. HeapBases(heap', root')
  BY <1>3, StepBases
<1>5. ASSUME NEW u \in Threads, u /= t PROVE ThreadBases(heap', root', loc[u], pc[u])
  <2>1. /\ loc[u] \in Locals /\ LocalOK(heap, loc[u], pc[u], call[u])
        /\ ThreadSlots(heap, root, loc[u], pc[u]) /\ ThreadBases(heap, root, loc[u], pc[u])
    BY BasesState
  <2>2. ASSUME pc[u] = "publish" PROVE heap'[loc[u].m].otherb = heap[loc[u].m].otherb
    <3>1. pc[u] \in OwnerLabels /\ loc[u].m \in Ptr(heap)
      BY <2>1, <2>2 DEF OwnerLabels, LocalOK, JoinLocalsOK
    <3>2. \A w \in Threads : Owns(w, loc[u].m) => w = u
      BY <3>1 DEF BInv, SInv, JInv, IInv, WellFormed, OwnersOK
    <3> QED BY <1>5, <3>1, <3>2
  <2> QED BY <1>3, <2>1, <2>2, StepThread
<1>6. ASSUME NEW u \in Threads PROVE ThreadBases(heap', root', loc'[u], pc'[u])
  <2>1. CASE u = t
    BY <1>2, <2>1
  <2>2. CASE u /= t
    BY <1>2, <1>5, <2>2
  <2> QED BY <2>1, <2>2
<1> QED BY <1>4, <1>6 DEF BasesAreHeld

BasesKept == Moved /\ BasesAreHeld'

LEMMA SameBasesStep ==
    ASSUME BInv, NEW t \in Threads, NEW label, NEW l, Goto(t, label, l), heap' = heap, root' = root,
           ThreadBases(heap, root, l, label)
    PROVE  BasesKept
<1>1. Moved
  BY SameMoves
<1>2. ThreadBases(heap', root', l, label)
  OBVIOUS
<1> QED BY <1>1, <1>2, BasesStep DEF BasesKept

BaseLabels == {"replace", "copy", "outermost", "lockMain", "lockNeighbor", "lockParent", "parentOf",
               "search", "lockGparent", "readOther", "publish"}

LEMMA NoBasesYet ==
    ASSUME NEW h, NEW rt, NEW l, NEW label, label \notin BaseLabels
    PROVE  ThreadBases(h, rt, l, label)
BY DEF ThreadBases, BaseLabels

LEMMA ThenHasNoBases ==
    ASSUME NEW l \in Locals, NEW h, NEW rt, NEW l2
    PROVE  ThreadBases(h, rt, l2, l.then)
<1>1. l.then \in {"root", "next", "return"}
  BY DEF Locals
<1> QED BY <1>1, NoBasesYet DEF BaseLabels

-----------------------------------------------------------------------------
(* Steps that leave the heap alone                                         *)

LEMMA FreeBases ==
    ASSUME BInv, NEW t \in Threads,
           \/ Begin(t) \/ Return(t) \/ LoadRoot(t) \/ FindBase(t) \/ Lookup(t) \/ FindFull(t)
           \/ ReplaceFails(t) \/ ChooseSide(t) \/ ParentNotFound(t) \/ FindSlot(t) \/ FindBaseStack(t)
           \/ FindNextBase(t) \/ Climb(t) \/ GoRight(t) \/ GoLeft(t)
    PROVE  BasesKept
<1>1. PICK label, l : /\ Goto(t, label, l) /\ heap' = heap /\ root' = root
                      /\ label \in {"idle", "root", "find", "return", "help", "sibling", "goRight",
                                    "goLeft", "climb", "split", "undoParent", "splice", "done"}
  BY DEF Begin, Return, LoadRoot, FindBase, Lookup, FindFull, ReplaceFails, ChooseSide, ParentNotFound,
         FindSlot, FindBaseStack, FindNextBase, Climb, GoRight, GoLeft, Local
<1>2. ThreadBases(heap, root, l, label)
  BY <1>1, NoBasesYet DEF BaseLabels
<1> QED BY SMTT(30), <1>1, <1>2, SameBasesStep

LEMMA ThenBases ==
    ASSUME BInv, NEW t \in Threads, Help(t) \/ CopyFails(t) \/ LoadJoined(t)
    PROVE  BasesKept
<1>1. loc[t] \in Locals
  BY SMTT(30), BasesState
<1>2. PICK label, l : /\ Goto(t, label, l) /\ heap' = heap /\ root' = root
                      /\ label \in {"abort", "load", "replaceNeighbor", loc[t].then}
  BY DEF Help, CopyFails, LoadJoined, Local
<1>3. ThreadBases(heap, root, l, label)
  BY <1>1, <1>2, NoBasesYet, ThenHasNoBases DEF BaseLabels
<1> QED BY <1>2, <1>3, SameBasesStep

(* A base is asked whether it may be replaced.                             *)
LEMMA CheckBases ==
    ASSUME BInv, NEW t \in Threads, CheckBase(t) \/ CheckRangeBase(t)
    PROVE  BasesKept
<1>1. loc[t] \in Locals
  BY BasesState
<1>2. PICK label, l : /\ Goto(t, label, l) /\ heap' = heap /\ root' = root
                      /\ label \in {"help", "replace", "copy"}
                      /\ label /= "help" => Replaceable(heap, l.base)
  <2>1. CASE CheckBase(t)
    <3> DEFINE b == loc[t].cur
               l1 == [loc[t] EXCEPT !.base = b]
    <3>1. l1.base = b
      BY <1>1 DEF Locals
    <3>2. is_replaceable(b) => Replaceable(heap, b)
      BY DEF is_replaceable, Replaceable
    <3>3. CASE is_replaceable(b)
      <4>1. Goto(t, "replace", l1) /\ heap' = heap /\ root' = root
        BY <2>1, <3>3 DEF CheckBase, Local
      <4> HIDE DEF l1, b
      <4> QED BY <3>1, <3>2, <3>3, <4>1
    <3>4. CASE ~is_replaceable(b)
      BY <2>1, <3>4 DEF CheckBase, Local
    <3> QED BY <3>3, <3>4
  <2>2. CASE CheckRangeBase(t)
    <3> DEFINE b == loc[t].cur
               l1 == [loc[t] EXCEPT !.base = b, !.stack = Append(@, b)]
    <3>1. l1.base = b
      BY <1>1 DEF Locals
    <3>2. is_replaceable(b) => Replaceable(heap, b)
      BY DEF is_replaceable, Replaceable
    <3>3. CASE is_replaceable(b)
      <4>1. Goto(t, "copy", l1) /\ heap' = heap /\ root' = root
        BY <2>2, <3>3 DEF CheckRangeBase, Local
      <4> HIDE DEF l1, b
      <4> QED BY <3>1, <3>2, <3>3, <4>1
    <3>4. CASE ~is_replaceable(b)
      BY <2>2, <3>4 DEF CheckRangeBase, Local
    <3> QED BY <3>3, <3>4
  <2> QED BY <2>1, <2>2
<1>3. ThreadBases(heap, root, l, label)
  BY <1>2 DEF ThreadBases
<1> QED BY <1>2, <1>3, SameBasesStep

(* The search for the neighbour starts at the sibling and stays below it.  *)
LEMMA SiblingBases ==
    ASSUME BInv, NEW t \in Threads, LoadSibling(t) \/ FindNeighbor(t)
    PROVE  BasesKept
<1> DEFINE p == heap[loc[t].base].parent
           s == Sibling(heap, p, loc[t].side)
<1>1. /\ loc[t] \in Locals /\ HeapOK(heap) /\ YoungerBelow(heap)
      /\ LocalOK(heap, loc[t], pc[t], call[t]) /\ ThreadBases(heap, root, loc[t], pc[t])
  BY SMTT(30), BasesState DEF HeapJoins
<1>2. PICK c, l : /\ Goto(t, "outermost", l) /\ heap' = heap /\ root' = root
                  /\ l = [loc[t] EXCEPT !.cur = c]
                  /\ \/ c = s
                     \/ pc[t] = "outermost" /\ IsRoute(loc[t].cur) /\ c = Child(loc[t].cur, loc[t].side)
  BY DEF LoadSibling, FindNeighbor, Local, Sibling, Child, Side
<1>3. l.base = loc[t].base /\ l.side = loc[t].side /\ l.cur = c
  BY <1>1, <1>2 DEF Locals
<1>4. ASSUME Attached(heap, root, p) PROVE Leads(heap, root, c, s)
  <2>1. CASE c = s
    BY <2>1 DEF Leads
  <2>2. CASE pc[t] = "outermost" /\ IsRoute(loc[t].cur) /\ c = Child(loc[t].cur, loc[t].side)
    <3>1. Leads(heap, root, loc[t].cur, s)
      BY <1>1, <1>4, <2>2 DEF ThreadBases
    <3>2. loc[t].cur \in Ptr(heap) /\ heap[loc[t].cur].type = "route"
      BY <1>1, <2>2 DEF LocalOK, CurOK, IsRoute
    <3>3. heap[loc[t].cur].left \in Ptr(heap) /\ heap[loc[t].cur].right \in Ptr(heap)
      BY <1>1, <3>2 DEF HeapOK, NodeOK
    <3>4. /\ Below(heap, loc[t].cur) = From(heap, loc[t].cur)
          /\ Below(heap, heap[loc[t].cur].left) = From(heap, heap[loc[t].cur].left)
          /\ Below(heap, heap[loc[t].cur].right) = From(heap, heap[loc[t].cur].right)
      BY <1>1, <3>2, <3>3, BelowIsFrom
    <3>5. From(heap, loc[t].cur) = {loc[t].cur} \cup From(heap, heap[loc[t].cur].left)
                                   \cup From(heap, heap[loc[t].cur].right)
      BY <1>1, <3>2, FromRoutes
    <3>6. Below(heap, c) \subseteq Below(heap, loc[t].cur)
      BY <2>2, <3>4, <3>5 DEF Child
    <3> QED BY <3>1, <3>6 DEF Leads
  <2> QED BY <1>2, <2>1, <2>2
<1>5. ThreadBases(heap, root, l, "outermost")
  BY <1>3, <1>4 DEF ThreadBases
<1> QED BY <1>2, <1>5, SameBasesStep

LEMMA CheckNeighborBases ==
    ASSUME BInv, NEW t \in Threads, CheckNeighbor(t)
    PROVE  BasesKept
<1>1. ThreadBases(heap, root, loc[t], pc[t])
  BY BasesState
<1>2. PICK label : /\ Goto(t, label, loc[t]) /\ heap' = heap /\ root' = root /\ pc[t] = "outermost"
                   /\ label \in {"lockMain", "return"}
                   /\ label = "lockMain" => is_replaceable(loc[t].cur)
  <2> DEFINE n0 == loc[t].cur
             fits == is_replaceable(n0) /\ Len(heap[loc[t].base].data) + Len(heap[n0].data) <= TREAP_NODES
  <2>1. /\ pc[t] = "outermost"
        /\ IF fits THEN Local(t, "lockMain", loc[t]) ELSE Local(t, "return", loc[t])
    BY DEF CheckNeighbor
  <2>2. fits => is_replaceable(loc[t].cur)
    OBVIOUS
  <2> HIDE DEF fits
  <2>3. CASE fits
    BY <2>1, <2>2, <2>3 DEF Local
  <2>4. CASE ~fits
    BY <2>1, <2>4 DEF Local
  <2> QED BY <2>3, <2>4
<1>3. is_replaceable(loc[t].cur) => Replaceable(heap, loc[t].cur)
  BY DEF is_replaceable, Replaceable
<1>4. ThreadBases(heap, root, loc[t], label)
  BY <1>1, <1>2, <1>3 DEF ThreadBases
<1> QED BY <1>2, <1>4, SameBasesStep

LEMMA ParentBases ==
    ASSUME BInv, NEW t \in Threads, ParentOf(t) \/ SearchParent(t) \/ ParentFound(t)
    PROVE  BasesKept
<1>1. loc[t] \in Locals /\ ThreadBases(heap, root, loc[t], pc[t])
  BY BasesState
<1>2. PICK label, l : /\ Goto(t, label, l) /\ heap' = heap /\ root' = root
                      /\ label \in {"search", "readOther", "lockGparent"}
                      /\ l.m = loc[t].m /\ l.n1 = loc[t].n1 /\ l.side = loc[t].side
                      /\ pc[t] \in {"parentOf", "search"}
  <2>1. ASSUME ParentOf(t) \/ SearchParent(t)
        PROVE  \E cur, gp : Local(t, "search", [loc[t] EXCEPT !.gparent = gp, !.cur = cur])
                            /\ pc[t] \in {"parentOf", "search"}
    <3>1. CASE ParentOf(t)
      <4>1. [loc[t] EXCEPT !.cur = root, !.gparent = null] = [loc[t] EXCEPT !.gparent = null, !.cur = root]
        BY <1>1 DEF Locals
      <4> QED BY <3>1, <4>1 DEF ParentOf
    <3>2. CASE SearchParent(t)
      BY <3>2 DEF SearchParent
    <3> QED BY <2>1, <3>1, <3>2
  <2>2. ASSUME NEW cur, NEW gp
        PROVE  LET l == [loc[t] EXCEPT !.gparent = gp, !.cur = cur]
               IN  l.m = loc[t].m /\ l.n1 = loc[t].n1 /\ l.side = loc[t].side
    BY <1>1 DEF Locals
  <2> QED BY <2>1, <2>2 DEF ParentFound, Local
<1>3. ThreadBases(heap, root, l, label)
  BY <1>1, <1>2 DEF ThreadBases
<1> QED BY <1>2, <1>3, SameBasesStep

-----------------------------------------------------------------------------
(* Steps that store to a field of a node                                   *)

LEMMA EditBases ==
    ASSUME BInv, SInv', OutcomesAreFinal, NEW t \in Threads, NEW label, Goto(t, label, loc[t]),
           root' = root, NEW i \in Ptr(heap), EditOf(heap, i, heap'), SameLinks(heap[i], heap'[i]),
           heap'[i].neigh2 \notin Unpublished <=> heap[i].neigh2 \notin Unpublished,
           heap'[i].gparent = heap[i].gparent, heap'[i].otherb = heap[i].otherb,
           heap'[i].neigh1 = heap[i].neigh1, pc[t] /= "publish",
           ThreadBases(heap', root', loc[t], pc[t]) => ThreadBases(heap', root', loc[t], label)
    PROVE  BasesKept
<1>1. Moved
  BY EditMoves
<1>2. ThreadBases(heap', root', loc[t], label)
  BY <1>1, OwnStable
<1>3. \A n \in Ptr(heap) : heap'[n].otherb = heap[n].otherb
  BY DEF EditOf
<1> QED BY <1>1, <1>2, <1>3, BasesStep DEF BasesKept

LEMMA LockBases ==
    ASSUME BInv, SInv', OutcomesAreFinal, NEW t \in Threads,
           LockParent(t) \/ LockGparent(t) \/ UndoGparent(t) \/ UndoParent(t)
    PROVE  BasesKept
<1>1. JInv /\ HeapOK(heap) /\ LocalOK(heap, loc[t], pc[t], call[t])
      /\ ThreadBases(heap, root, loc[t], pc[t])
  BY BasesState
<1>2. PICK label, i, j : /\ Goto(t, label, loc[t]) /\ root' = root
                         /\ \/ heap' = heap
                            \/ heap' = SetLock(heap, i, j)
                         /\ i = Parent(t) \/ (i = loc[t].gparent /\ pc[t] \in {"lockGparent", "undoGparent"})
                         /\ pc[t] \in {"lockParent", "lockGparent", "undoGparent", "undoParent"}
                         /\ label \in {"parentOf", "undoMain", "readOther", "undoParent"}
                         /\ label = "parentOf" => pc[t] = "lockParent"
                         /\ label = "readOther" => pc[t] = "lockGparent"
  <2>1. CASE LockParent(t)
    BY <2>1 DEF LockParent, Shared, SetLock
  <2>2. CASE LockGparent(t)
    BY <2>2 DEF LockGparent, Shared, SetLock
  <2>3. CASE UndoGparent(t)
    <3>1. /\ Goto(t, "undoParent", loc[t]) /\ root' = root /\ pc[t] = "undoGparent"
          /\ heap' = SetLock(heap, loc[t].gparent, null)
      BY <2>3 DEF UndoGparent, Shared, SetLock
    <3> QED BY <3>1
  <2>4. CASE UndoParent(t)
    <3>1. /\ Goto(t, "undoMain", loc[t]) /\ root' = root /\ pc[t] = "undoParent"
          /\ heap' = SetLock(heap, Parent(t), null)
      BY <2>4 DEF UndoParent, Shared, SetLock
    <3> QED BY <3>1
  <2> QED BY <2>1, <2>2, <2>3, <2>4
<1>3. pc[t] \in OwnerLabels
  BY <1>2 DEF OwnerLabels
<1>4. \A h, rt : ThreadBases(h, rt, loc[t], pc[t]) => ThreadBases(h, rt, loc[t], label)
  BY <1>2 DEF ThreadBases
<1>5. CASE heap' = heap
  BY <1>1, <1>2, <1>4, <1>5, SameBasesStep
<1>6. CASE heap' = SetLock(heap, i, j)
  <2>1. i \in Ptr(heap)
    <3>1. Parent(t) \in Ptr(heap)
      BY <1>1, <1>3, OwnerState
    <3>2. pc[t] \in {"lockGparent", "undoGparent"} => loc[t].gparent \in Ptr(heap)
      BY <1>1, NullIsNoNode DEF LocalOK, JoinLocalsOK
    <3> QED BY <1>2, <3>1, <3>2
  <2>2. /\ EditOf(heap, i, heap') /\ SameLinks(heap[i], heap'[i]) /\ SameJoin(heap[i], heap'[i])
    BY <1>1, <1>6, <2>1, LockEdit
  <2> QED BY <1>2, <1>4, <2>1, <2>2, EditBases DEF SameJoin
<1> QED BY <1>2, <1>5, <1>6

LEMMA InvalidateBases ==
    ASSUME BInv, SInv', OutcomesAreFinal, NEW t \in Threads, Invalidate(t)
    PROVE  BasesKept
<1> DEFINE p == Parent(t)
           label == IF heap[loc[t].m].gparent = null THEN "splice" ELSE "findSlot"
<1>1. /\ pc[t] = "invalidate" /\ pc[t] \in HelperLabels
      /\ heap' = SetInvalid(heap, p) /\ root' = root /\ Goto(t, label, loc[t])
  BY DEF Invalidate, HelperLabels, Shared, SetInvalid
<1>2. HeapOK(heap) /\ p \in Ptr(heap)
  BY <1>1, BasesState, HelperState
<1>3. ThreadBases(heap', root', loc[t], label)
  BY NoBasesYet DEF BaseLabels
<1> HIDE DEF p, label
<1>4. /\ EditOf(heap, p, heap') /\ SameLinks(heap[p], heap'[p]) /\ SameJoin(heap[p], heap'[p])
  BY <1>1, <1>2, ValidEdit
<1> QED BY <1>1, <1>2, <1>3, <1>4, EditBases DEF SameJoin

LEMMA UnlockBases ==
    ASSUME BInv, SInv', OutcomesAreFinal, NEW t \in Threads, Unlock(t)
    PROVE  BasesKept
<1> DEFINE m == loc[t].m
           i == heap[m].gparent
<1>1. pc[t] = "unlock" /\ pc[t] \in HelperLabels /\ root' = root /\ Goto(t, "done", loc[t])
  BY DEF Unlock, HelperLabels, Shared
<1>2. /\ HeapOK(heap) /\ LocalOK(heap, loc[t], pc[t], call[t])
      /\ heap[m].gparent \in Routes(heap) \cup {null}
  BY <1>1, BasesState, HelperState
<1>3. i \in Ptr(heap)
  BY <1>1, <1>2, NullIsNoNode DEF LocalOK, JoinLocalsOK
<1>4. \A h, rt : ThreadBases(h, rt, loc[t], "done")
  BY NoBasesYet DEF BaseLabels
<1>5. CASE heap' = [heap EXCEPT ![i].join_id = null]
  <2> HIDE DEF i, m
  <2>1. heap' = SetLock(heap, i, null)
    BY <1>5 DEF SetLock
  <2>2. /\ EditOf(heap, i, heap') /\ SameLinks(heap[i], heap'[i]) /\ SameJoin(heap[i], heap'[i])
    BY <1>2, <1>3, <2>1, LockEdit
  <2> QED BY <1>1, <1>3, <1>4, <2>2, EditBases DEF SameJoin
<1>6. CASE heap' = heap
  BY <1>1, <1>4, <1>6, SameBasesStep
<1> QED BY <1>5, <1>6 DEF Unlock

(* A join is aborted, or it is done.                                       *)
LEMMA OutcomesKeepBases ==
    ASSUME BInv, SInv', OutcomesAreFinal, NEW t \in Threads, Goto(t, loc[t].then, loc[t]), root' = root,
           NEW i \in Ptr(heap), NEW o, heap' = SetOutcome(heap, i, o),
           heap[i].neigh2 \notin Unpublished <=> o \notin Unpublished, pc[t] /= "publish"
    PROVE  BasesKept
<1>1. HeapOK(heap) /\ loc[t] \in Locals
  BY BasesState
<1>2. /\ EditOf(heap, i, heap') /\ SameLinks(heap[i], heap'[i])
      /\ heap'[i].gparent = heap[i].gparent /\ heap'[i].otherb = heap[i].otherb
      /\ heap'[i].neigh1 = heap[i].neigh1 /\ heap'[i].neigh2 = o
  BY <1>1, OutcomeEdit
<1>3. ThreadBases(heap', root', loc[t], loc[t].then)
  BY <1>1, ThenHasNoBases
<1> QED BY <1>2, <1>3, EditBases

LEMMA OutcomeBases ==
    ASSUME BInv, SInv', OutcomesAreFinal, NEW t \in Threads, Abort(t) \/ UndoMain(t) \/ Done(t)
    PROVE  BasesKept
<1> DEFINE m == loc[t].m
<1>1. JInv /\ loc[t] \in Locals /\ LocalOK(heap, loc[t], pc[t], call[t])
  BY BasesState
<1>2. ABORTED \in Unpublished /\ PREPARING \in Unpublished /\ DONE \notin Unpublished
  BY DEF Unpublished, ABORTED, PREPARING, DONE
<1>3. CASE Abort(t)
  <2>1. /\ pc[t] = "abort" /\ Goto(t, loc[t].then, loc[t]) /\ root' = root
        /\ heap' = IF heap[m].neigh2 = PREPARING THEN SetOutcome(heap, m, ABORTED) ELSE heap
    BY <1>3 DEF Abort, Shared, SetOutcome
  <2>2. m \in Ptr(heap)
    BY <1>1, <2>1 DEF LocalOK, JoinLocalsOK
  <2>3. CASE heap[m].neigh2 = PREPARING
    BY <1>2, <2>1, <2>2, <2>3, OutcomesKeepBases
  <2>4. CASE heap' = heap
    BY <1>1, <2>1, <2>4, ThenHasNoBases, SameBasesStep
  <2> QED BY <2>1, <2>3, <2>4
<1>4. CASE UndoMain(t)
  <2>1. /\ pc[t] = "undoMain" /\ pc[t] \in OwnerLabels /\ Goto(t, loc[t].then, loc[t]) /\ root' = root
        /\ heap' = SetOutcome(heap, m, ABORTED)
    BY <1>4 DEF UndoMain, Shared, SetOutcome, OwnerLabels
  <2>2. m \in Ptr(heap) /\ heap[m].neigh2 \in Unpublished
    BY <1>1, <2>1, OwnerState DEF Committed
  <2> QED BY <1>2, <2>1, <2>2, OutcomesKeepBases
<1>5. CASE Done(t)
  <2>1. /\ pc[t] = "done" /\ pc[t] \in HelperLabels /\ Goto(t, loc[t].then, loc[t]) /\ root' = root
        /\ heap' = SetOutcome(heap, m, DONE)
    BY <1>5 DEF Done, Shared, SetOutcome, HelperLabels
  <2>2. m \in Ptr(heap) /\ heap[m].neigh2 \notin Unpublished
    BY <1>1, <2>1, HelperState DEF Committed
  <2> QED BY <1>2, <2>1, <2>2, OutcomesKeepBases
<1> QED BY <1>3, <1>4, <1>5

-----------------------------------------------------------------------------
(* A join reads what will replace its route, and is published              *)

(* Routes below an attached node are attached.                             *)
LEMMA AttachedFrom ==
    ASSUME NEW h, NEW rt, State(h, rt), NEW x \in Ptr(h), x \in Routes(h) => Attached(h, rt, x),
           NEW r \in From(h, x), r \in Routes(h)
    PROVE  Attached(h, rt, r)
<1> DEFINE S == {n \in Ptr(h) : n \in Routes(h) => Attached(h, rt, n)}
<1>1. HeapOK(h) /\ AttachedBelow(h, rt)
  BY DEF State, HeapJoins
<1>2. x \in S
  OBVIOUS
<1>3. Closed(h, S)
  <2> SUFFICES ASSUME NEW n \in Routes(h), Attached(h, rt, n)
               PROVE  h[n].left \in S /\ h[n].right \in S
    BY DEF Closed
  <2>1. h[n].left = Side(h, n, "left") /\ h[n].right = Side(h, n, "right")
    BY DEF Side
  <2>2. \A z \in Sides : Side(h, n, z) \in Ptr(h)
    BY <1>1, SidesOK
  <2>3. \A z \in Sides : Side(h, n, z) \in S
    BY <1>1, <2>2 DEF AttachedBelow
  <2> HIDE DEF S
  <2> QED BY <2>1, <2>3 DEF Sides
<1>4. From(h, x) \subseteq S
  <2> HIDE DEF S
  <2>1. S \in SUBSET Ptr(h)
    BY DEF S
  <2> QED BY <1>1, <1>2, <1>3, <2>1, FromRoutes
<1> QED BY <1>4

(* A base below an attached route is not the root.                         *)
LEMMA BelowNotRoot ==
    ASSUME NEW h, NEW rt, State(h, rt), NEW p \in Routes(h), Attached(h, rt, p), NEW z \in Sides,
           NEW n \in From(h, Side(h, p, z))
    PROVE  n /= rt
<1> DEFINE x == Side(h, p, z)
<1>1. /\ HeapOK(h) /\ YoungerBelow(h) /\ OneSlotEach(h, rt) /\ AttachedBelow(h, rt)
  BY DEF State, HeapJoins, HeapSlots
<1>2. x \in Ptr(h) /\ (x \in Routes(h) => Attached(h, rt, x))
  BY <1>1, SidesOK DEF AttachedBelow
<1>3. CASE n = x
  BY <1>1, <1>3 DEF OneSlotEach
<1>4. CASE n /= x
  <2>1. PICK r \in From(h, x) : r \in Routes(h) /\ \E y \in Sides : Side(h, r, y) = n
    BY <1>1, <1>2, <1>4, SubtreeSlot
  <2>2. Attached(h, rt, r)
    BY <1>2, <2>1, AttachedFrom
  <2> QED BY <1>1, <2>1, <2>2 DEF OneSlotEach
<1> QED BY <1>3, <1>4

LEMMA ReadOtherBases ==
    ASSUME BInv, SInv', OutcomesAreFinal, NEW t \in Threads, ReadOther(t)
    PROVE  BasesKept
<1> DEFINE m == loc[t].m
           p == Parent(t)
           n1 == loc[t].n1
           z == Opposite(loc[t].side)
           other == Child(p, z)
           x == [heap[m] EXCEPT !.gparent = loc[t].gparent, !.otherb = other, !.neigh1 = n1]
<1>1. /\ pc[t] = "readOther" /\ pc[t] \in OwnerLabels /\ pc[t] \in LocksParent
      /\ root' = root /\ Goto(t, "publish", loc[t])
      /\ heap' = [heap EXCEPT ![m] = x]
  BY DEF ReadOther, Shared, OwnerLabels, LocksParent
<1>2. /\ JInv /\ State(heap, root) /\ HeapBases(heap, root) /\ HeapOK(heap) /\ HeapJoins(heap, root)
      /\ LocalOK(heap, loc[t], pc[t], call[t]) /\ ThreadSlots(heap, root, loc[t], pc[t])
      /\ ThreadBases(heap, root, loc[t], pc[t]) /\ loc[t] \in Locals
  BY BasesState
<1>3. /\ m \in Ptr(heap) /\ heap[m].type = "join_main" /\ Owns(t, m) /\ m \notin Committed(heap)
      /\ p \in Ptr(heap) /\ p \in Routes(heap) /\ p = heap[m].parent /\ heap[p].join_id = m
  BY <1>1, <1>2, OwnerState DEF Parent
<1>4. z \in Sides /\ other = Side(heap, p, z) /\ other = Sibling(heap, p, loc[t].side)
  BY <1>2 DEF Opposite, Sides, Child, Side, Sibling
<1>5. /\ SameLinks(heap[m], x) /\ x.neigh2 = heap[m].neigh2 /\ x.otherb = other
  <2>1. heap[m] \in Node
    BY <1>2, <1>3, HeapBasics
  <2> HIDE DEF m, other
  <2> QED BY <2>1 DEF Node, SameLinks
<1>6. Attached(heap, root, p)
  BY <1>2, <1>3, LockedIsAttached
<1>7. /\ n1 \in Ptr(heap) /\ heap[n1].type = "join_neighbor" /\ heap[n1].main_node = m
  BY <1>1, <1>2 DEF LocalOK, JoinLocalsOK, OwnerLabels, ThreadSlots
<1>8. heap[m].neigh2 = PREPARING => n1 \in Below(heap, other)
  BY <1>1, <1>2, <1>3, <1>4, <1>6 DEF ThreadBases
<1> HIDE DEF x, other, m, p, n1, z
<1>9. EditOf(heap, m, heap') /\ heap'[m] = x
  <2>1. LET f == [heap EXCEPT ![m] = x] IN EditOf(heap, m, f) /\ f[m] = x
    BY <1>2, <1>3, EditNode
  <2> QED BY <1>1, <2>1
<1>10. Moved
  BY <1>1, <1>3, <1>5, <1>9, EditMoves
<1>11. other \in Ptr(heap)
  BY <1>2, <1>3, <1>4, SidesOK
<1>12. ASSUME heap[m].neigh2 = PREPARING
       PROVE  heap[n1].parent /= null /\ (other \in Routes(heap) \/ (other = n1 /\ heap[n1].parent = p))
  <2>1. InSlot(heap, root, n1)
    BY <1>2, <1>7, <1>12 DEF HeapBases, NeighborsStay
  <2>2. Below(heap, other) = From(heap, other)
    BY <1>2, <1>11, BelowIsFrom DEF HeapJoins
  <2>3. n1 /= root
    BY <1>2, <1>3, <1>4, <1>6, <1>8, <1>12, <2>2, BelowNotRoot
  <2>4. heap[n1].parent /= null
    BY <2>1, <2>3 DEF InSlot
  <2>5. ASSUME other \notin Routes(heap) PROVE other = n1 /\ heap[n1].parent = p
    <3>1. other = n1
      BY <1>2, <1>8, <1>11, <1>12, <2>2, <2>5, FromRoutes DEF Routes
    <3>2. ASSUME NEW k \in Committed(heap), heap[k].neigh2 = other PROVE FALSE
      <4>1. heap[k].neigh2 /= DONE
        BY <1>2, <1>11, <3>2, HeapBasics DEF DONE
      <4>2. heap[heap[k].neigh2].main_node = k
        BY <1>2, <4>1, MergedNodes
      <4> QED BY <1>3, <1>7, <3>1, <3>2, <4>2
    <3>3. BasesAtHome(heap, root)
      BY <1>2 DEF HeapBases
    <3>4. \/ heap[Side(heap, p, z)].parent = p
          \/ \E k \in Committed(heap) : heap[k].neigh2 = Side(heap, p, z) /\ heap[k].parent = p
      <4>1. Side(heap, p, z) \notin Routes(heap)
        BY <1>4, <2>5
      <4> QED BY <1>3, <1>4, <1>6, <3>3, <4>1 DEF BasesAtHome
    <3> QED BY <1>4, <3>1, <3>2, <3>4
  <2> QED BY <2>4, <2>5
<1>13. /\ heap'[m].otherb = other /\ heap'[m].neigh2 = heap[m].neigh2
       /\ heap'[m].parent = p /\ heap'[n1].parent = heap[n1].parent /\ heap'[n1].type = heap[n1].type
       /\ heap'[other].type = heap[other].type /\ other \in Ptr(heap')
  <2>1. \A n \in Ptr(heap) : SameLinks(heap[n], heap'[n])
    BY <1>5, <1>9 DEF EditOf, SameLinks
  <2>2. other \in Ptr(heap')
    BY <1>9, <1>11 DEF EditOf, Ptr
  <2> QED BY <1>3, <1>5, <1>7, <1>9, <1>11, <2>1, <2>2 DEF SameLinks
<1>14. ThreadBases(heap', root', loc[t], "publish")
  BY <1>12, <1>13 DEF ThreadBases, Routes, m, n1
<1>15. \A n \in Ptr(heap) : heap'[n].otherb = heap[n].otherb \/ Owns(t, n)
  BY <1>3, <1>9 DEF EditOf
<1>16. Goto(t, "publish", loc[t])
  BY <1>1
<1> QED BY <1>10, <1>14, <1>15, <1>16, BasesStep DEF BasesKept

LEMMA PublishBases ==
    ASSUME BInv, SInv', OutcomesAreFinal, NEW t \in Threads, Publish(t)
    PROVE  BasesKept
<1> DEFINE m == loc[t].m
           p == Parent(t)
           g == loc[t].gparent
           n1 == loc[t].n1
           undo == IF g = null THEN "undoParent" ELSE "undoGparent"
           s == heap[m].otherb
<1>1. /\ pc[t] = "publish" /\ pc[t] \in OwnerLabels /\ pc[t] \in LocksParent \cap LocksGparent
      /\ root' = root
  BY DEF Publish, OwnerLabels, LocksParent, LocksGparent
<1>2. /\ JInv /\ State(heap, root) /\ HeapBases(heap, root) /\ HeapOK(heap) /\ HeapJoins(heap, root)
      /\ LocalOK(heap, loc[t], pc[t], call[t]) /\ ThreadSlots(heap, root, loc[t], pc[t])
      /\ ThreadBases(heap, root, loc[t], pc[t]) /\ loc[t] \in Locals /\ root \in Ptr(heap)
  BY BasesState
<1>3. /\ m \in Ptr(heap) /\ heap[m].type = "join_main" /\ m \notin Committed(heap)
      /\ p \in Ptr(heap) /\ p \in Routes(heap) /\ p = heap[m].parent /\ heap[p].join_id = m
      /\ Holds(heap, root, g, p) /\ heap[m].gparent = g /\ heap[m].neigh1 = n1
  BY <1>1, <1>2, OwnerState DEF Parent, OwnerJoins
<1>4. /\ g \in Routes(heap) \cup {null} /\ n1 \in Ptr(heap) /\ s \in Ptr(heap)
      /\ heap[n1].type = "join_neighbor" /\ heap[n1].main_node = m
  BY <1>1, <1>2 DEF LocalOK, JoinLocalsOK, OwnerLabels, JoinOK, ThreadSlots
<1>5. CASE /\ heap[m].neigh2 = PREPARING
           /\ heap' = [Append(heap, Joined(t)) EXCEPT ![m].neigh2 = Len(heap) + 1]
           /\ Goto(t, "load", loc[t])
  <2> DEFINE new == Len(heap) + 1
  <2>1. /\ heap[n1].parent /= null
        /\ s \in Routes(heap) \/ (s = n1 /\ heap[n1].parent = p)
    BY <1>1, <1>2, <1>3, <1>5 DEF ThreadBases
  <2>2. /\ PublishesJoin(heap, m, heap'[new], heap')
        /\ heap'[new].type = "join_neighbor" /\ heap'[new].main_node = m
    <3>1. heap' = SetOutcome(Append(heap, Joined(t)), m, new)
      BY <1>5 DEF SetOutcome
    <3>2. LET x == heap'[Len(heap) + 1]
          IN  x.type = "join_neighbor" /\ x.main_node = heap[loc[t].n1].main_node
      BY <1>1, <1>2, <3>1, PublishedNode
    <3>3. PublishesJoin(heap, m, heap'[new], heap')
      <4> HIDE DEF m
      <4> QED BY <1>1, <1>2, <1>3, <3>1, PublishedHeap
    <3> QED BY <1>4, <3>2, <3>3
  <2>3. NeighborsStay(heap, root) /\ heap[m].neigh2 = PREPARING
    BY <1>2, <1>5 DEF HeapBases
  <2>4. Goto(t, "load", loc[t])
    BY <1>5
  <2> HIDE DEF m, p, g, n1, s, new
  <2>5. /\ Len(heap) <= Len(heap') /\ Ptr(heap') = Ptr(heap) \cup {new} /\ new \notin Ptr(heap)
        /\ new \in Nat /\ new > 0 /\ heap'[m].neigh2 = new
        /\ \A j \in Ptr(heap) : j /= m => heap'[j] = heap[j]
    BY <1>2, <2>2, HeapBasics DEF PublishesJoin, new
  <2>6. \A j \in Ptr(heap) :
            /\ SameLinks(heap[j], heap'[j])
            /\ heap'[j].gparent = heap[j].gparent /\ heap'[j].otherb = heap[j].otherb
            /\ heap'[j].neigh1 = heap[j].neigh1 /\ (j /= m => heap'[j].neigh2 = heap[j].neigh2)
    BY <2>2, <2>5 DEF PublishesJoin, SameLinks
  <2>7. /\ Routes(heap') = Routes(heap) /\ Routes(heap) \subseteq Ptr(heap)
        /\ null \notin Ptr(heap) /\ null \notin Routes(heap)
    BY <2>2, <2>5, <2>6, NullIsNoNode DEF Routes, SameLinks
  <2>8. \A r \in Routes(heap), y \in Sides :
            Side(heap', r, y) = Side(heap, r, y) /\ Side(heap, r, y) \in Ptr(heap)
    BY <1>2, <2>6, <2>7, SidesOK DEF Side, SameLinks
  <2>9. /\ Committed(heap) \subseteq Committed(heap') /\ Committed(heap') \subseteq Committed(heap) \cup {m}
        /\ m \in Committed(heap')
    <3>1. new \notin Unpublished
      BY <2>5 DEF Unpublished, PREPARING, ABORTED
    <3> QED BY <1>3, <2>2, <2>5, <2>6, <3>1 DEF Committed, SameLinks
  <2>10. State(heap', root') /\ HeapOK(heap')
    BY NextState
  <2>11. heap'[m].parent = p /\ heap'[m].gparent = g /\ heap'[m].otherb = s /\ heap'[m].neigh1 = n1
         /\ heap'[n1].parent = heap[n1].parent
    BY <1>3, <1>4, <2>6 DEF SameLinks, s
  <2>12. ~IsCut(heap', root', m)
    BY <1>1, <1>3, <1>4, <2>8, <2>11 DEF IsCut, Holds
  <2>13. Calm(heap, root, heap', root')
    <3>1. SameJoins(heap, heap')
      <4>1. PREPARING /= ABORTED
        BY DEF PREPARING, ABORTED
      <4>2. \A n \in Committed(heap) : n \in Ptr(heap)
        BY DEF Committed
      <4> QED BY <2>3, <2>5, <2>6, <2>9, <4>1, <4>2 DEF SameJoins, SameLinks
    <3>2. SameSlots(heap, root, heap', root')
      BY <1>1, <2>8 DEF SameSlots
    <3>3. Attached(heap, root, p)
      BY <1>2, <1>3, LockedIsAttached
    <3>4. PublishedInPlace(heap, root, heap', root')
      BY <1>3, <2>9, <2>12, <3>3 DEF PublishedInPlace
    <3> QED BY <3>1, <3>2, <3>4 DEF Calm
  <2>14. \A r \in Ptr(heap) : Attached(heap', root', r) <=> Attached(heap, root, r)
    BY <1>2, <2>10, <2>13, CalmAttached
  <2>15. KeepsNodes(heap, heap')
    <3>1. \A n \in Ptr(heap) : OutcomeMoves(heap[n].neigh2, heap'[n].neigh2)
      BY <1>2, OutcomesMove
    <3>2. \A n \in Committed(heap) : n \in Ptr(heap)
      BY DEF Committed
    <3> QED BY <2>5, <2>6, <3>1, <3>2 DEF KeepsNodes, SameLinks
  <2>16. Moves(heap, root, heap', root', null, "left", root, root)
    BY <1>1, <2>7, <2>8 DEF Moves, Sides
  <2>17. CutsFrom(heap, root, heap', root', {})
    BY <2>7, <2>14 DEF CutsFrom
  <2>18. NewBase(heap', root', new)
    BY <1>1, <1>2, <2>2, <2>5, <2>7, <2>8, <2>9 DEF NewBase, Unlinked
  <2>19. NewLinks(heap, heap', root')
    BY <1>1, <1>2, <2>7, <2>8 DEF NewLinks
  <2>20. NewJoin(heap, heap', root', m)
    <3>1. InSlot(heap, root, n1)
      BY <1>4, <2>3 DEF NeighborsStay
    <3>2. \E y \in Sides : Side(heap, heap[n1].parent, y) = n1
      BY <2>1, <3>1 DEF InSlot
    <3>3. heap[n1].parent \in Routes(heap)
      BY <1>2, <1>4, <2>1 DEF HeapOK, NodeOK
    <3>4. heap'[n1].parent /= null /\ \E y \in Sides : Side(heap', heap'[n1].parent, y) = n1
      BY <2>1, <2>8, <2>11, <3>2, <3>3
    <3>5. s \in Routes(heap') \/ (s = n1 /\ heap'[n1].parent = heap'[m].parent)
      BY <2>1, <2>7, <2>11
    <3> QED BY <1>3, <2>5, <2>11, <3>4, <3>5 DEF NewJoin
  <2>21. Settled(heap, heap', root')
    BY <2>5, <2>9, <2>18, <2>19, <2>20 DEF Settled
  <2>22. Step(heap, root, heap', root', null, "left", root, root, {})
    BY <1>2, <2>10, <2>15, <2>16, <2>17, <2>21 DEF Step, Stands
  <2>23. Moved
    BY <2>22 DEF Moved
  <2>24. ThreadBases(heap', root', loc[t], "load")
    BY NoBasesYet DEF BaseLabels
  <2> QED BY <2>4, <2>6, <2>23, <2>24, BasesStep DEF BasesKept
<1>6. CASE heap' = heap /\ Goto(t, undo, loc[t])
  <2>1. ThreadBases(heap, root, loc[t], undo)
    BY NoBasesYet DEF BaseLabels
  <2> QED BY <1>1, <1>6, <2>1, SameBasesStep
<1> QED BY <1>5, <1>6 DEF Publish, Shared

-----------------------------------------------------------------------------
(* A new node takes the place of a base that may be replaced               *)

(* Such a base is at the root or at an attached route: what stays at a     *)
(* route that is cut out is the main node.                                 *)
LEMMA ReplaceableAttached ==
    ASSUME NEW h, NEW rt, State(h, rt), HeapBases(h, rt), NEW b \in Ptr(h), b \notin Routes(h),
           Replaceable(h, b), InSlot(h, rt, b)
    PROVE  h[b].parent = null \/ Attached(h, rt, h[b].parent)
<1>1. h[b].parent \in Routes(h) \cup {null} /\ CutOutEmpty(h, rt)
  BY DEF State, HeapOK, NodeOK, HeapBases
<1>2. b \notin Committed(h)
  BY DEF Replaceable, Committed, Unpublished
<1> QED BY <1>1, <1>2 DEF CutOutEmpty, Detached

LEMMA RenewStep ==
    ASSUME NEW h, NEW rt, NEW g, NEW f, NEW rt2, NEW q, NEW side, NEW b, NEW c,
           BasePut(h, rt, g, f, rt2, q, side, b, c),
           State(h, rt), HeapBases(h, rt), State(f, rt2), b \in Ptr(h), q = h[b].parent,
           Replaceable(h, b), c \in Ptr(g), c \notin Ptr(h), c \notin Routes(g) => g[c].parent = q,
           \A n \in Ptr(g) \ Ptr(h) : n = c \/ (g[n].parent = c /\ c \in Routes(g)
                                                /\ \E y \in Sides : Side(g, c, y) = n),
           c \in Routes(g) => \A y \in Sides : Side(g, c, y) \notin Ptr(h) /\ Side(g, c, y) \notin Routes(g)
                                               /\ g[Side(g, c, y)].parent = c,
           Routes(g) \ Ptr(h) \subseteq {c}
    PROVE  Step(h, rt, f, rt2, q, side, b, c, {})
<1>1. /\ HeapOK(h) /\ HeapOK(g) /\ HeapOK(f) /\ Grows(h, g) /\ q \in Routes(h) \cup {null}
      /\ side \in Sides /\ Puts(g, rt, f, rt2, q, side, b, c) /\ b \notin Routes(h)
  BY DEF BasePut
<1>2. /\ Calm(h, rt, f, rt2) /\ Committed(f) = Committed(h)
      /\ Ptr(f) = Ptr(g) /\ Routes(f) = Routes(g) /\ Ptr(h) \subseteq Ptr(g)
  BY PutCalm DEF CalmPut
<1>3. /\ \A n \in Ptr(g) : SameButSlots(g[n], f[n])
      /\ \A j \in Ptr(h) : g[j] = h[j]
      /\ Len(h) <= Len(f) /\ null \notin Ptr(h) /\ null \notin Ptr(g)
  BY <1>1, NullIsNoNode DEF Puts, Grows
<1>4. /\ \A n \in Ptr(h) : n \in Routes(g) <=> n \in Routes(h)
      /\ Routes(g) \subseteq Ptr(g) /\ Routes(h) \subseteq Ptr(h) /\ null \notin Routes(g)
      /\ null \notin Routes(h)
  BY <1>2, <1>3, NullIsNoNode DEF Routes
<1>5. \A r \in Ptr(g), z \in Sides :
        Side(f, r, z) = IF r = q /\ z = side THEN c ELSE Side(g, r, z)
  BY <1>1 DEF Puts
<1>6. \A r \in Routes(h), z \in Sides : Side(g, r, z) = Side(h, r, z) /\ Side(h, r, z) \in Ptr(h)
  BY <1>1, <1>3, <1>4, SidesOK DEF Side
<1>7. IF q = null THEN rt = b /\ rt2 = c ELSE rt2 = rt /\ Side(g, q, side) = b
  BY <1>1 DEF Puts
<1>8. KeepsNodes(h, f)
  <2>1. \A n \in Ptr(h) : SameButSlots(h[n], f[n])
    BY <1>2, <1>3
  <2>2. \A n \in Committed(h) : n \in Ptr(h)
    BY DEF Committed
  <2> QED BY <1>3, <2>1, <2>2 DEF KeepsNodes, SameButSlots, OutcomeMoves
<1>9. Moves(h, rt, f, rt2, q, side, b, c)
  <2>1. \A r \in Routes(h), y \in Sides : Side(f, r, y) = IF r = q /\ y = side THEN c ELSE Side(h, r, y)
    BY <1>2, <1>4, <1>5, <1>6
  <2>2. q /= null => Side(h, q, side) = b
    BY <1>1, <1>6, <1>7
  <2> QED BY <1>1, <1>7, <2>1, <2>2 DEF Moves
<1>10. /\ \A r \in Ptr(h) : Attached(f, rt2, r) <=> Attached(h, rt, r)
       /\ \A r \in Routes(f) \ Ptr(h) : Attached(f, rt2, r)
  BY <1>1, <1>2, CalmAttached
<1>11. CutsFrom(h, rt, f, rt2, {})
  BY <1>4, <1>10 DEF CutsFrom
<1>12. q = null \/ Attached(h, rt, q)
  <2>1. InSlot(h, rt, b)
    BY <1>1, <1>6, <1>7 DEF InSlot
  <2> QED BY <1>1, <2>1, ReplaceableAttached
<1>13. c \in Routes(g) => \A y \in Sides : Side(f, c, y) = Side(g, c, y) /\ Side(g, c, y) \in Ptr(g)
  BY <1>1, <1>3, <1>4, <1>5, SidesOK
<1>14. \A n \in Ptr(f) : f[n].parent = g[n].parent
  BY <1>2, <1>3 DEF SameButSlots
<1>15. \A n \in Ptr(f) \ Ptr(h) : n \notin Routes(f) => NewBase(f, rt2, n)
  <2>1. ASSUME c \notin Routes(f) PROVE NewBase(f, rt2, c)
    <3>1. f[c].parent = q
      BY <1>2, <1>14, <2>1
    <3>2. CASE q = null
      BY <1>7, <3>1, <3>2 DEF NewBase
    <3>3. CASE q /= null
      <4>1. q \in Ptr(g) /\ q \in Ptr(h)
        BY <1>1, <1>2, <1>4, <3>3
      <4>2. Side(f, q, side) = c
        BY <1>5, <4>1, <1>1
      <4>3. Attached(f, rt2, q)
        BY <1>10, <1>12, <3>3, <4>1
      <4>4. InSlot(f, rt2, c)
        BY <1>1, <3>1, <3>3, <4>2 DEF InSlot
      <4> QED BY <3>1, <4>3, <4>4 DEF NewBase
    <3> QED BY <3>2, <3>3
  <2>2. ASSUME NEW n \in Ptr(f) \ Ptr(h), n \notin Routes(f), n /= c PROVE NewBase(f, rt2, n)
    <3>1. /\ g[n].parent = c /\ c \in Routes(g) /\ \E y \in Sides : Side(g, c, y) = n
      BY <1>2, <2>2
    <3>2. f[n].parent = c /\ c /= null
      BY <1>3, <1>14, <3>1
    <3>3. Attached(f, rt2, c)
      BY <1>2, <1>10, <3>1
    <3>4. \E y \in Sides : Side(f, c, y) = n
      BY <1>13, <3>1
    <3>5. InSlot(f, rt2, n)
      BY <3>2, <3>4 DEF InSlot
    <3> QED BY <3>2, <3>3, <3>5 DEF NewBase
  <2> QED BY <2>1, <2>2
<1>16. NewLinks(h, f, rt2)
  <2>1. ASSUME NEW r \in Routes(f), NEW y \in Sides, Side(f, r, y) \notin Ptr(h) \cup Routes(f)
        PROVE  f[Side(f, r, y)].parent = r
    <3>1. CASE r \in Ptr(h)
      <4>1. r = q /\ Side(f, r, y) = c
        BY <1>2, <1>4, <1>5, <1>6, <2>1, <3>1
      <4> QED BY <1>2, <1>14, <2>1, <4>1
    <3>2. CASE r \notin Ptr(h)
      <4>1. r = c /\ c \in Routes(g)
        BY <1>2, <3>2
      <4>2. Side(f, r, y) = Side(g, c, y) /\ Side(g, c, y) \in Ptr(f) /\ g[Side(g, c, y)].parent = c
        BY <1>2, <1>13, <4>1
      <4> QED BY <1>14, <4>1, <4>2
    <3> QED BY <3>1, <3>2
  <2>2. rt2 \notin Ptr(h) \cup Routes(f) => f[rt2].parent = null
    <3>1. rt \in Ptr(h)
      BY DEF State
    <3> QED BY <1>2, <1>7, <1>14, <3>1
  <2>3. \A r \in Routes(f) \ Ptr(h), y \in Sides : Side(f, r, y) \notin Ptr(h)
    BY <1>2, <1>13
  <2> QED BY <2>1, <2>2, <2>3 DEF NewLinks
<1>17. Settled(h, f, rt2)
  BY <1>2, <1>15, <1>16 DEF Settled
<1>18. Renews(h, rt, q, b, c, {})
  BY <1>1, <1>12 DEF Renews
<1> QED BY <1>8, <1>9, <1>11, <1>17, <1>18 DEF Step

LEMMA FreshBaseStep ==
    ASSUME NEW h, NEW rt, State(h, rt), HeapBases(h, rt),
           NEW x \in Node, NEW g, HeapOK(g), Adds(h, x, g),
           NEW f, NEW rt2, State(f, rt2),
           NEW b \in Ptr(h), b \notin Routes(h), Replaceable(h, b), NEW side \in Sides,
           Puts(g, rt, f, rt2, h[b].parent, side, b, Len(h) + 1),
           x.parent = h[b].parent, x.type /= "route", x.type = "join_main" => x.neigh2 \in Unpublished
    PROVE  /\ Step(h, rt, f, rt2, h[b].parent, side, b, Len(h) + 1, {})
           /\ SameButSlots(x, f[Len(h) + 1])
           /\ \A n \in Ptr(h) : SameButSlots(h[n], f[n])
<1> DEFINE new == Len(h) + 1
           q == h[b].parent
<1>0. HeapOK(h) /\ HeapJoins(h, rt) /\ HeapOK(f)
  BY DEF State
<1>1. /\ q \in Routes(h) \cup {null} /\ q \in Nat /\ q < b /\ b \in Nat
  BY <1>0, HeapBasics DEF HeapJoins, YoungerBelow, HeapOK, NodeOK, Node
<1>2. /\ \A j \in Ptr(h) : g[j] = h[j] /\ j < new
      /\ Len(h) <= Len(g) /\ Len(h) \in Nat
      /\ new \notin Ptr(h) /\ new \in Ptr(g) /\ new \in Nat /\ g[new] = x
      /\ Ptr(g) = Ptr(h) \cup {new}
  BY <1>0, HeapBasics DEF Adds
<1> HIDE DEF new, q
<1>3. \A n \in Ptr(g) : SameButSlots(g[n], f[n])
  BY DEF Puts
<1>4. Grows(h, g)
  BY <1>2 DEF Grows
<1>5. Harmless(h, new) /\ q < new
  BY <1>1, <1>2, NullIsNoNode DEF Harmless
<1>6. BasePut(h, rt, g, f, rt2, q, side, b, new)
  BY <1>0, <1>1, <1>4, <1>5 DEF BasePut, q, new
<1>7. Routes(g) \ Ptr(h) = {} /\ new \notin Routes(g) /\ g[new].parent = q
  BY <1>2 DEF Routes, q
<1>8. Step(h, rt, f, rt2, q, side, b, new, {})
  BY <1>2, <1>6, <1>7, RenewStep DEF q
<1> QED BY <1>2, <1>3, <1>8 DEF q, new

LEMMA BasePutBases ==
    ASSUME BInv, SInv', NEW t \in Threads, NEW label, NEW l, Goto(t, label, l),
           NEW b \in Ptr(heap), b \notin Routes(heap), InPlace(b), Replaceable(heap, b),
           NEW x \in Node, HeapOK(Append(heap, x)), Install(b, Len(heap) + 1, Append(heap, x)),
           x.parent = heap[b].parent, x.type /= "route", x.type = "join_main" => x.neigh2 \in Unpublished,
           \A z : Step(heap, root, heap', root', heap[b].parent, z, b, Len(heap) + 1, {})
                  /\ SameButSlots(x, heap'[Len(heap) + 1])
                  /\ (\A n \in Ptr(heap) : SameButSlots(heap[n], heap'[n]))
                    => ThreadBases(heap', root', l, label)
    PROVE  BasesKept
<1> DEFINE g == Append(heap, x)
           new == Len(heap) + 1
<1>1. /\ State(heap, root) /\ HeapBases(heap, root) /\ HeapOK(heap)
  BY BasesState
<1>2. State(heap', root')
  BY NextState
<1>3. Adds(heap, x, g)
  BY <1>1, AppendAdds
<1> HIDE DEF g
<1>4. Grows(heap, g)
  BY <1>1, <1>3, HeapBasics DEF Adds, Grows
<1>5. PICK side \in Sides : Puts(g, root, heap', root', heap[b].parent, side, b, new)
  BY <1>1, <1>4, InstallPuts DEF g
<1>6. /\ Step(heap, root, heap', root', heap[b].parent, side, b, new, {})
      /\ SameButSlots(x, heap'[new])
      /\ \A n \in Ptr(heap) : SameButSlots(heap[n], heap'[n])
  <2>1. HeapOK(g)
    BY DEF g
  <2> QED BY <1>1, <1>2, <1>3, <1>5, <2>1, FreshBaseStep
<1>7. ThreadBases(heap', root', l, label)
  BY <1>6
<1> HIDE DEF new
<1>8. Moved
  BY <1>6 DEF Moved
<1>9. \A n \in Ptr(heap) : heap'[n].otherb = heap[n].otherb
  BY <1>6 DEF SameButSlots
<1> QED BY <1>7, <1>8, <1>9, BasesStep DEF BasesKept

LEMMA ReplaceBases ==
    ASSUME BInv, SInv', NEW t \in Threads, Replace(t)
    PROVE  BasesKept
<1> DEFINE b == loc[t].base
           stat == new_stat(b, loc[t].contended)
           d == NewData(call[t], heap[b].data)
           x == Base(heap[b].parent, d, stat)
           label == IF stat > HIGH_CONT THEN "split" ELSE IF stat < LOW_CONT THEN "join" ELSE "return"
           l == [loc[t] EXCEPT !.base = Len(heap) + 1, !.then = "return",
                               !.result = Result(call[t], heap[b].data)]
<1>1. /\ pc[t] = "replace" /\ loc[t] \in Locals /\ LocalOK(heap, loc[t], "replace", call[t])
      /\ HeapOK(heap) /\ BaseJoins(heap, loc[t], "replace") /\ Replaceable(heap, b)
  BY BasesState DEF Replace, ThreadJoins, ThreadBases
<1>2. /\ b \in Ptr(heap) /\ Len(heap[b].data) < TREAP_NODES /\ call[t] \in Calls /\ b \notin Routes(heap)
  BY <1>1 DEF LocalOK, BaseOK, StackOK, BaseJoins
<1>3. InPlace(b) /\ Install(b, Len(heap) + 1, Append(heap, x)) /\ Goto(t, label, l)
  BY DEF Replace, Shared
<1>4. heap[b] \in Node /\ NodeOK(heap, b)
  BY <1>1, <1>2, HeapBasics
<1>5. d \in Seq(Int) /\ Len(d) <= TREAP_NODES /\ stat \in Int
  BY <1>1, <1>2, <1>4, NodeTypes_, NewDataOK, NewStatType
<1>6. heap[b].parent \in Routes(heap) \cup {null} /\ heap[b].parent \in Nat
  BY <1>4, NodeTypes_ DEF NodeOK
<1>7. label \notin BaseLabels
  BY DEF BaseLabels
<1> HIDE DEF label, l, stat, d
<1>8. /\ x \in Node /\ x.type = "normal" /\ x.neigh2 = PREPARING
      /\ x.parent = heap[b].parent /\ x.data = d
  BY <1>5, <1>6, BaseNode
<1> HIDE DEF x
<1>9. HeapOK(Append(heap, x))
  BY <1>1, <1>5, <1>6, <1>8, AddNode
<1>10. ThreadBases(heap', root', l, label)
  BY <1>7, NoBasesYet
<1> HIDE DEF b
<1> QED BY SMTT(30), <1>1, <1>2, <1>3, <1>8, <1>9, <1>10, BasePutBases

LEMMA CopyBaseBases ==
    ASSUME BInv, SInv', NEW t \in Threads, CopyBase(t)
    PROVE  BasesKept
<1> DEFINE b == loc[t].base
           x == heap[b]
<1>1. PICK label, l : /\ Goto(t, label, l) /\ label \in {"return", "next"}
                      /\ InPlace(b) /\ Install(b, Len(heap) + 1, Append(heap, x))
  BY DEF CopyBase, Shared
<1>2. /\ b \in Ptr(heap) /\ HeapOK(heap) /\ b \notin Routes(heap) /\ Replaceable(heap, b)
      /\ x.type = "join_main" => x.neigh2 = ABORTED
  <2>1. /\ pc[t] = "copy" /\ LocalOK(heap, loc[t], pc[t], call[t]) /\ ThreadJoins(heap, root, loc[t], pc[t])
        /\ HeapOK(heap) /\ ThreadBases(heap, root, loc[t], pc[t])
    BY BasesState DEF CopyBase
  <2> QED BY <2>1 DEF LocalOK, BaseOK, ThreadJoins, BaseJoins, ThreadBases
<1>3. x \in Node /\ HeapOK(Append(heap, x)) /\ x.type /= "route"
  <2>1. x \in Node /\ NodeOK(heap, b) /\ x.type /= "route"
    BY <1>2, HeapBasics DEF Routes
  <2> QED BY <1>2, <2>1, AddNode DEF NodeOK, JoinOK
<1>4. ThreadBases(heap', root', l, label)
  BY <1>1, NoBasesYet DEF BaseLabels
<1>5. ABORTED \in Unpublished
  BY DEF Unpublished
<1> HIDE DEF b
<1> QED BY <1>1, <1>2, <1>3, <1>4, <1>5, BasePutBases

(* A node that takes the place of one below a route is below that route.   *)
LEMMA RenewedBelow ==
    ASSUME NEW h, NEW rt, NEW g, NEW rt2, NEW q, NEW z, NEW b, NEW c,
           Step(h, rt, g, rt2, q, z, b, c, {}), q = null \/ Attached(h, rt, q),
           NEW p \in Routes(h), Attached(h, rt, p), NEW y \in Sides, b \in From(h, Side(h, p, y))
    PROVE  c \in From(g, Side(g, p, y))
<1> DEFINE x == Side(h, p, y)
           x2 == Side(g, p, y)
<1>1. /\ State(h, rt) /\ State(g, rt2) /\ Moves(h, rt, g, rt2, q, z, b, c) /\ CutsFrom(h, rt, g, rt2, {})
      /\ Routes(h) \subseteq Routes(g) /\ Routes(h) \subseteq Ptr(h) /\ c \in Ptr(g) /\ b \in Ptr(h)
      /\ null \notin Routes(h)
  BY StepNodes, NullIsNoNode
<1>2. /\ HeapOK(h) /\ HeapOK(g) /\ YoungerBelow(h) /\ OneSlotEach(h, rt) /\ AttachedBelow(h, rt)
  BY <1>1 DEF State, HeapJoins, HeapSlots
<1>3. x \in Ptr(h) /\ x2 \in Ptr(g) /\ (x2 = x \/ (x = b /\ x2 = c))
  BY StepChild
<1>4. x \in Routes(h) => Attached(h, rt, x)
  BY <1>2 DEF AttachedBelow
<1>5. ASSUME NEW r \in Routes(h), Attached(h, rt, r), NEW w \in Sides, Side(h, r, w) = b
      PROVE  q = r /\ z = w
  <2>1. rt /= b
    BY <1>2, <1>5 DEF OneSlotEach
  <2>2. q /= null /\ q \in Routes(h) /\ z \in Sides /\ Side(h, q, z) = b
    BY <1>1, <2>1 DEF Moves
  <2>3. Attached(h, rt, q)
    BY <2>2
  <2> QED BY <1>2, <1>5, <2>2, <2>3 DEF OneSlotEach
<1>6. CASE x = b
  <2>1. q = p /\ z = y
    BY <1>5, <1>6
  <2>2. x2 = c
    BY <1>1, <2>1 DEF Moves
  <2> QED BY <1>2, <1>3, <2>2, FromRoutes
<1>7. CASE x /= b
  <2>1. PICK r \in From(h, x) : r \in Routes(h) /\ \E w \in Sides : Side(h, r, w) = b
    BY <1>2, <1>3, <1>7, SubtreeSlot
  <2>2. Attached(h, rt, r)
    BY <1>1, <1>3, <1>4, <2>1, AttachedFrom
  <2>3. q = r /\ q \in Routes(g) /\ z \in Sides
    BY <1>1, <1>5, <2>1, <2>2
  <2>4. Attached(g, rt2, q)
    BY <1>1, <2>1, <2>2, <2>3 DEF CutsFrom
  <2>5. Alive(g, rt2, q)
    BY <2>3, <2>4 DEF Alive
  <2>6. q \in From(g, x2)
    BY <1>3, <2>1, <2>3, <2>5, AliveStaysBelow
  <2>7. Side(g, q, z) = c
    BY <1>1, <2>1, <2>3 DEF Moves
  <2>8. Side(g, q, z) \in From(g, x2)
    <3>1. Closed(g, From(g, x2))
      BY <1>2, <1>3, FromRoutes
    <3> QED BY <2>3, <2>6, <3>1 DEF Closed, Side
  <2> QED BY <2>7, <2>8
<1> QED BY <1>6, <1>7

LEMMA LockNeighborBases ==
    ASSUME BInv, SInv', NEW t \in Threads, LockNeighbor(t)
    PROVE  BasesKept
<1> DEFINE n0 == loc[t].cur
           m == loc[t].m
           p == heap[m].parent
           n1 == Len(heap) + 1
           x == [heap[n0] EXCEPT !.type = "join_neighbor", !.main_node = m]
           l == [loc[t] EXCEPT !.n1 = n1]
           y == Opposite(loc[t].side)
<1>1. pc[t] = "lockNeighbor" /\ pc[t] \in OwnerLabels
  BY DEF LockNeighbor, OwnerLabels
<1>2. /\ JInv /\ HeapOK(heap) /\ State(heap, root) /\ loc[t] \in Locals
      /\ LocalOK(heap, loc[t], pc[t], call[t])
      /\ ThreadJoins(heap, root, loc[t], pc[t]) /\ ThreadBases(heap, root, loc[t], pc[t])
  BY BasesState
<1>3. /\ m \in Ptr(heap) /\ heap[m].type = "join_main" /\ m \in Nat /\ p \in Routes(heap)
      /\ BaseJoins(heap, loc[t], pc[t])
  BY <1>1, <1>2, OwnerState, HeapBasics DEF ThreadJoins, Parent
<1>4. n0 \in Ptr(heap) /\ n0 \notin Routes(heap) /\ Replaceable(heap, n0) /\ y \in Sides
  BY <1>1, <1>2, <1>3 DEF LocalOK, CurOK, BaseJoins, ThreadBases, Opposite, Sides
<1>5. CASE InPlace(n0) /\ Install(n0, n1, Append(heap, x)) /\ Goto(t, "lockParent", l)
  <2>1. heap[n0] \in Node /\ NodeOK(heap, n0)
    BY <1>2, <1>4, HeapBasics
  <2>2. l.m = m /\ l.n1 = n1 /\ l.side = loc[t].side
    BY <1>2 DEF Locals
  <2>3. Attached(heap, root, p) => Leads(heap, root, n0, Side(heap, p, y))
    BY <1>1, <1>2 DEF ThreadBases, Sibling
  <2>4. \A h : Sibling(h, p, loc[t].side) = Side(h, p, y)
    BY DEF Sibling
  <2>5. Goto(t, "lockParent", l)
    BY <1>5
  <2> HIDE DEF m, l, n0, p, y
  <2>6. /\ x \in Node /\ x.type = "join_neighbor" /\ x.main_node = m
        /\ x.data = heap[n0].data /\ x.parent = heap[n0].parent
    BY <1>3, <2>1 DEF Node, NodeTypes
  <2> HIDE DEF x
  <2>7. HeapOK(Append(heap, x))
    <3>1. Len(x.data) <= TREAP_NODES /\ x.parent \in Routes(heap) \cup {null}
      BY <2>1, <2>6 DEF NodeOK
    <3> QED BY <1>2, <1>3, <2>6, <3>1, AddNode
  <2> HIDE DEF n1
  <2>8. ASSUME NEW z, Step(heap, root, heap', root', heap[n0].parent, z, n0, n1, {}),
               \A n \in Ptr(heap) : SameButSlots(heap[n], heap'[n])
        PROVE  ThreadBases(heap', root', l, "lockParent")
    <3> DEFINE q == heap[n0].parent
    <3>1. heap'[m].parent = p
      BY <1>3, <2>8 DEF SameButSlots, p
    <3>2. ASSUME Attached(heap', root', p) PROVE n1 \in Below(heap', Side(heap', p, y))
      <4>1. /\ State(heap', root') /\ HeapBases(heap, root) /\ CutsFrom(heap, root, heap', root', {})
            /\ Moves(heap, root, heap', root', q, z, n0, n1)
            /\ null \notin Routes(heap)
        BY <2>8, StepNodes, NullIsNoNode
      <4>2. Attached(heap, root, p)
        BY <1>3, <3>2, <4>1 DEF CutsFrom
      <4>3. q = null \/ Attached(heap, root, q)
        <5>1. InSlot(heap, root, n0)
          BY <4>1 DEF Moves, InSlot
        <5> QED BY <1>2, <1>4, <4>1, <5>1, ReplaceableAttached
      <4>4. Alive(heap, root, n0)
        BY <1>4, <4>1, <4>3 DEF Alive, Elsewhere, Moves
      <4>5. YoungerBelow(heap) /\ YoungerBelow(heap') /\ HeapOK(heap')
        BY <1>2, <4>1 DEF State, HeapJoins
      <4>6. Side(heap, p, y) \in Ptr(heap) /\ Side(heap', p, y) \in Ptr(heap')
        BY <1>3, <1>4, <2>8, StepChild DEF y
      <4>7. n0 \in Below(heap, n0)
        BY <1>2, <1>4, <4>5, BelowIsFrom, FromRoutes
      <4>8. n0 \in From(heap, Side(heap, p, y))
        BY <1>2, <2>3, <4>2, <4>4, <4>5, <4>6, <4>7, BelowIsFrom DEF Leads
      <4>9. n1 \in From(heap', Side(heap', p, y))
        BY <1>3, <1>4, <2>8, <4>2, <4>3, <4>8, RenewedBelow
      <4> QED BY <4>5, <4>6, <4>9, BelowIsFrom
    <3> QED BY <2>2, <2>4, <3>1, <3>2 DEF ThreadBases
  <2>9. /\ InPlace(n0) /\ Install(n0, Len(heap) + 1, Append(heap, x))
        /\ x.type /= "route" /\ x.type /= "join_main"
    BY <1>5, <2>6 DEF n1
  <2>10. \A z : Step(heap, root, heap', root', heap[n0].parent, z, n0, Len(heap) + 1, {})
                /\ SameButSlots(x, heap'[Len(heap) + 1])
                /\ (\A n \in Ptr(heap) : SameButSlots(heap[n], heap'[n]))
                  => ThreadBases(heap', root', l, "lockParent")
    BY <2>8 DEF n1
  <2> QED BY <1>4, <2>5, <2>6, <2>7, <2>9, <2>10, BasePutBases
<1>6. CASE heap' = heap /\ root' = root /\ Goto(t, "undoMain", loc[t])
  BY <1>6, NoBasesYet, SameBasesStep DEF BaseLabels
<1> QED BY <1>5, <1>6 DEF LockNeighbor, Shared

LEMMA LockMainBases ==
    ASSUME BInv, SInv', NEW t \in Threads, LockMain(t)
    PROVE  BasesKept
<1> DEFINE b == loc[t].base
           p == heap[b].parent
           m == Len(heap) + 1
           side == loc[t].side
           y == Opposite(side)
           cur == loc[t].cur
           x == [heap[b] EXCEPT !.type = "join_main"]
           g == Append(heap, x)
           l == [loc[t] EXCEPT !.m = m]
<1>1. /\ pc[t] = "lockMain" /\ loc[t] \in Locals /\ LocalOK(heap, loc[t], "lockMain", call[t])
      /\ HeapOK(heap) /\ State(heap, root) /\ HeapBases(heap, root) /\ root' = root
      /\ ThreadBases(heap, root, loc[t], "lockMain")
  BY BasesState DEF LockMain
<1>2. /\ b \in Ptr(heap) /\ heap[b].type = "normal" /\ p /= null
      /\ cur \in Ptr(heap) /\ Replaceable(heap, cur)
      /\ Attached(heap, root, p) => Leads(heap, root, cur, Side(heap, p, y))
  BY <1>1 DEF LocalOK, BaseOK, CurOK, ThreadBases, Sibling
<1>3. /\ heap[b] \in Node /\ NodeOK(heap, b) /\ side \in Sides /\ y \in Sides
      /\ p \in Routes(heap) /\ p \in Ptr(heap)
  <2>1. heap[b] \in Node /\ NodeOK(heap, b) /\ side \in Sides /\ y \in Sides
    BY <1>1, <1>2, HeapBasics DEF Locals, Sides, Opposite
  <2>2. p \in Routes(heap)
    BY <1>2, <2>1 DEF NodeOK
  <2> QED BY <2>1, <2>2, NullIsNoNode
<1>4. CASE Child(p, side) = b /\ heap' = SetChild(g, p, side, m) /\ Goto(t, "lockNeighbor", l)
  <2>1. /\ x \in Node /\ x.type = "join_main" /\ x.neigh2 = PREPARING
        /\ x.data = heap[b].data /\ x.parent = p
    BY <1>2, <1>3 DEF Node, NodeTypes, NodeOK
  <2>2. Len(heap[b].data) <= TREAP_NODES /\ PREPARING \in Unpublished
    BY <1>3 DEF NodeOK, Unpublished
  <2>3. l.m = m /\ l.cur = cur /\ l.side = side
    BY <1>1 DEF Locals
  <2>4. \A h : Sibling(h, p, side) = Side(h, p, y)
    BY DEF Sibling
  <2> HIDE DEF x, p, l, side, b, y, cur
  <2>5. HeapOK(g) /\ Adds(heap, x, g)
    BY <1>1, <1>2, <1>3, <2>1, <2>2, AddNode, AppendAdds
  <2> HIDE DEF g
  <2>6. \A j \in Ptr(heap) : g[j] = heap[j] /\ j \in Ptr(g)
    BY <1>1, <2>5, HeapBasics DEF Adds
  <2>7. Side(g, p, side) = b
    BY <1>3, <1>4, <2>6 DEF Side, Child
  <2>8. Puts(g, root, heap', root', heap[b].parent, side, b, Len(heap) + 1)
    <3> HIDE DEF m
    <3>1. Puts(g, root, SetChild(g, p, side, m), root, p, side, Side(g, p, side), m)
      BY <1>3, <2>5, <2>6, ChildPuts
    <3> QED BY <1>1, <1>4, <2>7, <3>1 DEF p, m
  <2>9. b \notin Routes(heap) /\ Replaceable(heap, b)
    BY <1>2 DEF Routes, Replaceable
  <2>10. State(heap', root')
    BY NextState
  <2>11. x.parent = heap[b].parent /\ x.type /= "route" /\ x.neigh2 \in Unpublished
    BY <2>1, <2>2 DEF p
  <2>12. /\ Step(heap, root, heap', root', heap[b].parent, side, b, Len(heap) + 1, {})
         /\ SameButSlots(x, heap'[Len(heap) + 1])
         /\ \A n \in Ptr(heap) : SameButSlots(heap[n], heap'[n])
    BY <1>1, <1>2, <1>3, <2>1, <2>5, <2>8, <2>9, <2>10, <2>11, FreshBaseStep
  <2>13. heap'[m].parent = p
    BY <2>1, <2>12 DEF SameButSlots, m
  <2> DEFINE q == heap[b].parent
  <2>14. Step(heap, root, heap', root', q, side, b, m, {})
    BY <2>12 DEF m
  <2> HIDE DEF m, q
  <2>15. KeepsNodes(heap, heap') /\ CutsFrom(heap, root, heap', root', {}) /\ HeapOK(heap')
    BY <2>14, StepNodes DEF State
  <2>16. Replaceable(heap', cur)
    BY <1>1, <1>2, <2>15, StepReplaceable
  <2>17. ASSUME Attached(heap', root', p) PROVE Leads(heap', root', cur, Side(heap', p, y))
    <3>1. Attached(heap, root, p)
      BY <1>3, <2>15, <2>17 DEF CutsFrom
    <3> QED BY <1>2, <1>3, <2>14, <3>1, StepLeads
  <2>18. ThreadBases(heap', root', l, "lockNeighbor")
    BY <2>3, <2>4, <2>13, <2>16, <2>17 DEF ThreadBases
  <2>19. Goto(t, "lockNeighbor", l)
    BY <1>4
  <2>20. Moved
    BY <2>14 DEF Moved
  <2>21. \A n \in Ptr(heap) : heap'[n].otherb = heap[n].otherb
    BY <2>12 DEF SameButSlots
  <2> QED BY <2>18, <2>19, <2>20, <2>21, BasesStep DEF BasesKept
<1>5. CASE heap' = heap /\ Goto(t, "return", loc[t])
  BY <1>1, <1>5, NoBasesYet, SameBasesStep DEF BaseLabels
<1> QED BY <1>4, <1>5 DEF LockMain, Shared

(* A split renews a base: NoLockedSplit says that no join has locked it.   *)
LEMMA SplitBases ==
    ASSUME BInv, SInv', NoLockedSplit, NEW t \in Threads, Split(t)
    PROVE  BasesKept
<1> DEFINE b == loc[t].base
           r == Len(heap) + 1
           p == heap[b].parent
           g == SplitNodes(b)
<1>1. /\ pc[t] = "split" /\ loc[t] \in Locals /\ LocalOK(heap, loc[t], "split", call[t])
      /\ State(heap, root) /\ HeapOK(heap) /\ HeapJoins(heap, root) /\ root \in Ptr(heap)
      /\ HeapBases(heap, root) /\ BaseJoins(heap, loc[t], "split") /\ Goto(t, loc[t].then, loc[t])
  BY BasesState DEF Split, ThreadJoins, Shared
<1>2. b \in Ptr(heap) /\ b \notin Routes(heap)
  BY <1>1 DEF LocalOK, BaseOK, BaseJoins
<1>3. p < b /\ p \in Routes(heap) \cup {null} /\ p \in Nat /\ b \in Nat
  BY <1>1, <1>2, HeapBasics DEF HeapJoins, YoungerBelow, NodeOK, Node
<1>4. \A h, rt : ThreadBases(h, rt, loc[t], loc[t].then)
  BY <1>1, ThenHasNoBases
<1>5. CASE Len(heap[b].data) >= 2 /\ InPlace(b) /\ Install(b, r, g)
  <2>1. HeapOK(g) /\ Extends(heap, g) /\ AddsSplit(heap, g)
    BY <1>1, <1>2, <1>5, SplitNodesOK
  <2>2. Replaceable(heap, b)
    BY <1>1, <1>5 DEF NoLockedSplit, is_replaceable, Replaceable
  <2> HIDE DEF g, b, p
  <2>3. /\ \A j \in Ptr(heap) : g[j] = heap[j] /\ j < r
        /\ Len(heap) <= Len(g) /\ r \notin Ptr(heap) /\ r + 1 \notin Ptr(heap) /\ r + 2 \notin Ptr(heap)
        /\ r \in Nat
        /\ Ptr(g) = Ptr(heap) \cup {r, r + 1, r + 2}
    <3>1. Len(heap) \in Nat
      BY <1>1, HeapBasics
    <3> QED BY <2>1, <3>1 DEF Extends, AddsSplit, Ptr
  <2>4. /\ g[r].type = "route" /\ g[r].left = r + 1 /\ g[r].right = r + 2 /\ g[r].parent = null
        /\ g[r + 1].type = "normal" /\ g[r + 1].parent = r
        /\ g[r + 2].type = "normal" /\ g[r + 2].parent = r
    BY <2>1 DEF AddsSplit
  <2> HIDE DEF r
  <2>5. Grows(heap, g)
    BY <2>3, <2>4 DEF Grows
  <2>6. PICK side \in Sides : Puts(g, root, heap', root', p, side, b, r)
    BY <1>1, <1>2, <1>5, <2>1, <2>5, InstallPuts DEF p
  <2>7. Harmless(heap, r) /\ p < r
    <3>1. p < r
      BY <1>2, <1>3, <2>3
    <3> QED BY <2>3, <3>1, NullIsNoNode DEF Harmless
  <2>8. State(heap', root') /\ HeapOK(heap')
    BY NextState
  <2>9. BasePut(heap, root, g, heap', root', p, side, b, r)
    BY <1>1, <1>2, <1>3, <2>1, <2>5, <2>6, <2>7, <2>8 DEF BasePut
  <2>10. Routes(g) \ Ptr(heap) \subseteq {r} /\ r \in Routes(g) /\ r \in Ptr(g)
    BY <2>3, <2>4 DEF Routes
  <2>11. \A y \in Sides : /\ Side(g, r, y) \notin Ptr(heap) /\ Side(g, r, y) \notin Routes(g)
                          /\ g[Side(g, r, y)].parent = r
    <3>1. \A y \in Sides : Side(g, r, y) \in {r + 1, r + 2}
      BY <2>4 DEF Side
    <3> QED BY <2>3, <2>4, <3>1 DEF Routes
  <2>12. \A n \in Ptr(g) \ Ptr(heap) : n = r \/ (g[n].parent = r /\ r \in Routes(g)
                                                /\ \E y \in Sides : Side(g, r, y) = n)
    <3>1. /\ "left" \in Sides /\ "right" \in Sides
          /\ Side(g, r, "left") = r + 1 /\ Side(g, r, "right") = r + 2
      BY <2>4 DEF Side, Sides
    <3>2. \A n \in Ptr(g) \ Ptr(heap) : n \in {r, r + 1, r + 2}
      BY <2>3
    <3> QED BY <2>4, <2>10, <3>1, <3>2
  <2>13. Step(heap, root, heap', root', p, side, b, r, {})
    <3>1. /\ State(heap, root) /\ HeapBases(heap, root) /\ b \in Ptr(heap) /\ p = heap[b].parent
          /\ r \notin Ptr(heap) /\ r \in Ptr(g)
      BY <1>1, <1>2, <2>3, <2>10 DEF p
    <3> HIDE DEF p
    <3> QED BY <2>2, <2>8, <2>9, <2>10, <2>11, <2>12, <3>1, RenewStep
  <2>14. Moved
    BY <2>13 DEF Moved
  <2>15. \A n \in Ptr(heap) : heap'[n].otherb = heap[n].otherb
    <3>1. \A n \in Ptr(g) : SameButSlots(g[n], heap'[n])
      BY <2>6 DEF Puts
    <3> QED BY <2>3, <3>1 DEF SameButSlots
  <2> QED BY <1>1, <1>4, <2>14, <2>15, BasesStep DEF BasesKept
<1>6. CASE heap' = heap /\ root' = root
  BY <1>1, <1>4, <1>6, SameBasesStep
<1> QED BY <1>5, <1>6 DEF Split

-----------------------------------------------------------------------------
(* The steps of a published join: no new nodes                             *)

LEMMA NothingNew ==
    ASSUME NEW h, NEW rt, NEW f, NEW rt2, State(h, rt), State(f, rt2),
           Ptr(f) = Ptr(h), Len(f) = Len(h), Routes(f) = Routes(h), Committed(f) = Committed(h),
           \A n \in Ptr(h) : SameButSlots(h[n], f[n])
    PROVE  KeepsNodes(h, f) /\ Settled(h, f, rt2)
<1>1. /\ HeapOK(h) /\ HeapOK(f) /\ rt2 \in Ptr(f) /\ Len(h) \in Nat
      /\ Routes(h) \subseteq Ptr(h) /\ Committed(h) \subseteq Ptr(h)
  BY HeapBasics, NullIsNoNode DEF State, Committed
<1>2. \A r \in Routes(f), y \in Sides : Side(f, r, y) \in Ptr(f)
  BY <1>1, SidesOK
<1>3. KeepsNodes(h, f)
  BY <1>1 DEF KeepsNodes, SameButSlots, OutcomeMoves
<1>4. NewLinks(h, f, rt2)
  BY <1>1, <1>2 DEF NewLinks
<1>5. Settled(h, f, rt2)
  BY <1>4 DEF Settled
<1> QED BY <1>3, <1>5

(* The merged node takes the place of the neighbour, below an attached     *)
(* route: the neighbour has not left that since the join was secured.      *)
LEMMA MergeStep ==
    ASSUME NEW h, NEW rt, NEW f, NEW rt2, NEW q, NEW side, NEW n1, NEW n2,
           BasePut(h, rt, h, f, rt2, q, side, n1, n2),
           State(h, rt), HeapBases(h, rt), State(f, rt2),
           NEW m \in Committed(h), n1 = h[m].neigh1, q = h[n1].parent, h[m].neigh2 \in {n2, DONE}
    PROVE  Step(h, rt, f, rt2, q, side, n1, n2, {})
<1>1. /\ HeapOK(h) /\ HeapOK(f) /\ q \in Routes(h) \cup {null}
      /\ side \in Sides /\ Puts(h, rt, f, rt2, q, side, n1, n2)
  BY DEF BasePut
<1>2. /\ Ptr(f) = Ptr(h) /\ Routes(f) = Routes(h) /\ Committed(f) = Committed(h)
      /\ Calm(h, rt, f, rt2) /\ Routes(h) \subseteq Ptr(h)
  BY PutCalm, NullIsNoNode DEF CalmPut
<1>3. /\ \A n \in Ptr(h) : SameButSlots(h[n], f[n])
      /\ Len(f) = Len(h)
      /\ IF q = null THEN rt2 = n2 /\ rt = n1 ELSE rt2 = rt /\ Side(h, q, side) = n1
  BY <1>1 DEF Puts
<1>4. KeepsNodes(h, f) /\ Settled(h, f, rt2)
  BY <1>2, <1>3, NothingNew
<1>5. \A r \in Routes(h), y \in Sides : Side(f, r, y) = IF r = q /\ y = side THEN n2 ELSE Side(h, r, y)
  BY <1>1, <1>2 DEF Puts
<1>6. Moves(h, rt, f, rt2, q, side, n1, n2)
  BY <1>1, <1>3, <1>5 DEF Moves
<1>7. CutsFrom(h, rt, f, rt2, {})
  <2>1. \A r \in Routes(h) : Attached(f, rt2, r) <=> Attached(h, rt, r)
    BY <1>1, <1>2, CalmAttached
  <2> QED BY <1>2, <2>1 DEF CutsFrom
<1>8. /\ n1 \in Ptr(h) /\ n1 \notin Routes(h) /\ n1 \notin Committed(h)
  BY MergedNodes DEF Committed
<1>9. InSlot(h, rt, n1)
  BY <1>1, <1>3 DEF InSlot
<1>10. q = null \/ Attached(h, rt, q)
  BY <1>1, <1>8, <1>9 DEF HeapBases, CutOutEmpty, Detached
<1>11. Placed(h, rt, n1)
  BY <1>9, <1>10 DEF Placed, InSlot
<1>12. h[m].neigh2 /= DONE /\ h[m].neigh2 = n2
  BY <1>11 DEF State, HeapSlots, Unmerged
<1>13. q /= null
  BY <1>12 DEF HeapBases, MergesStay
<1>14. MergesInto(h, rt, q, n1, n2, {})
  BY <1>10, <1>12, <1>13 DEF MergesInto
<1> QED BY <1>4, <1>6, <1>7, <1>14 DEF Step

LEMMA ReplaceNeighborBases ==
    ASSUME BInv, SInv', NEW t \in Threads, ReplaceNeighbor(t)
    PROVE  BasesKept
<1> DEFINE m == loc[t].m
           n1 == heap[m].neigh1
           n2 == loc[t].n2
           p == heap[n1].parent
<1>1. /\ pc[t] = "replaceNeighbor" /\ pc[t] \in HelperLabels \ {"load"} /\ Goto(t, "invalidate", loc[t])
      /\ State(heap, root) /\ HeapBases(heap, root) /\ SInv /\ JInv
      /\ ThreadSlots(heap, root, loc[t], pc[t])
  BY BasesState DEF ReplaceNeighbor, HelperLabels, Shared
<1>2. /\ HeapOK(heap) /\ HeapJoins(heap, root) /\ m \in Committed(heap) /\ m \in Ptr(heap)
      /\ n2 \in Ptr(heap) /\ heap[n2].type = "join_neighbor" /\ n1 < n2
      /\ JoinLocks(heap, root, m)
  BY <1>1, HelperState DEF HelperJoins, HelperLabels
<1>3. n1 \in Ptr(heap) /\ heap[n1].type = "join_neighbor" /\ n1 \notin Routes(heap)
  BY <1>2, CommittedRoutes DEF JoinLocks, Routes
<1>4. /\ p < n1 /\ p \in Routes(heap) \cup {null} /\ p \in Nat /\ n1 \in Nat /\ n2 \in Nat
      /\ heap[m].neigh2 \in {n2, DONE}
  <2>1. p < n1 /\ p \in Routes(heap) \cup {null} /\ p \in Nat /\ n1 \in Nat /\ n2 \in Nat
    BY <1>2, <1>3, HeapBasics DEF HeapJoins, YoungerBelow, NodeOK, Node
  <2> QED BY <1>1, <2>1 DEF ThreadSlots
<1>5. \A h, rt : ThreadBases(h, rt, loc[t], "invalidate")
  BY NoBasesYet DEF BaseLabels
<1> HIDE DEF m, n1, n2, p
<1>6. CASE InPlace(n1) /\ Install(n1, n2, heap)
  <2>1. PICK side \in Sides : Puts(heap, root, heap', root', p, side, n1, n2)
    <3>1. Grows(heap, heap)
      BY <1>2, HeapBasics DEF Grows
    <3> QED BY <1>2, <1>3, <1>6, <3>1, InstallPuts DEF p
  <2>2. Harmless(heap, n2) /\ p < n2 /\ Grows(heap, heap)
    BY <1>2, <1>4, HeapBasics DEF Harmless, Routes, Grows
  <2>3. State(heap', root') /\ HeapOK(heap')
    BY NextState
  <2>4. BasePut(heap, root, heap, heap', root', p, side, n1, n2)
    BY <1>2, <1>3, <1>4, <2>1, <2>2, <2>3 DEF BasePut
  <2>5. n1 = heap[m].neigh1 /\ p = heap[n1].parent
    BY DEF n1, p
  <2>6. Step(heap, root, heap', root', p, side, n1, n2, {})
    BY <1>1, <1>2, <1>4, <2>3, <2>4, <2>5, MergeStep
  <2>7. Moved
    BY <2>6 DEF Moved
  <2>8. \A n \in Ptr(heap) : heap'[n].otherb = heap[n].otherb
    BY <2>1 DEF Puts, SameButSlots
  <2> QED BY <1>1, <1>5, <2>7, <2>8, BasesStep DEF BasesKept
<1>7. CASE heap' = heap /\ root' = root
  BY <1>1, <1>5, <1>7, SameBasesStep
<1> QED BY <1>6, <1>7 DEF ReplaceNeighbor, n1, n2, m

(* The route of a join is cut out, and what replaces it takes its place.   *)
LEMMA CutStep ==
    ASSUME NEW h, NEW rt, NEW f, NEW rt2, NEW m, NEW p, NEW g, NEW x, NEW side,
           CutsOut(h, rt, f, rt2, m, p, g, x, side), x = Replacement(h, m),
           State(h, rt), HeapBases(h, rt), State(f, rt2), ~Placed(h, rt, h[m].neigh1)
    PROVE  Step(h, rt, f, rt2, g, side, p, x, {p})
<1>1. /\ HeapOK(h) /\ m \in Committed(h) /\ ~IsCut(h, rt, m) /\ h[m].parent = p /\ h[m].gparent = g
      /\ side \in Sides /\ Puts(h, rt, f, rt2, g, side, p, x)
  BY DEF CutsOut
<1>2. /\ g \in Routes(h) \cup {null} /\ (g /= null => Attached(h, rt, g))
      /\ Ptr(f) = Ptr(h) /\ Routes(f) = Routes(h) /\ Committed(f) = Committed(h)
  BY CutShaped DEF CutShape
<1>3. /\ Len(f) = Len(h) /\ \A n \in Ptr(h) : SameButSlots(h[n], f[n])
      /\ IF g = null THEN rt = p /\ rt2 = x ELSE rt2 = rt /\ Side(h, g, side) = p
  BY <1>1 DEF Puts
<1>4. KeepsNodes(h, f) /\ Settled(h, f, rt2)
  BY <1>2, <1>3, NothingNew
<1>5. \A r \in Routes(h), y \in Sides : Side(f, r, y) = IF r = g /\ y = side THEN x ELSE Side(h, r, y)
  BY <1>1, NullIsNoNode DEF Puts
<1>6. Moves(h, rt, f, rt2, g, side, p, x)
  BY <1>1, <1>2, <1>3, <1>5 DEF Moves
<1>7. CutsFrom(h, rt, f, rt2, {p})
  <2>1. \A r \in Routes(h) : Attached(f, rt2, r) <=> Attached(h, rt, r) /\ r /= p
    BY CutDone DEF CutResult
  <2> QED BY <1>2, <2>1, NullIsNoNode DEF CutsFrom
<1>8. CutsRoute(h, rt, g, p, x, {p})
  BY <1>1, <1>2 DEF CutsRoute
<1> QED BY <1>4, <1>6, <1>7, <1>8 DEF Step

LEMMA SpliceBases ==
    ASSUME BInv, SInv', NEW t \in Threads, Splice(t)
    PROVE  BasesKept
<1> DEFINE m == loc[t].m
           p == Parent(t)
           g == heap[m].gparent
           x == IF heap[m].otherb = heap[m].neigh1 THEN loc[t].n2 ELSE heap[m].otherb
           label == IF g = null THEN "done" ELSE "unlock"
           side == IF g = null THEN "left" ELSE loc[t].slot
<1>1. /\ pc[t] = "splice" /\ Goto(t, label, loc[t])
      /\ ThreadSlots(heap, root, loc[t], "splice") /\ JInv
      /\ State(heap, root) /\ HeapBases(heap, root) /\ State(heap', root') /\ HeapOK(heap')
  BY BasesState, NextState DEF Splice, Shared
<1>2. IF IsCut(heap, root, m) THEN heap' = heap /\ root' = root
      ELSE CutsOut(heap, root, heap', root', m, p, g, x, side)
  BY <1>1, SpliceCuts
<1>3. label \notin BaseLabels
  BY DEF BaseLabels
<1> HIDE DEF label
<1>4. \A h, rt : ThreadBases(h, rt, loc[t], label)
  BY <1>3, NoBasesYet
<1>5. CASE IsCut(heap, root, m)
  BY <1>1, <1>2, <1>4, <1>5, SameBasesStep
<1>6. CASE ~IsCut(heap, root, m)
  <2>1. heap[m].neigh2 = loc[t].n2 /\ ~Placed(heap, root, heap[m].neigh1)
    <3>1. m \in Committed(heap) /\ HeapJoins(heap, root)
      BY <1>2, <1>6 DEF CutsOut
    <3>2. heap[m].neigh2 /= DONE
      BY <1>6, <3>1 DEF HeapJoins, JoinLocks
    <3> QED BY <1>1, <3>2 DEF ThreadSlots, HelperLabels
  <2>2. x = Replacement(heap, m)
    BY <2>1 DEF Replacement
  <2> HIDE DEF m, p, g, x, side
  <2>3. Step(heap, root, heap', root', g, side, p, x, {p})
    BY <1>1, <1>2, <1>6, <2>1, <2>2, CutStep
  <2>4. Moved
    BY <2>3 DEF Moved
  <2>5. \A n \in Ptr(heap) : heap'[n].otherb = heap[n].otherb
    BY <1>2, <1>6 DEF CutsOut, Puts, SameButSlots
  <2> QED BY <1>1, <1>4, <2>4, <2>5, BasesStep DEF BasesKept
<1> QED BY <1>5, <1>6

-----------------------------------------------------------------------------
(* The invariant                                                           *)

LEMMA BasesInit == Init => BInv
<1> SUFFICES ASSUME Init PROVE BInv
  OBVIOUS
<1>1. SInv
  BY SlotsInit
<1> DEFINE empty == <<>>
           b == Base(null, empty, 0)
<1>2. empty \in Seq(Int) /\ 0 \in Int /\ null \in Nat
  BY EmptySeq DEF null
<1> HIDE DEF empty
<1>3. b \in Node /\ b.type = "normal" /\ b.parent = null
  BY <1>2, BaseNode
<1> HIDE DEF b
<1>4. heap = <<b>> /\ root = 1
  BY DEF Init, InitTree, b, empty
<1>5. heap[1] = b /\ Ptr(heap) = {1}
  <2>1. heap[1] = b /\ Len(heap) = 1
    BY <1>4
  <2> QED BY <2>1 DEF Ptr
<1>6. Routes(heap) = {} /\ Committed(heap) = {} /\ heap[root].parent = null
  BY <1>3, <1>4, <1>5 DEF Routes, Committed
<1>7. HeapBases(heap, root)
  <2>1. BasesAtHome(heap, root) /\ MergesStay(heap) /\ CutOutEmpty(heap, root)
    BY <1>6 DEF BasesAtHome, MergesStay, CutOutEmpty, Detached
  <2>2. MainsStay(heap, root) /\ NeighborsStay(heap, root)
    BY <1>3, <1>5 DEF MainsStay, NeighborsStay
  <2> QED BY <2>1, <2>2 DEF HeapBases
<1>8. \A t \in Threads : pc[t] = "idle"
  BY DEF Init, InitThreads
<1>9. \A t \in Threads : ThreadBases(heap, root, loc[t], pc[t])
  BY <1>8, NoBasesYet DEF BaseLabels
<1> QED BY <1>1, <1>7, <1>9 DEF BInv, BasesAreHeld

LEMMA ThreadKeepsBases ==
    ASSUME BInv, SInv', OutcomesAreFinal, NoLockedSplit, NEW t \in Threads, Thread(t)
    PROVE  BasesKept
BY FreeBases, ThenBases, CheckBases, SiblingBases, CheckNeighborBases, ParentBases, LockBases,
   InvalidateBases, UnlockBases, OutcomeBases, ReadOtherBases, PublishBases, ReplaceBases,
   CopyBaseBases, LockNeighborBases, LockMainBases, SplitBases, ReplaceNeighborBases, SpliceBases
   DEF Thread

LEMMA BasesNext ==
    ASSUME BInv, NoLockedSplit, [Next]_vars
    PROVE  BInv' /\ (UNCHANGED <<heap, root>> \/ Moved)
<1>1. SInv' /\ OutcomesAreFinal
  <2>1. SInv /\ IInv
    BY DEF BInv, SInv, JInv
  <2> QED BY <2>1, SlotsNextStep, NextOK
<1>2. CASE UNCHANGED vars
  <2>1. heap' = heap /\ root' = root /\ loc' = loc /\ pc' = pc
    BY <1>2 DEF vars, client
  <2>2. BasesAreHeld'
    BY <2>1 DEF BInv, BasesAreHeld
  <2> QED BY <1>1, <2>1, <2>2 DEF BInv
<1>3. CASE \E t \in Threads : Thread(t)
  <2>1. BasesKept
    BY <1>1, <1>3, ThreadKeepsBases
  <2> QED BY <1>1, <2>1 DEF BInv, BasesKept
<1> QED BY <1>2, <1>3 DEF Next, Finished

LEMMA BasesInductive == Spec /\ []NoLockedSplit => []BInv
<1>1. BInv /\ NoLockedSplit /\ [Next]_vars => BInv'
  BY BasesNext
<1> QED BY <1>1, BasesInit, PTL DEF Spec

-----------------------------------------------------------------------------
(* What the runs check of it                                               *)

LEMMA BasesOfTree ==
    ASSUME BInv
    PROVE  /\ HeapOK(heap) /\ root \in Ptr(heap) /\ Pointers = Ptr(heap) /\ HeapBases(heap, root)
           /\ JInv /\ InTree = Below(heap, root)
           /\ \A n \in Pointers : IsRoute(n) <=> n \in Routes(heap)
           /\ \A m \in Committed(heap) : m \in Pointers /\ (heap[m].neigh2 /= DONE => Published(m))
           /\ \A m \in Pointers : Published(m) => m \in Committed(heap)
<1>1. /\ JInv /\ HeapOK(heap) /\ root \in Ptr(heap) /\ Pointers = Ptr(heap) /\ HeapBases(heap, root)
      /\ \A n \in Pointers : IsRoute(n) <=> n \in Routes(heap)
  BY JoinsTree DEF BInv, SInv, BasesAreHeld
<1>2. \A m \in Pointers : Published(m) => m \in Committed(heap)
  BY <1>1 DEF Published, JoinMains, Committed, Unpublished, PREPARING, ABORTED
<1>3. ASSUME NEW m \in Committed(heap), heap[m].neigh2 /= DONE PROVE Published(m)
  <2>1. heap[m].neigh2 \in Ptr(heap) /\ m \in Ptr(heap) /\ heap[m].type = "join_main"
    BY <1>1, <1>3, CommittedRoutes
  <2> QED BY <1>1, <2>1 DEF Published, JoinMains, Ptr
<1> QED BY <1>1, <1>2, <1>3, CommittedRoutes DEF InTree

LEMMA HeldBases == BInv => JoinHoldsBases
<1> SUFFICES ASSUME BInv, NEW m \in Pointers, Published(m), heap[m].parent \in InTree
             PROVE  LET p == heap[m].parent
                    IN  /\ m \in {heap[p].left, heap[p].right}
                        /\ heap[m].otherb \in {heap[p].left, heap[p].right, heap[m].neigh1}
  BY DEF JoinHoldsBases
<1>1. /\ HeapOK(heap) /\ HeapBases(heap, root) /\ JInv /\ m \in Committed(heap) /\ Pointers = Ptr(heap)
      /\ \A n \in Pointers : IsRoute(n) <=> n \in Routes(heap)
  BY BasesOfTree
<1>2. /\ heap[m].type = "join_main" /\ heap[m].neigh2 /= ABORTED /\ heap[m].parent \in Routes(heap)
      /\ heap[m].otherb \in Ptr(heap) /\ heap[m].parent /= null
  BY <1>1, CommittedRoutes, NullIsNoNode DEF Unpublished
<1>3. InSlot(heap, root, m)
  BY <1>1, <1>2 DEF HeapBases, MainsStay
<1>4. m \in {heap[heap[m].parent].left, heap[heap[m].parent].right}
  BY <1>2, <1>3 DEF InSlot, Side
<1>5. heap[m].otherb \in Routes(heap) \/ heap[m].otherb = heap[m].neigh1
  BY <1>1 DEF HeapBases, MergesStay
<1>6. IsRoute(heap[m].otherb) =>
        heap[m].otherb \in {heap[heap[m].parent].left, heap[heap[m].parent].right}
  BY <1>1, HeldRoutes DEF JoinHoldsRoutes
<1> QED BY <1>1, <1>2, <1>4, <1>5, <1>6

(* As long as no full base is split that a join has locked, whatever the   *)
(* joins and the threads in them rely on of the bases is true: a base is   *)
(* where its parent field says as long as a join needs it, and below the   *)
(* sibling of the route where find_neighbor looks for it (lfca.cpp:47-61). *)
THEOREM BasesStayInPlace == Spec /\ []NoLockedSplit => []BasesAreHeld
<1>1. BInv => BasesAreHeld
  BY DEF BInv
<1> QED BY <1>1, BasesInductive, PTL

(* As long as no full base is split that a join has locked, the route of a *)
(* published join keeps the main node and the sibling that was read, but   *)
(* for a sibling that is the neighbour, which the join replaces itself: so *)
(* complete_join (lfca.cpp:464-471) cuts out what the join has saved.      *)
THEOREM BasesStayLocked == Spec /\ []NoLockedSplit => []JoinHoldsBases
BY HeldBases, BasesInductive, PTL

LEMMA TreeMoves ==
    ASSUME BInv, NoLockedSplit, [Next]_vars, ~UNCHANGED <<heap, root>>
    PROVE  NodeNotAgain /\ LockedBaseStays
<1>1. BInv' /\ Moved
  BY BasesNext
<1>2. PICK q, z, b, c, P : Step(heap, root, heap', root', q, z, b, c, P)
  BY <1>1 DEF Moved
<1>3. /\ HeapOK(heap) /\ Pointers = Ptr(heap) /\ InTree = Below(heap, root)
      /\ Below(heap, root) \subseteq Ptr(heap)
      /\ \A n \in Pointers : IsRoute(n) <=> n \in Routes(heap)
      /\ \A m \in Committed(heap) : m \in Pointers /\ (heap[m].neigh2 /= DONE => Published(m))
  BY BasesOfTree, JoinsTree, TreeOf
<1>4. InTree' = Below(heap', root') /\ Below(heap', root') \subseteq Ptr(heap') /\ HeapOK(heap')
  <2>1. HeapOK(heap') /\ HeapJoins(heap', root') /\ root' \in Ptr(heap')
    BY <1>1, SlotsNext DEF BInv, SInv
  <2> QED BY <2>1, TreeOf DEF InTree
<1>5. ASSUME NEW n \in InTree' \ InTree
      PROVE  n > Len(heap) \/ \E m \in Pointers : Published(m) /\ heap[m].neigh2 = n
  <2>1. n \notin Ptr(heap) \/ \E m \in Committed(heap) : heap[m].neigh2 = n /\ heap[m].neigh2 /= DONE
    BY <1>2, <1>3, <1>4, <1>5, StepEnters
  <2>2. n \notin Ptr(heap) => n > Len(heap)
    BY <1>3, <1>4, <1>5, HeapBasics DEF Ptr
  <2> QED BY <1>3, <2>1, <2>2
<1>6. ASSUME NEW n \in InTree \ InTree'
      PROVE  \/ IsRoute(n) \/ is_replaceable(n)
             \/ \E m \in Pointers : Published(m) /\ n \in {m, heap[m].neigh1}
  <2>1. \/ n \in Routes(heap) \/ Replaceable(heap, n)
        \/ \E m \in Committed(heap) : heap[m].neigh2 /= DONE /\ n \in {m, heap[m].neigh1}
    BY <1>2, <1>3, <1>4, <1>6, StepLeaves
  <2>2. Replaceable(heap, n) => is_replaceable(n)
    BY DEF Replaceable, is_replaceable
  <2> QED BY <1>3, <2>1, <2>2
<1> QED BY <1>5, <1>6 DEF NodeNotAgain, LockedBaseStays

(* As long as no full base is split that a join has locked, a node that    *)
(* has left the tree never comes back, so that a compare-and-swap on a     *)
(* stale pointer (lfca.cpp:64-79) fails.                                   *)
THEOREM NodesStayOut == Spec /\ []NoLockedSplit => NodesNeverReturn
<1>1. BInv /\ NoLockedSplit /\ [Next]_vars => [NodeNotAgain]_<<heap, root>>
  BY TreeMoves
<1> QED BY <1>1, BasesInductive, PTL DEF Spec, NodesNeverReturn, NodeNotAgain

(* And a base that a join has locked leaves the tree only with the         *)
(* completion of that join, so that no update of it is lost.               *)
THEOREM LockedBasesAreKept == Spec /\ []NoLockedSplit => LockedBasesStay
<1>1. BInv /\ NoLockedSplit /\ [Next]_vars => [LockedBaseStays]_<<heap, root>>
  BY TreeMoves
<1> QED BY <1>1, BasesInductive, PTL DEF Spec, LockedBasesStay, LockedBaseStays
=============================================================================
