-------------------------- MODULE LfcaPlaces_proofs --------------------------
(***************************************************************************)
(* Proofs about where the values of LfcaTree are, for any number of        *)
(* threads, any programs and any treap size.                               *)
(*                                                                         *)
(* As long as no full base is split that a join has locked, and none at a  *)
(* median above all its values, every value stays where a search for it    *)
(* ends.                                                                   *)
(***************************************************************************)
EXTENDS LfcaPlaces, LfcaSlots_proofs

-----------------------------------------------------------------------------
(* Ways                                                                    *)

Follows(h, f, S) == \A r \in S : r \in Routes(h) => Side(h, r, f[r]) \in S

(* The nodes that are in every set that n is in and that the way does not  *)
(* leave.                                                                  *)
Trail(h, f, n) == {k \in Ptr(h) : \A S \in SUBSET Ptr(h) : Follows(h, f, S) /\ n \in S => k \in S}

(* That set, like the recursive function of Way, follows the turns.        *)
LEMMA TrailTurns ==
    ASSUME NEW h, HeapOK(h), NEW f, NEW n \in Ptr(h)
    PROVE  /\ n \in Trail(h, f, n) /\ Follows(h, f, Trail(h, f, n)) /\ Trail(h, f, n) \subseteq Ptr(h)
           /\ \A S \in SUBSET Ptr(h) : Follows(h, f, S) /\ n \in S => Trail(h, f, n) \subseteq S
           /\ Trail(h, f, n) = IF h[n].type = "route" THEN {n} \cup Trail(h, f, Side(h, n, f[n])) ELSE {n}
<1>1. \A r \in Routes(h) : Side(h, r, f[r]) \in Ptr(h) /\ r \in Ptr(h)
  BY SidesOK DEF Routes
<1>2. \A x \in Ptr(h) : x \in Trail(h, f, x) /\ Trail(h, f, x) \subseteq Ptr(h)
  BY DEF Trail
<1>3. \A x \in Ptr(h), S \in SUBSET Ptr(h) : Follows(h, f, S) /\ x \in S => Trail(h, f, x) \subseteq S
  BY DEF Trail
<1>4. ASSUME NEW x \in Ptr(h) PROVE Follows(h, f, Trail(h, f, x))
  <2> SUFFICES ASSUME NEW k \in Trail(h, f, x), k \in Routes(h), NEW S \in SUBSET Ptr(h),
                      Follows(h, f, S), x \in S
               PROVE  Side(h, k, f[k]) \in S
    BY <1>1 DEF Follows, Trail
  <2> QED BY <1>3 DEF Follows
<1>5. CASE n \in Routes(h)
  <2> DEFINE c == Side(h, n, f[n])
             S == {n} \cup Trail(h, f, c)
  <2>1. S \subseteq Ptr(h) /\ n \in S /\ c \in S /\ c \in Ptr(h)
    BY <1>1, <1>2, <1>5
  <2>2. Follows(h, f, S)
    BY <1>1, <1>4, <1>5, <2>1 DEF Follows
  <2>3. Trail(h, f, n) \subseteq S
    <3> HIDE DEF S
    <3> QED BY <1>3, <2>1, <2>2
  <2>4. c \in Trail(h, f, n)
    BY <1>2, <1>4, <1>5 DEF Follows
  <2>5. Trail(h, f, c) \subseteq Trail(h, f, n)
    BY <1>2, <1>3, <1>4, <2>1, <2>4
  <2>6. Trail(h, f, n) = S
    BY <1>2, <2>3, <2>5
  <2> QED BY <1>2, <1>3, <1>4, <1>5, <2>6 DEF Routes
<1>6. CASE n \notin Routes(h)
  <2>1. Follows(h, f, {n})
    BY <1>6 DEF Follows
  <2>2. Trail(h, f, n) = {n}
    BY <1>2, <1>3, <2>1
  <2> QED BY <1>2, <1>3, <1>4, <1>6, <2>2 DEF Routes
<1> QED BY <1>5, <1>6

(* A function that is the set wherever it is at the younger nodes is it.   *)
LEMMA WayIsTrail ==
    ASSUME NEW h, HeapOK(h), YoungerBelow(h), NEW f, NEW n \in Ptr(h)
    PROVE  Way(h, f, n) = Trail(h, f, n)
<1> DEFINE step(w) == [r \in 1 .. Len(h) |->
                          IF h[r].type = "route" THEN {r} \cup w[Side(h, r, f[r])] ELSE {r}]
           F == [r \in 1 .. Len(h) |-> Trail(h, f, r)]
           walk == CHOOSE w : w = step(w)
<1>1. \A r \in Ptr(h) : h[r].type = "route" => Side(h, r, f[r]) \in Ptr(h) /\ Side(h, r, f[r]) > r
  BY DEF HeapOK, NodeOK, Routes, YoungerBelow, Side
<1>2. F = step(F)
  <2>1. ASSUME NEW r \in Ptr(h)
        PROVE F[r] = IF h[r].type = "route" THEN {r} \cup F[Side(h, r, f[r])] ELSE {r}
    BY <1>1, TrailTurns DEF Ptr
  <2> HIDE DEF F
  <2>2. F = [r \in 1 .. Len(h) |-> F[r]]
    BY DEF F
  <2> QED BY <2>1, <2>2 DEF Ptr
<1>3. walk = step(walk)
  <2> HIDE DEF F, step
  <2> QED BY <1>2
<1>4. Way(h, f, n) = walk[n]
  BY SMTT(30) DEF Way
<1> HIDE DEF walk
<1>5. \A r \in Ptr(h) : walk[r] = IF h[r].type = "route" THEN {r} \cup walk[Side(h, r, f[r])] ELSE {r}
  BY <1>3 DEF Ptr
<1> DEFINE T == {r \in Ptr(h) : walk[r] /= Trail(h, f, r)}
<1>6. T = {}
  <2> SUFFICES ASSUME T /= {} PROVE FALSE
    OBVIOUS
  <2>1. Len(h) \in Nat
    BY DEF HeapOK
  <2>2. T \in SUBSET Nat /\ \A k \in T : k <= Len(h)
    BY <2>1 DEF Ptr
  <2>3. PICK k \in T : \A j \in T : j <= k
    <3> HIDE DEF T
    <3> QED BY <2>1, <2>2, Youngest
  <2>4. ASSUME NEW j \in Ptr(h), j > k PROVE walk[j] = Trail(h, f, j)
    <3>1. j \in Nat /\ k \in Nat
      BY <2>2 DEF Ptr
    <3> QED BY <2>3, <2>4, <3>1
  <2>5. walk[k] = Trail(h, f, k)
    <3>1. k \in Ptr(h)
      OBVIOUS
    <3> HIDE DEF T, F, step
    <3>2. h[k].type = "route" => walk[Side(h, k, f[k])] = Trail(h, f, Side(h, k, f[k]))
      BY <1>1, <2>4, <3>1
    <3>3. Trail(h, f, k) = IF h[k].type = "route" THEN {k} \cup Trail(h, f, Side(h, k, f[k])) ELSE {k}
      BY <3>1, TrailTurns
    <3> QED BY <1>5, <3>1, <3>2, <3>3
  <2> QED BY <2>3, <2>5
<1> QED BY <1>4, <1>6

(* The way from a node of the way is part of it.                           *)
LEMMA TrailOn ==
    ASSUME NEW h, HeapOK(h), NEW f, NEW n \in Ptr(h), NEW k \in Trail(h, f, n)
    PROVE  k \in Ptr(h) /\ Trail(h, f, k) \subseteq Trail(h, f, n)
BY TrailTurns

(* What is on a way is below where it starts.                              *)
LEMMA TrailBelow ==
    ASSUME NEW h, HeapOK(h), NEW f, NEW n \in Ptr(h)
    PROVE  Trail(h, f, n) \subseteq From(h, n)
<1>1. n \in From(h, n) /\ Closed(h, From(h, n)) /\ From(h, n) \in SUBSET Ptr(h)
  BY FromRoutes
<1>2. Follows(h, f, From(h, n))
  BY <1>1 DEF Closed, Follows, Side
<1> QED BY <1>1, <1>2, TrailTurns

(* Every node of a way but the first is where one of its routes leads.     *)
LEMMA TrailSlot ==
    ASSUME NEW h, HeapOK(h), NEW f, NEW x \in Ptr(h), NEW n \in Trail(h, f, x), n /= x
    PROVE  \E r \in Trail(h, f, x) : r \in Routes(h) /\ Side(h, r, f[r]) = n
<1> SUFFICES ASSUME \A r \in Trail(h, f, x) : r \in Routes(h) => Side(h, r, f[r]) /= n
             PROVE  FALSE
  OBVIOUS
<1> DEFINE S == Trail(h, f, x) \ {n}
<1>1. x \in S /\ S \in SUBSET Ptr(h) /\ Follows(h, f, Trail(h, f, x))
  BY TrailTurns
<1>2. Follows(h, f, S)
  BY <1>1 DEF Follows
<1>3. Trail(h, f, x) \subseteq S
  <2> HIDE DEF S
  <2> QED BY <1>1, <1>2, TrailTurns
<1> QED BY <1>3

(* Of two nodes of a way one is on the way from the other.                 *)
LEMMA TrailLinear ==
    ASSUME NEW h, HeapOK(h), NEW f, NEW x \in Ptr(h), NEW n \in Trail(h, f, x), NEW k \in Trail(h, f, x)
    PROVE  k \in Trail(h, f, n) \/ n \in Trail(h, f, k)
<1> DEFINE S == {u \in Trail(h, f, x) : u \in Trail(h, f, n) \/ n \in Trail(h, f, u)}
<1>1. /\ x \in Trail(h, f, x) /\ Follows(h, f, Trail(h, f, x)) /\ Trail(h, f, x) \subseteq Ptr(h)
      /\ n \in Trail(h, f, n) /\ Follows(h, f, Trail(h, f, n))
  BY TrailTurns
<1>2. x \in S /\ S \in SUBSET Ptr(h)
  BY <1>1
<1>3. ASSUME NEW u \in S, u \in Routes(h) PROVE Side(h, u, f[u]) \in S
  <2>1. Side(h, u, f[u]) \in Trail(h, f, x)
    BY <1>1, <1>3 DEF Follows
  <2>2. CASE u \in Trail(h, f, n)
    BY <1>1, <1>3, <2>1, <2>2 DEF Follows
  <2>3. CASE u \notin Trail(h, f, n)
    <3>1. n \in Trail(h, f, u) /\ n /= u /\ u \in Ptr(h)
      BY <1>1, <2>3
    <3>2. Trail(h, f, u) = {u} \cup Trail(h, f, Side(h, u, f[u]))
      BY <1>3, <3>1, TrailTurns DEF Routes
    <3> QED BY <2>1, <3>1, <3>2
  <2> QED BY <2>2, <2>3
<1>4. Follows(h, f, S)
  <2> HIDE DEF S
  <2> QED BY <1>3 DEF Follows
<1>5. Trail(h, f, x) \subseteq S
  <2> HIDE DEF S
  <2> QED BY <1>2, <1>4, TrailTurns
<1> QED BY <1>5

(* A way ends at a base, and at one only.                                  *)
LEMMA OneBase ==
    ASSUME NEW h, HeapOK(h), NEW f, NEW x \in Ptr(h),
           NEW n \in Trail(h, f, x), NEW k \in Trail(h, f, x), n \notin Routes(h), k \notin Routes(h)
    PROVE  n = k
<1>1. n \in Ptr(h) /\ k \in Ptr(h)
  BY TrailTurns
<1>2. Trail(h, f, n) = {n} /\ Trail(h, f, k) = {k}
  BY <1>1, TrailTurns DEF Routes
<1> QED BY <1>2, TrailLinear

LEMMA SomeBase ==
    ASSUME NEW h, HeapOK(h), YoungerBelow(h), NEW f, NEW x \in Ptr(h)
    PROVE  \E n \in Trail(h, f, x) : n \notin Routes(h)
<1>1. Len(h) \in Nat /\ Ptr(h) \subseteq Nat /\ \A k \in Ptr(h) : k <= Len(h)
  BY HeapBasics DEF Ptr
<1>2. x \in Trail(h, f, x) /\ Trail(h, f, x) \subseteq Ptr(h) /\ Follows(h, f, Trail(h, f, x))
  BY TrailTurns
<1>3. Trail(h, f, x) \in SUBSET Nat /\ Trail(h, f, x) /= {} /\ \A k \in Trail(h, f, x) : k <= Len(h)
  BY <1>1, <1>2
<1>4. PICK n \in Trail(h, f, x) : \A j \in Trail(h, f, x) : j <= n
  BY <1>1, <1>3, Youngest
<1>5. ASSUME n \in Routes(h) PROVE FALSE
  <2>1. Side(h, n, f[n]) > n /\ n \in Nat /\ Side(h, n, f[n]) \in Trail(h, f, x)
    BY <1>1, <1>2, <1>5 DEF YoungerBelow, Side, Follows
  <2>2. Side(h, n, f[n]) \in Nat
    BY <1>1, <1>2, <2>1
  <2> QED BY <1>4, <2>1, <2>2
<1> QED BY <1>5

(* The way depends on the turns at its own routes only.                    *)
LEMMA SameTurns ==
    ASSUME NEW h, HeapOK(h), NEW f, NEW f2, NEW x \in Ptr(h),
           \A r \in Trail(h, f, x) : r \in Routes(h) => f2[r] = f[r]
    PROVE  Trail(h, f2, x) = Trail(h, f, x)
<1>1. /\ x \in Trail(h, f, x) /\ Follows(h, f, Trail(h, f, x)) /\ Trail(h, f, x) \in SUBSET Ptr(h)
      /\ x \in Trail(h, f2, x) /\ Follows(h, f2, Trail(h, f2, x)) /\ Trail(h, f2, x) \in SUBSET Ptr(h)
  BY TrailTurns
<1>2. Follows(h, f2, Trail(h, f, x))
  BY <1>1 DEF Follows
<1>3. Trail(h, f2, x) \subseteq Trail(h, f, x)
  BY <1>1, <1>2, TrailTurns
<1>4. Follows(h, f, Trail(h, f2, x))
  BY <1>1, <1>3 DEF Follows
<1> QED BY <1>1, <1>3, <1>4, TrailTurns

-----------------------------------------------------------------------------
(* Ways before and after a step                                            *)

(* At the routes of h, f and f2 turn to the same side.                     *)
SameWay(h, f, f2) == \A r \in Routes(h) : f2[r] = f[r] /\ f[r] \in Sides

(* What is on the way from x now was so, or is on the way from what a slot *)
(* of the way got.                                                         *)
LEMMA StepTrail ==
    ASSUME NEW h, NEW rt, NEW g, NEW rt2, NEW q, NEW z, NEW b, NEW c, NEW P,
           Step(h, rt, g, rt2, q, z, b, c, P), NEW f, NEW f2, SameWay(h, f, f2),
           NEW x \in Ptr(h), NEW n \in Trail(g, f2, x)
    PROVE  n \in Trail(h, f, x) \/ (b /= c /\ q \in Trail(h, f, x) /\ f[q] = z /\ n \in Trail(g, f2, c))
<1> DEFINE T == {k \in Ptr(g) : \/ k \in Trail(h, f, x)
                                \/ b /= c /\ q \in Trail(h, f, x) /\ f[q] = z /\ k \in Trail(g, f2, c)}
<1>1. /\ Ptr(h) \subseteq Ptr(g) /\ c \in Ptr(g) /\ \A k \in Ptr(h) : k \in Routes(g) <=> k \in Routes(h)
      /\ HeapOK(h) /\ HeapOK(g)
  BY StepNodes DEF State
<1>2. \A k \in Routes(h), y \in Sides :
            Side(g, k, y) = Side(h, k, y) \/ (b /= c /\ k = q /\ y = z /\ Side(g, k, y) = c)
  BY StepSides
<1>3. /\ x \in Trail(h, f, x) /\ Follows(h, f, Trail(h, f, x)) /\ Trail(h, f, x) \subseteq Ptr(h)
      /\ c \in Trail(g, f2, c) /\ Follows(g, f2, Trail(g, f2, c)) /\ Trail(g, f2, c) \subseteq Ptr(g)
  BY <1>1, TrailTurns
<1>4. ASSUME NEW k \in T, k \in Routes(g) PROVE Side(g, k, f2[k]) \in T
  <2>1. Side(g, k, f2[k]) \in Ptr(g)
    BY <1>1, <1>4, SidesOK
  <2>2. CASE k \in Trail(h, f, x)
    <3>1. k \in Routes(h) /\ f2[k] = f[k] /\ f[k] \in Sides
      BY <1>1, <1>3, <1>4, <2>2 DEF SameWay
    <3>2. Side(h, k, f[k]) \in Trail(h, f, x)
      BY <1>3, <2>2, <3>1 DEF Follows
    <3> QED BY <1>2, <1>3, <2>1, <2>2, <3>1, <3>2
  <2>3. CASE b /= c /\ q \in Trail(h, f, x) /\ f[q] = z /\ k \in Trail(g, f2, c)
    <3>1. Side(g, k, f2[k]) \in Trail(g, f2, c)
      BY <1>3, <1>4, <2>3 DEF Follows
    <3> QED BY <2>1, <2>3, <3>1
  <2> QED BY <1>4, <2>2, <2>3
<1>5. Follows(g, f2, T)
  <2> HIDE DEF T
  <2> QED BY <1>4 DEF Follows
<1>6. x \in T /\ T \in SUBSET Ptr(g) /\ x \in Ptr(g)
  BY <1>1, <1>3
<1>7. Trail(g, f2, x) \subseteq T
  <2> HIDE DEF T
  <2> QED BY <1>1, <1>5, <1>6, TrailTurns
<1> QED BY <1>7

(* What was on the way from x still is, or is on the way from what x gave  *)
(* way to.                                                                 *)
LEMMA StepKeepsTrail ==
    ASSUME NEW h, NEW rt, NEW g, NEW rt2, NEW q, NEW z, NEW b, NEW c, NEW P,
           Step(h, rt, g, rt2, q, z, b, c, P), NEW f, NEW f2, SameWay(h, f, f2),
           NEW x \in Ptr(h), NEW x2, x2 = x \/ (x = b /\ x2 = c), NEW n \in Trail(h, f, x)
    PROVE  n \in Trail(g, f2, x2) \/ Gone(h, rt, q, b, c, P, n)
<1>1. /\ Ptr(h) \subseteq Ptr(g) /\ c \in Ptr(g) /\ b \in Ptr(h) /\ null \notin Ptr(g)
      /\ \A k \in Ptr(h) : k \in Routes(g) <=> k \in Routes(h)
      /\ State(h, rt) /\ HeapBases(h, rt) /\ HeapOK(h) /\ HeapOK(g)
  BY StepNodes DEF State
<1>2. /\ \A k \in Routes(h), y \in Sides :
            Side(g, k, y) = Side(h, k, y) \/ (b /= c /\ k = q /\ y = z /\ Side(h, k, y) = b)
      /\ b /= c /\ q /= null => q \in Routes(h) /\ Side(g, q, z) = c /\ Side(h, q, z) = b /\ z \in Sides
  BY StepSides
<1>3. x2 \in Ptr(g)
  BY <1>1
<1> DEFINE T == Trail(g, f2, x2)
<1>4. x2 \in T /\ Follows(g, f2, T) /\ T \subseteq Ptr(g)
  BY <1>1, <1>3, TrailTurns
<1> HIDE DEF T
<1>5. ASSUME NEW k \in T, k \in Routes(h)
      PROVE  Side(h, k, f[k]) \in T \/ (b /= c /\ Side(h, k, f[k]) = b /\ c \in T)
  <2>1. k \in Routes(g) /\ f2[k] = f[k] /\ f[k] \in Sides
    BY <1>1, <1>5, NullIsNoNode DEF SameWay
  <2>2. Side(g, k, f[k]) \in T
    BY <1>4, <1>5, <2>1 DEF Follows
  <2>3. k /= null
    BY <1>1, <1>4
  <2> QED BY <1>2, <1>5, <2>1, <2>2, <2>3
<1>6. ASSUME NEW G \in SUBSET Ptr(h), b /= c => b \in G \/ c \notin T, x \in T \/ x \in G,
             \A k \in G : k \in Routes(h) => Side(h, k, f[k]) \in T \cup G
      PROVE  n \in T \cup G
  <2> DEFINE S == {k \in Ptr(h) : k \in T \/ k \in G}
  <2>1. ASSUME NEW k \in S, k \in Routes(h) PROVE Side(h, k, f[k]) \in S
    <3>1. Side(h, k, f[k]) \in Ptr(h)
      BY <1>1, <2>1, SidesOK
    <3>2. Side(h, k, f[k]) \in T \cup G
      BY <1>5, <1>6, <2>1
    <3> QED BY <3>1, <3>2
  <2>2. x \in S /\ S \in SUBSET Ptr(h)
    BY <1>6
  <2>3. Follows(h, f, S)
    <3> HIDE DEF S
    <3> QED BY <2>1 DEF Follows
  <2>4. Trail(h, f, x) \subseteq S
    <3> HIDE DEF S
    <3> QED BY <1>1, <2>2, <2>3, TrailTurns
  <2> QED BY <2>4
<1>7. CASE Stands(b, c, P)
  <2>1. n \in T \cup {}
    <3>1. b = c /\ x2 = x
      BY <1>7 DEF Stands
    <3> QED BY <1>4, <1>6, <3>1
  <2> QED BY <2>1 DEF T
<1>8. CASE b /= c /\ b \notin Routes(h)
  <2>1. n \in T \cup {b}
    BY <1>1, <1>4, <1>6, <1>8
  <2> QED BY <1>8, <2>1 DEF T, Gone
<1>9. CASE CutsRoute(h, rt, q, b, c, P)
  <2>1. PICK m \in Committed(h) :
            /\ ~IsCut(h, rt, m) /\ h[m].neigh2 /= DONE /\ h[m].parent = b
            /\ b \in Routes(h) /\ q /= b /\ c /= b
            /\ \E y \in Sides : Side(h, b, y) = c
            /\ \A y \in Sides : Side(h, b, y) \in {c, m}
    BY <1>1, <1>9, CutRoute
  <2>2. m \in Ptr(h) /\ m \notin Routes(h) /\ f[b] \in Sides
    BY <1>1, <2>1, MergedNodes DEF SameWay
  <2>3. Gone(h, rt, q, b, c, P, b) /\ Gone(h, rt, q, b, c, P, m)
    BY <1>9, <2>1, <2>2 DEF Gone
  <2>4. CASE c \in T
    <3>1. n \in T \cup {b, m}
      <4>1. x \in T \/ x \in {b, m}
        BY <1>4
      <4>2. \A k \in {b, m} : k \in Routes(h) => Side(h, k, f[k]) \in T \cup {b, m}
        BY <2>1, <2>2, <2>4
      <4>3. {b, m} \in SUBSET Ptr(h)
        BY <1>1, <2>2
      <4> QED BY <1>6, <4>1, <4>2, <4>3
    <3> QED BY <2>3, <3>1 DEF T
  <2>5. CASE c \notin T
    <3>1. x2 = x
      BY <1>4, <2>5
    <3>2. n \in T \cup {}
      BY <1>4, <1>6, <2>5, <3>1
    <3> QED BY <3>2 DEF T
  <2> QED BY <2>4, <2>5
<1>10. Renews(h, rt, q, b, c, P) => b /= c /\ b \notin Routes(h)
  BY <1>1 DEF Renews
<1>11. MergesInto(h, rt, q, b, c, P) => b /= c /\ b \notin Routes(h)
  BY <1>1, MergedNodes DEF MergesInto
<1> QED BY <1>7, <1>8, <1>9, <1>10, <1>11 DEF Step

LEMMA AliveStaysOn ==
    ASSUME NEW h, NEW rt, NEW g, NEW rt2, NEW q, NEW z, NEW b, NEW c, NEW P,
           Step(h, rt, g, rt2, q, z, b, c, P), NEW f, NEW f2, SameWay(h, f, f2),
           NEW x \in Ptr(h), NEW x2, x2 = x \/ (x = b /\ x2 = c),
           NEW n \in Trail(h, f, x), Alive(g, rt2, n)
    PROVE  n \in Trail(g, f2, x2)
BY StepKeepsTrail, GoneIsDead

(* The slot that changes is in the tree, and the only one that held b.     *)
LEMMA StepSlot ==
    ASSUME NEW h, NEW rt, NEW g, NEW rt2, NEW q, NEW z, NEW b, NEW c, NEW P,
           Step(h, rt, g, rt2, q, z, b, c, P), b /= c
    PROVE  /\ q = null => rt = b /\ rt2 = c
           /\ q /= null => /\ q \in Routes(h) /\ Attached(h, rt, q) /\ Side(h, q, z) = b /\ z \in Sides
                           /\ rt2 = rt /\ rt /= b /\ q /= b
                           /\ Attached(g, rt2, q) /\ Alive(g, rt2, q) /\ Side(g, q, z) = c
           /\ \A s \in Routes(h), w \in Sides :
                Attached(h, rt, s) /\ Side(h, s, w) = b => q = s /\ z = w
<1>1. /\ State(h, rt) /\ HeapBases(h, rt) /\ Moves(h, rt, g, rt2, q, z, b, c) /\ CutsFrom(h, rt, g, rt2, P)
      /\ OneSlotEach(h, rt) /\ Routes(h) \subseteq Routes(g) /\ Routes(h) \subseteq Ptr(h)
      /\ YoungerBelow(h) /\ HeapOK(h)
  BY StepNodes DEF State, HeapSlots, HeapJoins
<1>2. /\ q \in Routes(h) \cup {null} /\ z \in Sides
      /\ IF q = null THEN rt = b /\ rt2 = c ELSE rt2 = rt /\ Side(h, q, z) = b
  BY <1>1 DEF Moves
<1>3. q = null \/ Attached(h, rt, q)
  BY DEF Step, Stands, Renews, MergesInto, CutsRoute
<1>4. P = {} \/ P = {b}
  BY DEF Step, Stands, Renews, MergesInto, CutsRoute
<1>5. ASSUME NEW s \in Routes(h), NEW w \in Sides, Attached(h, rt, s), Side(h, s, w) = b
      PROVE  q = s /\ z = w
  <2>1. rt /= b
    BY <1>1, <1>5 DEF OneSlotEach
  <2>2. q /= null /\ q \in Routes(h) /\ Side(h, q, z) = b
    BY <1>2, <2>1
  <2> QED BY <1>1, <1>2, <1>3, <1>5, <2>2 DEF OneSlotEach
<1>6. ASSUME q /= null
      PROVE  rt /= b /\ q /= b /\ Attached(g, rt2, q) /\ Alive(g, rt2, q) /\ Side(g, q, z) = c
  <2>1. q \in Routes(h) /\ Attached(h, rt, q) /\ Side(h, q, z) = b /\ q \in Ptr(h)
    BY <1>1, <1>2, <1>3, <1>6
  <2>2. rt /= b
    BY <1>1, <1>2, <2>1 DEF OneSlotEach
  <2>3. b > q /\ q \in Nat
    BY <1>1, <2>1, HeapBasics DEF YoungerBelow, Side
  <2>4. Attached(g, rt2, q)
    BY <1>1, <1>4, <2>1, <2>3 DEF CutsFrom
  <2>5. Side(g, q, z) = c
    BY <1>1, <1>2, <2>1 DEF Moves
  <2>6. Alive(g, rt2, q)
    BY <1>1, <2>1, <2>4 DEF Alive
  <2> QED BY <2>2, <2>3, <2>4, <2>5, <2>6
<1> QED BY <1>1, <1>2, <1>3, <1>5, <1>6

(* x is the root or in the tree, and x2 is there after the step.           *)
GivesWay(h, rt, x, b, c, x2) ==
    /\ x \in Ptr(h) /\ (x \in Routes(h) => Attached(h, rt, x))
    /\ IF x = b THEN x2 = c ELSE x2 = x

(* What takes the place of a node on a way is on that way.                 *)
LEMMA TakesPlace ==
    ASSUME NEW h, NEW rt, NEW g, NEW rt2, NEW q, NEW z, NEW b, NEW c, NEW P,
           Step(h, rt, g, rt2, q, z, b, c, P), NEW f, NEW f2, SameWay(h, f, f2), b /= c,
           NEW x, NEW x2, GivesWay(h, rt, x, b, c, x2), b \in Trail(h, f, x)
    PROVE  c \in Trail(g, f2, x2)
<1>1. /\ State(h, rt) /\ HeapOK(h) /\ HeapOK(g) /\ Ptr(h) \subseteq Ptr(g) /\ c \in Ptr(g)
      /\ Routes(h) \subseteq Routes(g)
  BY StepNodes DEF State
<1>2. x \in Ptr(h) /\ x2 \in Ptr(g) /\ (x2 = x \/ (x = b /\ x2 = c))
  BY <1>1 DEF GivesWay
<1>3. CASE x = b
  BY <1>1, <1>2, <1>3, TrailTurns DEF GivesWay
<1>4. CASE x /= b
  <2>1. PICK r \in Trail(h, f, x) : r \in Routes(h) /\ Side(h, r, f[r]) = b
    BY <1>1, <1>2, <1>4, TrailSlot
  <2>2. r \in From(h, x) /\ f[r] \in Sides /\ f2[r] = f[r]
    BY <1>1, <1>2, <2>1, TrailBelow DEF SameWay
  <2>3. Attached(h, rt, r)
    BY <1>1, <1>2, <2>1, <2>2, AttachedFrom DEF GivesWay
  <2>4. q = r /\ z = f[r] /\ q /= null
    BY <1>1, <2>1, <2>2, <2>3, StepSlot, NullIsNoNode
  <2>5. Alive(g, rt2, q) /\ Side(g, q, z) = c
    BY <2>4, StepSlot
  <2>6. q \in Trail(g, f2, x2)
    BY <1>2, <2>1, <2>4, <2>5, AliveStaysOn
  <2> QED BY <1>1, <1>2, <2>1, <2>2, <2>4, <2>5, <2>6, TrailTurns DEF Follows
<1> QED BY <1>3, <1>4

LEMMA StepLeadsOn ==
    ASSUME NEW h, NEW rt, NEW g, NEW rt2, NEW q, NEW z, NEW b, NEW c, NEW P,
           Step(h, rt, g, rt2, q, z, b, c, P), NEW f, NEW f2, SameWay(h, f, f2),
           NEW x \in Ptr(h), NEW x2, x2 = x \/ (x = b /\ x2 = c), NEW cur \in Ptr(h),
           LeadsOn(h, rt, f, cur, x)
    PROVE  LeadsOn(g, rt2, f2, cur, x2)
<1>1. /\ HeapOK(h) /\ HeapOK(g) /\ YoungerBelow(h) /\ YoungerBelow(g)
      /\ Ptr(h) \subseteq Ptr(g) /\ c \in Ptr(g) /\ Routes(h) \subseteq Routes(g) /\ null \notin Ptr(h)
  BY StepNodes DEF State, HeapJoins
<1>2. x2 \in Ptr(g) /\ cur \in Ptr(g)
  BY <1>1
<1>3. /\ Way(h, f, cur) = Trail(h, f, cur) /\ Way(g, f2, cur) = Trail(g, f2, cur)
      /\ Way(h, f, x) = Trail(h, f, x) /\ Way(g, f2, x2) = Trail(g, f2, x2)
  BY <1>1, <1>2, WayIsTrail
<1>4. \A n \in Trail(h, f, cur) : Alive(h, rt, n) => n \in Trail(h, f, x)
  BY <1>3 DEF LeadsOn
<1>5. ASSUME NEW n \in Trail(h, f, cur), Alive(g, rt2, n) PROVE n \in Trail(g, f2, x2)
  <2>1. n \in Ptr(h)
    BY <1>1, TrailTurns
  <2>2. Alive(h, rt, n)
    BY <1>5, <2>1, StaysDead
  <2> QED BY <1>4, <1>5, <2>2, AliveStaysOn
<1>6. ASSUME b /= c, q \in Trail(h, f, cur), f[q] = z, NEW n \in Trail(g, f2, c)
      PROVE  n \in Trail(g, f2, x2)
  <2>1. q \in Ptr(h) /\ q /= null
    BY <1>1, <1>6, TrailTurns
  <2>2. q \in Routes(h) /\ Alive(g, rt2, q) /\ Side(g, q, z) = c
    BY <1>6, <2>1, StepSlot
  <2>3. q \in Trail(g, f2, x2)
    BY <1>5, <1>6, <2>2
  <2>4. f2[q] = z /\ q \in Routes(g)
    BY <1>1, <1>6, <2>2 DEF SameWay
  <2>5. c \in Trail(g, f2, x2)
    BY <1>1, <1>2, <2>2, <2>3, <2>4, TrailTurns DEF Follows
  <2> QED BY <1>1, <1>2, <1>6, <2>5, TrailOn
<1>7. ASSUME NEW n \in Trail(g, f2, cur), Alive(g, rt2, n) PROVE n \in Trail(g, f2, x2)
  BY <1>5, <1>6, <1>7, StepTrail
<1> QED BY <1>3, <1>7 DEF LeadsOn

(* A way from the root to a node below a side of an attached route turns   *)
(* to that side there, since no node has two places.                       *)
LEMMA TurnsTo ==
    ASSUME NEW h, NEW rt, State(h, rt), NEW f, \A r \in Routes(h) : f[r] \in Sides,
           NEW n \in Trail(h, f, rt), NEW a \in Routes(h), Attached(h, rt, a), NEW y \in Sides,
           n \in From(h, Side(h, a, y))
    PROVE  a \in Trail(h, f, rt) /\ f[a] = y
<1> DEFINE c == Side(h, a, y)
           T == Trail(h, f, rt)
           F == From(h, c)
           S == {k \in T : k \in F => a \in T /\ f[a] = y}
<1>1. /\ HeapOK(h) /\ OneSlotEach(h, rt) /\ YoungerBelow(h) /\ rt \in Ptr(h) /\ c \in Ptr(h)
      /\ (rt \in Routes(h) => Attached(h, rt, rt)) /\ AttachedBelow(h, rt)
  BY SidesOK DEF State, HeapJoins, HeapSlots, AttachedBelow
<1>2. rt \in T /\ T \subseteq Ptr(h) /\ Follows(h, f, T) /\ T \subseteq From(h, rt)
  BY <1>1, TrailTurns, TrailBelow
<1>3. rt \in S /\ S \in SUBSET Ptr(h)
  BY <1>2, BelowNotRoot
<1>4. \A r \in F : r \in Routes(h) => Attached(h, rt, r)
  <2>1. c \in Routes(h) => Attached(h, rt, c)
    BY <1>1 DEF AttachedBelow
  <2> QED BY <1>1, <2>1, AttachedFrom
<1>5. \A r \in T : r \in Routes(h) => Attached(h, rt, r)
  BY <1>1, <1>2, AttachedFrom
<1>6. ASSUME NEW k \in S, k \in Routes(h), Side(h, k, f[k]) \in F PROVE a \in T /\ f[a] = y
  <2> DEFINE e == Side(h, k, f[k])
  <2>1. k \in T /\ f[k] \in Sides /\ Attached(h, rt, k)
    BY <1>5, <1>6
  <2>2. CASE e = c
    BY <1>1, <1>6, <2>1, <2>2 DEF OneSlotEach
  <2>3. CASE e /= c
    <3>1. PICK s \in From(h, c) : s \in Routes(h) /\ \E w \in Sides : Side(h, s, w) = e
      BY <1>1, <1>6, <2>3, SubtreeSlot
    <3>2. Attached(h, rt, s)
      BY <1>4, <3>1
    <3>3. s = k
      BY <1>1, <1>6, <2>1, <3>1, <3>2 DEF OneSlotEach
    <3> QED BY <1>6, <3>1, <3>3
  <2> QED BY <2>2, <2>3
<1>7. Follows(h, f, S)
  <2> SUFFICES ASSUME NEW k \in S, k \in Routes(h) PROVE Side(h, k, f[k]) \in S
    BY DEF Follows
  <2>1. Side(h, k, f[k]) \in T
    BY <1>2 DEF Follows
  <2> QED BY <1>6, <2>1
<1>8. T \subseteq S
  <2> HIDE DEF S
  <2> QED BY <1>1, <1>3, <1>7, TrailTurns
<1> QED BY <1>8

(* All nodes of a way but its first are below the turn there.              *)
LEMMA TrailChild ==
    ASSUME NEW h, HeapOK(h), NEW f, NEW p \in Routes(h), NEW n \in Trail(h, f, p), n /= p
    PROVE  /\ n \in Trail(h, f, Side(h, p, f[p])) /\ n \in From(h, Side(h, p, f[p]))
           /\ Side(h, p, f[p]) \in Ptr(h)
<1>1. p \in Ptr(h) /\ Side(h, p, f[p]) \in Ptr(h)
  BY SidesOK DEF Routes
<1>2. Trail(h, f, p) = {p} \cup Trail(h, f, Side(h, p, f[p]))
  BY <1>1, TrailTurns DEF Routes
<1> QED BY <1>1, <1>2, TrailBelow

-----------------------------------------------------------------------------
(* Keys and values                                                         *)

LEMMA Ways ==
    ASSUME NEW h, NEW rt, State(h, rt)
    PROVE  \A f : \A n \in Ptr(h) : Way(h, f, n) = Trail(h, f, n)
BY WayIsTrail DEF State, HeapJoins

LEMMA KeyTurns ==
    ASSUME NEW h, NEW k, NEW r \in Routes(h)
    PROVE  KeyWay(h, k)[r] = (IF k <= h[r].key THEN "left" ELSE "right") /\ KeyWay(h, k)[r] \in Sides
BY DEF KeyWay, Sides, Routes

LEMMA NextTurns ==
    ASSUME NEW h, NEW p, NEW side \in Sides, NEW r \in Routes(h)
    PROVE  /\ NextWay(h, p, side)[r] = IF r = p THEN Opposite(side) ELSE side
           /\ NextWay(h, p, side)[r] \in Sides /\ Opposite(side) \in Sides /\ Opposite(side) /= side
           /\ \A y \in Sides : y = side \/ y = Opposite(side)
BY DEF NextWay, Sides, Routes, Opposite

KeepsValues(h, g) == \A n \in Ptr(h) : g[n].key = h[n].key /\ g[n].data = h[n].data

(* The turns do not change.                                                *)
LEMMA SameWays ==
    ASSUME NEW h, NEW g, KeepsValues(h, g), HeapOK(h), HeapOK(g), Len(h) <= Len(g)
    PROVE  /\ \A k : SameWay(h, KeyWay(h, k), KeyWay(g, k))
           /\ \A p : \A side \in Sides : SameWay(h, NextWay(h, p, side), NextWay(g, p, side))
<1>1. Ptr(h) \subseteq Ptr(g) /\ Routes(h) \subseteq Ptr(h)
  BY HeapBasics DEF Ptr, Routes
<1>2. \A r \in Routes(h) : g[r].key = h[r].key
  BY <1>1 DEF KeepsValues
<1>3. \A k : SameWay(h, KeyWay(h, k), KeyWay(g, k))
  BY <1>1, <1>2 DEF SameWay, KeyWay, Sides
<1>4. \A p : \A side \in Sides : SameWay(h, NextWay(h, p, side), NextWay(g, p, side))
  BY <1>1 DEF SameWay, NextWay, Sides, Opposite
<1> QED BY <1>3, <1>4

LEMMA FromYounger ==
    ASSUME NEW h, HeapOK(h), YoungerBelow(h), NEW n \in Ptr(h), NEW k \in From(h, n)
    PROVE  k >= n
<1> DEFINE S == {j \in Ptr(h) : j >= n}
<1>1. n \in S /\ S \in SUBSET Ptr(h) /\ \A j \in Ptr(h) : j \in Nat
  BY HeapBasics
<1>2. Closed(h, S)
  <2> SUFFICES ASSUME NEW j \in S, j \in Routes(h) PROVE h[j].left \in S /\ h[j].right \in S
    BY DEF Closed
  <2>1. h[j].left \in Ptr(h) /\ h[j].right \in Ptr(h) /\ h[j].left > j /\ h[j].right > j
    BY SidesOK DEF YoungerBelow, HeapOK, NodeOK, Routes
  <2> QED BY <1>1, <2>1
<1> QED BY <1>1, <1>2, FromRoutes

(* A published join and its route are cut out at once.                     *)
LEMMA CutWithRoute ==
    ASSUME NEW h, NEW rt, State(h, rt), NEW m \in Committed(h)
    PROVE  IsCut(h, rt, m) <=> ~Attached(h, rt, h[m].parent)
<1>1. \A k \in Committed(h) : h[h[k].parent].join_id = k
  BY DEF State, HeapJoins, JoinLocks
<1>2. h[m].parent \in Routes(h)
  BY CommittedRoutes DEF State
<1> QED BY <1>1, <1>2 DEF Attached

LEMMA StepCuts ==
    ASSUME NEW h, NEW rt, NEW g, NEW rt2, NEW q, NEW z, NEW b, NEW c, NEW P,
           Step(h, rt, g, rt2, q, z, b, c, P), NEW m \in Committed(h)
    PROVE  /\ m \in Committed(g) /\ m \in Ptr(h) /\ g[m].parent = h[m].parent /\ h[m].parent \in Routes(h)
           /\ g[m].neigh1 = h[m].neigh1 /\ g[m].neigh2 \in {h[m].neigh2, DONE}
           /\ ~IsCut(g, rt2, m) => g[m].neigh2 = h[m].neigh2 /\ g[m].neigh2 /= DONE
           /\ IsCut(g, rt2, m) <=> (IsCut(h, rt, m) \/ h[m].parent \in P)
<1>1. /\ State(h, rt) /\ State(g, rt2) /\ KeepsNodes(h, g) /\ CutsFrom(h, rt, g, rt2, P)
      /\ Committed(h) \subseteq Committed(g) /\ HeapOK(h) /\ HeapOK(g)
  BY StepNodes DEF State
<1>2. m \in Ptr(h) /\ h[m].parent \in Routes(h)
  BY <1>1, CommittedRoutes
<1>3. g[m].parent = h[m].parent /\ g[m].neigh1 = h[m].neigh1
  BY <1>1, <1>2 DEF KeepsNodes
<1>4. g[m].neigh2 \in {h[m].neigh2, DONE}
  BY <1>1, OldOutcomes
<1>5. ~IsCut(g, rt2, m) => g[m].neigh2 /= DONE
  BY <1>1 DEF State, HeapJoins, JoinLocks
<1>6. IsCut(g, rt2, m) <=> (IsCut(h, rt, m) \/ h[m].parent \in P)
  BY <1>1, <1>2, <1>3, CutWithRoute DEF CutsFrom
<1> QED BY <1>1, <1>2, <1>3, <1>4, <1>5, <1>6

-----------------------------------------------------------------------------
(* The values of the main node after its route is cut out                  *)

(* What a published join merges is the next base, as long as that has its  *)
(* place.                                                                  *)
LEMMA MergedAhead ==
    ASSUME NEW h, NEW rt, State(h, rt), HeapBases(h, rt), HeapPlaces(h, rt),
           NEW m \in Committed(h), ~IsCut(h, rt, m), ~Placed(h, rt, h[m].neigh1)
    PROVE  LET p == h[m].parent
           IN  \E side \in Sides : Side(h, p, side) = m /\ h[m].neigh2 \in Trail(h, NextWay(h, p, side), p)
<1> DEFINE p == h[m].parent
           n1 == h[m].neigh1
<1>1. PICK side \in Sides, n \in {n1, h[m].neigh2} :
            Side(h, p, side) = m /\ n \in Way(h, NextWay(h, p, side), p)
  BY DEF HeapPlaces, MergesNeighbors, NextTo
<1>2. /\ HeapOK(h) /\ p \in Routes(h) /\ p \in Ptr(h) /\ Attached(h, rt, p) /\ p /= null
      /\ YoungerBelow(h) /\ BasesAtHome(h, rt)
  BY CommittedRoutes, CutWithRoute, NullIsNoNode DEF State, HeapJoins, HeapBases
<1>3. n \in Trail(h, NextWay(h, p, side), p)
  BY <1>1, <1>2, WayIsTrail
<1>4. n1 \in Ptr(h) \ Routes(h) /\ h[n1].main_node = m
  BY MergedNodes
<1>5. n1 /= h[m].neigh2
  BY <1>4, MergedNodes, HeapBasics DEF State, DONE
<1>6. ASSUME n = n1 PROVE FALSE
  <2>1. n1 \in From(h, p) /\ n1 /= p
    BY <1>2, <1>3, <1>4, <1>6, TrailBelow
  <2>2. PICK r \in From(h, p) : r \in Routes(h) /\ \E w \in Sides : Side(h, r, w) = n1
    BY <1>2, <2>1, SubtreeSlot
  <2>3. Attached(h, rt, r) /\ r /= null
    BY <1>2, <2>1, <2>2, AttachedFrom, NullIsNoNode
  <2>4. h[n1].parent /= r
    BY <2>2, <2>3 DEF Placed
  <2>5. PICK k \in Committed(h) : h[k].neigh2 = n1
    BY <1>2, <1>4, <2>2, <2>3, <2>4 DEF BasesAtHome
  <2>6. h[k].neigh2 /= DONE
    BY <1>4, <2>5, HeapBasics DEF State, DONE
  <2> QED BY <1>4, <1>5, <2>5, <2>6, MergedNodes
<1> QED BY <1>1, <1>3, <1>6

LEMMA CutLeads ==
    ASSUME NEW h, NEW rt, NEW g, NEW rt2, NEW q, NEW z, NEW b, NEW c, NEW P,
           Step(h, rt, g, rt2, q, z, b, c, P), HeapPlaces(h, rt), KeepsValues(h, g),
           CutsRoute(h, rt, q, b, c, P), NEW m \in Committed(h), h[m].parent = b, ~IsCut(h, rt, m),
           NEW v \in Int, HoldsValue(h, m, v), Alive(g, rt2, h[m].neigh2)
    PROVE  h[m].neigh2 \in Trail(g, KeyWay(g, v), rt2)
<1> DEFINE n2 == h[m].neigh2
           K == KeyWay(h, v)
           K2 == KeyWay(g, v)
<1>1. /\ State(h, rt) /\ HeapBases(h, rt) /\ HeapOK(h) /\ HeapOK(g) /\ Len(h) <= Len(g) /\ YoungerBelow(h)
      /\ rt \in Ptr(h) /\ State(g, rt2) /\ rt2 \in Ptr(g) /\ c \in Ptr(g) /\ b \in Ptr(h)
      /\ AttachedBelow(h, rt)
  BY StepNodes DEF State, HeapJoins, KeepsNodes
<1>2. SameWay(h, K, K2) /\ \A r \in Routes(h) : K[r] \in Sides
  BY <1>1, SameWays, KeyTurns
<1>3. /\ b \in Routes(h) /\ Attached(h, rt, b) /\ c /= b /\ b /= null
      /\ c \in Ptr(h) /\ c /= m /\ \E y \in Sides : Side(h, b, y) = c
  <2>1. PICK k \in Committed(h) : h[k].parent = b /\ b \in Routes(h) /\ Attached(h, rt, b) /\ c /= b
                                 /\ c \in Ptr(h) /\ c /= k /\ \E y \in Sides : Side(h, b, y) = c
    BY <1>1, CutRoute
  <2>2. k = m
    BY <1>1, <2>1 DEF State, HeapJoins, JoinLocks
  <2> QED BY <2>1, <2>2, NullIsNoNode
<1>4. ~Placed(h, rt, h[m].neigh1)
  <2>1. PICK k \in Committed(h) : ~Placed(h, rt, h[k].neigh1) /\ b = h[k].parent
    BY DEF CutsRoute
  <2>2. k = m
    BY <1>1, <2>1 DEF State, HeapJoins, JoinLocks
  <2> QED BY <2>1, <2>2
<1>5. PICK side \in Sides : Side(h, b, side) = m /\ n2 \in Trail(h, NextWay(h, b, side), b)
  BY <1>1, <1>4, MergedAhead
<1> DEFINE f == NextWay(h, b, side)
<1>6. /\ \A r \in Routes(h) : f[r] = IF r = b THEN Opposite(side) ELSE side
      /\ Opposite(side) \in Sides /\ Side(h, b, Opposite(side)) = c
  BY <1>3, <1>5, NextTurns
<1> HIDE DEF f
<1>7. h[m].neigh2 /= DONE /\ n2 \in Ptr(h) \ Routes(h) /\ h[m].type = "join_main" /\ m \in Ptr(h) \ Routes(h)
  <2>1. h[m].neigh2 /= DONE
    BY <1>1, <1>3, AttachedNotDone
  <2> QED BY <1>1, <2>1, MergedNodes
<1>8. n2 \in Trail(h, f, c)
  <2>1. n2 /= b
    BY <1>3, <1>7
  <2> QED BY <1>1, <1>3, <1>5, <1>6, <2>1, TrailChild DEF f
<1>9. m \in Trail(h, K, rt)
  <2>1. PICK i \in DOMAIN h[m].data : h[m].data[i] = v
    <3>1. h[m].data \in Seq(Int)
      BY <1>1, <1>7, HeapBasics, NodeTypes_
    <3> QED BY <3>1 DEF HoldsValue, contains
  <2>2. Elsewhere(h, rt, null, m)
    BY <1>3, <1>5 DEF Elsewhere
  <2>3. ASSUME NEW k \in Committed(h), h[k].neigh2 = m PROVE FALSE
    <3>1. h[k].neigh2 /= DONE
      BY <1>1, <1>7, <2>3, HeapBasics DEF DONE
    <3> QED BY <1>1, <1>7, <2>3, <3>1, MergedNodes
  <2>4. m \in Way(h, K, rt)
    BY <1>7, <2>1, <2>2, <2>3 DEF HeapPlaces, ValuesPlaced
  <2> QED BY <1>1, <2>4, WayIsTrail
<1>10. b \in Trail(h, K, rt) /\ K[b] = side
  <2>1. m \in From(h, Side(h, b, side))
    BY <1>1, <1>5, <1>7, FromRoutes
  <2> HIDE DEF K
  <2> QED BY <1>1, <1>2, <1>3, <1>9, <2>1, TurnsTo
<1>11. \A r \in Trail(h, f, c) : r \in Routes(h) => K[r] = f[r]
  <2> SUFFICES ASSUME NEW r \in Trail(h, f, c), r \in Routes(h) PROVE K[r] = f[r]
    OBVIOUS
  <2>1. r \in From(h, c) /\ c > b /\ b \in Nat
    BY <1>1, <1>3, TrailBelow, HeapBasics DEF YoungerBelow, Side
  <2>2. r >= c
    BY <1>1, <1>3, <2>1, FromYounger
  <2>3. r /= b /\ f[r] = side
    <3>1. r \in Nat /\ c \in Nat
      BY <1>1, <1>3, HeapBasics DEF Routes
    <3> QED BY <1>6, <2>1, <2>2, <3>1
  <2>4. r \in Trail(h, f, b)
    <3>1. c \in Trail(h, f, b)
      BY <1>1, <1>3, <1>6, TrailTurns DEF Follows
    <3> QED BY <1>1, <3>1, TrailOn
  <2>5. r \in Way(h, NextWay(h, b, side), b)
    BY <1>1, <2>4, WayIsTrail DEF f
  <2>6. /\ side = "left" => h[b].key <= h[r].key
        /\ side = "right" => h[r].key <= h[b].key
    BY <1>3, <2>5 DEF HeapPlaces, RoutesOrdered
  <2>7. h[b].key \in Int /\ h[r].key \in Int
    BY <1>1, <1>3, HeapBasics, NodeTypes_ DEF Routes
  <2> QED BY <1>3, <1>10, <2>3, <2>6, <2>7, KeyTurns DEF Sides
<1>12. n2 \in Trail(h, K, c)
  BY <1>1, <1>3, <1>8, <1>11, SameTurns
<1>13. c \in Trail(g, K2, rt2)
  <2>1. GivesWay(h, rt, rt, b, c, rt2)
    BY <1>1, <1>3, StepSlot DEF GivesWay, AttachedBelow
  <2> QED BY <1>2, <1>3, <1>10, <2>1, TakesPlace
<1>14. n2 \in Trail(g, K2, c)
  BY <1>2, <1>3, <1>12, AliveStaysOn
<1> QED BY <1>1, <1>13, <1>14, TrailOn

-----------------------------------------------------------------------------
(* What a step does to the values                                          *)

(* The values of the new base n were in the base b that it replaces, or    *)
(* their keys led there; and if b is split, they are on their side.        *)
TakesValues(h, rt, g, b, c, n) ==
    \A i \in DOMAIN g[n].data :
        LET v == g[n].data[i]
        IN  /\ b \in Trail(h, KeyWay(h, v), rt)
            /\ n = c \/ (c \in Routes(g) /\ Side(g, c, KeyWay(g, v)[c]) = n)

(* The key of the new route c is between the values of b.                  *)
Divides(h, g, b, c) ==
    \A k \in Int :
        /\ (\A i \in DOMAIN h[b].data : k < h[b].data[i]) => k <= g[c].key
        /\ (\A i \in DOMAIN h[b].data : h[b].data[i] <= k) => g[c].key <= k

Carries(h, rt, g, rt2, q, z, b, c, P) ==
    /\ Step(h, rt, g, rt2, q, z, b, c, P) /\ HeapPlaces(h, rt) /\ KeepsValues(h, g)
    /\ \A n \in Ptr(g) \ Ptr(h) :
        /\ Sorted(g[n].data)
        /\ n \notin Routes(g) /\ Elsewhere(g, rt2, null, n) => b /= c /\ TakesValues(h, rt, g, b, c, n)
        /\ n \in Routes(g) => n = c /\ Renews(h, rt, q, b, c, P) /\ Divides(h, g, b, c)
    /\ \A m \in Committed(g) \ Committed(h) : NextTo(g, m) /\ Combines(g, m)

LEMMA RootGivesWay ==
    ASSUME NEW h, NEW rt, NEW g, NEW rt2, NEW q, NEW z, NEW b, NEW c, NEW P,
           Step(h, rt, g, rt2, q, z, b, c, P)
    PROVE  /\ GivesWay(h, rt, rt, b, c, rt2) \/ (b = c /\ rt2 = rt)
           /\ rt \in Ptr(h) /\ (rt2 = rt \/ (rt = b /\ rt2 = c))
<1>1. /\ State(h, rt) /\ AttachedBelow(h, rt) /\ rt \in Ptr(h) /\ Moves(h, rt, g, rt2, q, z, b, c)
  BY StepNodes DEF State, HeapJoins
<1>2. rt2 = rt \/ (rt = b /\ rt2 = c)
  BY <1>1 DEF Moves
<1>3. b = c => rt2 = rt
  BY <1>2
<1>4. b /= c => GivesWay(h, rt, rt, b, c, rt2)
  BY <1>1, <1>2, StepSlot DEF GivesWay, AttachedBelow
<1> QED BY <1>1, <1>2, <1>3, <1>4

(* An old base in the tree.                                                *)
LEMMA OldValues ==
    ASSUME NEW h, NEW rt, NEW g, NEW rt2, NEW q, NEW z, NEW b, NEW c, NEW P,
           Carries(h, rt, g, rt2, q, z, b, c, P),
           NEW n \in Ptr(h), n \notin Routes(h), Elsewhere(g, rt2, null, n),
           NEW v \in Int, NEW i \in DOMAIN h[n].data, h[n].data[i] = v
    PROVE  \/ n \in Trail(g, KeyWay(g, v), rt2)
           \/ \E m \in Committed(g) : g[m].neigh2 = n /\ HoldsValue(g, m, v) /\ ~IsCut(g, rt2, m)
<1>1. /\ Step(h, rt, g, rt2, q, z, b, c, P) /\ HeapPlaces(h, rt) /\ KeepsValues(h, g)
      /\ State(h, rt) /\ State(g, rt2) /\ HeapOK(h) /\ HeapOK(g) /\ Len(h) <= Len(g)
      /\ rt \in Ptr(h) /\ Ptr(h) \subseteq Ptr(g) /\ n \notin Routes(g)
      /\ (rt2 = rt \/ (rt = b /\ rt2 = c))
  BY StepNodes, RootGivesWay DEF Carries, State, KeepsNodes
<1>2. SameWay(h, KeyWay(h, v), KeyWay(g, v))
  BY <1>1, SameWays
<1>3. Alive(g, rt2, n) /\ Alive(h, rt, n)
  BY <1>1, StaysDead DEF Alive
<1>4. ASSUME n \in Trail(h, KeyWay(h, v), rt) PROVE n \in Trail(g, KeyWay(g, v), rt2)
  BY <1>1, <1>2, <1>3, <1>4, AliveStaysOn
<1>5. ASSUME NEW k \in Ptr(h), k \notin Routes(h), NEW j \in DOMAIN h[k].data, h[k].data[j] = v,
             Elsewhere(h, rt, null, k)
      PROVE  \/ k \in Trail(h, KeyWay(h, v), rt)
             \/ \E m \in Committed(h) : h[m].neigh2 = k /\ HoldsValue(h, m, v) /\ ~IsCut(h, rt, m)
  <2>1. \/ k \in Way(h, KeyWay(h, v), rt)
        \/ \E m \in Committed(h) : h[m].neigh2 = k /\ HoldsValue(h, m, v) /\ ~IsCut(h, rt, m)
    BY <1>1, <1>5 DEF HeapPlaces, ValuesPlaced
  <2> QED BY <1>1, <2>1, Ways
<1>6. ASSUME NEW m \in Committed(h), h[m].neigh2 = n, HoldsValue(h, m, v), ~IsCut(h, rt, m)
      PROVE  \/ n \in Trail(g, KeyWay(g, v), rt2)
             \/ \E k \in Committed(g) : g[k].neigh2 = n /\ HoldsValue(g, k, v) /\ ~IsCut(g, rt2, k)
  <2>1. CASE ~IsCut(g, rt2, m)
    <3>1. m \in Committed(g) /\ m \in Ptr(h) /\ g[m].neigh2 = n
      BY <1>1, <1>6, <2>1, StepCuts
    <3>2. HoldsValue(g, m, v)
      BY <1>1, <1>6, <3>1 DEF KeepsValues, HoldsValue
    <3> QED BY <2>1, <3>1, <3>2
  <2>2. CASE IsCut(g, rt2, m)
    <3>1. h[m].parent \in P
      BY <1>1, <1>6, <2>2, StepCuts
    <3>2. CutsRoute(h, rt, q, b, c, P) /\ h[m].parent = b
      BY <1>1, <3>1 DEF Step, Stands, Renews, MergesInto, CutsRoute
    <3> QED BY <1>1, <1>3, <1>6, <3>2, CutLeads
  <2> QED BY <2>1, <2>2
<1>7. CASE Elsewhere(h, rt, null, n)
  BY <1>4, <1>5, <1>6, <1>7
<1>8. CASE ~Elsewhere(h, rt, null, n)
  <2>1. PICK m \in Committed(h) : h[m].neigh2 = n /\ Placed(h, rt, h[m].neigh1)
    BY <1>3, <1>8 DEF Alive
  <2>2. ~IsCut(h, rt, m)
    BY <1>1, <2>1 DEF State, HeapSlots, Unmerged
  <2> DEFINE n1 == h[m].neigh1
  <2>3. n1 \in Ptr(h) \ Routes(h) /\ h[m].neigh2 /= DONE /\ n1 /= n
    BY <1>1, <2>1, MergedNodes, HeapBasics DEF DONE
  <2>4. MergesInto(h, rt, q, b, c, P) /\ c = n /\ b = n1
    <3>1. n = c /\ b /= c
      <4>1. CASE rt2 = n
        <5>1. rt /= n
          BY <1>8 DEF Elsewhere
        <5> QED BY <1>1, <4>1, <5>1
      <4>2. CASE rt2 /= n
        <5>1. PICK s \in Routes(g), w \in Sides : Attached(g, rt2, s) /\ Side(g, s, w) = n
          BY <4>2 DEF Elsewhere
        <5>2. s \in Routes(h) /\ Attached(h, rt, s) /\ s /= null
          <6>1. Settled(h, g, rt2) /\ CutsFrom(h, rt, g, rt2, P) /\ s \in Ptr(g)
            BY <1>1, <5>1, StepNodes
          <6>2. s \in Ptr(h)
            BY <5>1, <6>1 DEF Settled, NewLinks
          <6> QED BY <1>1, <5>1, <6>1, <6>2, StepNodes, NullIsNoNode DEF CutsFrom
        <5>3. Side(h, s, w) /= n
          BY <1>8, <5>2 DEF Elsewhere
        <5> QED BY <1>1, <5>1, <5>2, <5>3, StepSides
      <4> QED BY <4>1, <4>2
    <3>2. ~Stands(b, c, P) /\ ~Renews(h, rt, q, b, c, P)
      BY <3>1 DEF Stands, Renews
    <3>3. ~CutsRoute(h, rt, q, b, c, P)
      <4> SUFFICES ASSUME CutsRoute(h, rt, q, b, c, P) PROVE FALSE
        OBVIOUS
      <4>1. HeapBases(h, rt)
        BY <1>1, StepNodes
      <4>2. b \in Routes(h) /\ Attached(h, rt, b) /\ b /= null /\ \E y \in Sides : Side(h, b, y) = c
        BY <1>1, <4>1, CutRoute, NullIsNoNode
      <4> QED BY <1>8, <3>1, <4>2 DEF Elsewhere
    <3>4. MergesInto(h, rt, q, b, c, P)
      BY <1>1, <3>2, <3>3 DEF Step
    <3>5. PICK k \in Committed(h) : b = h[k].neigh1 /\ c = h[k].neigh2 /\ c /= DONE
      BY <3>4 DEF MergesInto
    <3>6. k = m
      BY <1>1, <2>1, <2>3, <3>1, <3>5, MergedNodes
    <3> QED BY <3>1, <3>4, <3>5, <3>6
  <2>5. HoldsValue(h, m, v) \/ \E j \in DOMAIN h[n1].data : h[n1].data[j] = v
    <3>1. h[n].data \in {h[m].data \o h[n1].data, h[n1].data \o h[m].data}
      <4>1. Combines(h, m)
        BY <1>1 DEF HeapPlaces, MergesNeighbors
      <4> QED BY <2>1, <2>3, <4>1, Zenon DEF Combines
    <3>2. h[m].data \in Seq(Int) /\ h[n1].data \in Seq(Int)
      <4>1. h[m] \in Node /\ h[n1] \in Node
        BY <1>1, <2>3, HeapBasics, CommittedRoutes
      <4> QED BY <4>1, NodeTypes_
    <3>3. ASSUME NEW d \in Seq(Int), NEW e \in Seq(Int), NEW j \in DOMAIN (d \o e), (d \o e)[j] = v
          PROVE  (\E u \in DOMAIN d : d[u] = v) \/ (\E u \in DOMAIN e : e[u] = v)
      <4>1. j \in 1 .. Len(d) + Len(e)
        BY <3>3
      <4>2. CASE j <= Len(d)
        BY <3>3, <4>1, <4>2
      <4>3. CASE j > Len(d)
        <5>1. j - Len(d) \in DOMAIN e /\ e[j - Len(d)] = v
          BY SMTT(30), <3>3, <4>1, <4>3
        <5> QED BY <5>1
      <4> QED BY <4>1, <4>2, <4>3
    <3>4. (\E u \in DOMAIN h[m].data : h[m].data[u] = v) \/ (\E u \in DOMAIN h[n1].data : h[n1].data[u] = v)
      BY <3>1, <3>2, <3>3
    <3> QED BY SMTT(30), <3>2, <3>4 DEF HoldsValue, contains
  <2>6. CASE HoldsValue(h, m, v)
    BY <1>6, <2>1, <2>2, <2>6
  <2>7. CASE \E j \in DOMAIN h[n1].data : h[n1].data[j] = v
    <3>1. PICK j \in DOMAIN h[n1].data : h[n1].data[j] = v
      BY <2>7
    <3>2. Elsewhere(h, rt, null, n1)
      BY <2>1, NullIsNoNode DEF Placed, Elsewhere, Attached
    <3>3. ASSUME NEW k \in Committed(h), h[k].neigh2 = n1 PROVE FALSE
      <4>1. h[k].neigh2 /= DONE
        BY <1>1, <2>3, <3>3, HeapBasics DEF DONE
      <4> QED BY <1>1, <2>3, <3>3, <4>1, MergedNodes
    <3>4. n1 \in Trail(h, KeyWay(h, v), rt)
      BY <1>5, <2>3, <3>1, <3>2, <3>3
    <3>5. GivesWay(h, rt, rt, b, c, rt2) /\ b /= c
      BY <1>1, <2>3, <2>4, RootGivesWay
    <3> QED BY <1>1, <1>2, <2>4, <3>4, <3>5, TakesPlace
  <2> QED BY <2>5, <2>6, <2>7
<1> QED BY <1>7, <1>8

LEMMA KeepsPlaced ==
    ASSUME NEW h, NEW rt, NEW g, NEW rt2, NEW q, NEW z, NEW b, NEW c, NEW P,
           Carries(h, rt, g, rt2, q, z, b, c, P)
    PROVE  ValuesPlaced(g, rt2)
<1> SUFFICES ASSUME NEW n \in Ptr(g), n \notin Routes(g), Elsewhere(g, rt2, null, n),
                    NEW i \in DOMAIN g[n].data, NEW v, v = g[n].data[i]
             PROVE  \/ n \in Way(g, KeyWay(g, v), rt2)
                    \/ \E m \in Committed(g) : g[m].neigh2 = n /\ HoldsValue(g, m, v) /\ ~IsCut(g, rt2, m)
  BY DEF ValuesPlaced
<1>1. /\ Step(h, rt, g, rt2, q, z, b, c, P) /\ HeapPlaces(h, rt) /\ KeepsValues(h, g)
      /\ State(h, rt) /\ State(g, rt2) /\ HeapOK(h) /\ HeapOK(g) /\ Len(h) <= Len(g)
      /\ rt2 \in Ptr(g) /\ c \in Ptr(g)
      /\ \A k \in Ptr(h) : k \in Routes(g) <=> k \in Routes(h)
  BY StepNodes DEF Carries, State, KeepsNodes
<1>2. v \in Int
  <2>1. g[n].data \in Seq(Int)
    BY <1>1, HeapBasics, NodeTypes_
  <2> QED BY <2>1
<1>3. n \in Trail(g, KeyWay(g, v), rt2) => n \in Way(g, KeyWay(g, v), rt2)
  BY <1>1, WayIsTrail DEF State, HeapJoins
<1>4. CASE n \in Ptr(h)
  <2>1. h[n].data = g[n].data /\ n \notin Routes(h)
    BY <1>1, <1>4 DEF KeepsValues
  <2> QED BY <1>2, <1>3, <1>4, <2>1, OldValues
<1>5. CASE n \notin Ptr(h)
  <2>1. b /= c /\ TakesValues(h, rt, g, b, c, n)
    BY <1>5 DEF Carries
  <2>2. b \in Trail(h, KeyWay(h, v), rt) /\ (n = c \/ (c \in Routes(g) /\ Side(g, c, KeyWay(g, v)[c]) = n))
    BY <2>1 DEF TakesValues
  <2>3. SameWay(h, KeyWay(h, v), KeyWay(g, v)) /\ GivesWay(h, rt, rt, b, c, rt2)
    BY <1>1, <2>1, SameWays, RootGivesWay
  <2>4. c \in Trail(g, KeyWay(g, v), rt2)
    BY <1>1, <2>1, <2>2, <2>3, TakesPlace
  <2>5. Follows(g, KeyWay(g, v), Trail(g, KeyWay(g, v), rt2))
    BY <1>1, TrailTurns
  <2>6. n \in Trail(g, KeyWay(g, v), rt2)
    BY <2>2, <2>4, <2>5 DEF Follows
  <2> QED BY <1>3, <2>6
<1> QED BY <1>4, <1>5

-----------------------------------------------------------------------------
(* The keys of the routes                                                  *)

OnSide(h, p, side, r) == IF side = "left" THEN h[p].key <= h[r].key ELSE h[r].key <= h[p].key

LEMMA OrderedOnSides ==
    ASSUME NEW h, NEW rt, State(h, rt)
    PROVE  RoutesOrdered(h, rt) <=>
                \A p \in Routes(h), side \in Sides : Attached(h, rt, p) =>
                    \A r \in Trail(h, NextWay(h, p, side), p) : r \in Routes(h) => OnSide(h, p, side, r)
<1>1. \A f : \A p \in Routes(h) : Way(h, f, p) = Trail(h, f, p)
  BY Ways DEF Routes
<1>2. \A p, r : (OnSide(h, p, "left", r) <=> h[p].key <= h[r].key)
                /\ (OnSide(h, p, "right", r) <=> h[r].key <= h[p].key)
  BY DEF OnSide
<1>3. \A side \in Sides : side = "left" \/ side = "right"
  BY DEF Sides
<1>4. "left" \in Sides /\ "right" \in Sides
  BY DEF Sides
<1> QED BY <1>1, <1>2, <1>3, <1>4 DEF RoutesOrdered

LEMMA KeysAreInts ==
    ASSUME NEW h, HeapOK(h)
    PROVE  /\ \A n \in Ptr(h) : h[n].key \in Int /\ h[n].data \in Seq(Int)
           /\ \A n \in Routes(h) : h[n].key \in Int
           /\ \A n \in Ptr(h) : \A i \in DOMAIN h[n].data : h[n].data[i] \in Int
<1>1. \A n \in Ptr(h) : h[n].key \in Int /\ h[n].data \in Seq(Int)
  BY HeapBasics, NodeTypes_
<1>2. ASSUME NEW n \in Ptr(h), NEW i \in DOMAIN h[n].data PROVE h[n].data[i] \in Int
  <2>1. h[n].data \in Seq(Int)
    BY <1>1
  <2> QED BY <2>1
<1> QED BY <1>1, <1>2 DEF Routes

(* A new route on the way from p is on the right side of it.               *)
LEMMA NewRouteOnSide ==
    ASSUME NEW h, NEW rt, NEW g, NEW rt2, NEW q, NEW z, NEW b, NEW c, NEW P,
           Carries(h, rt, g, rt2, q, z, b, c, P),
           NEW p \in Routes(h), Attached(h, rt, p), NEW side \in Sides,
           c \in Routes(g), c \notin Ptr(h), b \in Trail(h, NextWay(h, p, side), p)
    PROVE  OnSide(g, p, side, c)
<1> DEFINE f == NextWay(h, p, side)
<1>1. /\ Step(h, rt, g, rt2, q, z, b, c, P) /\ HeapPlaces(h, rt) /\ KeepsValues(h, g)
      /\ Renews(h, rt, q, b, c, P) /\ Divides(h, g, b, c)
      /\ State(h, rt) /\ State(g, rt2) /\ HeapOK(h) /\ HeapOK(g) /\ p \in Ptr(h) /\ p \in Ptr(g) /\ c \in Ptr(g)
  BY StepNodes DEF Carries, State
<1>2. b \in Ptr(h) \ Routes(h) /\ b /= p /\ b /= c /\ Replaceable(h, b)
  BY <1>1 DEF Renews
<1>3. f[p] = Opposite(side) /\ Opposite(side) \in Sides
  BY NextTurns
<1>4. b \in From(h, Side(h, p, Opposite(side)))
  BY <1>1, <1>2, <1>3, TrailChild
<1>5. Elsewhere(h, rt, null, b)
  BY <1>1, <1>2, StepSlot, NullIsNoNode DEF Elsewhere
<1>6. ASSUME NEW i \in DOMAIN h[b].data PROVE KeyWay(h, h[b].data[i])[p] = Opposite(side)
  <2> DEFINE v == h[b].data[i]
  <2>1. ASSUME NEW m \in Committed(h), h[m].neigh2 = b PROVE FALSE
    <3>1. h[m].neigh2 /= DONE
      BY <1>1, <1>2, <2>1, HeapBasics DEF DONE
    <3> QED BY <1>1, <1>2, <2>1, <3>1, MergedNotReplaceable
  <2>2. b \in Way(h, KeyWay(h, v), rt)
    BY <1>1, <1>2, <1>5, <2>1 DEF HeapPlaces, ValuesPlaced
  <2>3. b \in Trail(h, KeyWay(h, v), rt)
    BY <1>1, <2>2, Ways DEF State
  <2>4. \A r \in Routes(h) : KeyWay(h, v)[r] \in Sides
    BY KeyTurns
  <2> HIDE DEF v
  <2>5. KeyWay(h, v)[p] = Opposite(side)
    BY <1>1, <1>3, <1>4, <2>3, <2>4, TurnsTo
  <2> QED BY <2>5 DEF v
<1>7. g[p].key = h[p].key /\ h[p].key \in Int
  BY <1>1, KeysAreInts DEF KeepsValues
<1>8. \A i \in DOMAIN h[b].data : h[b].data[i] \in Int
  BY <1>1, <1>2, KeysAreInts
<1>9. CASE side = "left"
  <2>1. \A i \in DOMAIN h[b].data : h[p].key < h[b].data[i]
    BY <1>6, <1>7, <1>8, <1>9, KeyTurns DEF Opposite
  <2> QED BY <1>1, <1>7, <1>9, <2>1 DEF Divides, OnSide
<1>10. CASE side = "right"
  <2>1. \A i \in DOMAIN h[b].data : h[b].data[i] <= h[p].key
    BY <1>6, <1>7, <1>8, <1>10, KeyTurns DEF Opposite
  <2> QED BY <1>1, <1>7, <1>10, <2>1 DEF Divides, OnSide
<1> QED BY <1>9, <1>10 DEF Sides

(* A route on the way from the sibling x that replaces route b.            *)
LEMMA CutRouteOnSide ==
    ASSUME NEW h, NEW rt, State(h, rt), RoutesOrdered(h, rt),
           NEW p \in Routes(h), Attached(h, rt, p), NEW side \in Sides,
           NEW b \in Routes(h), Attached(h, rt, b), b /= p, b \in Trail(h, NextWay(h, p, side), p),
           NEW y \in Sides, NEW c, c = Side(h, b, y),
           NEW r \in Routes(h), r \in Trail(h, NextWay(h, p, side), c)
    PROVE  OnSide(h, p, side, r)
<1> DEFINE f == NextWay(h, p, side)
           e == NextWay(h, b, side)
<1>1. /\ HeapOK(h) /\ YoungerBelow(h) /\ c \in Ptr(h) /\ p \in Ptr(h) /\ b \in Ptr(h)
  BY SidesOK, NullIsNoNode DEF State, HeapJoins
<1>2. \A k \in Routes(h) : /\ f[k] = IF k = p THEN Opposite(side) ELSE side
                           /\ e[k] = IF k = b THEN Opposite(side) ELSE side
  BY NextTurns
<1>3. y = side \/ y = Opposite(side)
  BY NextTurns
<1>4. OnSide(h, p, side, b)
  BY OrderedOnSides
<1>5. CASE y = side
  <2>1. c \in Trail(h, f, p)
    BY <1>1, <1>2, <1>5, TrailTurns DEF Follows
  <2>2. r \in Trail(h, f, p)
    BY <1>1, <2>1, TrailOn
  <2> QED BY <2>2, OrderedOnSides
<1>6. CASE y = Opposite(side)
  <2>1. c > b /\ b >= p /\ b \in Nat /\ c \in Nat /\ p \in Nat
    <3>1. b \in From(h, p)
      BY <1>1, TrailBelow
    <3> QED BY <1>1, <3>1, FromYounger, HeapBasics DEF YoungerBelow, Side
  <2>2. ASSUME NEW k \in Trail(h, f, c), k \in Routes(h) PROVE e[k] = f[k]
    <3>1. k \in From(h, c) /\ k \in Ptr(h)
      BY <1>1, <2>2, TrailBelow, TrailTurns
    <3>2. k >= c /\ k \in Nat
      BY <1>1, <3>1, FromYounger, HeapBasics
    <3>3. k /= b /\ k /= p
      BY <2>1, <3>2
    <3> QED BY <1>2, <2>2, <3>3
  <2>3. Trail(h, e, c) = Trail(h, f, c)
    <3> HIDE DEF e, f
    <3> QED BY <1>1, <2>2, SameTurns
  <2>4. c \in Trail(h, e, b)
    BY <1>1, <1>2, <1>6, TrailTurns DEF Follows
  <2>5. r \in Trail(h, e, b)
    BY <1>1, <2>3, <2>4, TrailOn
  <2>6. OnSide(h, b, side, r)
    BY <2>5, OrderedOnSides
  <2>7. h[p].key \in Int /\ h[b].key \in Int /\ h[r].key \in Int
    BY <1>1, KeysAreInts
  <2> QED BY <1>4, <2>6, <2>7 DEF OnSide
<1> QED BY <1>3, <1>5, <1>6

LEMMA KeepsOrdered ==
    ASSUME NEW h, NEW rt, NEW g, NEW rt2, NEW q, NEW z, NEW b, NEW c, NEW P,
           Carries(h, rt, g, rt2, q, z, b, c, P)
    PROVE  RoutesOrdered(g, rt2)
<1>1. /\ Step(h, rt, g, rt2, q, z, b, c, P) /\ HeapPlaces(h, rt) /\ KeepsValues(h, g) /\ HeapBases(h, rt)
      /\ State(h, rt) /\ State(g, rt2) /\ HeapOK(h) /\ HeapOK(g) /\ Len(h) <= Len(g)
      /\ Ptr(h) \subseteq Ptr(g) /\ c \in Ptr(g) /\ YoungerBelow(g) /\ YoungerBelow(h)
      /\ CutsFrom(h, rt, g, rt2, P) /\ Settled(h, g, rt2) /\ RoutesOrdered(h, rt)
      /\ \A k \in Ptr(h) : k \in Routes(g) <=> k \in Routes(h)
      /\ \A k \in Routes(g) : k \in Ptr(g)
      /\ \A k \in Routes(g), y \in Sides : Side(g, k, y) \in Ptr(g)
  BY StepNodes DEF Carries, State, KeepsNodes, HeapJoins, HeapPlaces
<1> SUFFICES ASSUME NEW p \in Routes(g), Attached(g, rt2, p), NEW side \in Sides,
                    NEW r \in Trail(g, NextWay(g, p, side), p), r \in Routes(g)
             PROVE  OnSide(g, p, side, r)
  BY <1>1, OrderedOnSides
<1> DEFINE f == NextWay(h, p, side)
           f2 == NextWay(g, p, side)
<1>2. \A k \in Routes(g) \ Ptr(h) :
        k = c /\ Renews(h, rt, q, b, c, P) /\ \A y \in Sides : Side(g, k, y) \notin Routes(g)
  <2>1. \A k \in Routes(g) \ Ptr(h) : k = c /\ Renews(h, rt, q, b, c, P)
    BY <1>1 DEF Carries
  <2>2. ASSUME NEW k \in Routes(g) \ Ptr(h), NEW y \in Sides, Side(g, k, y) \in Routes(g) PROVE FALSE
    <3>1. Side(g, k, y) \notin Ptr(h) /\ Side(g, k, y) > k /\ k \in Nat
      BY <1>1, HeapBasics DEF Settled, NewLinks, YoungerBelow, Side
    <3>2. Side(g, k, y) = c /\ k = c
      BY <2>1, <2>2, <3>1
    <3> QED BY <3>1, <3>2
  <2> QED BY <2>1, <2>2
<1>3. g[p].key \in Int /\ g[r].key \in Int
  BY <1>1, KeysAreInts
<1>4. CASE r = p
  BY <1>3, <1>4 DEF OnSide
<1>5. \A k \in Routes(g) \ Ptr(h) : \A n \in Trail(g, f2, k) : n \in Routes(g) => n = k
  <2> SUFFICES ASSUME NEW k \in Routes(g) \ Ptr(h), NEW n \in Trail(g, f2, k), n /= k, n \in Routes(g)
               PROVE  FALSE
    OBVIOUS
  <2>1. n \in Trail(g, f2, Side(g, k, f2[k]))
    BY <1>1, TrailChild
  <2>2. f2[k] \in Sides
    BY NextTurns
  <2>3. Side(g, k, f2[k]) \notin Routes(g) /\ Side(g, k, f2[k]) \in Ptr(g)
    BY <1>1, <1>2, <2>2
  <2>4. Trail(g, f2, Side(g, k, f2[k])) = {Side(g, k, f2[k])}
    BY <1>1, <2>3, TrailTurns DEF Routes
  <2> QED BY <2>1, <2>3, <2>4
<1>6. CASE p \notin Ptr(h)
  BY <1>4, <1>5, <1>6
<1>7. CASE p \in Ptr(h)
  <2>1. p \in Routes(h) /\ Attached(h, rt, p) /\ p \notin P
    BY <1>1, <1>7 DEF CutsFrom
  <2>2. SameWay(h, f, f2)
    BY <1>1, SameWays
  <2>3. ASSUME NEW k \in Routes(h), OnSide(h, p, side, k) PROVE OnSide(g, p, side, k)
    BY <1>7, <2>3 DEF KeepsValues, Carries, OnSide, Routes
  <2>4. CASE r \in Trail(h, f, p)
    <3>1. r \in Routes(h)
      BY <1>1, <1>7, <2>4, TrailTurns
    <3> QED BY <1>1, <2>1, <2>3, <2>4, <3>1, OrderedOnSides
  <2>5. CASE b /= c /\ q \in Trail(h, f, p) /\ f[q] = z /\ r \in Trail(g, f2, c)
    <3>1. q \in Routes(h) /\ q \in Ptr(h) /\ Side(h, q, z) = b /\ Attached(h, rt, q)
      BY <1>1, <1>7, <2>5, StepSlot, TrailTurns, NullIsNoNode
    <3>2. b \in Trail(h, f, p)
      BY <1>1, <1>7, <2>5, <3>1, TrailTurns DEF Follows
    <3>3. CASE c \notin Ptr(h)
      <4>1. c \in Routes(g)
        <5>1. ASSUME c \notin Routes(g) PROVE FALSE
          <6>1. Trail(g, f2, c) = {c}
            BY <1>1, <5>1, TrailTurns DEF Routes
          <6> QED BY <2>5, <5>1, <6>1
        <5> QED BY <5>1
      <4>2. r = c
        BY <1>5, <2>5, <3>3, <4>1
      <4> QED BY <2>1, <3>2, <3>3, <4>1, <4>2, NewRouteOnSide
    <3>4. CASE c \in Ptr(h)
      <4>1. c \in Routes(h)
        <5>1. ASSUME c \notin Routes(g) PROVE FALSE
          <6>1. Trail(g, f2, c) = {c}
            BY <1>1, <5>1, TrailTurns DEF Routes
          <6> QED BY <2>5, <5>1, <6>1
        <5> QED BY <1>1, <3>4, <5>1
      <4>2. CutsRoute(h, rt, q, b, c, P)
        <5>1. ~MergesInto(h, rt, q, b, c, P)
          BY <1>1, <4>1, MergedNodes DEF MergesInto
        <5> QED BY <1>1, <2>5, <3>4, <5>1 DEF Step, Stands, Renews
      <4>3. PICK y \in Sides : Side(h, b, y) = c /\ b \in Routes(h) /\ Attached(h, rt, b) /\ P = {b}
        <5>1. P = {b}
          BY <4>2 DEF CutsRoute
        <5> QED BY <1>1, <4>2, <5>1, CutRoute
      <4>4. b /= p
        BY <2>1, <4>3
      <4>5. r \in Routes(h)
        BY <1>1, <1>2, <3>4
      <4>6. r \in Trail(h, f, c)
        <5>1. q \notin Trail(h, f, c)
          <6>1. c > b /\ b > q /\ q \in Nat /\ b \in Nat /\ c \in Nat
            BY <1>1, <3>1, <4>3, HeapBasics, StepNodes DEF YoungerBelow, Side
          <6>2. q \in Trail(h, f, c) => q \in From(h, c)
            BY <1>1, <3>4, TrailBelow
          <6>3. q \in Trail(h, f, c) => q >= c
            BY <1>1, <3>4, <6>2, FromYounger
          <6> QED BY <6>1, <6>3
        <5> QED BY <1>1, <2>2, <2>5, <3>4, <5>1, StepTrail
      <4>7. OnSide(h, p, side, r)
        BY <1>1, <2>1, <3>2, <4>3, <4>4, <4>5, <4>6, CutRouteOnSide
      <4> QED BY <2>3, <4>5, <4>7
    <3> QED BY <3>3, <3>4
  <2> QED BY <1>1, <1>7, <2>2, <2>4, <2>5, StepTrail
<1> QED BY <1>6, <1>7

-----------------------------------------------------------------------------
(* What joins merge                                                        *)

LEMMA NextTrail ==
    ASSUME NEW h, NEW rt, State(h, rt), NEW m \in Committed(h)
    PROVE  LET p == h[m].parent
           IN  /\ p \in Routes(h) /\ p \in Ptr(h)
               /\ NextTo(h, m) <=>
                    \E side \in Sides, n \in {h[m].neigh1, h[m].neigh2} :
                        Side(h, p, side) = m /\ n \in Trail(h, NextWay(h, p, side), p)
<1>1. h[m].parent \in Routes(h) /\ h[m].parent \in Ptr(h)
  BY CommittedRoutes, NullIsNoNode DEF State
<1>2. \A f : Way(h, f, h[m].parent) = Trail(h, f, h[m].parent)
  BY <1>1, Ways
<1> QED BY <1>1, <1>2 DEF NextTo

LEMMA OldMergeNextTo ==
    ASSUME NEW h, NEW rt, NEW g, NEW rt2, NEW q, NEW z, NEW b, NEW c, NEW P,
           Step(h, rt, g, rt2, q, z, b, c, P), KeepsValues(h, g),
           NEW m \in Committed(h), ~IsCut(g, rt2, m), NextTo(h, m)
    PROVE  NextTo(g, m)
<1> DEFINE p == h[m].parent
           n1 == h[m].neigh1
           n2 == h[m].neigh2
<1>1. /\ State(h, rt) /\ State(g, rt2) /\ HeapBases(h, rt) /\ HeapOK(h) /\ HeapOK(g) /\ Len(h) <= Len(g)
      /\ Ptr(h) \subseteq Ptr(g) /\ m \in Committed(g) /\ g[m].parent = p /\ g[m].neigh1 = n1
      /\ g[m].neigh2 = n2 /\ n2 /= DONE /\ ~IsCut(h, rt, m)
  BY StepNodes, StepCuts DEF State, KeepsNodes
<1>2. p \in Routes(h) /\ p \in Ptr(h) /\ Attached(h, rt, p) /\ Attached(g, rt2, p)
  BY <1>1, CommittedRoutes, NullIsNoNode, CutWithRoute
<1>3. PICK side \in Sides, n \in {n1, n2} : Side(h, p, side) = m /\ n \in Trail(h, NextWay(h, p, side), p)
  BY <1>1, NextTrail
<1>4. /\ n \in Ptr(h) \ Routes(h) /\ h[n].type = "join_neighbor" /\ h[n].main_node = m /\ n1 /= n2
      /\ ~Replaceable(h, n) /\ ~Replaceable(h, m) /\ h[m].type = "join_main" /\ m \notin Routes(h)
  BY <1>1, <1>3, MergedNodes, MergedNotReplaceable
<1>5. \A k \in Committed(h) : k /= m => h[h[k].neigh1].main_node /= m
  BY <1>1, MergedNodes
<1>6. b /= c => b /= m
  <2>1. \A k \in Committed(h) : h[k].neigh1 /= m
    BY <1>1, <1>4, MergedNodes
  <2> QED BY <1>1, <1>4, <2>1, CutRoute DEF Step, Stands, Renews, MergesInto
<1>7. Side(g, p, side) = m
  BY <1>2, <1>3, <1>6, StepSides
<1>8. SameWay(h, NextWay(h, p, side), NextWay(g, p, side))
  BY <1>1, SameWays
<1>9. CASE n /= b \/ b = c
  <2>1. ~Gone(h, rt, q, b, c, P, n)
    <3>1. n \notin Committed(h)
      BY <1>4 DEF Committed
    <3> QED BY <1>9, <3>1 DEF Gone
  <2>2. n \in Trail(g, NextWay(g, p, side), p)
    BY <1>2, <1>3, <1>8, <2>1, StepKeepsTrail
  <2> QED BY <1>1, <1>3, <1>7, <2>2, NextTrail
<1>10. CASE n = b /\ b /= c
  <2>1. MergesInto(h, rt, q, b, c, P)
    BY <1>1, <1>4, <1>10, CutRoute DEF Step, Stands, Renews
  <2>2. PICK k \in Committed(h) : b = h[k].neigh1 /\ c = h[k].neigh2
    BY <2>1 DEF MergesInto
  <2>3. k = m
    BY <1>4, <1>5, <1>10, <2>2
  <2>4. GivesWay(h, rt, p, b, c, p)
    BY <1>2, <1>4, <1>10 DEF GivesWay
  <2>5. n2 \in Trail(g, NextWay(g, p, side), p)
    BY <1>3, <1>8, <1>10, <2>2, <2>3, <2>4, TakesPlace
  <2> QED BY <1>1, <1>7, <2>5, NextTrail
<1> QED BY <1>9, <1>10

LEMMA OldMergeCombines ==
    ASSUME NEW h, NEW g, HeapOK(h), HeapOK(g), KeepsNodes(h, g), KeepsValues(h, g),
           NEW m \in Committed(h), Combines(h, m)
    PROVE  Combines(g, m)
<1>1. m \in Ptr(h) /\ h[m].neigh1 \in Ptr(h) /\ (h[m].neigh2 /= DONE => h[m].neigh2 \in Ptr(h))
  BY CommittedRoutes
<1>2. g[m].neigh1 = h[m].neigh1 /\ g[m].neigh2 \in {h[m].neigh2, DONE}
  BY OldOutcomes DEF KeepsNodes
<1> SUFFICES ASSUME g[m].neigh2 /= DONE
             PROVE  g[g[m].neigh2].data \in {g[m].data \o g[g[m].neigh1].data, g[g[m].neigh1].data \o g[m].data}
  BY Zenon DEF Combines
<1>3. g[m].neigh2 = h[m].neigh2 /\ h[m].neigh2 /= DONE
  BY <1>2
<1>4. g[m].data = h[m].data /\ g[g[m].neigh1].data = h[h[m].neigh1].data
      /\ g[g[m].neigh2].data = h[h[m].neigh2].data
  BY <1>1, <1>2, <1>3 DEF KeepsValues
<1> QED BY <1>3, <1>4, Zenon DEF Combines

LEMMA KeepsMerging ==
    ASSUME NEW h, NEW rt, NEW g, NEW rt2, NEW q, NEW z, NEW b, NEW c, NEW P,
           Carries(h, rt, g, rt2, q, z, b, c, P)
    PROVE  MergesNeighbors(g, rt2)
<1>1. /\ Step(h, rt, g, rt2, q, z, b, c, P) /\ KeepsValues(h, g) /\ MergesNeighbors(h, rt)
      /\ HeapOK(h) /\ HeapOK(g) /\ KeepsNodes(h, g)
  BY StepNodes DEF Carries, State, HeapPlaces
<1> SUFFICES ASSUME NEW m \in Committed(g)
             PROVE  (~IsCut(g, rt2, m) => NextTo(g, m)) /\ Combines(g, m)
  BY DEF MergesNeighbors
<1>2. CASE m \in Committed(h)
  <2>1. ~IsCut(g, rt2, m) => ~IsCut(h, rt, m)
    BY <1>1, <1>2, StepCuts
  <2> QED BY <1>1, <1>2, <2>1, OldMergeNextTo, OldMergeCombines DEF MergesNeighbors
<1>3. CASE m \notin Committed(h)
  BY <1>3 DEF Carries
<1> QED BY <1>2, <1>3

LEMMA CarriesHeap ==
    ASSUME NEW h, NEW rt, NEW g, NEW rt2, NEW q, NEW z, NEW b, NEW c, NEW P,
           Carries(h, rt, g, rt2, q, z, b, c, P)
    PROVE  HeapPlaces(g, rt2)
<1>1. DataSorted(g)
  <2>1. KeepsValues(h, g) /\ DataSorted(h) /\ \A n \in Ptr(g) \ Ptr(h) : Sorted(g[n].data)
    BY DEF Carries, HeapPlaces
  <2> SUFFICES ASSUME NEW n \in Ptr(g) PROVE Sorted(g[n].data)
    BY DEF DataSorted
  <2>2. CASE n \in Ptr(h)
    BY <2>1, <2>2, Zenon DEF DataSorted, KeepsValues
  <2>3. CASE n \notin Ptr(h)
    BY <2>1, <2>3
  <2> QED BY <2>2, <2>3
<1> QED BY <1>1, KeepsPlaced, KeepsOrdered, KeepsMerging DEF HeapPlaces

-----------------------------------------------------------------------------
(* What the threads rely on                                                *)

LEMMA NeighborStaysOn ==
    ASSUME NEW h, NEW rt, NEW g, NEW rt2, NEW q, NEW z, NEW b, NEW c, NEW P,
           Step(h, rt, g, rt2, q, z, b, c, P), NEW f, NEW f2, SameWay(h, f, f2),
           NEW x \in Ptr(h), NEW n \in Trail(h, f, x), h[n].type = "join_neighbor",
           NEW m, m = h[n].main_node, h[m].neigh2 = PREPARING
    PROVE  n \in Trail(g, f2, x)
<1>1. State(h, rt) /\ HeapBases(h, rt) /\ HeapOK(h)
  BY StepNodes DEF State
<1>2. n \in Ptr(h) /\ n \notin Routes(h) /\ n \notin Committed(h)
  BY <1>1, TrailTurns DEF Routes, Committed
<1>3. ~Replaceable(h, n)
  BY DEF Replaceable, PREPARING, ABORTED, DONE
<1>4. \A k \in Committed(h) : h[k].neigh1 /= n
  <2> SUFFICES ASSUME NEW k \in Committed(h), h[k].neigh1 = n PROVE FALSE
    OBVIOUS
  <2>1. h[n].main_node = k
    BY <1>1, MergedNodes
  <2> QED BY <2>1 DEF Committed, Unpublished
<1>5. ~Gone(h, rt, q, b, c, P, n)
  BY <1>1, <1>2, <1>3, <1>4, CutRoute DEF Gone, Step, Stands, Renews, MergesInto
<1> QED BY <1>5, StepKeepsTrail

LEMMA StepThreadPlaces ==
    ASSUME NEW h, NEW rt, NEW g, NEW rt2, NEW q, NEW z, NEW b, NEW c, NEW P,
           Step(h, rt, g, rt2, q, z, b, c, P), KeepsValues(h, g),
           NEW l \in Locals, NEW label, NEW cl, LocalOK(h, l, label, cl), ThreadSlots(h, rt, l, label),
           ThreadPlaces(h, rt, l, label, cl)
    PROVE  ThreadPlaces(g, rt2, l, label, cl)
<1>1. /\ State(h, rt) /\ State(g, rt2) /\ HeapOK(h) /\ HeapOK(g) /\ KeepsNodes(h, g) /\ Len(h) <= Len(g)
      /\ Ptr(h) \subseteq Ptr(g) /\ Routes(h) \subseteq Ptr(h) /\ rt \in Ptr(h) /\ rt2 \in Ptr(g)
      /\ (rt2 = rt \/ (rt = b /\ rt2 = c)) /\ CutsFrom(h, rt, g, rt2, P) /\ null \notin Ptr(h)
  BY StepNodes, RootGivesWay, NullIsNoNode DEF State, KeepsNodes
<1>2. /\ \A k : SameWay(h, KeyWay(h, k), KeyWay(g, k))
      /\ \A p : \A side \in Sides : SameWay(h, NextWay(h, p, side), NextWay(g, p, side))
  BY <1>1, SameWays
<1>3. l.side \in Sides
  BY DEF Locals, Sides
<1>4. \A n \in Ptr(h) : g[n].parent = h[n].parent
  BY <1>1 DEF KeepsNodes
<1>5. \A p : p \in Routes(h) \cup {null} /\ Attached(g, rt2, p) => p \in Routes(h) /\ p \in Ptr(h) /\ Attached(h, rt, p)
  <2> SUFFICES ASSUME NEW p, p \in Routes(h) \cup {null}, Attached(g, rt2, p)
               PROVE p \in Routes(h) /\ p \in Ptr(h) /\ Attached(h, rt, p)
    OBVIOUS
  <2>1. p /= null
    BY NullIsNoNode DEF Attached
  <2> QED BY <1>1, <2>1 DEF CutsFrom
<1>6. \A n \in Ptr(h) : h[n].parent \in Routes(h) \cup {null}
  BY <1>1 DEF HeapOK, NodeOK
<1>7. ASSUME label = "find", cl.op /= "rangeQuery" PROVE LeadsOn(g, rt2, KeyWay(g, cl.key), l.cur, rt2)
  <2>1. l.cur \in Ptr(h)
    BY <1>7 DEF LocalOK, CurOK
  <2>2. LeadsOn(h, rt, KeyWay(h, cl.key), l.cur, rt)
    BY <1>7 DEF ThreadPlaces
  <2> QED BY <1>1, <1>2, <2>1, <2>2, StepLeadsOn
<1>8. ASSUME label = "replace", Alive(g, rt2, l.base) PROVE l.base \in Way(g, KeyWay(g, cl.key), rt2)
  <2>1. l.base \in Ptr(h)
    BY <1>8 DEF LocalOK, BaseOK
  <2>2. l.base \in Way(h, KeyWay(h, cl.key), rt)
    BY <1>8, <2>1, StaysDead DEF ThreadPlaces
  <2>3. l.base \in Trail(h, KeyWay(h, cl.key), rt)
    BY <1>1, <2>2, Ways
  <2>4. l.base \in Trail(g, KeyWay(g, cl.key), rt2)
    BY <1>1, <1>2, <1>8, <2>3, AliveStaysOn
  <2> QED BY <1>1, <2>4, Ways
<1>9. ASSUME NEW n \in Ptr(h), Attached(g, rt2, h[n].parent), l.cur \in Ptr(h),
             Attached(h, rt, h[n].parent) =>
                LeadsOn(h, rt, NextWay(h, h[n].parent, l.side), l.cur, h[n].parent)
      PROVE  LeadsOn(g, rt2, NextWay(g, g[n].parent, l.side), l.cur, g[n].parent)
  <2>1. h[n].parent \in Ptr(h) /\ Attached(h, rt, h[n].parent) /\ g[n].parent = h[n].parent
    BY <1>4, <1>5, <1>6, <1>9
  <2> QED BY <1>2, <1>3, <1>9, <2>1, StepLeadsOn
<1>10. ASSUME label \in {"outermost", "lockMain"}, Attached(g, rt2, g[l.base].parent)
       PROVE  LeadsOn(g, rt2, NextWay(g, g[l.base].parent, l.side), l.cur, g[l.base].parent)
  <2>1. l.base \in Ptr(h) /\ l.cur \in Ptr(h)
    BY <1>10 DEF LocalOK, BaseOK, CurOK
  <2> QED BY <1>4, <1>9, <1>10, <2>1 DEF ThreadPlaces
<1>11. ASSUME label = "lockNeighbor", Attached(g, rt2, g[l.m].parent)
       PROVE  LeadsOn(g, rt2, NextWay(g, g[l.m].parent, l.side), l.cur, g[l.m].parent)
  <2>1. l.m \in Ptr(h) /\ l.cur \in Ptr(h)
    BY <1>11 DEF LocalOK, JoinLocalsOK, CurOK, OwnerLabels
  <2> QED BY <1>4, <1>9, <1>11, <2>1 DEF ThreadPlaces
<1>12. ASSUME label \in {"lockParent", "parentOf", "search", "lockGparent", "readOther", "publish"},
              g[l.m].neigh2 = PREPARING, Attached(g, rt2, g[l.m].parent)
       PROVE  l.n1 \in Way(g, NextWay(g, g[l.m].parent, l.side), g[l.m].parent)
  <2> DEFINE p == h[l.m].parent
  <2>1. /\ label \in OwnerLabels \ {"lockNeighbor", "undoMain"}
        /\ l.m \in Ptr(h) /\ l.n1 \in Ptr(h) /\ h[l.n1].type = "join_neighbor"
    BY <1>12 DEF LocalOK, JoinLocalsOK, OwnerLabels
  <2>2. h[l.n1].main_node = l.m
    BY <2>1 DEF ThreadSlots
  <2>3. h[l.m].neigh2 = PREPARING
    BY <1>1, <1>12, <2>1, OldOutcomes
  <2>4. g[l.m].parent = p /\ p \in Ptr(h) /\ Attached(h, rt, p)
    BY <1>4, <1>5, <1>6, <1>12, <2>1
  <2>5. l.n1 \in Way(h, NextWay(h, p, l.side), p)
    BY <1>12, <2>3, <2>4 DEF ThreadPlaces
  <2>6. l.n1 \in Trail(h, NextWay(h, p, l.side), p)
    BY <1>1, <2>4, <2>5, Ways
  <2>7. l.n1 \in Trail(g, NextWay(g, p, l.side), p)
    BY <1>2, <1>3, <2>1, <2>2, <2>3, <2>4, <2>6, NeighborStaysOn
  <2> QED BY <1>1, <2>4, <2>7, Ways
<1> QED BY <1>7, <1>8, <1>10, <1>11, <1>12 DEF ThreadPlaces

-----------------------------------------------------------------------------
(* The steps of the threads                                                *)

Carried == \E q, z, b, c, P : Carries(heap, root, heap', root', q, z, b, c, P)

LEMMA PlacesState ==
    ASSUME PInv, NEW t \in Threads
    PROVE  /\ BInv /\ SInv /\ JInv /\ State(heap, root) /\ HeapBases(heap, root) /\ HeapPlaces(heap, root)
           /\ HeapOK(heap) /\ HeapJoins(heap, root) /\ HeapSlots(heap, root) /\ root \in Ptr(heap)
           /\ ThreadPlaces(heap, root, loc[t], pc[t], call[t])
           /\ ThreadBases(heap, root, loc[t], pc[t]) /\ ThreadSlots(heap, root, loc[t], pc[t])
           /\ ThreadJoins(heap, root, loc[t], pc[t])
           /\ loc[t] \in Locals /\ LocalOK(heap, loc[t], pc[t], call[t])
BY BasesState DEF PInv, ValuesAreKept

(* A step without new nodes.                                               *)
LEMMA NothingNewCarries ==
    ASSUME BInv, HeapPlaces(heap, root), Moved, KeepsValues(heap, heap'), Len(heap') = Len(heap)
    PROVE  Carried
<1>1. PICK q, z, b, c, P : Step(heap, root, heap', root', q, z, b, c, P)
  BY DEF Moved
<1>2. Ptr(heap') = Ptr(heap)
  BY DEF Ptr
<1>3. State(heap, root) /\ State(heap', root') /\ KeepsNodes(heap, heap') /\ Settled(heap, heap', root')
  BY <1>1, StepNodes
<1>4. ASSUME NEW m \in Committed(heap') \ Committed(heap) PROVE FALSE
  <2>1. m \in Ptr(heap) /\ heap'[m].neigh2 \notin Ptr(heap)
    BY <1>3, <1>4 DEF Settled, NewJoin
  <2>2. heap[m].type = "join_main" /\ heap[m].neigh2 \in Unpublished /\ heap'[m].neigh2 \notin Unpublished
    BY <1>3, <1>4, <2>1 DEF Committed, KeepsNodes
  <2>3. heap'[m].neigh2 /= DONE
    BY <1>3, <2>1, <2>2 DEF KeepsNodes, OutcomeMoves
  <2>4. heap'[m].neigh2 \in Ptr(heap')
    BY <1>3, <1>4, <2>3, CommittedRoutes DEF State
  <2> QED BY <1>2, <2>1, <2>4
<1>5. Carries(heap, root, heap', root', q, z, b, c, P)
  BY <1>1, <1>2, <1>4 DEF Carries
<1> QED BY <1>5 DEF Carried

LEMMA PlacesStep ==
    ASSUME PInv, NEW t \in Threads, NEW label, NEW l, Goto(t, label, l), Carried,
           ThreadPlaces(heap', root', l, label, call'[t]),
           \A u \in Threads : u /= t => call'[u] = call[u]
    PROVE  ValuesAreKept'
<1>1. pc \in [Threads -> Labels] /\ loc \in [Threads -> Locals]
  BY DEF PInv, BInv, SInv, JInv, IInv, TypeOK
<1>2. /\ pc'[t] = label /\ loc'[t] = l
      /\ \A u \in Threads : u /= t => pc'[u] = pc[u] /\ loc'[u] = loc[u]
  BY <1>1 DEF Goto
<1>3. PICK q, z, b, c, P : Carries(heap, root, heap', root', q, z, b, c, P)
  BY DEF Carried
<1>4. HeapPlaces(heap', root') /\ Step(heap, root, heap', root', q, z, b, c, P) /\ KeepsValues(heap, heap')
  BY <1>3, CarriesHeap DEF Carries
<1>5. ASSUME NEW u \in Threads, u /= t PROVE ThreadPlaces(heap', root', loc[u], pc[u], call[u])
  BY <1>4, PlacesState, StepThreadPlaces
<1>6. ASSUME NEW u \in Threads PROVE ThreadPlaces(heap', root', loc'[u], pc'[u], call'[u])
  <2>1. CASE u = t
    BY <1>2, <2>1
  <2>2. CASE u /= t
    BY <1>2, <1>5, <2>2
  <2> QED BY <2>1, <2>2
<1> QED BY <1>4, <1>6 DEF ValuesAreKept

LEMMA SamePlacesStep ==
    ASSUME PInv, NEW t \in Threads, NEW label, NEW l, Goto(t, label, l), heap' = heap, root' = root,
           ThreadPlaces(heap, root, l, label, call'[t]),
           \A u \in Threads : u /= t => call'[u] = call[u]
    PROVE  ValuesAreKept'
<1>1. pc \in [Threads -> Labels] /\ loc \in [Threads -> Locals]
  BY DEF PInv, BInv, SInv, JInv, IInv, TypeOK
<1>2. /\ pc'[t] = label /\ loc'[t] = l
      /\ \A u \in Threads : u /= t => pc'[u] = pc[u] /\ loc'[u] = loc[u]
  BY <1>1 DEF Goto
<1>3. ASSUME NEW u \in Threads PROVE ThreadPlaces(heap, root, loc'[u], pc'[u], call'[u])
  <2>1. CASE u = t
    BY <1>2, <2>1
  <2>2. CASE u /= t
    BY <1>2, <2>2, PlacesState
  <2> QED BY <2>1, <2>2
<1> QED BY <1>3 DEF PInv, ValuesAreKept

PlaceLabels == {"find", "replace", "outermost", "lockMain", "lockNeighbor", "lockParent", "parentOf",
                "search", "lockGparent", "readOther", "publish"}

LEMMA NoPlacesYet ==
    ASSUME NEW h, NEW rt, NEW l, NEW label, NEW c, label \notin PlaceLabels
    PROVE  ThreadPlaces(h, rt, l, label, c)
BY DEF ThreadPlaces, PlaceLabels

LEMMA ThenHasNoPlaces ==
    ASSUME NEW l \in Locals, NEW h, NEW rt, NEW l2, NEW c
    PROVE  ThreadPlaces(h, rt, l2, l.then, c)
<1>1. l.then \in {"root", "next", "return"}
  BY DEF Locals
<1> QED BY <1>1, NoPlacesYet DEF PlaceLabels

-----------------------------------------------------------------------------
(* Steps that leave the heap alone                                         *)

LEMMA FreePlaces ==
    ASSUME PInv, NEW t \in Threads,
           \/ Begin(t) \/ Return(t) \/ Lookup(t) \/ FindFull(t)
           \/ ReplaceFails(t) \/ ChooseSide(t) \/ ParentNotFound(t) \/ FindSlot(t)
           \/ FindNextBase(t) \/ Climb(t) \/ GoRight(t) \/ GoLeft(t)
    PROVE  ValuesAreKept'
<1>1. PICK label, l : /\ Goto(t, label, l) /\ heap' = heap /\ root' = root
                      /\ label \in {"idle", "root", "return", "help", "sibling", "goRight",
                                    "goLeft", "climb", "split", "undoParent", "splice", "done"}
  BY DEF Begin, Return, Lookup, FindFull, ReplaceFails, ChooseSide, ParentNotFound,
         FindSlot, FindNextBase, Climb, GoRight, GoLeft, Local
<1>2. ThreadPlaces(heap, root, l, label, call'[t])
  BY <1>1, NoPlacesYet DEF PlaceLabels
<1>3. call \in [Threads -> Calls \cup {NoCall}]
  BY DEF PInv, BInv, SInv, JInv, IInv, TypeOK
<1>4. \A u \in Threads : u /= t => call'[u] = call[u]
  BY <1>3 DEF Begin, Return, Lookup, FindFull, ReplaceFails, ChooseSide, ParentNotFound,
         FindSlot, FindNextBase, Climb, GoRight, GoLeft, Local, client
<1> QED BY <1>1, <1>2, <1>4, SamePlacesStep

LEMMA ThenPlaces ==
    ASSUME PInv, NEW t \in Threads, Help(t) \/ CopyFails(t) \/ LoadJoined(t)
    PROVE  ValuesAreKept'
<1>1. loc[t] \in Locals
  BY PlacesState
<1>2. PICK label, l : /\ Goto(t, label, l) /\ heap' = heap /\ root' = root /\ call' = call
                      /\ label \in {"abort", "load", "replaceNeighbor", loc[t].then}
  BY DEF Help, CopyFails, LoadJoined, Local, client
<1>3. ThreadPlaces(heap, root, l, label, call'[t])
  BY <1>1, <1>2, NoPlacesYet, ThenHasNoPlaces DEF PlaceLabels
<1> QED BY <1>2, <1>3, SamePlacesStep

-----------------------------------------------------------------------------
(* Steps of a search                                                       *)

LEMMA SearchPlaces ==
    ASSUME PInv, NEW t \in Threads, LoadRoot(t) \/ FindBase(t)
    PROVE  ValuesAreKept'
<1> DEFINE f == KeyWay(heap, call[t].key)
           n == loc[t].cur
<1>1. /\ loc[t] \in Locals /\ HeapOK(heap) /\ State(heap, root) /\ root \in Ptr(heap)
      /\ LocalOK(heap, loc[t], pc[t], call[t]) /\ ThreadPlaces(heap, root, loc[t], pc[t], call[t])
  BY PlacesState
<1>2. ASSUME FindBase(t) PROVE n \in Routes(heap) /\ n \in Ptr(heap)
  BY <1>1, <1>2 DEF FindBase, LocalOK, CurOK, IsRoute, Routes
<1>3. PICK c, l : /\ Goto(t, "find", l) /\ heap' = heap /\ root' = root /\ call' = call /\ l.cur = c
                  /\ \/ c = root
                     \/ /\ pc[t] = "find" /\ call[t].op /= "rangeQuery" /\ n \in Routes(heap)
                        /\ c = Side(heap, n, f[n])
  <2>1. CASE LoadRoot(t)
    <3>1. [loc[t] EXCEPT !.cur = root, !.stack = <<>>].cur = root
      BY <1>1 DEF Locals
    <3> QED BY <2>1, <3>1 DEF LoadRoot, Local, client
  <2>2. CASE FindBase(t)
    <3> DEFINE c == IF call[t].key <= heap[n].key THEN heap[n].left ELSE heap[n].right
               l == [loc[t] EXCEPT !.cur = c]
    <3>1. l.cur = c
      BY <1>1 DEF Locals
    <3>2. c = Side(heap, n, f[n])
      BY <1>2, <2>2 DEF Side, KeyWay
    <3>3. Goto(t, "find", l) /\ heap' = heap /\ root' = root /\ call' = call
          /\ pc[t] = "find" /\ call[t].op /= "rangeQuery"
      BY <2>2 DEF FindBase, Local, client
    <3> HIDE DEF l, c, f
    <3> QED BY <1>2, <2>2, <3>1, <3>2, <3>3
  <2> QED BY <2>1, <2>2
<1> HIDE DEF f
<1>4. LeadsOn(heap, root, f, c, root)
  <2>1. CASE c = root
    BY <2>1 DEF LeadsOn
  <2>2. CASE pc[t] = "find" /\ call[t].op /= "rangeQuery" /\ n \in Routes(heap) /\ c = Side(heap, n, f[n])
    <3>1. LeadsOn(heap, root, f, n, root)
      BY <1>1, <2>2 DEF ThreadPlaces, f
    <3>2. n \in Ptr(heap) /\ c \in Ptr(heap)
      <4>1. f[n] \in Sides
        BY <2>2, KeyTurns DEF f
      <4> QED BY <1>1, <2>2, <4>1, SidesOK DEF Routes
    <3>3. Trail(heap, f, c) \subseteq Trail(heap, f, n)
      BY <1>1, <2>2, <3>2, TrailTurns DEF Routes
    <3>4. Way(heap, f, c) \subseteq Way(heap, f, n)
      BY <1>1, <3>2, <3>3, Ways
    <3> QED BY <3>1, <3>4 DEF LeadsOn
  <2> QED BY <1>3, <2>1, <2>2
<1>5. ThreadPlaces(heap, root, l, "find", call'[t])
  BY <1>3, <1>4 DEF ThreadPlaces, f
<1> QED BY <1>3, <1>5, SamePlacesStep

LEMMA SearchRangePlaces ==
    ASSUME PInv, NEW t \in Threads, FindBaseStack(t)
    PROVE  ValuesAreKept'
<1>1. PICK l : /\ Goto(t, "find", l) /\ heap' = heap /\ root' = root /\ call' = call
               /\ call[t].op = "rangeQuery"
  BY DEF FindBaseStack, Local, client
<1>2. ThreadPlaces(heap, root, l, "find", call'[t])
  BY <1>1 DEF ThreadPlaces
<1> QED BY <1>1, <1>2, SamePlacesStep

LEMMA CheckPlaces ==
    ASSUME PInv, NEW t \in Threads, CheckBase(t) \/ CheckRangeBase(t)
    PROVE  ValuesAreKept'
<1> DEFINE b == loc[t].cur
           f == KeyWay(heap, call[t].key)
<1>1. /\ loc[t] \in Locals /\ HeapOK(heap) /\ State(heap, root) /\ root \in Ptr(heap)
      /\ LocalOK(heap, loc[t], pc[t], call[t]) /\ ThreadPlaces(heap, root, loc[t], pc[t], call[t])
  BY PlacesState
<1>2. PICK label, l : /\ Goto(t, label, l) /\ heap' = heap /\ root' = root /\ call' = call
                      /\ label \in {"help", "replace", "copy"}
                      /\ label = "replace" => l.base = b /\ pc[t] = "find" /\ call[t].op /= "rangeQuery"
  <2>1. CASE CheckBase(t)
    <3>1. [loc[t] EXCEPT !.base = b].base = b
      BY <1>1 DEF Locals
    <3>2. pc[t] = "find" /\ call[t].op /= "rangeQuery"
      BY <2>1 DEF CheckBase, IsUpdate
    <3>3. CASE is_replaceable(b)
      <4> DEFINE l == [loc[t] EXCEPT !.base = b]
      <4>1. Goto(t, "replace", l) /\ heap' = heap /\ root' = root /\ call' = call /\ l.base = b
        BY <2>1, <3>1, <3>3 DEF CheckBase, Local, client
      <4> HIDE DEF l, b
      <4> QED BY <3>2, <4>1
    <3>4. CASE ~is_replaceable(b)
      BY <2>1, <3>4 DEF CheckBase, Local, client
    <3> QED BY <3>3, <3>4
  <2>2. CASE CheckRangeBase(t)
    BY <2>2 DEF CheckRangeBase, Local, client
  <2> QED BY <2>1, <2>2
<1>3. ASSUME label = "replace", Alive(heap, root, b) PROVE b \in Way(heap, f, root)
  <2>1. b \in Ptr(heap) /\ LeadsOn(heap, root, f, b, root)
    BY <1>1, <1>2, <1>3 DEF ThreadPlaces, LocalOK, CurOK
  <2>2. b \in Way(heap, f, b)
    BY <1>1, <2>1, Ways, TrailTurns
  <2> QED BY <1>3, <2>1, <2>2 DEF LeadsOn
<1>4. ThreadPlaces(heap, root, l, label, call'[t])
  BY <1>2, <1>3 DEF ThreadPlaces
<1> QED BY <1>2, <1>4, SamePlacesStep

LEMMA CheckNeighborPlaces ==
    ASSUME PInv, NEW t \in Threads, CheckNeighbor(t)
    PROVE  ValuesAreKept'
<1>1. ThreadPlaces(heap, root, loc[t], pc[t], call[t])
  BY PlacesState
<1>2. PICK label : /\ Goto(t, label, loc[t]) /\ heap' = heap /\ root' = root /\ call' = call
                   /\ pc[t] = "outermost" /\ label \in {"lockMain", "return"}
  BY DEF CheckNeighbor, Local, client
<1>3. ThreadPlaces(heap, root, loc[t], label, call'[t])
  BY <1>1, <1>2 DEF ThreadPlaces
<1> QED BY <1>2, <1>3, SamePlacesStep

LEMMA ParentPlaces ==
    ASSUME PInv, NEW t \in Threads, ParentOf(t) \/ SearchParent(t) \/ ParentFound(t)
    PROVE  ValuesAreKept'
<1>1. loc[t] \in Locals /\ ThreadPlaces(heap, root, loc[t], pc[t], call[t])
  BY PlacesState
<1>2. PICK label, l : /\ Goto(t, label, l) /\ heap' = heap /\ root' = root /\ call' = call
                      /\ label \in {"search", "readOther", "lockGparent"}
                      /\ l.m = loc[t].m /\ l.n1 = loc[t].n1 /\ l.side = loc[t].side
                      /\ pc[t] \in {"parentOf", "search"}
  <2>1. ASSUME ParentOf(t) \/ SearchParent(t)
        PROVE  \E cur, gp : Local(t, "search", [loc[t] EXCEPT !.gparent = gp, !.cur = cur])
                            /\ pc[t] \in {"parentOf", "search"}
    <3>1. CASE ParentOf(t)
      <4>1. [loc[t] EXCEPT !.cur = root, !.gparent = null] = [loc[t] EXCEPT !.gparent = null, !.cur = root]
        BY <1>1 DEF Locals
      <4> QED BY Zenon, <3>1, <4>1 DEF ParentOf
    <3>2. CASE SearchParent(t)
      BY <3>2 DEF SearchParent
    <3> QED BY <2>1, <3>1, <3>2
  <2>2. ASSUME NEW cur, NEW gp
        PROVE  LET l == [loc[t] EXCEPT !.gparent = gp, !.cur = cur]
               IN  l.m = loc[t].m /\ l.n1 = loc[t].n1 /\ l.side = loc[t].side
    BY <1>1 DEF Locals
  <2> QED BY <2>1, <2>2 DEF ParentFound, Local, client
<1>3. ThreadPlaces(heap, root, l, label, call'[t])
  BY <1>1, <1>2 DEF ThreadPlaces
<1> QED BY <1>2, <1>3, SamePlacesStep

(* The search for the neighbour turns to the far side at the parent, and   *)
(* to the near side below it.                                              *)
LEMMA SiblingPlaces ==
    ASSUME PInv, NEW t \in Threads, LoadSibling(t) \/ FindNeighbor(t)
    PROVE  ValuesAreKept'
<1> DEFINE p == heap[loc[t].base].parent
           side == loc[t].side
           n == loc[t].cur
           f == NextWay(heap, p, side)
<1>1. /\ loc[t] \in Locals /\ HeapOK(heap) /\ State(heap, root) /\ YoungerBelow(heap)
      /\ LocalOK(heap, loc[t], pc[t], call[t]) /\ ThreadPlaces(heap, root, loc[t], pc[t], call[t])
      /\ ThreadBases(heap, root, loc[t], pc[t])
  BY PlacesState DEF HeapJoins
<1>2. side \in Sides
  BY SMTT(30), <1>1 DEF Locals, Sides
<1>3. PICK c, l : /\ Goto(t, "outermost", l) /\ heap' = heap /\ root' = root /\ call' = call
                  /\ l = [loc[t] EXCEPT !.cur = c]
                  /\ \/ c = Sibling(heap, p, side) /\ pc[t] = "sibling"
                     \/ pc[t] = "outermost" /\ IsRoute(n) /\ c = Side(heap, n, side)
  BY DEF LoadSibling, FindNeighbor, Local, Sibling, Child, Side, client
<1>4. l.base = loc[t].base /\ l.side = side /\ l.cur = c
  BY <1>1, <1>3 DEF Locals
<1>5. ASSUME Attached(heap, root, p) PROVE LeadsOn(heap, root, f, c, p)
  <2>1. p \in Routes(heap) /\ p \in Ptr(heap)
    <3>1. loc[t].base \in Ptr(heap)
      BY <1>1, <1>3 DEF LocalOK, BaseOK
    <3>2. p \in Routes(heap) \cup {null}
      BY <1>1, <3>1 DEF HeapOK, NodeOK
    <3> QED BY <1>5, <3>2, NullIsNoNode DEF Attached, Routes
  <2>2. \A r \in Routes(heap) : f[r] = (IF r = p THEN Opposite(side) ELSE side) /\ f[r] \in Sides
    BY <1>2, NextTurns
  <2> HIDE DEF f
  <2>3. ASSUME NEW r \in Routes(heap), c = Side(heap, r, f[r]), LeadsOn(heap, root, f, r, p)
        PROVE  LeadsOn(heap, root, f, c, p)
    <3>1. r \in Ptr(heap) /\ c \in Ptr(heap)
      BY <1>1, <2>2, <2>3, SidesOK DEF Routes
    <3>2. Trail(heap, f, c) \subseteq Trail(heap, f, r)
      BY <1>1, <2>3, <3>1, TrailTurns DEF Routes
    <3>3. Way(heap, f, c) \subseteq Way(heap, f, r)
      BY <1>1, <3>1, <3>2, Ways
    <3> QED BY <2>3, <3>3 DEF LeadsOn
  <2>4. CASE c = Sibling(heap, p, side)
    <3>1. c = Side(heap, p, f[p])
      BY <2>1, <2>2, <2>4 DEF Sibling
    <3>2. LeadsOn(heap, root, f, p, p)
      BY DEF LeadsOn
    <3> QED BY <2>1, <2>3, <3>1, <3>2
  <2>5. CASE pc[t] = "outermost" /\ IsRoute(n) /\ c = Side(heap, n, side)
    <3>1. n \in Ptr(heap) /\ n \in Routes(heap)
      BY <1>1, <2>5 DEF LocalOK, CurOK, IsRoute, Routes
    <3>2. LeadsOn(heap, root, f, n, p) /\ Leads(heap, root, n, Sibling(heap, p, side))
      BY <1>1, <1>5, <2>5 DEF ThreadPlaces, ThreadBases, f
    <3>3. n /= p
      <4> SUFFICES ASSUME n = p PROVE FALSE
        OBVIOUS
      <4>1. Opposite(side) \in Sides
        BY <1>2 DEF Opposite, Sides
      <4>2. Sibling(heap, p, side) \in Ptr(heap) /\ Sibling(heap, p, side) > p
        BY <1>1, <2>1, <4>1, SidesOK DEF Sibling, YoungerBelow, Side
      <4>3. p \in Below(heap, n)
        BY <1>1, <3>1, BelowIsFrom, FromRoutes
      <4>4. Alive(heap, root, p)
        BY <1>5, <2>1 DEF Alive
      <4>5. p \in From(heap, Sibling(heap, p, side))
        BY <1>1, <3>2, <4>2, <4>3, <4>4, BelowIsFrom DEF Leads
      <4>6. p >= Sibling(heap, p, side)
        BY <1>1, <4>2, <4>5, FromYounger
      <4>7. p \in Nat /\ Sibling(heap, p, side) \in Nat
        BY <1>1, <2>1, <4>2, HeapBasics
      <4> QED BY <4>2, <4>6, <4>7
    <3>4. c = Side(heap, n, f[n])
      BY <2>2, <2>5, <3>1, <3>3
    <3> QED BY <2>3, <3>1, <3>2, <3>4
  <2> QED BY <1>3, <2>4, <2>5
<1>6. ThreadPlaces(heap, root, l, "outermost", call'[t])
  BY <1>4, <1>5 DEF ThreadPlaces
<1> QED BY <1>3, <1>6, SamePlacesStep

-----------------------------------------------------------------------------
(* Steps that store to a field of a node                                   *)

(* What a thread relies on stays so.                                       *)
LEMMA OwnPlaces ==
    ASSUME PInv, NEW t \in Threads, Moved, KeepsValues(heap, heap')
    PROVE  ThreadPlaces(heap', root', loc[t], pc[t], call[t])
<1>1. PICK q, z, b, c, P : Step(heap, root, heap', root', q, z, b, c, P)
  BY DEF Moved
<1> QED BY <1>1, PlacesState, StepThreadPlaces

LEMMA EditPlaces ==
    ASSUME PInv, NEW t \in Threads, NEW label, Goto(t, label, loc[t]), call' = call, Moved,
           NEW i, EditOf(heap, i, heap'), heap'[i].key = heap[i].key, heap'[i].data = heap[i].data,
           \A h, rt : ThreadPlaces(h, rt, loc[t], pc[t], call[t]) => ThreadPlaces(h, rt, loc[t], label, call[t])
    PROVE  ValuesAreKept'
<1>1. KeepsValues(heap, heap') /\ Len(heap') = Len(heap)
  BY DEF KeepsValues, EditOf
<1>2. Carried
  BY <1>1, PlacesState, NothingNewCarries
<1>3. ThreadPlaces(heap', root', loc[t], label, call'[t])
  BY <1>1, OwnPlaces
<1> QED BY <1>2, <1>3, PlacesStep

(* A store to one field of a record keeps the key and the values.          *)
LEMMA StoresKeepValues ==
    ASSUME NEW h, HeapOK(h), NEW i \in Ptr(h), NEW v,
           NEW g, g \in {SetLock(h, i, v), SetInvalid(h, i), SetOutcome(h, i, v)}
    PROVE  EditOf(h, i, g) /\ g[i].key = h[i].key /\ g[i].data = h[i].data
<1>1. h[i] \in Node
  BY HeapBasics
<1>2. ASSUME NEW x, g = [h EXCEPT ![i] = x], x.key = h[i].key, x.data = h[i].data
      PROVE  EditOf(h, i, g) /\ g[i].key = h[i].key /\ g[i].data = h[i].data
  <2>1. LET e == [h EXCEPT ![i] = x] IN EditOf(h, i, e) /\ e[i] = x
    BY EditNode
  <2> QED BY <1>2, <2>1
<1>3. CASE g = SetLock(h, i, v)
  <2> DEFINE x == [h[i] EXCEPT !.join_id = v]
  <2>1. x.key = h[i].key /\ x.data = h[i].data
    BY <1>1 DEF Node
  <2>2. g = [h EXCEPT ![i] = x]
    BY <1>3 DEF SetLock
  <2> HIDE DEF x
  <2> QED BY <1>2, <2>1, <2>2
<1>4. CASE g = SetInvalid(h, i)
  <2> DEFINE x == [h[i] EXCEPT !.valid = FALSE]
  <2>1. x.key = h[i].key /\ x.data = h[i].data
    BY <1>1 DEF Node
  <2>2. g = [h EXCEPT ![i] = x]
    BY <1>4 DEF SetInvalid
  <2> HIDE DEF x
  <2> QED BY <1>2, <2>1, <2>2
<1>5. CASE g = SetOutcome(h, i, v)
  <2> DEFINE x == [h[i] EXCEPT !.neigh2 = v]
  <2>1. x.key = h[i].key /\ x.data = h[i].data
    BY <1>1 DEF Node
  <2>2. g = [h EXCEPT ![i] = x]
    BY <1>5 DEF SetOutcome
  <2> HIDE DEF x
  <2> QED BY <1>2, <2>1, <2>2
<1> QED BY <1>3, <1>4, <1>5

LEMMA LockPlaces ==
    ASSUME PInv, SInv', OutcomesAreFinal, NEW t \in Threads,
           LockParent(t) \/ LockGparent(t) \/ UndoGparent(t) \/ UndoParent(t)
    PROVE  ValuesAreKept'
<1>1. BInv /\ JInv /\ HeapOK(heap) /\ LocalOK(heap, loc[t], pc[t], call[t])
      /\ ThreadPlaces(heap, root, loc[t], pc[t], call[t])
  BY PlacesState
<1>2. PICK label, i, j : /\ Goto(t, label, loc[t]) /\ root' = root /\ call' = call
                         /\ \/ heap' = heap
                            \/ heap' = SetLock(heap, i, j)
                         /\ i = Parent(t) \/ (i = loc[t].gparent /\ pc[t] \in {"lockGparent", "undoGparent"})
                         /\ pc[t] \in {"lockParent", "lockGparent", "undoGparent", "undoParent"}
                         /\ label \in {"parentOf", "undoMain", "readOther", "undoParent"}
                         /\ label = "parentOf" => pc[t] = "lockParent"
                         /\ label = "readOther" => pc[t] = "lockGparent"
  <2>1. CASE LockParent(t)
    BY <2>1 DEF LockParent, Shared, SetLock, client
  <2>2. CASE LockGparent(t)
    BY <2>2 DEF LockGparent, Shared, SetLock, client
  <2>3. CASE UndoGparent(t)
    <3>1. /\ Goto(t, "undoParent", loc[t]) /\ root' = root /\ call' = call /\ pc[t] = "undoGparent"
          /\ heap' = SetLock(heap, loc[t].gparent, null)
      BY <2>3 DEF UndoGparent, Shared, SetLock, client
    <3> QED BY <3>1
  <2>4. CASE UndoParent(t)
    <3>1. /\ Goto(t, "undoMain", loc[t]) /\ root' = root /\ call' = call /\ pc[t] = "undoParent"
          /\ heap' = SetLock(heap, Parent(t), null)
      BY <2>4 DEF UndoParent, Shared, SetLock, client
    <3> QED BY <3>1
  <2> QED BY <2>1, <2>2, <2>3, <2>4
<1>3. pc[t] \in OwnerLabels
  BY <1>2 DEF OwnerLabels
<1>4. \A h, rt : ThreadPlaces(h, rt, loc[t], pc[t], call[t]) => ThreadPlaces(h, rt, loc[t], label, call[t])
  BY <1>2 DEF ThreadPlaces
<1>5. CASE heap' = heap
  BY <1>1, <1>2, <1>4, <1>5, SamePlacesStep
<1>6. CASE heap' = SetLock(heap, i, j)
  <2>1. i \in Ptr(heap)
    <3>1. Parent(t) \in Ptr(heap)
      BY <1>1, <1>3, OwnerState
    <3>2. pc[t] \in {"lockGparent", "undoGparent"} => loc[t].gparent \in Ptr(heap)
      BY <1>1, NullIsNoNode DEF LocalOK, JoinLocalsOK
    <3> QED BY <1>2, <3>1, <3>2
  <2>2. EditOf(heap, i, heap') /\ heap'[i].key = heap[i].key /\ heap'[i].data = heap[i].data
    BY <1>1, <1>6, <2>1, StoresKeepValues
  <2>3. Moved
    BY <1>1, LockBases DEF BasesKept
  <2> QED BY <1>2, <1>4, <2>2, <2>3, EditPlaces
<1> QED BY <1>2, <1>5, <1>6

LEMMA StorePlaces ==
    ASSUME PInv, SInv', OutcomesAreFinal, NEW t \in Threads,
           Invalidate(t) \/ Unlock(t) \/ Abort(t) \/ UndoMain(t) \/ Done(t)
    PROVE  ValuesAreKept'
<1>1. BInv /\ HeapOK(heap) /\ loc[t] \in Locals /\ LocalOK(heap, loc[t], pc[t], call[t])
  BY PlacesState
<1>2. PICK label, i, v : /\ Goto(t, label, loc[t]) /\ root' = root /\ call' = call
                         /\ label \in {"splice", "findSlot", "done", loc[t].then}
                         /\ heap' = heap \/ (i \in Ptr(heap)
                               /\ heap' \in {SetLock(heap, i, v), SetInvalid(heap, i), SetOutcome(heap, i, v)})
  <2>1. CASE Invalidate(t)
    <3>1. Parent(t) \in Ptr(heap)
      <4>1. pc[t] \in HelperLabels
        BY <2>1 DEF Invalidate, HelperLabels
      <4> QED BY <1>1, <4>1, BasesState, HelperState
    <3>2. heap' = SetInvalid(heap, Parent(t)) /\ root' = root /\ call' = call
      BY <2>1 DEF Invalidate, Shared, SetInvalid, client
    <3>3. \E label \in {"splice", "findSlot"} : Goto(t, label, loc[t])
      BY <2>1 DEF Invalidate, Shared
    <3> QED BY <3>1, <3>2, <3>3
  <2>2. CASE Unlock(t)
    <3> DEFINE g == heap[loc[t].m].gparent
    <3>1. pc[t] = "unlock" /\ pc[t] \in HelperLabels
      BY <2>2 DEF Unlock, HelperLabels
    <3>2. g \in Routes(heap) \cup {null}
      BY <1>1, <3>1, BasesState, HelperState
    <3>3. g \in Ptr(heap)
      BY SMTT(30), <1>1, <3>1, <3>2, NullIsNoNode DEF LocalOK, JoinLocalsOK
    <3>4. /\ Goto(t, "done", loc[t]) /\ root' = root /\ call' = call
          /\ heap' = heap \/ heap' = SetLock(heap, g, null)
      BY <2>2 DEF Unlock, Shared, SetLock, client
    <3> QED BY <3>3, <3>4
  <2>3. CASE Abort(t)
    <3>1. loc[t].m \in Ptr(heap)
      BY <1>1, <2>3 DEF Abort, LocalOK, JoinLocalsOK
    <3>2. /\ Goto(t, loc[t].then, loc[t]) /\ root' = root /\ call' = call
          /\ heap' = heap \/ heap' = SetOutcome(heap, loc[t].m, ABORTED)
      BY <2>3 DEF Abort, Shared, SetOutcome, client
    <3> QED BY <3>1, <3>2
  <2>4. CASE UndoMain(t)
    <3>1. loc[t].m \in Ptr(heap)
      BY <1>1, <2>4 DEF UndoMain, LocalOK, JoinLocalsOK, OwnerLabels
    <3>2. /\ Goto(t, loc[t].then, loc[t]) /\ root' = root /\ call' = call
          /\ heap' = SetOutcome(heap, loc[t].m, ABORTED)
      BY <2>4 DEF UndoMain, Shared, SetOutcome, client
    <3> QED BY <3>1, <3>2
  <2>5. CASE Done(t)
    <3>1. loc[t].m \in Ptr(heap)
      BY <1>1, <2>5 DEF Done, LocalOK, JoinLocalsOK, HelperLabels
    <3>2. /\ Goto(t, loc[t].then, loc[t]) /\ root' = root /\ call' = call
          /\ heap' = SetOutcome(heap, loc[t].m, DONE)
      BY <2>5 DEF Done, Shared, SetOutcome, client
    <3> QED BY <3>1, <3>2
  <2> QED BY <2>1, <2>2, <2>3, <2>4, <2>5
<1>3. \A h, rt : ThreadPlaces(h, rt, loc[t], label, call[t])
  BY <1>1, <1>2, NoPlacesYet, ThenHasNoPlaces DEF PlaceLabels
<1>4. Moved
  BY <1>1, InvalidateBases, UnlockBases, OutcomeBases DEF BasesKept
<1>5. CASE heap' = heap
  BY <1>2, <1>3, <1>5, SamePlacesStep
<1>6. CASE heap' /= heap
  <2>1. EditOf(heap, i, heap') /\ heap'[i].key = heap[i].key /\ heap'[i].data = heap[i].data
    BY <1>1, <1>2, <1>6, StoresKeepValues
  <2> QED BY <1>2, <1>3, <1>4, <2>1, EditPlaces
<1> QED BY <1>5, <1>6

LEMMA ReadOtherPlaces ==
    ASSUME PInv, SInv', OutcomesAreFinal, NEW t \in Threads, ReadOther(t)
    PROVE  ValuesAreKept'
<1> DEFINE m == loc[t].m
           other == Child(Parent(t), Opposite(loc[t].side))
           x == [heap[m] EXCEPT !.gparent = loc[t].gparent, !.otherb = other, !.neigh1 = loc[t].n1]
<1>1. /\ pc[t] = "readOther" /\ Goto(t, "publish", loc[t]) /\ call' = call
      /\ heap' = [heap EXCEPT ![m] = x]
  BY DEF ReadOther, Shared, client
<1>2. BInv /\ HeapOK(heap) /\ m \in Ptr(heap)
  BY <1>1, PlacesState DEF LocalOK, JoinLocalsOK, OwnerLabels
<1>3. x.key = heap[m].key /\ x.data = heap[m].data
  <2>1. heap[m] \in Node
    BY <1>2, HeapBasics
  <2> HIDE DEF m, other
  <2> QED BY <2>1 DEF Node
<1> HIDE DEF x, other, m
<1>4. EditOf(heap, m, heap') /\ heap'[m] = x
  <2>1. LET f == [heap EXCEPT ![m] = x] IN EditOf(heap, m, f) /\ f[m] = x
    BY <1>2, EditNode
  <2> QED BY <1>1, <2>1
<1>5. Moved
  BY <1>2, ReadOtherBases DEF BasesKept
<1>6. \A h, rt : ThreadPlaces(h, rt, loc[t], pc[t], call[t]) => ThreadPlaces(h, rt, loc[t], "publish", call[t])
  BY <1>1 DEF ThreadPlaces
<1> QED BY <1>1, <1>3, <1>4, <1>5, <1>6, EditPlaces

-----------------------------------------------------------------------------
(* Steps of a published join                                               *)

(* What is put in a slot of a node does not change keys or values.         *)
LEMMA ChildKeepsValues ==
    ASSUME NEW h \in Seq(Node), NEW p \in Ptr(h), NEW side, NEW c
    PROVE  LET g == SetChild(h, p, side, c)
           IN  /\ Len(g) = Len(h) /\ Ptr(g) = Ptr(h) /\ KeepsValues(h, g)
<1> DEFINE g == SetChild(h, p, side, c)
           x == IF side = "left" THEN [h[p] EXCEPT !.left = c] ELSE [h[p] EXCEPT !.right = c]
<1>1. Len(h) \in Nat /\ DOMAIN h = Ptr(h) /\ h[p] \in Node
  BY LenProperties, ElementOfSeq DEF Ptr
<1>2. x.key = h[p].key /\ x.data = h[p].data
  BY <1>1 DEF Node
<1>3. g = [h EXCEPT ![p] = x]
  BY DEF SetChild
<1> HIDE DEF x
<1>4. DOMAIN g = Ptr(h) /\ \A n \in Ptr(h) : g[n] = IF n = p THEN x ELSE h[n]
  BY <1>1, <1>3
<1>5. KeepsValues(h, g)
  <2> HIDE DEF g
  <2> QED BY <1>2, <1>4 DEF KeepsValues
<1>6. g \in Seq(Node \cup {x})
  <2>1. h \in Seq(Node \cup {x})
    OBVIOUS
  <2> QED BY <1>3, <2>1, ExceptSeq DEF Ptr
<1>7. Len(g) = Len(h)
  <2>1. Len(g) \in Nat /\ DOMAIN g = 1 .. Len(g)
    BY <1>6, LenProperties
  <2> HIDE DEF g
  <2> QED BY <1>1, <1>4, <2>1 DEF Ptr
<1> HIDE DEF g
<1>8. Ptr(g) = Ptr(h)
  BY <1>7 DEF Ptr
<1> QED BY <1>5, <1>7, <1>8 DEF g

LEMMA InstallKeepsValues ==
    ASSUME HeapOK(heap), NEW b \in Ptr(heap), NEW new, NEW g \in Seq(Node), Len(heap) <= Len(g),
           \A n \in Ptr(heap) : g[n] = heap[n], Install(b, new, g)
    PROVE  /\ KeepsValues(heap, heap') /\ KeepsValues(g, heap') /\ Ptr(heap') = Ptr(g)
           /\ Len(heap') = Len(g)
<1> DEFINE p == heap[b].parent
<1>1. p \in Routes(heap) \cup {null} /\ Len(heap) \in Nat /\ Len(g) \in Nat
  BY HeapBasics, LenProperties DEF HeapOK, NodeOK
<1>2. Ptr(heap) \subseteq Ptr(g) /\ Routes(heap) \subseteq Ptr(heap)
  BY <1>1, NullIsNoNode DEF Ptr
<1>3. Len(heap') = Len(g) /\ Ptr(heap') = Ptr(g) /\ KeepsValues(g, heap')
  <2>1. CASE p = null
    <3>1. heap' = g
      BY <2>1 DEF Install
    <3> QED BY <3>1 DEF KeepsValues
  <2>2. CASE p /= null
    <3>1. p \in Ptr(g)
      BY <1>1, <1>2, <2>2
    <3>2. PICK side : heap' = SetChild(g, p, side, new)
      BY <2>2 DEF Install
    <3> QED BY <3>1, <3>2, ChildKeepsValues
  <2> QED BY <2>1, <2>2
<1>4. KeepsValues(heap, heap')
  BY <1>2, <1>3 DEF KeepsValues
<1> QED BY <1>3, <1>4

LEMMA MergePlaces ==
    ASSUME PInv, SInv', NEW t \in Threads, ReplaceNeighbor(t) \/ Splice(t)
    PROVE  ValuesAreKept'
<1>1. BInv /\ HeapOK(heap) /\ LocalOK(heap, loc[t], pc[t], call[t]) /\ heap \in Seq(Node)
  BY PlacesState DEF HeapOK
<1>2. pc[t] \in HelperLabels \ {"load"} /\ HeapJoins(heap, root)
  BY PlacesState DEF ReplaceNeighbor, Splice, HelperLabels
<1>3. loc[t].m \in Committed(heap) /\ loc[t].m \in Ptr(heap)
  BY <1>1, <1>2, BasesState, HelperState
<1>4. KeepsValues(heap, heap') /\ Len(heap') = Len(heap)
  <2>1. KeepsValues(heap, heap)
    BY DEF KeepsValues
  <2>2. CASE ReplaceNeighbor(t)
    <3> DEFINE n1 == heap[loc[t].m].neigh1
    <3>1. n1 \in Ptr(heap)
      BY <1>1, <1>3, CommittedRoutes
    <3>2. heap' = heap \/ Install(n1, loc[t].n2, heap)
      BY <2>2 DEF ReplaceNeighbor
    <3> HIDE DEF n1
    <3>3. Len(heap) <= Len(heap)
      BY <1>1, HeapBasics
    <3> QED BY <1>1, <2>1, <3>1, <3>2, <3>3, InstallKeepsValues
  <2>3. CASE Splice(t)
    <3> DEFINE g == heap[loc[t].m].gparent
    <3>1. g \in Routes(heap) \cup {null}
      BY <1>1, <1>2, BasesState, HelperState
    <3>2. heap' = heap \/ (g /= null /\ \E x : heap' = SetChild(heap, g, loc[t].slot, x))
      BY <2>3 DEF Splice
    <3> HIDE DEF g
    <3>3. g /= null => g \in Ptr(heap)
      BY <3>1, NullIsNoNode
    <3> QED BY <1>1, <2>1, <3>2, <3>3, ChildKeepsValues
  <2> QED BY <2>2, <2>3
<1>5. Moved
  BY <1>1, ReplaceNeighborBases, SpliceBases DEF BasesKept
<1>6. Carried
  BY <1>1, <1>4, <1>5, PlacesState, NothingNewCarries
<1>7. PICK label : /\ Goto(t, label, loc[t]) /\ call' = call
                   /\ label \in {"invalidate", "done", "unlock"}
  BY DEF ReplaceNeighbor, Splice, Shared, client
<1>8. ThreadPlaces(heap', root', loc[t], label, call'[t])
  BY <1>7, NoPlacesYet DEF PlaceLabels
<1> QED BY <1>6, <1>7, <1>8, PlacesStep

-----------------------------------------------------------------------------
(* A new node takes the place of a base that may be replaced               *)

(* Such a base is in the tree, and where a search for its values ends.     *)
LEMMA ReplaceableValues ==
    ASSUME NEW h, NEW rt, State(h, rt), HeapBases(h, rt), HeapPlaces(h, rt),
           NEW b \in Ptr(h), b \notin Routes(h), Replaceable(h, b), InSlot(h, rt, b)
    PROVE  /\ Alive(h, rt, b)
           /\ \A i \in DOMAIN h[b].data : b \in Trail(h, KeyWay(h, h[b].data[i]), rt)
<1>1. Elsewhere(h, rt, null, b)
  <2>1. h[b].parent = null \/ Attached(h, rt, h[b].parent)
    BY ReplaceableAttached
  <2> QED BY <2>1, NullIsNoNode DEF InSlot, Elsewhere, Attached
<1>2. ASSUME NEW m \in Committed(h), h[m].neigh2 = b PROVE FALSE
  <2>1. h[m].neigh2 /= DONE
    BY <1>2, HeapBasics DEF DONE, State
  <2> QED BY <1>2, <2>1, MergedNotReplaceable
<1>3. ASSUME NEW i \in DOMAIN h[b].data PROVE b \in Trail(h, KeyWay(h, h[b].data[i]), rt)
  <2> DEFINE v == h[b].data[i]
  <2>1. b \in Way(h, KeyWay(h, v), rt)
    BY <1>1, <1>2 DEF HeapPlaces, ValuesPlaced
  <2> HIDE DEF v
  <2>2. b \in Trail(h, KeyWay(h, v), rt)
    BY <2>1, Ways DEF State
  <2> QED BY <2>2 DEF v
<1> QED BY <1>1, <1>3 DEF Alive

LEMMA FreshCarries ==
    ASSUME NEW h, NEW rt, NEW g, NEW rt2, NEW q, NEW z, NEW b, NEW c,
           Step(h, rt, g, rt2, q, z, b, c, {}), HeapPlaces(h, rt), KeepsValues(h, g),
           Ptr(g) = Ptr(h) \cup {c}, c \notin Ptr(h), b \in Ptr(h), b \notin Routes(h), Replaceable(h, b),
           g[c].type /= "route", g[c].type = "join_main" => g[c].neigh2 \in Unpublished,
           \A n \in Ptr(h) : SameButSlots(h[n], g[n]),
           Sorted(g[c].data), \A i \in DOMAIN g[c].data : b \in Trail(h, KeyWay(h, g[c].data[i]), rt)
    PROVE  Carries(h, rt, g, rt2, q, z, b, c, {})
<1>1. c \notin Routes(g) /\ b /= c
  BY DEF Routes
<1>2. TakesValues(h, rt, g, b, c, c)
  BY DEF TakesValues
<1>3. Committed(g) \ Committed(h) = {}
  <2>1. c \notin Committed(g)
    BY DEF Committed
  <2>2. \A n \in Ptr(h) : n \in Committed(g) => n \in Committed(h)
    BY DEF Committed, SameButSlots
  <2> QED BY <2>1, <2>2 DEF Committed
<1> QED BY <1>1, <1>2, <1>3 DEF Carries

LEMMA BasePutPlaces ==
    ASSUME PInv, SInv', NEW t \in Threads, NEW label, NEW l, Goto(t, label, l),
           \A u \in Threads : u /= t => call'[u] = call[u],
           NEW b \in Ptr(heap), b \notin Routes(heap), InPlace(b), Replaceable(heap, b),
           NEW x \in Node, HeapOK(Append(heap, x)), Install(b, Len(heap) + 1, Append(heap, x)),
           x.parent = heap[b].parent, x.type /= "route", x.type = "join_main" => x.neigh2 \in Unpublished,
           Sorted(x.data),
           \A i \in DOMAIN x.data : b \in Trail(heap, KeyWay(heap, x.data[i]), root),
           \A q, z, P : Step(heap, root, heap', root', q, z, b, Len(heap) + 1, P)
                    /\ KeepsValues(heap, heap')
                    /\ (\A n \in Ptr(heap) : SameButSlots(heap[n], heap'[n]))
                    => ThreadPlaces(heap', root', l, label, call'[t])
    PROVE  ValuesAreKept'
<1> DEFINE g == Append(heap, x)
           new == Len(heap) + 1
<1>1. /\ State(heap, root) /\ HeapBases(heap, root) /\ HeapOK(heap) /\ HeapPlaces(heap, root)
  BY PlacesState
<1>2. State(heap', root')
  BY NextState
<1>3. Adds(heap, x, g) /\ HeapOK(g)
  BY <1>1, AppendAdds
<1> HIDE DEF g
<1>4. Grows(heap, g) /\ \A n \in Ptr(heap) : g[n] = heap[n]
  BY <1>1, <1>3, HeapBasics DEF Adds, Grows
<1>5. PICK side \in Sides : Puts(g, root, heap', root', heap[b].parent, side, b, new)
  BY <1>1, <1>4, InstallPuts DEF g
<1>6. /\ Step(heap, root, heap', root', heap[b].parent, side, b, new, {})
      /\ SameButSlots(x, heap'[new])
      /\ \A n \in Ptr(heap) : SameButSlots(heap[n], heap'[n])
  BY <1>1, <1>2, <1>3, <1>5, FreshBaseStep
<1>7. /\ KeepsValues(heap, heap') /\ heap'[new].data = x.data
      /\ Ptr(heap') = Ptr(heap) \cup {new} /\ new \notin Ptr(heap)
  <2>1. g \in Seq(Node) /\ Len(heap) <= Len(g) /\ Install(b, new, g) /\ new \in Ptr(g)
    BY <1>3, <1>4 DEF HeapOK, Grows, g, Adds
  <2>2. /\ KeepsValues(heap, heap') /\ KeepsValues(g, heap') /\ Ptr(heap') = Ptr(g)
    <3> HIDE DEF new
    <3> QED BY <1>1, <1>4, <2>1, InstallKeepsValues
  <2> QED BY <1>3, <2>1, <2>2 DEF KeepsValues, Adds
<1>8. ThreadPlaces(heap', root', l, label, call'[t])
  BY <1>6, <1>7
<1> HIDE DEF new
<1>9. Carries(heap, root, heap', root', heap[b].parent, side, b, new, {})
  <2>1. heap'[new].type /= "route" /\ (heap'[new].type = "join_main" => heap'[new].neigh2 \in Unpublished)
    BY <1>6 DEF SameButSlots
  <2> QED BY <1>1, <1>6, <1>7, <2>1, FreshCarries
<1>10. Carried
  BY <1>9 DEF Carried
<1> QED BY <1>8, <1>10, PlacesStep

LEMMA InPlaceSlot ==
    ASSUME NEW b, InPlace(b)
    PROVE  InSlot(heap, root, b)
BY DEF InPlace, InSlot, Side, Sides

(* What an update makes of the values of a base that a search for its key  *)
(* ends at.                                                                *)
LEMMA UpdateValues ==
    ASSUME NEW c \in Calls, NEW d \in Seq(Int), Sorted(d)
    PROVE  /\ Sorted(NewData(c, d)) /\ c.key \in Int
           /\ \A j \in DOMAIN NewData(c, d) :
                NewData(c, d)[j] = c.key \/ \E i \in DOMAIN d : d[i] = NewData(c, d)[j]
<1>1. c.key \in Int
  BY DEF Calls
<1>2. /\ Sorted(immutableInsert(d, c.key)) /\ ToSet(immutableInsert(d, c.key)) = ToSet(d) \cup {c.key}
      /\ Sorted(immutableRemove(d, c.key)) /\ ToSet(immutableRemove(d, c.key)) \subseteq ToSet(d)
  BY <1>1, InsertSorted, RemoveSorted
<1>3. Sorted(NewData(c, d)) /\ ToSet(NewData(c, d)) \subseteq ToSet(d) \cup {c.key}
  BY <1>2 DEF NewData
<1>4. \A j \in DOMAIN NewData(c, d) : NewData(c, d)[j] \in ToSet(NewData(c, d))
  BY DEF ToSet
<1>5. \A v \in ToSet(d) : \E i \in DOMAIN d : d[i] = v
  BY DEF ToSet
<1> QED BY <1>1, <1>3, <1>4, <1>5

LEMMA ReplacePlaces ==
    ASSUME PInv, SInv', NEW t \in Threads, Replace(t)
    PROVE  ValuesAreKept'
<1> DEFINE b == loc[t].base
           stat == new_stat(b, loc[t].contended)
           d == NewData(call[t], heap[b].data)
           x == Base(heap[b].parent, d, stat)
           label == IF stat > HIGH_CONT THEN "split" ELSE IF stat < LOW_CONT THEN "join" ELSE "return"
           l == [loc[t] EXCEPT !.base = Len(heap) + 1, !.then = "return",
                               !.result = Result(call[t], heap[b].data)]
<1>1. /\ pc[t] = "replace" /\ loc[t] \in Locals /\ LocalOK(heap, loc[t], "replace", call[t])
      /\ HeapOK(heap) /\ BaseJoins(heap, loc[t], "replace") /\ Replaceable(heap, b)
      /\ State(heap, root) /\ HeapBases(heap, root) /\ HeapPlaces(heap, root)
      /\ ThreadPlaces(heap, root, loc[t], "replace", call[t])
  BY PlacesState DEF Replace, ThreadJoins, ThreadBases
<1>2. /\ b \in Ptr(heap) /\ Len(heap[b].data) < TREAP_NODES /\ call[t] \in Calls /\ b \notin Routes(heap)
  BY <1>1 DEF LocalOK, BaseOK, StackOK, BaseJoins
<1>3. /\ InPlace(b) /\ Install(b, Len(heap) + 1, Append(heap, x)) /\ Goto(t, label, l)
      /\ call' = call
  BY DEF Replace, Shared, client
<1>4. heap[b] \in Node /\ NodeOK(heap, b)
  BY <1>1, <1>2, HeapBasics
<1>5. d \in Seq(Int) /\ Len(d) <= TREAP_NODES /\ stat \in Int
  BY <1>1, <1>2, <1>4, NodeTypes_, NewDataOK, NewStatType
<1>6. heap[b].parent \in Routes(heap) \cup {null} /\ heap[b].parent \in Nat
  BY <1>4, NodeTypes_ DEF NodeOK
<1>7. /\ Sorted(d) /\ call[t].key \in Int
      /\ \A j \in DOMAIN d : d[j] = call[t].key \/ \E i \in DOMAIN heap[b].data : heap[b].data[i] = d[j]
  <2>1. heap[b].data \in Seq(Int) /\ Sorted(heap[b].data)
    BY <1>1, <1>2, <1>4, NodeTypes_ DEF HeapPlaces, DataSorted
  <2> HIDE DEF b
  <2> QED BY <1>2, <2>1, UpdateValues
<1>8. label \notin PlaceLabels
  BY DEF PlaceLabels
<1> HIDE DEF label, l, stat, d
<1>9. /\ x \in Node /\ x.type = "normal" /\ x.neigh2 = PREPARING
      /\ x.parent = heap[b].parent /\ x.data = d
  BY <1>5, <1>6, BaseNode
<1> HIDE DEF x, b
<1>10. HeapOK(Append(heap, x))
  BY <1>1, <1>5, <1>6, <1>9, AddNode
<1>11. \A j \in DOMAIN x.data : b \in Trail(heap, KeyWay(heap, x.data[j]), root)
  <2>1. /\ Alive(heap, root, b)
        /\ \A i \in DOMAIN heap[b].data : b \in Trail(heap, KeyWay(heap, heap[b].data[i]), root)
    BY <1>1, <1>2, <1>3, InPlaceSlot, ReplaceableValues
  <2>2. b \in Way(heap, KeyWay(heap, call[t].key), root)
    BY <1>1, <2>1 DEF ThreadPlaces, b
  <2>3. b \in Trail(heap, KeyWay(heap, call[t].key), root)
    BY <1>1, <2>2, Ways DEF State
  <2> QED BY <1>7, <1>9, <2>1, <2>3
<1>12. ThreadPlaces(heap', root', l, label, call'[t])
  BY <1>8, NoPlacesYet
<1> QED BY SMTT(30), <1>1, <1>2, <1>3, <1>7, <1>9, <1>10, <1>11, <1>12, BasePutPlaces

LEMMA CopyPlaces ==
    ASSUME PInv, SInv', NEW t \in Threads, CopyBase(t)
    PROVE  ValuesAreKept'
<1> DEFINE b == loc[t].base
           x == heap[b]
<1>1. PICK label, l : /\ Goto(t, label, l) /\ label \in {"return", "next"} /\ call' = call
                      /\ InPlace(b) /\ Install(b, Len(heap) + 1, Append(heap, x))
  BY DEF CopyBase, Shared, client
<1>2. /\ b \in Ptr(heap) /\ HeapOK(heap) /\ b \notin Routes(heap) /\ Replaceable(heap, b)
      /\ x.type = "join_main" => x.neigh2 = ABORTED
      /\ State(heap, root) /\ HeapBases(heap, root) /\ HeapPlaces(heap, root)
  <2>1. /\ pc[t] = "copy" /\ LocalOK(heap, loc[t], pc[t], call[t]) /\ ThreadJoins(heap, root, loc[t], pc[t])
        /\ HeapOK(heap) /\ ThreadBases(heap, root, loc[t], pc[t])
        /\ State(heap, root) /\ HeapBases(heap, root) /\ HeapPlaces(heap, root)
    BY PlacesState DEF CopyBase
  <2> QED BY <2>1 DEF LocalOK, BaseOK, ThreadJoins, BaseJoins, ThreadBases
<1>3. x \in Node /\ HeapOK(Append(heap, x)) /\ x.type /= "route"
  <2>1. x \in Node /\ NodeOK(heap, b) /\ x.type /= "route"
    BY <1>2, HeapBasics DEF Routes
  <2> QED BY <1>2, <2>1, AddNode DEF NodeOK, JoinOK
<1>4. ThreadPlaces(heap', root', l, label, call'[t])
  BY <1>1, NoPlacesYet DEF PlaceLabels
<1>5. ABORTED \in Unpublished
  BY DEF Unpublished
<1> HIDE DEF b
<1>6. Sorted(x.data) /\ \A i \in DOMAIN x.data : b \in Trail(heap, KeyWay(heap, x.data[i]), root)
  BY <1>1, <1>2, InPlaceSlot, ReplaceableValues DEF HeapPlaces, DataSorted
<1> QED BY <1>1, <1>2, <1>3, <1>4, <1>5, <1>6, BasePutPlaces

LEMMA LockNeighborPlaces ==
    ASSUME PInv, SInv', NEW t \in Threads, LockNeighbor(t)
    PROVE  ValuesAreKept'
<1> DEFINE n0 == loc[t].cur
           m == loc[t].m
           p == heap[m].parent
           n1 == Len(heap) + 1
           x == [heap[n0] EXCEPT !.type = "join_neighbor", !.main_node = m]
           l == [loc[t] EXCEPT !.n1 = n1]
           side == loc[t].side
<1>1. pc[t] = "lockNeighbor" /\ pc[t] \in OwnerLabels
  BY DEF LockNeighbor, OwnerLabels
<1>2. /\ JInv /\ HeapOK(heap) /\ State(heap, root) /\ loc[t] \in Locals
      /\ LocalOK(heap, loc[t], pc[t], call[t]) /\ HeapBases(heap, root) /\ HeapPlaces(heap, root)
      /\ ThreadJoins(heap, root, loc[t], pc[t]) /\ ThreadBases(heap, root, loc[t], pc[t])
      /\ ThreadPlaces(heap, root, loc[t], pc[t], call[t])
  BY PlacesState
<1>3. /\ m \in Ptr(heap) /\ heap[m].type = "join_main" /\ m \in Nat /\ p \in Routes(heap)
      /\ BaseJoins(heap, loc[t], pc[t])
  BY <1>1, <1>2, OwnerState, HeapBasics DEF ThreadJoins, Parent
<1>4. n0 \in Ptr(heap) /\ n0 \notin Routes(heap) /\ Replaceable(heap, n0) /\ side \in Sides
  BY <1>1, <1>2, <1>3 DEF LocalOK, CurOK, BaseJoins, ThreadBases, Locals, Sides
<1>5. CASE InPlace(n0) /\ Install(n0, n1, Append(heap, x)) /\ Goto(t, "lockParent", l) /\ call' = call
  <2>1. heap[n0] \in Node /\ NodeOK(heap, n0)
    BY <1>2, <1>4, HeapBasics
  <2>2. l.m = m /\ l.n1 = n1 /\ l.side = side
    BY <1>2 DEF Locals
  <2>3. Attached(heap, root, p) => LeadsOn(heap, root, NextWay(heap, p, side), n0, p)
    BY <1>1, <1>2 DEF ThreadPlaces
  <2>4. Goto(t, "lockParent", l)
    BY <1>5
  <2> HIDE DEF m, l, n0, p, side
  <2>5. /\ x \in Node /\ x.type = "join_neighbor" /\ x.main_node = m
        /\ x.data = heap[n0].data /\ x.parent = heap[n0].parent
    BY <1>3, <2>1 DEF Node, NodeTypes
  <2> HIDE DEF x
  <2>6. HeapOK(Append(heap, x))
    <3>1. Len(x.data) <= TREAP_NODES /\ x.parent \in Routes(heap) \cup {null}
      BY <2>1, <2>5 DEF NodeOK
    <3> QED BY <1>2, <1>3, <2>5, <3>1, AddNode
  <2>7. /\ Alive(heap, root, n0) /\ Sorted(x.data)
        /\ \A i \in DOMAIN x.data : n0 \in Trail(heap, KeyWay(heap, x.data[i]), root)
    BY <1>2, <1>4, <1>5, <2>5, InPlaceSlot, ReplaceableValues DEF HeapPlaces, DataSorted
  <2> HIDE DEF n1
  <2>8. ASSUME NEW q, NEW z, NEW P, Step(heap, root, heap', root', q, z, n0, n1, P),
               KeepsValues(heap, heap'), \A n \in Ptr(heap) : SameButSlots(heap[n], heap'[n])
        PROVE  ThreadPlaces(heap', root', l, "lockParent", call'[t])
    <3> DEFINE f == NextWay(heap, p, side)
               f2 == NextWay(heap', p, side)
    <3>1. heap'[m].parent = p
      BY <1>3, <2>8 DEF SameButSlots, p
    <3>2. ASSUME Attached(heap', root', p) PROVE n1 \in Way(heap', f2, p)
      <4>1. /\ State(heap', root') /\ HeapOK(heap') /\ CutsFrom(heap, root, heap', root', P)
            /\ Len(heap) <= Len(heap') /\ p \in Ptr(heap) /\ p \in Ptr(heap')
        BY <1>3, <2>8, StepNodes DEF KeepsNodes, State
      <4>2. Attached(heap, root, p)
        BY <1>3, <3>2, <4>1 DEF CutsFrom
      <4>3. n0 \in Way(heap, f, n0)
        BY <1>2, <1>4, TrailTurns, Ways
      <4>4. n0 \in Trail(heap, f, p)
        BY <1>2, <2>3, <2>7, <4>1, <4>2, <4>3, Ways DEF LeadsOn
      <4>5. SameWay(heap, f, f2)
        BY <1>2, <1>4, <2>8, <4>1, SameWays
      <4>6. GivesWay(heap, root, p, n0, n1, p)
        BY <1>3, <1>4, <4>1, <4>2 DEF GivesWay
      <4>7. n0 /= n1
        BY <1>2, <1>4, HeapBasics DEF n1, Ptr
      <4> HIDE DEF f, f2
      <4>8. n1 \in Trail(heap', f2, p)
        BY <2>8, <4>4, <4>5, <4>6, <4>7, TakesPlace
      <4> QED BY <4>1, <4>8, Ways
    <3> QED BY <2>2, <3>1, <3>2 DEF ThreadPlaces
  <2>9. /\ InPlace(n0) /\ Install(n0, Len(heap) + 1, Append(heap, x))
        /\ x.type /= "route" /\ x.type /= "join_main"
    BY <1>5, <2>5 DEF n1
  <2>10. \A q, z, P : Step(heap, root, heap', root', q, z, n0, Len(heap) + 1, P)
                /\ KeepsValues(heap, heap')
                /\ (\A n \in Ptr(heap) : SameButSlots(heap[n], heap'[n]))
                  => ThreadPlaces(heap', root', l, "lockParent", call'[t])
    BY <2>8 DEF n1
  <2> QED BY <1>4, <1>5, <2>4, <2>5, <2>6, <2>7, <2>9, <2>10, BasePutPlaces
<1>6. CASE heap' = heap /\ root' = root /\ Goto(t, "undoMain", loc[t]) /\ call' = call
  BY <1>6, NoPlacesYet, SamePlacesStep DEF PlaceLabels
<1> QED BY <1>5, <1>6 DEF LockNeighbor, Shared, client

LEMMA LockMainPlaces ==
    ASSUME PInv, SInv', NEW t \in Threads, LockMain(t)
    PROVE  ValuesAreKept'
<1> DEFINE b == loc[t].base
           p == heap[b].parent
           m == Len(heap) + 1
           side == loc[t].side
           cur == loc[t].cur
           x == [heap[b] EXCEPT !.type = "join_main"]
           g == Append(heap, x)
           l == [loc[t] EXCEPT !.m = m]
<1>1. /\ pc[t] = "lockMain" /\ loc[t] \in Locals /\ LocalOK(heap, loc[t], "lockMain", call[t])
      /\ HeapOK(heap) /\ State(heap, root) /\ HeapBases(heap, root) /\ root' = root
      /\ HeapPlaces(heap, root) /\ ThreadPlaces(heap, root, loc[t], "lockMain", call[t])
  BY PlacesState DEF LockMain
<1>2. /\ b \in Ptr(heap) /\ heap[b].type = "normal" /\ p /= null /\ cur \in Ptr(heap)
      /\ Attached(heap, root, p) => LeadsOn(heap, root, NextWay(heap, p, side), cur, p)
  BY <1>1 DEF LocalOK, BaseOK, CurOK, ThreadPlaces
<1>3. /\ heap[b] \in Node /\ NodeOK(heap, b) /\ side \in Sides
      /\ p \in Routes(heap) /\ p \in Ptr(heap)
  <2>1. heap[b] \in Node /\ NodeOK(heap, b) /\ side \in Sides
    BY <1>1, <1>2, HeapBasics DEF Locals, Sides
  <2>2. p \in Routes(heap)
    BY <1>2, <2>1 DEF NodeOK
  <2> QED BY <2>1, <2>2, NullIsNoNode
<1>4. CASE Child(p, side) = b /\ heap' = SetChild(g, p, side, m) /\ Goto(t, "lockNeighbor", l)
           /\ call' = call
  <2>1. /\ x \in Node /\ x.type = "join_main" /\ x.neigh2 = PREPARING
        /\ x.data = heap[b].data /\ x.parent = p
    BY <1>2, <1>3 DEF Node, NodeTypes, NodeOK
  <2>2. Len(heap[b].data) <= TREAP_NODES /\ PREPARING \in Unpublished
    BY <1>3 DEF NodeOK, Unpublished
  <2>3. l.m = m /\ l.cur = cur /\ l.side = side
    BY <1>1 DEF Locals
  <2> HIDE DEF x, p, l, side, b, cur
  <2>4. HeapOK(g) /\ Adds(heap, x, g)
    BY <1>1, <1>2, <1>3, <2>1, <2>2, AddNode, AppendAdds
  <2> HIDE DEF g
  <2>5. \A j \in Ptr(heap) : g[j] = heap[j] /\ j \in Ptr(g)
    BY <1>1, <2>4, HeapBasics DEF Adds
  <2>6. Side(g, p, side) = b /\ Side(heap, p, side) = b
    BY <1>3, <1>4, <2>5 DEF Side, Child
  <2>7. Puts(g, root, heap', root', heap[b].parent, side, b, Len(heap) + 1)
    <3> HIDE DEF m
    <3>1. Puts(g, root, SetChild(g, p, side, m), root, p, side, Side(g, p, side), m)
      BY <1>3, <2>4, <2>5, ChildPuts
    <3> QED BY <1>1, <1>4, <2>6, <3>1 DEF p, m
  <2>8. b \notin Routes(heap) /\ Replaceable(heap, b) /\ InSlot(heap, root, b)
    BY <1>2, <1>3, <2>6 DEF Routes, Replaceable, InSlot, p
  <2>9. State(heap', root')
    BY NextState
  <2>10. x.parent = heap[b].parent /\ x.type /= "route" /\ x.neigh2 \in Unpublished
    BY <2>1, <2>2 DEF p
  <2>11. /\ Step(heap, root, heap', root', heap[b].parent, side, b, Len(heap) + 1, {})
         /\ SameButSlots(x, heap'[Len(heap) + 1])
         /\ \A n \in Ptr(heap) : SameButSlots(heap[n], heap'[n])
    BY <1>1, <1>2, <1>3, <2>1, <2>4, <2>7, <2>8, <2>9, <2>10, FreshBaseStep
  <2>12. heap'[m].parent = p /\ m \notin Ptr(heap)
    BY <2>1, <2>4, <2>11 DEF SameButSlots, m, Adds
  <2>13. KeepsValues(heap, heap') /\ heap'[m].data = x.data /\ Ptr(heap') = Ptr(heap) \cup {m}
    <3>1. g \in Seq(Node) /\ p \in Ptr(g) /\ Ptr(g) = Ptr(heap) \cup {m} /\ g[m] = x /\ m \in Ptr(g)
      BY <1>3, <2>4, <2>5 DEF HeapOK, Adds, m
    <3> HIDE DEF m
    <3>2. Ptr(heap') = Ptr(g) /\ KeepsValues(g, heap')
      BY <1>4, <3>1, ChildKeepsValues
    <3> QED BY <2>5, <3>1, <3>2 DEF KeepsValues
  <2> DEFINE q == heap[b].parent
  <2>14. /\ Step(heap, root, heap', root', q, side, b, m, {}) /\ SameButSlots(x, heap'[m])
    BY <2>11 DEF m
  <2>15. m \in Nat /\ Len(heap) <= Len(heap') /\ Len(heap) \in Nat
    BY <1>1, <2>14, HeapBasics, StepNodes DEF m, KeepsNodes
  <2> HIDE DEF m, q
  <2>16. Carries(heap, root, heap', root', q, side, b, m, {})
    <3>1. /\ Sorted(heap'[m].data)
          /\ \A i \in DOMAIN heap'[m].data : b \in Trail(heap, KeyWay(heap, heap'[m].data[i]), root)
      BY <1>1, <1>2, <2>1, <2>8, <2>13, ReplaceableValues DEF HeapPlaces, DataSorted
    <3>2. heap'[m].type /= "route" /\ heap'[m].neigh2 \in Unpublished
      BY <2>10, <2>14 DEF SameButSlots
    <3> QED BY <1>1, <1>2, <2>8, <2>11, <2>12, <2>13, <2>14, <3>1, <3>2, FreshCarries
  <2>17. ASSUME Attached(heap', root', p)
         PROVE  LeadsOn(heap', root', NextWay(heap', p, side), cur, p)
    <3>1. Attached(heap, root, p)
      BY <1>3, <2>14, <2>17, StepNodes DEF CutsFrom
    <3>2. SameWay(heap, NextWay(heap, p, side), NextWay(heap', p, side))
      BY <1>1, <1>3, <2>9, <2>13, <2>15, SameWays DEF State
    <3> QED BY <1>2, <1>3, <2>14, <3>1, <3>2, StepLeadsOn
  <2>18. ThreadPlaces(heap', root', l, "lockNeighbor", call'[t])
    BY <2>3, <2>12, <2>17 DEF ThreadPlaces
  <2>19. Carried
    BY <2>16 DEF Carried
  <2>20. Goto(t, "lockNeighbor", l) /\ call' = call
    BY <1>4
  <2> QED BY <2>18, <2>19, <2>20, PlacesStep
<1>5. CASE heap' = heap /\ Goto(t, "return", loc[t]) /\ call' = call
  BY <1>1, <1>5, NoPlacesYet, SamePlacesStep DEF PlaceLabels
<1> QED BY <1>4, <1>5 DEF LockMain, Shared, client

-----------------------------------------------------------------------------
(* A split                                                                 *)

LEMMA HalfBounds ==
    ASSUME NEW x \in Int
    PROVE  Half(x) \in Int /\ x - 1 <= 2 * Half(x) /\ 2 * Half(x) <= x + 1
<1>1. CASE x >= 0
  <2>1. Half(x) = x \div 2
    BY <1>1 DEF Half
  <2> QED BY <1>1, <2>1
<1>2. CASE ~(x >= 0)
  <2>1. Half(x) = -((-x) \div 2)
    BY <1>2 DEF Half
  <2> QED BY <1>2, <2>1
<1> QED BY <1>1, <1>2

(* The median is not below a number that is below all values, and not      *)
(* above one that is above all values, if it is not above the maximum.     *)
LEMMA MedianDivides ==
    ASSUME NEW d \in Seq(Int), Len(d) >= 2, getMedianVal(d) <= getMaxValue(d), NEW k \in Int
    PROVE  /\ (\A i \in DOMAIN d : k < d[i]) => k <= getMedianVal(d)
           /\ (\A i \in DOMAIN d : d[i] <= k) => getMedianVal(d) <= k
<1> DEFINE mid == Len(d) \div 2
           a == d[mid]
           b == d[mid + 1]
           s == 2 * Half(a) + b
<1>1. Len(d) \in Nat /\ DOMAIN d = 1 .. Len(d) /\ \A i \in 1 .. Len(d) : d[i] \in Int
  BY LenProperties, ElementOfSeq
<1>2. mid \in 1 .. Len(d) /\ mid + 1 \in 1 .. Len(d)
  BY <1>1
<1>3. a \in Int /\ b \in Int /\ d[Len(d)] \in Int /\ Len(d) \in DOMAIN d
  BY <1>1, <1>2
<1>4. getMedianVal(d) = IF Len(d) % 2 = 0 THEN Half(s) ELSE b
  BY DEF getMedianVal
<1>5. getMedianVal(d) \in Int
  BY <1>1, MedianType
<1>6. ASSUME \A i \in DOMAIN d : k < d[i] PROVE k <= getMedianVal(d)
  <2>1. k < a /\ k < b
    BY <1>1, <1>2, <1>6
  <2> HIDE DEF a, b
  <2>2. Half(a) \in Int /\ a - 1 <= 2 * Half(a)
    BY <1>3, HalfBounds
  <2>3. s \in Int /\ s >= 2 * k + 1
    BY <1>3, <2>1, <2>2
  <2> HIDE DEF s
  <2>4. Half(s) \in Int /\ s - 1 <= 2 * Half(s)
    BY <2>3, HalfBounds
  <2>5. k <= Half(s)
    BY <2>3, <2>4
  <2> QED BY <1>3, <1>4, <2>1, <2>5
<1>7. ASSUME \A i \in DOMAIN d : d[i] <= k PROVE getMedianVal(d) <= k
  <2>1. d[Len(d)] <= k
    BY <1>3, <1>7
  <2> QED BY <1>3, <1>5, <2>1 DEF getMaxValue
<1> QED BY <1>6, <1>7

(* The keys and values of the nodes that a split adds.                     *)
LEMMA SplitValues ==
    ASSUME HeapOK(heap), NEW b \in Ptr(heap), Len(heap[b].data) >= 2
    PROVE  LET g == SplitNodes(b)
               d == heap[b].data
               k == getMedianVal(d)
               r == Len(heap) + 1
           IN  /\ g[r].key = k /\ g[r].data = <<>>
               /\ g[r + 1].data = splitLeft(d, k) /\ g[r + 2].data = splitRight(d, k)
<1> DEFINE g == SplitNodes(b)
           d == heap[b].data
           k == getMedianVal(d)
           n == Len(heap) + 1
           r == [NewNode EXCEPT !.type = "route", !.key = k, !.left = n + 1, !.right = n + 2]
           x == Base(n, splitLeft(d, k), 0)
           y == Base(n, splitRight(d, k), 0)
           s == <<r, x, y>>
           len == Len(heap)
<1>1. r.key = k /\ r.data = <<>> /\ x.data = splitLeft(d, k) /\ y.data = splitRight(d, k)
  BY DEF NewNode, Base
<1>2. g = heap \o s
  BY DEF SplitNodes
<1>3. len \in Nat /\ Len(heap) = len
  BY HeapBasics
<1> HIDE DEF r, x, y, d, k
<1>4. Len(s) = 3 /\ s[1] = r /\ s[2] = x /\ s[3] = y
  OBVIOUS
<1> HIDE DEF s
<1>5. \A i \in 1 .. len + 3 : g[i] = IF i <= len THEN heap[i] ELSE s[i - len]
  <2>1. \A i \in 1 .. Len(heap) + Len(s) : (heap \o s)[i] = IF i <= Len(heap) THEN heap[i] ELSE s[i - Len(heap)]
    BY DEF s
  <2> QED BY <1>2, <1>4, <2>1
<1> HIDE DEF len, g
<1>6. /\ len + 1 \in 1 .. len + 3 /\ len + 2 \in 1 .. len + 3 /\ len + 3 \in 1 .. len + 3
      /\ ~(len + 1 <= len) /\ ~(len + 2 <= len) /\ ~(len + 3 <= len)
      /\ (len + 1) - len = 1 /\ (len + 2) - len = 2 /\ (len + 3) - len = 3
      /\ len + 1 + 1 = len + 2 /\ len + 1 + 2 = len + 3
  BY <1>3
<1>7. g[len + 1] = r /\ g[len + 2] = x /\ g[len + 3] = y
  BY <1>4, <1>5, <1>6
<1> QED BY <1>1, <1>3, <1>6, <1>7 DEF g, d, k

LEMMA SplitPlaces ==
    ASSUME PInv, SInv', SplitsFit, NEW t \in Threads, Split(t)
    PROVE  ValuesAreKept'
<1> DEFINE b == loc[t].base
           r == Len(heap) + 1
           p == heap[b].parent
           g == SplitNodes(b)
           d == heap[b].data
           k == getMedianVal(d)
<1>1. /\ pc[t] = "split" /\ loc[t] \in Locals /\ LocalOK(heap, loc[t], "split", call[t])
      /\ State(heap, root) /\ HeapOK(heap) /\ HeapJoins(heap, root) /\ root \in Ptr(heap)
      /\ HeapBases(heap, root) /\ BaseJoins(heap, loc[t], "split") /\ Goto(t, loc[t].then, loc[t])
      /\ HeapPlaces(heap, root) /\ call' = call
  BY PlacesState DEF Split, ThreadJoins, Shared, client
<1>2. b \in Ptr(heap) /\ b \notin Routes(heap)
  BY <1>1 DEF LocalOK, BaseOK, BaseJoins
<1>3. p < b /\ p \in Routes(heap) \cup {null} /\ p \in Nat /\ b \in Nat
  BY <1>1, <1>2, HeapBasics DEF HeapJoins, YoungerBelow, NodeOK, Node
<1>4. \A h, rt : ThreadPlaces(h, rt, loc[t], loc[t].then, call[t])
  BY <1>1, ThenHasNoPlaces
<1>5. CASE Len(heap[b].data) >= 2 /\ InPlace(b) /\ Install(b, r, g)
  <2>1. /\ HeapOK(g) /\ Extends(heap, g) /\ AddsSplit(heap, g)
        /\ g[r].key = k /\ g[r].data = <<>>
        /\ g[r + 1].data = splitLeft(d, k) /\ g[r + 2].data = splitRight(d, k)
    BY <1>1, <1>2, <1>5, SplitNodesOK, SplitValues
  <2>2. Replaceable(heap, b)
    BY <1>1, <1>5 DEF SplitsFit, NoLockedSplit, is_replaceable, Replaceable
  <2>3. /\ d \in Seq(Int) /\ Sorted(d) /\ Len(d) >= 2 /\ k <= getMaxValue(d) /\ k \in Int
        /\ \A j \in DOMAIN d : b \in Trail(heap, KeyWay(heap, d[j]), root) /\ d[j] \in Int
    <3>1. d \in Seq(Int) /\ Sorted(d) /\ Len(d) >= 2 /\ k <= getMaxValue(d)
      BY <1>1, <1>2, <1>5, KeysAreInts DEF HeapPlaces, DataSorted, SplitsFit, MediansFit
    <3>2. k \in Int
      <4> HIDE DEF d
      <4>1. Len(d) \in Nat
        BY <3>1, LenProperties
      <4> QED BY <3>1, <4>1, MedianType
    <3>3. \A j \in DOMAIN d : b \in Trail(heap, KeyWay(heap, d[j]), root) /\ d[j] \in Int
      BY <1>1, <1>2, <1>5, <2>2, InPlaceSlot, ReplaceableValues, KeysAreInts
    <3> QED BY <3>1, <3>2, <3>3
  <2>4. p = null \/ Attached(heap, root, p)
    BY <1>1, <1>2, <1>5, <2>2, InPlaceSlot, ReplaceableAttached
  <2>5. p = heap[b].parent /\ d = heap[b].data
    OBVIOUS
  <2> HIDE DEF g, b, p, d
  <2>6. /\ \A j \in Ptr(heap) : g[j] = heap[j] /\ j < r
        /\ Len(heap) <= Len(g) /\ r \notin Ptr(heap) /\ r + 1 \notin Ptr(heap) /\ r + 2 \notin Ptr(heap)
        /\ r \in Nat
        /\ Ptr(g) = Ptr(heap) \cup {r, r + 1, r + 2}
    <3>1. Len(heap) \in Nat
      BY <1>1, HeapBasics
    <3> QED BY <2>1, <3>1 DEF Extends, AddsSplit, Ptr
  <2>7. /\ g[r].type = "route" /\ g[r].left = r + 1 /\ g[r].right = r + 2 /\ g[r].parent = null
        /\ g[r + 1].type = "normal" /\ g[r + 1].parent = r
        /\ g[r + 2].type = "normal" /\ g[r + 2].parent = r
    BY <2>1 DEF AddsSplit
  <2> HIDE DEF r, k
  <2>8. Grows(heap, g)
    BY <2>6, <2>7 DEF Grows
  <2>9. PICK side \in Sides : Puts(g, root, heap', root', p, side, b, r)
    BY <1>1, <1>2, <1>5, <2>1, <2>8, InstallPuts DEF p
  <2>10. Harmless(heap, r) /\ p < r
    <3>1. p < r
      BY <1>2, <1>3, <2>6
    <3> QED BY <2>6, <3>1, NullIsNoNode DEF Harmless
  <2>11. State(heap', root') /\ HeapOK(heap')
    BY NextState
  <2>12. BasePut(heap, root, g, heap', root', p, side, b, r)
    BY <1>1, <1>2, <1>3, <2>1, <2>8, <2>9, <2>10, <2>11 DEF BasePut
  <2>13. Routes(g) \ Ptr(heap) \subseteq {r} /\ r \in Routes(g) /\ r \in Ptr(g)
    BY <2>6, <2>7 DEF Routes
  <2>14. \A y \in Sides : /\ Side(g, r, y) \notin Ptr(heap) /\ Side(g, r, y) \notin Routes(g)
                          /\ g[Side(g, r, y)].parent = r
    <3>1. \A y \in Sides : Side(g, r, y) \in {r + 1, r + 2}
      BY <2>7 DEF Side
    <3> QED BY <2>6, <2>7, <3>1 DEF Routes
  <2>15. /\ "left" \in Sides /\ "right" \in Sides
         /\ Side(g, r, "left") = r + 1 /\ Side(g, r, "right") = r + 2
    BY <2>7 DEF Side, Sides
  <2>16. \A n \in Ptr(g) \ Ptr(heap) : n = r \/ (g[n].parent = r /\ r \in Routes(g)
                                                /\ \E y \in Sides : Side(g, r, y) = n)
    <3>1. \A n \in Ptr(g) \ Ptr(heap) : n \in {r, r + 1, r + 2}
      BY <2>6
    <3> QED BY <2>7, <2>13, <2>15, <3>1
  <2>17. Step(heap, root, heap', root', p, side, b, r, {})
    <3>1. /\ State(heap, root) /\ HeapBases(heap, root) /\ b \in Ptr(heap) /\ p = heap[b].parent
          /\ r \notin Ptr(heap) /\ r \in Ptr(g)
      BY <1>1, <1>2, <2>5, <2>6, <2>13
    <3> QED BY <2>2, <2>11, <2>12, <2>13, <2>14, <2>16, <3>1, RenewStep
  <2>18. KeepsValues(heap, heap') /\ KeepsValues(g, heap') /\ Ptr(heap') = Ptr(g)
    <3>1. g \in Seq(Node) /\ Len(heap) <= Len(g) /\ \A n \in Ptr(heap) : g[n] = heap[n]
      BY <2>1, <2>6 DEF HeapOK
    <3> QED BY <1>1, <1>2, <1>5, <3>1, InstallKeepsValues
  <2>19. /\ r + 1 \in Ptr(g) /\ r + 2 \in Ptr(g)
         /\ heap'[r].key = k /\ heap'[r].data = <<>>
         /\ heap'[r + 1].data = splitLeft(d, k) /\ heap'[r + 2].data = splitRight(d, k)
         /\ \A n \in Ptr(g) : SameButSlots(g[n], heap'[n])
    BY <2>1, <2>6, <2>9, <2>13, <2>18 DEF KeepsValues, Puts
  <2>20. r \in Routes(heap') /\ Side(heap', r, "left") = r + 1 /\ Side(heap', r, "right") = r + 2
    <3>1. r \in Routes(heap')
      BY <2>7, <2>13, <2>18, <2>19 DEF Routes, SameButSlots
    <3>2. p /= r
      BY <1>3, <2>6, <2>10
    <3> QED BY <2>9, <2>13, <2>15, <3>1, <3>2 DEF Puts
  <2>21. /\ Sorted(splitLeft(d, k)) /\ Sorted(splitRight(d, k))
         /\ \A i \in DOMAIN splitLeft(d, k) :
                splitLeft(d, k)[i] <= k /\ \E j \in DOMAIN d : d[j] = splitLeft(d, k)[i]
         /\ \A i \in DOMAIN splitRight(d, k) :
                splitRight(d, k)[i] > k /\ \E j \in DOMAIN d : d[j] = splitRight(d, k)[i]
    <3> DEFINE a == splitLeft(d, k)
               c == splitRight(d, k)
               n == Rank(d, k)
    <3>1. /\ Sorted(a) /\ Sorted(c) /\ Len(a) = n /\ Len(c) = Len(d) - n
          /\ \A i \in 1 .. Len(a) : a[i] = d[i] /\ a[i] <= k
          /\ \A i \in 1 .. Len(c) : c[i] = d[n + i] /\ c[i] > k
      BY <2>3, SplitSorted
    <3>2. n \in 0 .. Len(d) /\ Len(d) \in Nat /\ DOMAIN d = 1 .. Len(d)
      BY <2>3, RankBounds, LenProperties
    <3>3. DOMAIN a = 1 .. Len(a) /\ DOMAIN c = 1 .. Len(c)
      <4>1. a \in Seq(Int) /\ c \in Seq(Int)
        BY <2>3, <3>2, Parts DEF splitLeft, splitRight
      <4> HIDE DEF a, c
      <4> QED BY <4>1, LenProperties
    <3> HIDE DEF a, c, n
    <3>4. \A i \in DOMAIN a : a[i] <= k /\ i \in DOMAIN d /\ d[i] = a[i]
      BY <3>1, <3>2, <3>3
    <3>5. \A i \in DOMAIN c : c[i] > k /\ n + i \in DOMAIN d /\ d[n + i] = c[i]
      BY <3>1, <3>2, <3>3
    <3> QED BY <3>1, <3>4, <3>5 DEF a, c
  <2>22. Sorted(<<>>)
    BY DEF Sorted
  <2>23. \A n \in Ptr(heap') \ Ptr(heap) : n \in {r, r + 1, r + 2} /\ Sorted(heap'[n].data)
    BY <2>6, <2>18, <2>19, <2>21, <2>22
  <2>24. /\ TakesValues(heap, root, heap', b, r, r + 1) /\ TakesValues(heap, root, heap', b, r, r + 2)
    <3>1. \A v \in Int : KeyWay(heap', v)[r] = IF v <= k THEN "left" ELSE "right"
      BY <2>19, <2>20, KeyTurns
    <3>2. \A i \in DOMAIN heap'[r + 1].data :
            LET v == heap'[r + 1].data[i]
            IN  v \in Int /\ v <= k /\ b \in Trail(heap, KeyWay(heap, v), root)
      BY <2>3, <2>19, <2>21
    <3>3. \A i \in DOMAIN heap'[r + 2].data :
            LET v == heap'[r + 2].data[i]
            IN  v \in Int /\ v > k /\ b \in Trail(heap, KeyWay(heap, v), root)
      BY <2>3, <2>19, <2>21
    <3>4. \A v \in Int : ~(v <= k /\ v > k)
      BY <2>3
    <3> QED BY <2>20, <3>1, <3>2, <3>3, <3>4 DEF TakesValues
  <2>25. Divides(heap, heap', b, r)
    BY <2>3, <2>5, <2>19, MedianDivides DEF Divides, k
  <2>26. Renews(heap, root, p, b, r, {})
    BY <1>2, <2>2, <2>4, <2>5, <2>6 DEF Renews
  <2>27. Committed(heap') \ Committed(heap) = {}
    <3>1. \A n \in Ptr(heap) : n \in Committed(heap') => n \in Committed(heap)
      BY <2>6, <2>19 DEF Committed, SameButSlots
    <3>2. \A n \in {r, r + 1, r + 2} : n \notin Committed(heap')
      BY <2>7, <2>13, <2>19 DEF Committed, SameButSlots
    <3> QED BY <2>23, <3>1, <3>2 DEF Committed
  <2>28. Carries(heap, root, heap', root', p, side, b, r, {})
    <3>1. b /= r
      BY <1>2, <2>6
    <3>2. \A n \in Routes(heap') : n \in Ptr(heap) \/ n = r
      <4>1. \A n \in {r + 1, r + 2} : heap'[n].type = "normal"
        BY <2>7, <2>19 DEF SameButSlots
      <4> QED BY <2>23, <4>1 DEF Routes
    <3> QED BY <1>1, <2>17, <2>18, <2>20, <2>23, <2>24, <2>25, <2>26, <2>27, <3>1, <3>2 DEF Carries
  <2>29. Carried
    BY <2>28 DEF Carried
  <2> QED BY <1>1, <1>4, <2>29, PlacesStep
<1>6. CASE heap' = heap /\ root' = root
  BY <1>1, <1>4, <1>6, SamePlacesStep
<1> QED BY <1>5, <1>6 DEF Split

-----------------------------------------------------------------------------
(* A join is published                                                     *)

(* Nothing moves, and the new node is not in the tree yet.                 *)
LEMMA PublishStep ==
    ASSUME BInv, SInv', OutcomesAreFinal, NEW t \in Threads, pc[t] = "publish", root' = root,
           heap[loc[t].m].neigh2 = PREPARING,
           heap' = SetOutcome(Append(heap, Joined(t)), loc[t].m, Len(heap) + 1)
    PROVE  LET new == Len(heap) + 1
               m == loc[t].m
               n1 == loc[t].n1
               p == Parent(t)
           IN  /\ Step(heap, root, heap', root', null, "left", root, root, {})
               /\ Ptr(heap') = Ptr(heap) \cup {new} /\ new \notin Ptr(heap) /\ new \notin Routes(heap')
               /\ ~Elsewhere(heap', root', null, new)
               /\ Committed(heap') \ Committed(heap) \subseteq {m}
               /\ heap'[m].neigh2 = new /\ heap'[m].neigh1 = n1 /\ heap'[m].parent = p
               /\ m \in Ptr(heap) /\ m \notin Committed(heap) /\ heap[m].type = "join_main"
               /\ heap[m].parent = p /\ p \in Routes(heap) /\ Attached(heap, root, p)
               /\ n1 \in Ptr(heap) /\ heap[n1].type = "join_neighbor" /\ heap[n1].main_node = m
               /\ Side(heap', p, loc[t].side) = m /\ Side(heap, p, loc[t].side) = m /\ loc[t].side \in Sides
<1> DEFINE m == loc[t].m
           p == Parent(t)
           g == loc[t].gparent
           n1 == loc[t].n1
           s == heap[m].otherb
           new == Len(heap) + 1
           side == loc[t].side
<1>1. pc[t] \in OwnerLabels /\ pc[t] \in LocksParent \cap LocksGparent
  BY DEF OwnerLabels, LocksParent, LocksGparent
<1>2. /\ JInv /\ State(heap, root) /\ HeapBases(heap, root) /\ HeapOK(heap) /\ HeapJoins(heap, root)
      /\ LocalOK(heap, loc[t], pc[t], call[t]) /\ ThreadSlots(heap, root, loc[t], pc[t])
      /\ ThreadBases(heap, root, loc[t], pc[t]) /\ loc[t] \in Locals /\ root \in Ptr(heap)
  BY BasesState
<1>3. /\ m \in Ptr(heap) /\ heap[m].type = "join_main" /\ m \notin Committed(heap)
      /\ p \in Ptr(heap) /\ p \in Routes(heap) /\ p = heap[m].parent /\ heap[p].join_id = m
      /\ Holds(heap, root, g, p) /\ heap[m].gparent = g /\ heap[m].neigh1 = n1
      /\ OwnSide(heap, root, m, side)
  BY <1>1, <1>2, OwnerState DEF Parent, OwnerJoins
<1>4. /\ g \in Routes(heap) \cup {null} /\ n1 \in Ptr(heap) /\ s \in Ptr(heap)
      /\ heap[n1].type = "join_neighbor" /\ heap[n1].main_node = m /\ side \in Sides
  BY <1>1, <1>2 DEF LocalOK, JoinLocalsOK, OwnerLabels, JoinOK, ThreadSlots, Locals, Sides
<1>5. /\ heap[n1].parent /= null
      /\ s \in Routes(heap) \/ (s = n1 /\ heap[n1].parent = p)
  BY <1>1, <1>2, <1>3 DEF ThreadBases
<1>6. /\ PublishesJoin(heap, m, heap'[new], heap')
      /\ heap'[new].type = "join_neighbor" /\ heap'[new].main_node = m
  <2>1. LET x == heap'[Len(heap) + 1]
        IN  x.type = "join_neighbor" /\ x.main_node = heap[loc[t].n1].main_node
    BY <1>2, PublishedNode
  <2>2. heap' = SetOutcome(Append(heap, Joined(t)), m, new)
    OBVIOUS
  <2>3. PublishesJoin(heap, m, heap'[new], heap')
    <3> HIDE DEF m
    <3> QED BY <1>2, <1>3, <2>2, PublishedHeap
  <2> QED BY <1>4, <2>1, <2>3
<1>7. NeighborsStay(heap, root) /\ MainsStay(heap, root) /\ heap[m].neigh2 = PREPARING
  BY <1>2 DEF HeapBases
<1>8. p = Parent(t) /\ new = Len(heap) + 1
  OBVIOUS
<1> HIDE DEF m, p, g, n1, s, new, side
<1>9. /\ Len(heap) <= Len(heap') /\ Ptr(heap') = Ptr(heap) \cup {new} /\ new \notin Ptr(heap)
      /\ new \in Nat /\ new > 0 /\ heap'[m].neigh2 = new
      /\ \A j \in Ptr(heap) : j /= m => heap'[j] = heap[j]
  BY <1>2, <1>6, HeapBasics DEF PublishesJoin, new
<1>10. \A j \in Ptr(heap) :
          /\ SameLinks(heap[j], heap'[j])
          /\ heap'[j].gparent = heap[j].gparent /\ heap'[j].otherb = heap[j].otherb
          /\ heap'[j].neigh1 = heap[j].neigh1 /\ (j /= m => heap'[j].neigh2 = heap[j].neigh2)
  BY <1>6, <1>9 DEF PublishesJoin, SameLinks
<1>11. /\ Routes(heap') = Routes(heap) /\ Routes(heap) \subseteq Ptr(heap)
       /\ null \notin Ptr(heap) /\ null \notin Routes(heap)
  BY <1>6, <1>9, <1>10, NullIsNoNode DEF Routes, SameLinks
<1>12. \A r \in Routes(heap), y \in Sides :
          Side(heap', r, y) = Side(heap, r, y) /\ Side(heap, r, y) \in Ptr(heap)
  BY <1>2, <1>10, <1>11, SidesOK DEF Side, SameLinks
<1>13. /\ Committed(heap) \subseteq Committed(heap') /\ Committed(heap') \subseteq Committed(heap) \cup {m}
       /\ m \in Committed(heap')
  <2>1. new \notin Unpublished
    BY <1>9 DEF Unpublished, PREPARING, ABORTED
  <2> QED BY <1>3, <1>6, <1>9, <1>10, <2>1 DEF Committed, SameLinks
<1>14. State(heap', root') /\ HeapOK(heap')
  BY NextState
<1>15. heap'[m].parent = p /\ heap'[m].gparent = g /\ heap'[m].otherb = s /\ heap'[m].neigh1 = n1
       /\ heap'[n1].parent = heap[n1].parent
  BY <1>3, <1>4, <1>10 DEF SameLinks, s
<1>16. ~IsCut(heap', root', m)
  BY <1>3, <1>4, <1>12, <1>15 DEF IsCut, Holds
<1>17. Attached(heap, root, p)
  BY <1>2, <1>3, LockedIsAttached
<1>18. Calm(heap, root, heap', root')
  <2>1. SameJoins(heap, heap')
    <3>1. PREPARING /= ABORTED
      BY DEF PREPARING, ABORTED
    <3>2. \A n \in Committed(heap) : n \in Ptr(heap)
      BY DEF Committed
    <3> QED BY <1>7, <1>9, <1>10, <1>13, <3>1, <3>2 DEF SameJoins, SameLinks
  <2>2. SameSlots(heap, root, heap', root')
    BY <1>12 DEF SameSlots
  <2>3. PublishedInPlace(heap, root, heap', root')
    BY <1>3, <1>13, <1>16, <1>17 DEF PublishedInPlace
  <2> QED BY <2>1, <2>2, <2>3 DEF Calm
<1>19. \A r \in Ptr(heap) : Attached(heap', root', r) <=> Attached(heap, root, r)
  BY <1>2, <1>14, <1>18, CalmAttached
<1>20. KeepsNodes(heap, heap')
  <2>1. \A n \in Ptr(heap) : OutcomeMoves(heap[n].neigh2, heap'[n].neigh2)
    BY <1>2, OutcomesMove
  <2>2. \A n \in Committed(heap) : n \in Ptr(heap)
    BY DEF Committed
  <2> QED BY <1>9, <1>10, <2>1, <2>2 DEF KeepsNodes, SameLinks
<1>21. Moves(heap, root, heap', root', null, "left", root, root)
  BY <1>11, <1>12 DEF Moves, Sides
<1>22. CutsFrom(heap, root, heap', root', {})
  BY <1>11, <1>19 DEF CutsFrom
<1>23. Unlinked(heap', root', new) /\ NewBase(heap', root', new)
  BY <1>2, <1>6, <1>9, <1>11, <1>12, <1>13 DEF NewBase, Unlinked
<1>24. NewLinks(heap, heap', root')
  BY <1>2, <1>11, <1>12 DEF NewLinks
<1>25. NewJoin(heap, heap', root', m)
  <2>1. InSlot(heap, root, n1)
    BY <1>4, <1>7 DEF NeighborsStay
  <2>2. \E y \in Sides : Side(heap, heap[n1].parent, y) = n1
    BY <1>5, <2>1 DEF InSlot
  <2>3. heap[n1].parent \in Routes(heap)
    BY <1>2, <1>4, <1>5 DEF HeapOK, NodeOK
  <2>4. heap'[n1].parent /= null /\ \E y \in Sides : Side(heap', heap'[n1].parent, y) = n1
    BY <1>5, <1>12, <1>15, <2>2, <2>3
  <2>5. s \in Routes(heap') \/ (s = n1 /\ heap'[n1].parent = heap'[m].parent)
    BY <1>5, <1>11, <1>15
  <2> QED BY <1>3, <1>9, <1>15, <2>4, <2>5 DEF NewJoin
<1>26. Settled(heap, heap', root')
  BY <1>9, <1>13, <1>23, <1>24, <1>25 DEF Settled
<1>27. Step(heap, root, heap', root', null, "left", root, root, {})
  BY <1>2, <1>14, <1>20, <1>21, <1>22, <1>26 DEF Step, Stands
<1>28. Side(heap, p, side) = m
  <2>1. InSlot(heap, root, m) /\ p /= null
    BY <1>3, <1>7, <1>11 DEF MainsStay, PREPARING, ABORTED
  <2>2. PICK y \in Sides : Side(heap, p, y) = m
    BY <1>3, <2>1 DEF InSlot
  <2>3. Side(heap, p, Opposite(side)) /= m
    BY <1>3, <1>7, <1>17 DEF OwnSide, PREPARING, ABORTED
  <2> QED BY <1>4, <2>2, <2>3 DEF Sides, Opposite
<1>29. ~Elsewhere(heap', root', null, new) /\ new \notin Routes(heap')
  BY <1>9, <1>11, <1>23, <1>12, <1>2 DEF Elsewhere, Unlinked, Attached
<1>30. Side(heap', p, side) = m
  BY <1>3, <1>4, <1>12, <1>28
<1> QED BY <1>3, <1>4, <1>8, <1>9, <1>13, <1>15, <1>17, <1>27, <1>28, <1>29, <1>30 DEF m, n1, side

LEMMA PublishedValues ==
    ASSUME JInv, NEW t \in Threads, pc[t] = "publish",
           heap' = SetOutcome(Append(heap, Joined(t)), loc[t].m, Len(heap) + 1)
    PROVE  LET d == heap[loc[t].m].data
               e == heap[loc[t].n1].data
           IN  /\ KeepsValues(heap, heap')
               /\ heap'[Len(heap) + 1].data = IF loc[t].side = "left" THEN d \o e ELSE e \o d
<1> DEFINE x == Joined(t)
           g == Append(heap, x)
           new == Len(heap) + 1
           m == loc[t].m
           n1 == loc[t].n1
           d == heap[m].data
           e == heap[n1].data
<1>1. x \in Node
  BY JoinedOK DEF JInv
<1>2. HeapOK(heap) /\ m \in Ptr(heap) /\ n1 \in Ptr(heap)
  BY JoinsState DEF LocalOK, JoinLocalsOK, OwnerLabels
<1>3. heap[n1] \in Node
  BY <1>2, HeapBasics
<1>4. x.data = IF loc[t].side = "left" THEN d \o e ELSE e \o d
  BY <1>3 DEF Joined, Node, merge
<1> HIDE DEF x, m, n1, d, e
<1>5. g \in Seq(Node) /\ Adds(heap, x, g)
  BY <1>1, <1>2, AppendAdds DEF HeapOK
<1>6. heap' = [g EXCEPT ![m].neigh2 = new]
  BY DEF x, m, SetOutcome
<1> HIDE DEF g
<1>7. m \in Ptr(g) /\ m /= new /\ Ptr(g) = DOMAIN g /\ new \in Ptr(g)
  <2>1. DOMAIN g = Ptr(g)
    BY <1>5 DEF Ptr
  <2> QED BY <1>2, <1>5, <2>1 DEF Adds
<1>8. heap'[new] = x /\ \A j \in Ptr(g) : j /= m => heap'[j] = g[j]
  BY <1>5, <1>6, <1>7 DEF Adds
<1>9. heap'[m].key = g[m].key /\ heap'[m].data = g[m].data
  <2>1. g[m] \in Node
    BY <1>5, <1>7
  <2>2. heap'[m] = [g[m] EXCEPT !.neigh2 = new]
    BY <1>6, <1>7
  <2> QED BY <2>1, <2>2 DEF Node
<1>10. KeepsValues(heap, heap')
  BY <1>5, <1>8, <1>9 DEF KeepsValues, Adds
<1> QED BY <1>4, <1>8, <1>10 DEF d, e, m, n1

(* The values of a base that no join has made are on the side of the route *)
(* that the base is on.                                                    *)
LEMMA ValuesTurn ==
    ASSUME NEW h, NEW rt, State(h, rt), HeapPlaces(h, rt), NEW n \in Ptr(h), n \notin Routes(h),
           Elsewhere(h, rt, null, n), \A m \in Committed(h) : h[m].neigh2 /= n,
           NEW a \in Routes(h), Attached(h, rt, a), NEW y \in Sides, n \in From(h, Side(h, a, y)),
           NEW i \in DOMAIN h[n].data
    PROVE  IF y = "left" THEN h[n].data[i] <= h[a].key ELSE h[a].key < h[n].data[i]
<1> DEFINE v == h[n].data[i]
<1>1. HeapOK(h) /\ v \in Int /\ h[a].key \in Int
  BY KeysAreInts DEF State
<1>2. n \in Way(h, KeyWay(h, v), rt)
  BY DEF HeapPlaces, ValuesPlaced
<1> HIDE DEF v
<1>3. n \in Trail(h, KeyWay(h, v), rt)
  BY <1>2, Ways DEF State
<1>4. \A r \in Routes(h) : KeyWay(h, v)[r] \in Sides
  BY KeyTurns
<1>5. KeyWay(h, v)[a] = y
  BY <1>3, <1>4, TurnsTo
<1> QED BY <1>1, <1>5, KeyTurns DEF v, Sides

(* The values of the main node and its neighbour, in this order.           *)
LEMMA JoinedInOrder ==
    ASSUME NEW h, NEW rt, State(h, rt), HeapBases(h, rt), HeapPlaces(h, rt), NEW p \in Routes(h),
           Attached(h, rt, p), NEW side \in Sides, NEW m \in Ptr(h), Side(h, p, side) = m,
           h[m].type = "join_main", m \notin Committed(h), h[m].neigh2 = PREPARING,
           NEW n1 \in Ptr(h), h[n1].type = "join_neighbor", h[n1].main_node = m,
           n1 \in Trail(h, NextWay(h, p, side), p)
    PROVE  LET d == h[m].data
               e == h[n1].data
           IN  Sorted(IF side = "left" THEN d \o e ELSE e \o d)
<1> DEFINE d == h[m].data
           e == h[n1].data
           o == Opposite(side)
<1>1. HeapOK(h) /\ p \in Ptr(h) /\ p /= null /\ o \in Sides /\ o /= side /\ NextWay(h, p, side)[p] = o
  BY NextTurns, NullIsNoNode DEF State
<1>2. m \notin Routes(h) /\ n1 \notin Routes(h) /\ n1 \notin Committed(h) /\ n1 /= p
  BY DEF Routes, Committed
<1>3. d \in Seq(Int) /\ e \in Seq(Int) /\ Sorted(d) /\ Sorted(e) /\ h[p].key \in Int
  BY <1>1, KeysAreInts DEF HeapPlaces, DataSorted
<1>4. DOMAIN d = 1 .. Len(d) /\ DOMAIN e = 1 .. Len(e)
  <2> HIDE DEF d, e
  <2> QED BY <1>3, LenProperties
<1>5. \A k \in Committed(h) : h[k].neigh2 /= m /\ h[k].neigh2 /= n1
  <2>1. \A x \in Ptr(h) : x /= DONE
    BY <1>1, HeapBasics DEF DONE
  <2> QED BY <2>1, MergedNodes
<1>6. Elsewhere(h, rt, null, m) /\ m \in From(h, Side(h, p, side))
  BY <1>1, FromRoutes DEF Elsewhere
<1>7. n1 \in From(h, Side(h, p, o))
  BY <1>1, <1>2, TrailChild
<1>8. Elsewhere(h, rt, null, n1)
  <2>1. InSlot(h, rt, n1)
    BY DEF HeapBases, NeighborsStay
  <2>2. h[n1].parent \in Routes(h) \cup {null}
    BY <1>1 DEF HeapOK, NodeOK
  <2>3. ~Detached(h, rt, h[n1].parent)
    BY <1>2, <2>1 DEF HeapBases, CutOutEmpty
  <2> QED BY <1>1, <2>1, <2>2, <2>3, NullIsNoNode DEF InSlot, Elsewhere, Detached
<1>9. \A i \in DOMAIN d : IF side = "left" THEN d[i] <= h[p].key ELSE h[p].key < d[i]
  BY <1>2, <1>5, <1>6, ValuesTurn
<1>10. \A i \in DOMAIN e : IF o = "left" THEN e[i] <= h[p].key ELSE h[p].key < e[i]
  BY <1>1, <1>2, <1>5, <1>7, <1>8, ValuesTurn
<1>11. (side = "left" /\ o = "right") \/ (side = "right" /\ o = "left")
  BY DEF Sides, Opposite
<1>12. \A i \in DOMAIN d : d[i] \in Int
  BY <1>3, <1>4, ElementOfSeq
<1>13. \A i \in DOMAIN e : e[i] \in Int
  BY <1>3, <1>4, ElementOfSeq
<1> HIDE DEF d, e, o
<1>14. CASE side = "left" /\ o = "right"
  <2>1. ASSUME NEW i \in 1 .. Len(d), NEW j \in 1 .. Len(e) PROVE d[i] <= e[j]
    <3>1. d[i] <= h[p].key /\ h[p].key < e[j]
      BY <1>4, <1>9, <1>10, <1>14
    <3>2. d[i] \in Int /\ e[j] \in Int
      BY <1>4, <1>12, <1>13
    <3> QED BY <1>3, <3>1, <3>2
  <2>2. Sorted(d \o e)
    BY <1>3, <2>1, MergeSorted DEF merge
  <2> QED BY <1>14, <2>2 DEF d, e
<1>15. CASE side = "right" /\ o = "left"
  <2>1. ASSUME NEW i \in 1 .. Len(e), NEW j \in 1 .. Len(d) PROVE e[i] <= d[j]
    <3>1. e[i] <= h[p].key /\ h[p].key < d[j]
      BY <1>4, <1>9, <1>10, <1>15
    <3>2. e[i] \in Int /\ d[j] \in Int
      BY <1>4, <1>12, <1>13
    <3> QED BY <1>3, <3>1, <3>2
  <2>2. Sorted(e \o d)
    BY <1>3, <2>1, MergeSorted DEF merge
  <2> QED BY <1>15, <2>2 DEF d, e
<1> QED BY <1>11, <1>14, <1>15

LEMMA PublishPlaces ==
    ASSUME PInv, SInv', OutcomesAreFinal, NEW t \in Threads, Publish(t)
    PROVE  ValuesAreKept'
<1> DEFINE m == loc[t].m
           n1 == loc[t].n1
           p == Parent(t)
           side == loc[t].side
           new == Len(heap) + 1
           d == heap[m].data
           e == heap[n1].data
           undo == IF loc[t].gparent = null THEN "undoParent" ELSE "undoGparent"
<1>1. /\ pc[t] = "publish" /\ root' = root /\ call' = call
      /\ BInv /\ JInv /\ State(heap, root) /\ HeapBases(heap, root) /\ HeapPlaces(heap, root)
      /\ ThreadPlaces(heap, root, loc[t], "publish", call[t])
  BY PlacesState DEF Publish, Shared, client
<1>2. CASE /\ heap[m].neigh2 = PREPARING
           /\ heap' = [Append(heap, Joined(t)) EXCEPT ![m].neigh2 = new]
           /\ Goto(t, "load", loc[t])
  <2>1. heap' = SetOutcome(Append(heap, Joined(t)), m, new)
    BY SMTT(30), <1>2 DEF SetOutcome
  <2>2. /\ Step(heap, root, heap', root', null, "left", root, root, {})
        /\ Ptr(heap') = Ptr(heap) \cup {new} /\ new \notin Ptr(heap) /\ new \notin Routes(heap')
        /\ ~Elsewhere(heap', root', null, new)
        /\ Committed(heap') \ Committed(heap) \subseteq {m}
        /\ heap'[m].neigh2 = new /\ heap'[m].neigh1 = n1 /\ heap'[m].parent = p
        /\ m \in Ptr(heap) /\ m \notin Committed(heap) /\ heap[m].type = "join_main"
        /\ heap[m].parent = p /\ p \in Routes(heap) /\ Attached(heap, root, p)
        /\ n1 \in Ptr(heap) /\ heap[n1].type = "join_neighbor" /\ heap[n1].main_node = m
        /\ Side(heap', p, side) = m /\ Side(heap, p, side) = m /\ side \in Sides
    BY <1>1, <1>2, <2>1, PublishStep
  <2>3. /\ KeepsValues(heap, heap')
        /\ heap'[new].data = IF side = "left" THEN d \o e ELSE e \o d
    BY SMTT(30), <1>1, <2>1, PublishedValues
  <2>4. n1 \in Way(heap, NextWay(heap, p, side), p)
    BY <1>1, <1>2, <2>2 DEF ThreadPlaces
  <2>5. heap[m].neigh2 = PREPARING /\ Goto(t, "load", loc[t]) /\ d = heap[m].data /\ e = heap[n1].data
    BY <1>2
  <2> HIDE DEF m, n1, p, side, new, d, e
  <2>6. n1 \in Trail(heap, NextWay(heap, p, side), p)
    BY <1>1, <2>2, <2>4, NullIsNoNode, Ways
  <2>7. Sorted(heap'[new].data)
    BY <1>1, <2>2, <2>3, <2>5, <2>6, JoinedInOrder
  <2>8. NextTo(heap', m)
    <3>1. /\ State(heap', root') /\ HeapOK(heap') /\ HeapOK(heap) /\ Len(heap) <= Len(heap')
          /\ p \in Ptr(heap) /\ p \in Ptr(heap')
      BY <2>2, StepNodes, NullIsNoNode DEF State, KeepsNodes
    <3>2. SameWay(heap, NextWay(heap, p, side), NextWay(heap', p, side))
      BY <2>2, <2>3, <3>1, SameWays
    <3>3. n1 \in Trail(heap', NextWay(heap', p, side), p)
      BY <2>2, <2>6, <3>1, <3>2, StepKeepsTrail DEF Gone
    <3>4. n1 \in Way(heap', NextWay(heap', p, side), p)
      BY <3>1, <3>3, Ways
    <3> QED BY <2>2, <3>4 DEF NextTo
  <2>9. Combines(heap', m)
    <3>1. heap'[m].data = d /\ heap'[n1].data = e
      BY <2>2, <2>3, <2>5 DEF KeepsValues
    <3>2. heap'[new].data = d \o e \/ heap'[new].data = e \o d
      BY <2>3
    <3> QED BY <2>2, <3>1, <3>2, Zenon DEF Combines
  <2>10. Carries(heap, root, heap', root', null, "left", root, root, {})
    BY <1>1, <2>2, <2>3, <2>7, <2>8, <2>9 DEF Carries
  <2>11. Carried
    BY <2>10 DEF Carried
  <2>12. ThreadPlaces(heap', root', loc[t], "load", call'[t])
    BY NoPlacesYet DEF PlaceLabels
  <2> QED BY <1>1, <2>5, <2>11, <2>12, PlacesStep
<1>3. CASE heap' = heap /\ Goto(t, undo, loc[t])
  <2>1. ThreadPlaces(heap, root, loc[t], undo, call'[t])
    BY NoPlacesYet DEF PlaceLabels
  <2> QED BY <1>1, <1>3, <2>1, SamePlacesStep
<1> QED BY <1>2, <1>3 DEF Publish, Shared

-----------------------------------------------------------------------------
(* The invariant                                                           *)

LEMMA PlacesInit == Init => PInv
<1> SUFFICES ASSUME Init PROVE PInv
  OBVIOUS
<1>1. BInv
  BY BasesInit
<1> DEFINE empty == <<>>
           b == Base(null, empty, 0)
<1>2. empty \in Seq(Int) /\ 0 \in Int /\ null \in Nat
  BY EmptySeq DEF null
<1> HIDE DEF empty
<1>3. b \in Node /\ b.type = "normal" /\ b.data = empty
  BY <1>2, BaseNode
<1> HIDE DEF b
<1>4. heap = <<b>> /\ root = 1
  BY DEF Init, InitTree, b, empty
<1>5. heap[1] = b /\ Ptr(heap) = {1}
  <2>1. heap[1] = b /\ Len(heap) = 1
    BY <1>4
  <2> QED BY <2>1 DEF Ptr
<1>6. Len(empty) = 0 /\ DOMAIN empty = {}
  BY DEF empty
<1>7. Routes(heap) = {} /\ Committed(heap) = {}
  BY <1>3, <1>5 DEF Routes, Committed
<1>8. ValuesPlaced(heap, root)
  BY <1>6, <1>3, <1>5 DEF ValuesPlaced
<1>9. RoutesOrdered(heap, root) /\ MergesNeighbors(heap, root)
  BY <1>7 DEF RoutesOrdered, MergesNeighbors
<1>10. DataSorted(heap)
  BY <1>6, <1>3, <1>5 DEF DataSorted, Sorted
<1>11. \A t \in Threads : pc[t] = "idle"
  BY DEF Init, InitThreads
<1>12. \A t \in Threads : ThreadPlaces(heap, root, loc[t], pc[t], call[t])
  BY <1>11, NoPlacesYet DEF PlaceLabels
<1> QED BY <1>1, <1>8, <1>9, <1>10, <1>12 DEF PInv, ValuesAreKept, HeapPlaces

LEMMA ThreadKeepsPlaces ==
    ASSUME PInv, SInv', OutcomesAreFinal, SplitsFit, NEW t \in Threads, Thread(t)
    PROVE  ValuesAreKept'
BY FreePlaces, ThenPlaces, SearchPlaces, SearchRangePlaces, CheckPlaces, CheckNeighborPlaces,
   ParentPlaces, SiblingPlaces, LockPlaces, StorePlaces, ReadOtherPlaces, MergePlaces, ReplacePlaces,
   CopyPlaces, LockNeighborPlaces, LockMainPlaces, SplitPlaces, PublishPlaces
   DEF Thread

LEMMA PlacesNext == PInv /\ SplitsFit /\ [Next]_vars => PInv'
<1> SUFFICES ASSUME PInv, SplitsFit, [Next]_vars PROVE PInv'
  OBVIOUS
<1>1. SInv' /\ OutcomesAreFinal /\ BInv'
  <2>1. BInv /\ SInv /\ IInv /\ NoLockedSplit
    BY DEF PInv, BInv, SInv, JInv, SplitsFit
  <2> QED BY <2>1, SlotsNextStep, NextOK, BasesNext
<1>2. CASE UNCHANGED vars
  <2>1. heap' = heap /\ root' = root /\ loc' = loc /\ pc' = pc /\ call' = call
    BY <1>2 DEF vars, client
  <2>2. ValuesAreKept'
    BY <2>1 DEF PInv, ValuesAreKept
  <2> QED BY <1>1, <2>2 DEF PInv
<1>3. CASE \E t \in Threads : Thread(t)
  BY <1>1, <1>3, ThreadKeepsPlaces DEF PInv
<1> QED BY <1>2, <1>3 DEF Next, Finished

LEMMA PlacesInductive == Spec /\ []SplitsFit => []PInv
<1>1. PInv /\ SplitsFit /\ [Next]_vars => PInv'
  BY PlacesNext
<1> QED BY <1>1, PlacesInit, PTL DEF Spec

-----------------------------------------------------------------------------
(* What the runs check of it                                               *)

LEMMA BaseOfIsBase ==
    ASSUME PInv, NEW k \in Int
    PROVE  BaseOf(k) \in Trail(heap, KeyWay(heap, k), root) /\ BaseOf(k) \notin Routes(heap)
<1> DEFINE f == KeyWay(heap, k)
           go(r) == IF k <= heap[r].key THEN heap[r].left ELSE heap[r].right
           step(w) == [r \in Pointers |-> IF ~IsRoute(r) THEN r ELSE w[go(r)]]
           B(r) == {x \in Trail(heap, f, r) : x \notin Routes(heap)}
           F == [r \in Pointers |-> CHOOSE x \in B(r) : TRUE]
           walk == CHOOSE w : w = step(w)
<1>1. /\ HeapOK(heap) /\ YoungerBelow(heap) /\ root \in Ptr(heap) /\ Pointers = Ptr(heap)
      /\ \A r \in Pointers : IsRoute(r) <=> r \in Routes(heap)
  BY BasesOfTree, JoinsTree DEF PInv, HeapJoins
<1>2. \A r \in Routes(heap) : go(r) = Side(heap, r, f[r]) /\ go(r) \in Ptr(heap) /\ go(r) > r
  <2> SUFFICES ASSUME NEW r \in Routes(heap)
               PROVE  go(r) = Side(heap, r, f[r]) /\ go(r) \in Ptr(heap) /\ go(r) > r
    OBVIOUS
  <2>1. f[r] = IF k <= heap[r].key THEN "left" ELSE "right"
    BY KeyTurns
  <2>2. go(r) = Side(heap, r, f[r])
    <3> HIDE DEF f
    <3> QED BY <2>1 DEF Side
  <2>3. go(r) \in Ptr(heap) /\ go(r) > r
    BY <1>1 DEF HeapOK, NodeOK, Routes, YoungerBelow
  <2> QED BY <2>2, <2>3
<1> HIDE DEF f
<1>3. \A r \in Ptr(heap) : B(r) = IF r \in Routes(heap) THEN B(go(r)) ELSE {r}
  <2> SUFFICES ASSUME NEW r \in Ptr(heap) PROVE B(r) = IF r \in Routes(heap) THEN B(go(r)) ELSE {r}
    OBVIOUS
  <2>1. Trail(heap, f, r) = IF heap[r].type = "route" THEN {r} \cup Trail(heap, f, Side(heap, r, f[r])) ELSE {r}
    BY <1>1, TrailTurns
  <2>2. r \in Routes(heap) <=> heap[r].type = "route"
    BY DEF Routes
  <2>3. CASE r \in Routes(heap)
    <3>1. Trail(heap, f, r) = {r} \cup Trail(heap, f, go(r))
      BY <1>2, <2>1, <2>2, <2>3
    <3> HIDE DEF go
    <3> QED BY <2>3, <3>1
  <2>4. CASE r \notin Routes(heap)
    BY <2>1, <2>2, <2>4
  <2> QED BY <2>3, <2>4
<1> HIDE DEF B
<1>4. F = step(F)
  <2>1. ASSUME NEW r \in Ptr(heap) PROVE F[r] = IF ~IsRoute(r) THEN r ELSE F[go(r)]
    <3>1. CASE r \in Routes(heap)
      <4>1. go(r) \in Ptr(heap) /\ B(r) = B(go(r)) /\ IsRoute(r)
        BY <1>1, <1>2, <1>3, <3>1
      <4> HIDE DEF go
      <4> QED BY <1>1, <4>1
    <3>2. CASE r \notin Routes(heap)
      <4>1. B(r) = {r} /\ ~IsRoute(r)
        BY <1>1, <1>3, <3>2
      <4> QED BY <1>1, <4>1
    <3> QED BY <3>1, <3>2
  <2> HIDE DEF F, go
  <2>2. F = [r \in Pointers |-> F[r]]
    BY DEF F
  <2> QED BY <1>1, <2>1, <2>2
<1>5. walk = step(walk)
  <2> HIDE DEF F, step
  <2> QED BY <1>4
<1>6. BaseOf(k) = walk[root]
  BY SMTT(30) DEF BaseOf
<1> HIDE DEF walk
<1>7. \A r \in Ptr(heap) : walk[r] = IF r \in Routes(heap) THEN walk[go(r)] ELSE r
  <2> HIDE DEF go
  <2> QED BY <1>1, <1>5
<1> DEFINE T == {r \in Ptr(heap) : walk[r] \notin B(r)}
<1>8. T = {}
  <2> SUFFICES ASSUME T /= {} PROVE FALSE
    OBVIOUS
  <2>1. Len(heap) \in Nat
    BY <1>1 DEF HeapOK
  <2>2. T \in SUBSET Nat /\ \A j \in T : j <= Len(heap)
    BY <2>1 DEF Ptr
  <2>3. PICK j \in T : \A i \in T : i <= j
    <3> HIDE DEF T
    <3> QED BY <2>1, <2>2, Youngest
  <2>4. j \in Ptr(heap) /\ walk[j] \notin B(j)
    OBVIOUS
  <2>5. ASSUME NEW i \in Ptr(heap), i > j PROVE walk[i] \in B(i)
    <3>1. i \in Nat /\ j \in Nat
      BY <2>2 DEF Ptr
    <3> QED BY <2>3, <2>5, <3>1
  <2> HIDE DEF T, F, step
  <2>6. CASE j \in Routes(heap)
    <3>1. go(j) \in Ptr(heap) /\ go(j) > j /\ walk[j] = walk[go(j)] /\ B(j) = B(go(j))
      BY <1>2, <1>3, <1>7, <2>4, <2>6
    <3> HIDE DEF go
    <3> QED BY <2>4, <2>5, <3>1
  <2>7. CASE j \notin Routes(heap)
    BY <1>3, <1>7, <2>4, <2>7
  <2> QED BY <2>6, <2>7
<1>9. walk[root] \in B(root)
  BY <1>1, <1>8
<1> QED BY <1>6, <1>9 DEF B, f

LEMMA TreeIsElsewhere ==
    ASSUME NEW h, NEW rt, HeapOK(h), HeapJoins(h, rt), rt \in Ptr(h), NEW n \in Below(h, rt)
    PROVE  Elsewhere(h, rt, null, n)
<1>1. CASE n = rt
  BY <1>1 DEF Elsewhere
<1>2. CASE n /= rt
  <2>1. PICK r \in Below(h, rt) : r \in Routes(h) /\ \E z \in Sides : Side(h, r, z) = n
    BY <1>2, TreeSlot
  <2>2. Attached(h, rt, r) /\ r /= null
    BY <2>1, TreeIsAttached, NullIsNoNode
  <2> QED BY <2>1, <2>2 DEF Elsewhere
<1> QED BY <1>1, <1>2

(* The main node of a join that has not cut out its route is where its own *)
(* values lead to.                                                         *)
LEMMA MainIsPlaced ==
    ASSUME NEW h, NEW rt, State(h, rt), HeapBases(h, rt), HeapPlaces(h, rt), NEW m \in Committed(h),
           ~IsCut(h, rt, m), NEW v \in Int, HoldsValue(h, m, v)
    PROVE  m \in Trail(h, KeyWay(h, v), rt) /\ m \notin Routes(h)
<1>1. HeapOK(h) /\ HeapJoins(h, rt) /\ rt \in Ptr(h)
  BY DEF State
<1>2. /\ m \in Ptr(h) \ Routes(h) /\ h[m].type = "join_main" /\ h[m].neigh2 /= ABORTED
      /\ h[m].parent \in Routes(h) /\ h[m].parent /= null
  BY <1>1, CommittedRoutes, NullIsNoNode DEF Unpublished, Routes
<1>3. Attached(h, rt, h[m].parent)
  BY CutWithRoute
<1>4. Elsewhere(h, rt, null, m)
  <2>1. InSlot(h, rt, m)
    BY <1>2 DEF HeapBases, MainsStay
  <2> QED BY <1>2, <1>3, <2>1 DEF InSlot, Elsewhere
<1>5. PICK i \in DOMAIN h[m].data : h[m].data[i] = v
  <2>1. h[m].data \in Seq(Int)
    BY <1>1, <1>2, KeysAreInts
  <2> QED BY <2>1 DEF HoldsValue, contains
<1>6. ASSUME NEW k \in Committed(h), h[k].neigh2 = m PROVE FALSE
  <2>1. h[k].neigh2 /= DONE
    BY <1>1, <1>2, <1>6, HeapBasics DEF DONE
  <2> QED BY <1>1, <1>2, <1>6, <2>1, MergedNodes
<1>7. m \in Way(h, KeyWay(h, v), rt)
  BY <1>2, <1>4, <1>5, <1>6 DEF HeapPlaces, ValuesPlaced
<1> QED BY <1>1, <1>2, <1>7, Ways

LEMMA ValuesFound == PInv => Placement
<1> SUFFICES ASSUME PInv, NEW b \in InTree, ~IsRoute(b), NEW i \in DOMAIN heap[b].data
             PROVE  LET k == BaseOf(heap[b].data[i])
                    IN  k = b \/ (Published(k) /\ heap[k].neigh2 = b)
  BY DEF Placement
<1> DEFINE v == heap[b].data[i]
           k == BaseOf(v)
<1>1. /\ State(heap, root) /\ HeapBases(heap, root) /\ HeapPlaces(heap, root)
      /\ HeapOK(heap) /\ HeapJoins(heap, root) /\ HeapSlots(heap, root) /\ root \in Ptr(heap)
  BY JoinsTree DEF PInv, BInv, BasesAreHeld, SInv, SlotsAreKept, ValuesAreKept, State
<1>2. /\ InTree = Below(heap, root) /\ Pointers = Ptr(heap) /\ Below(heap, root) \subseteq Ptr(heap)
      /\ \A n \in Pointers : IsRoute(n) <=> n \in Routes(heap)
      /\ \A m \in Committed(heap) : m \in Pointers /\ (heap[m].neigh2 /= DONE => Published(m))
  BY <1>1, BasesOfTree, TreeOf DEF PInv
<1>3. b \in Ptr(heap) /\ b \notin Routes(heap) /\ Elsewhere(heap, root, null, b)
  BY <1>1, <1>2, TreeIsElsewhere
<1>4. v \in Int
  BY <1>1, <1>3, KeysAreInts
<1>5. k \in Trail(heap, KeyWay(heap, v), root) /\ k \notin Routes(heap)
  BY <1>4, BaseOfIsBase
<1>6. \/ b \in Way(heap, KeyWay(heap, v), root)
      \/ \E m \in Committed(heap) : heap[m].neigh2 = b /\ HoldsValue(heap, m, v) /\ ~IsCut(heap, root, m)
  BY <1>1, <1>3 DEF HeapPlaces, ValuesPlaced
<1> HIDE DEF v, k
<1>7. CASE b \in Way(heap, KeyWay(heap, v), root)
  <2>1. b \in Trail(heap, KeyWay(heap, v), root)
    BY <1>1, <1>7, Ways
  <2>2. k = b
    BY <1>1, <1>3, <1>5, <2>1, OneBase
  <2> QED BY <2>2 DEF k, v
<1>8. CASE \E m \in Committed(heap) : heap[m].neigh2 = b /\ HoldsValue(heap, m, v) /\ ~IsCut(heap, root, m)
  <2>1. PICK m \in Committed(heap) : heap[m].neigh2 = b /\ HoldsValue(heap, m, v) /\ ~IsCut(heap, root, m)
    BY <1>8
  <2>2. m \in Trail(heap, KeyWay(heap, v), root) /\ m \notin Routes(heap)
    BY <1>1, <1>4, <2>1, MainIsPlaced
  <2>3. k = m
    BY <1>1, <1>5, <2>2, OneBase
  <2>4. Published(m)
    BY <1>1, <1>2, <1>3, <2>1, HeapBasics DEF DONE
  <2> QED BY <2>1, <2>3, <2>4 DEF k, v
<1> QED BY <1>6, <1>7, <1>8

(* Unless a full base is split that a join has locked, or at a median that *)
(* is above all of its values, the keys of the routes lead to every value, *)
(* or to the main node of a join that has merged it, and a search that is  *)
(* underway still leads there (lfca.cpp:264-277).                          *)
THEOREM ValuesStayPlaced == Spec /\ []SplitsFit => []ValuesAreKept
<1>1. PInv => ValuesAreKept
  BY DEF PInv
<1> QED BY <1>1, PlacesInductive, PTL

(* So find_base_node reaches, for every value in the tree, the base that   *)
(* holds it, or the main node of the join whose merged node does: an       *)
(* insert puts a value where a later lookup will look for it.              *)
THEOREM ValuesArePlaced == Spec /\ []SplitsFit => []Placement
BY ValuesFound, PlacesInductive, PTL
=============================================================================
