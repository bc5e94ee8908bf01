--------------------------- MODULE LfcaTree_proofs ---------------------------
(***************************************************************************)
(* Proofs that WellFormed, and with it TypeOK, Capacity and                *)
(* JoinOutcomeIsFinal, hold of LfcaTree for any number of threads, any     *)
(* programs and any treap size.                                            *)
(***************************************************************************)
EXTENDS LfcaInvariant, TreapSeq_proofs

(* What a step may not change in the nodes of heap h, for the locals of    *)
(* the other threads to stay meaningful in heap g.                         *)
Keeps(h, g, n) ==
    /\ g[n].type = h[n].type
    /\ g[n].data = h[n].data
    /\ g[n].parent = h[n].parent
    /\ g[n].main_node = h[n].main_node
    /\ JoinOK(h, n) => JoinOK(g, n)
    /\ h[n].neigh2 \notin Unpublished =>
        g[n].neigh2 \notin Unpublished /\ g[n].gparent = h[n].gparent

Extends(h, g) ==
    /\ Len(h) <= Len(g)
    /\ \A n \in Ptr(h) : Keeps(h, g, n)

-----------------------------------------------------------------------------
LEMMA HeapBasics ==
    ASSUME NEW h, HeapOK(h)
    PROVE  /\ Len(h) \in Nat
           /\ Ptr(h) \subseteq Nat \ {null}
           /\ \A n \in Ptr(h) : h[n] \in Node /\ NodeOK(h, n)
BY LenProperties, ElementOfSeq DEF HeapOK, Ptr, null

LEMMA HeapExtendsItself ==
    ASSUME NEW h, HeapOK(h)
    PROVE  Extends(h, h)
BY HeapBasics DEF Extends, Keeps

(* A node may be given other mutable fields.                               *)
LEMMA RewriteNode ==
    ASSUME NEW h, HeapOK(h), NEW i \in Ptr(h), NEW x \in Node,
           x.type = h[i].type, x.data = h[i].data,
           x.parent = h[i].parent, x.main_node = h[i].main_node,
           x.type = "route" => x.left \in Ptr(h) /\ x.right \in Ptr(h),
           x.type = "normal" => x.neigh2 = PREPARING,
           x.type = "join_main" /\ x.neigh2 \notin Unpublished =>
               /\ x.neigh1 \in Ptr(h) /\ x.otherb \in Ptr(h)
               /\ x.gparent \in Routes(h) \cup {null}
               /\ x.neigh2 /= DONE => x.neigh2 \in Ptr(h),
           JoinOK(h, i) =>
               /\ x.neigh1 \in Ptr(h) /\ x.otherb \in Ptr(h)
               /\ x.gparent \in Routes(h) \cup {null},
           h[i].neigh2 \notin Unpublished => x.neigh2 \notin Unpublished /\ x.gparent = h[i].gparent
    PROVE  LET g == [h EXCEPT ![i] = x]
           IN  /\ HeapOK(g) /\ Extends(h, g)
               /\ Len(g) = Len(h)
               /\ \A j \in Ptr(h) : g[j] = IF j = i THEN x ELSE h[j]
<1> DEFINE g == [h EXCEPT ![i] = x]
<1>1. g \in Seq(Node) /\ Len(g) = Len(h)
  BY ExceptSeq DEF HeapOK, Ptr
<1>2. \A j \in Ptr(h) : g[j] = IF j = i THEN x ELSE h[j]
  BY ExceptSeq DEF HeapOK, Ptr
<1> HIDE DEF g
<1>3. Ptr(g) = Ptr(h) /\ Routes(g) = Routes(h)
  BY <1>1, <1>2 DEF Ptr, Routes
<1>4. ASSUME NEW n \in Ptr(h) PROVE NodeOK(g, n)
  <2>1. NodeOK(h, n) /\ NodeOK(h, i)
    BY DEF HeapOK
  <2>2. CASE n = i
    BY <1>2, <1>3, <2>1, <2>2 DEF NodeOK, JoinOK
  <2>3. CASE n /= i
    BY <1>2, <1>3, <2>1, <2>3 DEF NodeOK, JoinOK
  <2> QED BY <2>2, <2>3
<1>5. ASSUME NEW n \in Ptr(h) PROVE Keeps(h, g, n)
  BY <1>2, <1>3 DEF Keeps, JoinOK
<1>6. Len(h) <= Len(g)
  BY <1>1, HeapBasics
<1> QED BY <1>1, <1>2, <1>3, <1>4, <1>5, <1>6 DEF HeapOK, Extends, g

(* A node may be added.                                                    *)
LEMMA AddNode ==
    ASSUME NEW h, HeapOK(h), NEW x \in Node,
           Len(x.data) <= TREAP_NODES,
           x.type = "route" => x.left \in Ptr(h) /\ x.right \in Ptr(h),
           x.parent \in Routes(h) \cup {null},
           x.type = "normal" => x.neigh2 = PREPARING,
           x.type = "join_main" => x.parent /= null,
           x.type = "join_main" /\ x.neigh2 \notin Unpublished =>
               /\ x.neigh1 \in Ptr(h) /\ x.otherb \in Ptr(h)
               /\ x.gparent \in Routes(h) \cup {null}
               /\ x.neigh2 /= DONE => x.neigh2 \in Ptr(h),
           x.type = "join_neighbor" => x.main_node \in Ptr(h) /\ h[x.main_node].type = "join_main"
    PROVE  LET g == Append(h, x)
           IN  /\ HeapOK(g) /\ Extends(h, g)
               /\ Len(g) = Len(h) + 1 /\ Len(h) + 1 \in Ptr(g)
               /\ \A j \in Ptr(h) : g[j] = h[j]
               /\ g[Len(h) + 1] = x
<1> DEFINE g == Append(h, x)
           new == Len(h) + 1
<1>1. Len(h) \in Nat /\ h \in Seq(Node)
  BY HeapBasics DEF HeapOK
<1>2. g \in Seq(Node) /\ Len(g) = new /\ g[new] = x
  BY <1>1
<1>3. \A j \in Ptr(h) : g[j] = h[j]
  BY <1>1 DEF Ptr
<1> HIDE DEF g
<1>4. /\ Ptr(g) = Ptr(h) \cup {new} /\ new \notin Ptr(h)
      /\ Routes(h) \subseteq Routes(g)
  BY <1>1, <1>2, <1>3 DEF Ptr, Routes
<1>5. ASSUME NEW n \in Ptr(g) PROVE NodeOK(g, n)
  <2>1. CASE n = new
    BY <1>2, <1>3, <1>4, <2>1 DEF NodeOK, JoinOK
  <2>2. CASE n \in Ptr(h)
    <3>1. NodeOK(h, n) /\ g[n] = h[n]
      BY <1>3, <2>2 DEF HeapOK
    <3> QED BY <1>3, <1>4, <3>1 DEF NodeOK, JoinOK
  <2> QED BY <1>4, <2>1, <2>2
<1>6. ASSUME NEW n \in Ptr(h) PROVE Keeps(h, g, n)
  BY <1>3, <1>4 DEF Keeps, JoinOK
<1>7. HeapOK(g) /\ Extends(h, g) /\ new \in Ptr(g)
  BY <1>1, <1>2, <1>4, <1>5, <1>6 DEF HeapOK, Extends
<1> QED BY <1>2, <1>3, <1>7 DEF g

(* Changes add up.                                                         *)
LEMMA ExtendsTransitive ==
    ASSUME NEW h, NEW g, NEW f, HeapOK(h), HeapOK(g), HeapOK(f), Extends(h, g), Extends(g, f)
    PROVE  Extends(h, f)
<1>1. Len(h) \in Nat /\ Len(g) \in Nat /\ Len(f) \in Nat
  BY HeapBasics
<1>2. Ptr(h) \subseteq Ptr(g) /\ Len(h) <= Len(f)
  BY <1>1 DEF Extends, Ptr
<1>3. ASSUME NEW n \in Ptr(h) PROVE Keeps(h, f, n)
  <2>1. Keeps(h, g, n) /\ Keeps(g, f, n)
    BY <1>2 DEF Extends
  <2> QED BY <2>1 DEF Keeps
<1> QED BY <1>2, <1>3 DEF Extends

-----------------------------------------------------------------------------
(* The fields of a node but left, right, valid, join_id.                   *)
SameBase(x, y) ==
    /\ y.type = x.type /\ y.key = x.key /\ y.data = x.data /\ y.stat = x.stat
    /\ y.parent = x.parent /\ y.main_node = x.main_node
    /\ y.neigh1 = x.neigh1 /\ y.neigh2 = x.neigh2 /\ y.gparent = x.gparent /\ y.otherb = x.otherb

(* The assignments to the fields of routes.                                *)
LEMMA RouteEdits ==
    ASSUME NEW x \in Node, NEW c \in Nat, NEW v \in BOOLEAN
    PROVE  /\ LET y == [x EXCEPT !.left = c]
              IN  y \in Node /\ SameBase(x, y) /\ y.left = c /\ y.right = x.right
           /\ LET y == [x EXCEPT !.right = c]
              IN  y \in Node /\ SameBase(x, y) /\ y.left = x.left /\ y.right = c
           /\ LET y == [x EXCEPT !.join_id = c]
              IN  y \in Node /\ SameBase(x, y) /\ y.left = x.left /\ y.right = x.right
           /\ LET y == [x EXCEPT !.valid = v]
              IN  y \in Node /\ SameBase(x, y) /\ y.left = x.left /\ y.right = x.right
BY DEF Node, SameBase

LEMMA NodeTypes_ ==
    ASSUME NEW x \in Node
    PROVE  /\ x.type \in NodeTypes /\ x.key \in Int /\ x.data \in Seq(Int) /\ x.stat \in Int
           /\ x.left \in Nat /\ x.right \in Nat /\ x.parent \in Nat /\ x.main_node \in Nat
           /\ x.neigh1 \in Nat /\ x.gparent \in Nat /\ x.otherb \in Nat
           /\ x.neigh2 \in Nat \cup {DONE, ABORTED}
BY DEF Node

(* A heap in which only the fields of routes have changed.                 *)
SameBases(h, g) == Len(g) = Len(h) /\ \A n \in Ptr(h) : SameBase(h[n], g[n])

LEMMA RewriteRoute ==
    ASSUME NEW h, HeapOK(h), NEW i \in Ptr(h), NEW x \in Node, SameBase(h[i], x),
           x.type = "route" => x.left \in Ptr(h) /\ x.right \in Ptr(h)
    PROVE  LET g == [h EXCEPT ![i] = x]
           IN  HeapOK(g) /\ Extends(h, g) /\ SameBases(h, g)
<1> DEFINE g == [h EXCEPT ![i] = x]
<1>1. NodeOK(h, i)
  BY DEF HeapOK
<1>2. /\ HeapOK(g) /\ Extends(h, g)
      /\ Len(g) = Len(h)
      /\ \A j \in Ptr(h) : g[j] = IF j = i THEN x ELSE h[j]
  <2>1. x.type = "normal" => x.neigh2 = PREPARING
    BY <1>1 DEF NodeOK, SameBase
  <2>2. x.type = "join_main" /\ x.neigh2 \notin Unpublished =>
               /\ x.neigh1 \in Ptr(h) /\ x.otherb \in Ptr(h)
               /\ x.gparent \in Routes(h) \cup {null}
               /\ x.neigh2 /= DONE => x.neigh2 \in Ptr(h)
    BY <1>1 DEF NodeOK, JoinOK, SameBase
  <2>3. JoinOK(h, i) =>
               /\ x.neigh1 \in Ptr(h) /\ x.otherb \in Ptr(h)
               /\ x.gparent \in Routes(h) \cup {null}
    BY DEF JoinOK, SameBase
  <2>4. h[i].neigh2 \notin Unpublished => x.neigh2 \notin Unpublished /\ x.gparent = h[i].gparent
    BY DEF SameBase
  <2>5. x.type = h[i].type /\ x.data = h[i].data /\ x.parent = h[i].parent /\ x.main_node = h[i].main_node
    BY DEF SameBase
  <2> QED BY <2>1, <2>2, <2>3, <2>4, <2>5, RewriteNode
<1> HIDE DEF g
<1>3. SameBases(h, g)
  BY <1>2 DEF SameBases, SameBase
<1> QED BY <1>2, <1>3 DEF g

LEMMA SetChildOK ==
    ASSUME NEW h, HeapOK(h), NEW p \in Ptr(h), NEW c \in Ptr(h), NEW side
    PROVE  LET g == SetChild(h, p, side, c)
           IN  HeapOK(g) /\ Extends(h, g) /\ SameBases(h, g)
<1>1. h[p] \in Node /\ NodeOK(h, p) /\ c \in Nat
  BY HeapBasics
<1>2. CASE side = "left"
  <2> DEFINE x == [h[p] EXCEPT !.left = c]
  <2>1. x \in Node /\ SameBase(h[p], x) /\ x.left = c /\ x.right = h[p].right
    BY <1>1, RouteEdits
  <2>2. SetChild(h, p, side, c) = [h EXCEPT ![p] = x]
    BY <1>2 DEF SetChild
  <2> HIDE DEF x
  <2>3. x.type = "route" => x.left \in Ptr(h) /\ x.right \in Ptr(h)
    BY <1>1, <2>1 DEF NodeOK, SameBase
  <2>4. LET g == [h EXCEPT ![p] = x]
        IN  HeapOK(g) /\ Extends(h, g) /\ SameBases(h, g)
    BY <2>1, <2>3, RewriteRoute
  <2> QED BY <2>2, <2>4
<1>3. CASE side /= "left"
  <2> DEFINE x == [h[p] EXCEPT !.right = c]
  <2>1. x \in Node /\ SameBase(h[p], x) /\ x.left = h[p].left /\ x.right = c
    BY <1>1, RouteEdits
  <2>2. SetChild(h, p, side, c) = [h EXCEPT ![p] = x]
    BY <1>3 DEF SetChild
  <2> HIDE DEF x
  <2>3. x.type = "route" => x.left \in Ptr(h) /\ x.right \in Ptr(h)
    BY <1>1, <2>1 DEF NodeOK, SameBase
  <2>4. LET g == [h EXCEPT ![p] = x]
        IN  HeapOK(g) /\ Extends(h, g) /\ SameBases(h, g)
    BY <2>1, <2>3, RewriteRoute
  <2> QED BY <2>2, <2>4
<1> QED BY <1>2, <1>3

LEMMA SetJoinIdOK ==
    ASSUME NEW h, HeapOK(h), NEW p \in Ptr(h), NEW m \in Nat
    PROVE  LET g == [h EXCEPT ![p].join_id = m]
           IN  HeapOK(g) /\ Extends(h, g) /\ SameBases(h, g)
<1> DEFINE x == [h[p] EXCEPT !.join_id = m]
<1>1. h[p] \in Node /\ NodeOK(h, p)
  BY HeapBasics
<1>2. x \in Node /\ SameBase(h[p], x) /\ x.left = h[p].left /\ x.right = h[p].right
  BY <1>1, RouteEdits
<1> HIDE DEF x
<1>3. x.type = "route" => x.left \in Ptr(h) /\ x.right \in Ptr(h)
  BY <1>1, <1>2 DEF NodeOK, SameBase
<1>4. [h EXCEPT ![p].join_id = m] = [h EXCEPT ![p] = x]
  BY DEF x
<1> QED BY <1>2, <1>3, <1>4, RewriteRoute

LEMMA SetValidOK ==
    ASSUME NEW h, HeapOK(h), NEW p \in Ptr(h), NEW v \in BOOLEAN
    PROVE  LET g == [h EXCEPT ![p].valid = v]
           IN  HeapOK(g) /\ Extends(h, g) /\ SameBases(h, g)
<1> DEFINE x == [h[p] EXCEPT !.valid = v]
<1>1. h[p] \in Node /\ NodeOK(h, p)
  BY HeapBasics
<1>2. x \in Node /\ SameBase(h[p], x) /\ x.left = h[p].left /\ x.right = h[p].right
  BY <1>1, RouteEdits
<1> HIDE DEF x
<1>3. x.type = "route" => x.left \in Ptr(h) /\ x.right \in Ptr(h)
  BY <1>1, <1>2 DEF NodeOK, SameBase
<1>4. [h EXCEPT ![p].valid = v] = [h EXCEPT ![p] = x]
  BY DEF x
<1> QED BY <1>2, <1>3, <1>4, RewriteRoute

(* The only assignments to neigh2: a published join may become DONE, and   *)
(* any other ABORTED.                                                      *)
LEMMA SetOutcomeOK ==
    ASSUME NEW h, HeapOK(h), NEW m \in Ptr(h), h[m].type = "join_main",
           NEW o \in {DONE, ABORTED}, o = ABORTED <=> h[m].neigh2 \in Unpublished
    PROVE  LET g == [h EXCEPT ![m].neigh2 = o]
           IN  /\ HeapOK(g) /\ Extends(h, g) /\ Len(g) = Len(h)
               /\ \A n \in Ptr(h) : g[n].neigh2 = IF n = m THEN o ELSE h[n].neigh2
<1> DEFINE x == [h[m] EXCEPT !.neigh2 = o]
<1>1. h[m] \in Node /\ NodeOK(h, m)
  BY HeapBasics
<1>2. /\ x \in Node /\ x.neigh2 = o
      /\ x.type = h[m].type /\ x.data = h[m].data /\ x.parent = h[m].parent
      /\ x.main_node = h[m].main_node /\ x.neigh1 = h[m].neigh1
      /\ x.gparent = h[m].gparent /\ x.otherb = h[m].otherb
  BY <1>1 DEF Node
<1>3. DONE \notin Unpublished /\ ABORTED \in Unpublished /\ DONE /= ABORTED
  BY DEF DONE, ABORTED, PREPARING, Unpublished
<1> HIDE DEF x
<1>4. LET g == [h EXCEPT ![m] = x]
      IN  /\ HeapOK(g) /\ Extends(h, g) /\ Len(g) = Len(h)
          /\ \A n \in Ptr(h) : g[n] = IF n = m THEN x ELSE h[n]
  <2>1. x.neigh2 \notin Unpublished => x.neigh2 = DONE /\ JoinOK(h, m)
    BY <1>1, <1>2, <1>3 DEF NodeOK
  <2>2. h[m].neigh2 \notin Unpublished => x.neigh2 \notin Unpublished
    BY <1>2, <1>3
  <2> QED BY <1>2, <2>1, <2>2, RewriteNode DEF JoinOK
<1>5. [h EXCEPT ![m].neigh2 = o] = [h EXCEPT ![m] = x]
  BY DEF x
<1> QED BY <1>2, <1>4, <1>5

-----------------------------------------------------------------------------
(* Paths                                                                   *)

LEMMA PathAppend ==
    ASSUME NEW h, HeapOK(h), NEW s \in Seq(Routes(h)), NEW n \in Ptr(h)
    PROVE  /\ Path(h, Append(s, n))
           /\ n \in Routes(h) => Append(s, n) \in Seq(Routes(h))
<1>1. Routes(h) \subseteq Ptr(h) /\ Len(s) \in Nat
  BY DEF Routes
<1>2. s \in Seq(Ptr(h)) /\ \A i \in 1 .. Len(s) : s[i] \in Routes(h)
  BY <1>1, ElementOfSeq
<1>3. /\ Append(s, n) \in Seq(Ptr(h))
      /\ Len(Append(s, n)) = Len(s) + 1
      /\ \A i \in 1 .. Len(s) : Append(s, n)[i] = s[i]
  BY <1>1, <1>2, AppendProperties
<1>4. Path(h, Append(s, n))
  BY <1>1, <1>2, <1>3 DEF Path
<1>5. n \in Routes(h) => Append(s, n) \in Seq(Routes(h))
  BY AppendProperties
<1> QED BY <1>4, <1>5

LEMMA EmptyPath ==
    ASSUME NEW h
    PROVE  <<>> \in Seq(Routes(h)) /\ Path(h, <<>>)
<1>1. <<>> \in Seq(Routes(h)) /\ <<>> \in Seq(Ptr(h)) /\ Len(<<>>) = 0
  BY EmptySeq
<1> QED BY <1>1 DEF Path

LEMMA RoutesArePath ==
    ASSUME NEW h, NEW s \in Seq(Routes(h))
    PROVE  Path(h, s)
<1>1. Routes(h) \subseteq Ptr(h) /\ Len(s) \in Nat
  BY DEF Routes
<1>2. s \in Seq(Ptr(h)) /\ \A i \in 1 .. Len(s) : s[i] \in Routes(h)
  BY <1>1, ElementOfSeq
<1> QED BY <1>1, <1>2 DEF Path

LEMMA PathFront ==
    ASSUME NEW h, NEW s, Path(h, s), s /= <<>>
    PROVE  Front(s) \in Seq(Routes(h)) /\ Last(s) \in Ptr(h)
<1>1. s \in Seq(Ptr(h)) /\ Len(s) \in Nat \ {0}
  BY LenProperties, EmptySeq DEF Path
<1>2. Last(s) \in Ptr(h)
  BY <1>1, ElementOfSeq DEF Last
<1>3. \A i \in 1 .. Len(s) - 1 : s[i] \in Routes(h)
  BY DEF Path
<1>4. Front(s) \in Seq(Routes(h))
  BY <1>1, <1>3, SubSeqProperties DEF Front
<1> QED BY <1>2, <1>4

LEMMA RoutesFront ==
    ASSUME NEW h, NEW s \in Seq(Routes(h)), s /= <<>>
    PROVE  Front(s) \in Seq(Routes(h)) /\ Last(s) \in Routes(h)
<1>1. Len(s) \in Nat \ {0}
  BY LenProperties, EmptySeq
<1>2. Last(s) \in Routes(h)
  BY <1>1, ElementOfSeq DEF Last
<1>3. Front(s) \in Seq(Routes(h))
  BY RoutesArePath, PathFront
<1> QED BY <1>2, <1>3

-----------------------------------------------------------------------------
(* What a thread knows about the nodes stays true.                         *)

LEMMA PointersGrow ==
    ASSUME NEW h, NEW g, HeapOK(h), HeapOK(g), Extends(h, g)
    PROVE  Ptr(h) \subseteq Ptr(g) /\ Routes(h) \subseteq Routes(g)
<1>1. Len(h) \in Nat /\ Len(g) \in Nat
  BY HeapBasics
<1>2. Ptr(h) \subseteq Ptr(g)
  BY <1>1 DEF Extends, Ptr
<1> QED BY <1>2 DEF Extends, Keeps, Routes

LEMMA PathStable ==
    ASSUME NEW h, NEW g, HeapOK(h), HeapOK(g), Extends(h, g), NEW s, Path(h, s)
    PROVE  Path(g, s)
<1>1. s \in Seq(Ptr(h)) /\ \A i \in 1 .. Len(s) - 1 : s[i] \in Routes(h)
  BY DEF Path
<1> QED BY <1>1, PointersGrow DEF Path

LEMMA LocalStable ==
    ASSUME NEW h, NEW g, HeapOK(h), HeapOK(g), Extends(h, g),
           NEW l, NEW label, NEW c, LocalOK(h, l, label, c)
    PROVE  LocalOK(g, l, label, c)
<1>1. /\ Ptr(h) \subseteq Ptr(g) /\ Routes(h) \subseteq Routes(g)
      /\ \A n \in Ptr(h) : Keeps(h, g, n)
  BY PointersGrow DEF Extends
<1>2. CurOK(g, l, label)
  BY <1>1 DEF LocalOK, CurOK
<1>3. BaseOK(g, l, label)
  BY <1>1 DEF LocalOK, CurOK, BaseOK, Keeps
<1>4. JoinLocalsOK(g, l, label)
  <2>1. JoinLocalsOK(h, l, label) /\ CurOK(h, l, label)
    BY DEF LocalOK
  <2>2. label \in OwnerLabels \cup HelperLabels \cup {"abort"} =>
            l.m \in Ptr(g) /\ Keeps(h, g, l.m) /\ l.m \in Ptr(h)
    BY <1>1, <2>1 DEF JoinLocalsOK
  <2>3. label = "lockNeighbor" => label \in OwnerLabels /\ l.cur \in Ptr(h) /\ Keeps(h, g, l.cur)
    BY <1>1, <2>1 DEF CurOK, OwnerLabels
  <2>4. label = "publish" => label \in OwnerLabels
    BY DEF OwnerLabels
  <2>5. label \in {"findSlot", "unlock"} => label \in HelperLabels
    BY DEF HelperLabels
  <2>6. label \in OwnerLabels \ {"lockNeighbor", "undoMain"} => l.n1 \in Ptr(h) /\ Keeps(h, g, l.n1)
    BY <1>1, <2>1 DEF JoinLocalsOK
  <2> QED BY <1>1, <2>1, <2>2, <2>3, <2>4, <2>5, <2>6 DEF JoinLocalsOK, Keeps
<1>5. StackOK(g, l, label, c)
  <2>1. StackOK(h, l, label, c)
    BY DEF LocalOK
  <2>2. Path(g, l.stack) /\ Path(g, l.backup)
    BY <2>1, PathStable DEF StackOK
  <2>3. l.stack \in Seq(Routes(h)) => l.stack \in Seq(Routes(g))
    BY <1>1
  <2> QED BY <2>1, <2>2, <2>3 DEF StackOK
<1> QED BY <1>2, <1>3, <1>4, <1>5 DEF LocalOK

-----------------------------------------------------------------------------
(* Steps                                                                   *)

(* What a step of t to label with locals l, and to heap g, may not do to   *)
(* the ownership of joins.                                                 *)
KeepsOwners(t, l, label, g) ==
    /\ label \in OwnerLabels =>
        /\ Owns(t, l.m) \/ l.m \notin Ptr(heap)
        /\ g[l.m].neigh2 \in Unpublished
    /\ \A n \in Ptr(heap) :
        heap[n].neigh2 \in Unpublished /\ g[n].neigh2 \notin Unpublished =>
            Owns(t, n) /\ label \notin OwnerLabels

LEMMA ThreadState ==
    ASSUME IInv, NEW t \in Threads
    PROVE  /\ HeapOK(heap) /\ root \in Ptr(heap)
           /\ loc[t] \in Locals /\ pc[t] \in Labels /\ call[t] \in Calls \cup {NoCall}
           /\ LocalOK(heap, loc[t], pc[t], call[t])
           /\ pc[t] \in OwnerLabels => heap[loc[t].m].neigh2 \in Unpublished
BY DEF IInv, TypeOK, WellFormed, OwnersOK

LEMMA StepOK ==
    ASSUME IInv, NEW t \in Threads, NEW label \in Labels, NEW l \in Locals,
           Goto(t, label, l),
           HeapOK(heap'), Extends(heap, heap'), root' \in Ptr(heap'),
           todo' \in [Threads -> Seq(Calls)],
           call' \in [Threads -> Calls \cup {NoCall}],
           reply' \in [Threads -> [result : BOOLEAN, found : Seq(Int)]],
           \A u \in Threads : u /= t => call'[u] = call[u],
           LocalOK(heap', l, label, call'[t]),
           KeepsOwners(t, l, label, heap')
    PROVE  IInv'
<1>1. /\ pc' = [pc EXCEPT ![t] = label] /\ loc' = [loc EXCEPT ![t] = l]
      /\ pc \in [Threads -> Labels] /\ loc \in [Threads -> Locals]
  BY DEF Goto, IInv, TypeOK
<1>2. /\ pc'[t] = label /\ loc'[t] = l
      /\ \A u \in Threads : u /= t => pc'[u] = pc[u] /\ loc'[u] = loc[u]
  BY <1>1
<1>3. TypeOK'
  <2>1. root' \in Nat
    BY HeapBasics
  <2> QED BY <1>1, <2>1 DEF TypeOK, HeapOK
<1>4. ASSUME NEW u \in Threads PROVE LocalOK(heap', loc'[u], pc'[u], call'[u])
  <2>1. CASE u = t
    BY <1>2, <2>1
  <2>2. CASE u /= t
    <3>1. LocalOK(heap, loc[u], pc[u], call[u]) /\ HeapOK(heap)
      BY ThreadState
    <3>2. LocalOK(heap', loc[u], pc[u], call[u])
      BY <3>1, LocalStable
    <3> QED BY <1>2, <2>2, <3>2
  <2> QED BY <2>1, <2>2
<1>5. ASSUME NEW u \in Threads, u /= t, pc[u] \in OwnerLabels
      PROVE  loc[u].m \in Ptr(heap) /\ heap[loc[u].m].neigh2 \in Unpublished
  <2>1. LocalOK(heap, loc[u], pc[u], call[u]) /\ heap[loc[u].m].neigh2 \in Unpublished
    BY <1>5, ThreadState
  <2> QED BY <1>5, <2>1 DEF LocalOK, JoinLocalsOK
<1>6. \A u, v \in Threads, m \in Ptr(heap) : Owns(u, m) /\ Owns(v, m) => u = v
  BY DEF IInv, WellFormed, OwnersOK, Owns
<1>7. ASSUME NEW u \in Threads, pc'[u] \in OwnerLabels
      PROVE  heap'[loc'[u].m].neigh2 \in Unpublished
  <2>1. CASE u = t
    BY <1>2, <1>7, <2>1 DEF KeepsOwners
  <2>2. CASE u /= t
    <3>1. pc[u] \in OwnerLabels /\ loc'[u].m = loc[u].m
      BY <1>2, <1>7, <2>2
    <3>2. ~Owns(t, loc[u].m) \/ loc[u].m \notin Ptr(heap)
      BY <1>6, <2>2, <3>1 DEF Owns
    <3> QED BY <1>5, <2>2, <3>1, <3>2 DEF KeepsOwners
  <2> QED BY <2>1, <2>2
<1>8. ASSUME NEW u \in Threads, NEW v \in Threads,
             pc'[u] \in OwnerLabels, pc'[v] \in OwnerLabels, loc'[u].m = loc'[v].m
      PROVE  u = v
  <2>1. ASSUME NEW w \in Threads, w /= t, pc'[w] \in OwnerLabels, label \in OwnerLabels,
               loc'[w].m = l.m
        PROVE  FALSE
    <3>1. pc[w] \in OwnerLabels /\ loc[w].m = l.m
      BY <1>2, <2>1
    <3>2. loc[w].m \in Ptr(heap)
      BY <1>5, <2>1, <3>1
    <3>3. Owns(t, l.m) /\ Owns(w, l.m)
      BY <2>1, <3>1, <3>2 DEF KeepsOwners, Owns
    <3> QED BY <1>6, <2>1, <3>1, <3>2, <3>3
  <2>2. CASE u /= t /\ v /= t
    <3>1. pc[u] \in OwnerLabels /\ pc[v] \in OwnerLabels /\ loc[u].m = loc[v].m
      BY <1>2, <1>8, <2>2
    <3> QED BY <1>5, <1>6, <2>2, <3>1 DEF Owns
  <2>3. CASE u = t /\ v /= t
    BY <1>2, <1>8, <2>1, <2>3
  <2>4. CASE u /= t /\ v = t
    BY <1>2, <1>8, <2>1, <2>4
  <2> QED BY <2>2, <2>3, <2>4
<1>9. OwnersOK'
  BY <1>7, <1>8 DEF OwnersOK, Owns
<1> QED BY <1>3, <1>4, <1>9 DEF IInv, WellFormed

(* A step that leaves the shared memory alone.                             *)
LEMMA LocalStep ==
    ASSUME IInv, NEW t \in Threads, NEW label \in Labels, NEW l \in Locals,
           Local(t, label, l),
           LocalOK(heap, l, label, call[t]),
           label \in OwnerLabels => pc[t] \in OwnerLabels /\ l.m = loc[t].m
    PROVE  IInv' /\ OutcomesAreFinal
<1>1. /\ heap' = heap /\ root' = root /\ todo' = todo /\ call' = call /\ reply' = reply
      /\ Goto(t, label, l)
  BY DEF Local, client
<1>2. HeapOK(heap) /\ root \in Ptr(heap) /\ Extends(heap, heap)
  BY ThreadState, HeapExtendsItself
<1>3. /\ todo \in [Threads -> Seq(Calls)]
      /\ call \in [Threads -> Calls \cup {NoCall}]
      /\ reply \in [Threads -> [result : BOOLEAN, found : Seq(Int)]]
  BY DEF IInv, TypeOK
<1>4. KeepsOwners(t, l, label, heap)
  BY ThreadState DEF KeepsOwners, Owns
<1>5. OutcomesAreFinal
  BY <1>1 DEF OutcomesAreFinal
<1> QED BY <1>1, <1>2, <1>3, <1>4, <1>5, StepOK

(* A step within a call.                                                   *)
LEMMA SharedStep ==
    ASSUME IInv, NEW t \in Threads, NEW label \in Labels, NEW l \in Locals,
           Shared(t, label, l),
           HeapOK(heap'), Extends(heap, heap'), root' \in Ptr(heap'),
           LocalOK(heap', l, label, call[t]),
           KeepsOwners(t, l, label, heap')
    PROVE  IInv'
<1>1. todo' = todo /\ call' = call /\ reply' = reply /\ Goto(t, label, l)
  BY DEF Shared, client
<1>2. /\ todo \in [Threads -> Seq(Calls)]
      /\ call \in [Threads -> Calls \cup {NoCall}]
      /\ reply \in [Threads -> [result : BOOLEAN, found : Seq(Int)]]
  BY DEF IInv, TypeOK
<1> QED BY <1>1, <1>2, StepOK

(* After helping, joining or splitting a call goes on at l.then, or ends.   *)
LEMMA ThenOK ==
    ASSUME NEW h, NEW l \in Locals, NEW label, label /= "idle", NEW c, LocalOK(h, l, label, c)
    PROVE  /\ LocalOK(h, l, "return", c)
           /\ (l.then = "next" => l.stack = l.backup) => LocalOK(h, l, l.then, c)
           /\ l.then \in Labels \ OwnerLabels
<1>1. c \in Calls /\ Path(h, l.stack) /\ Path(h, l.backup) /\ l.then \in {"root", "next", "return"}
  BY DEF LocalOK, StackOK, Locals
<1>2. l.then = "next" => l.backup /= <<>> /\ c.op = "rangeQuery"
  BY DEF LocalOK, StackOK
<1>3. LocalOK(h, l, "return", c)
  BY <1>1, <1>2 DEF LocalOK, CurOK, BaseOK, JoinLocalsOK, StackOK, OwnerLabels, HelperLabels
<1>4. ASSUME l.then = "next" => l.stack = l.backup PROVE LocalOK(h, l, l.then, c)
  BY <1>1, <1>2, <1>4 DEF LocalOK, CurOK, BaseOK, JoinLocalsOK, StackOK, OwnerLabels, HelperLabels
<1> QED BY <1>1, <1>3, <1>4 DEF Labels, OwnerLabels

-----------------------------------------------------------------------------
(* The actions that leave the shared memory alone                          *)

LEMMA LoadRootOK ==
    ASSUME IInv, NEW t \in Threads, LoadRoot(t)
    PROVE  IInv' /\ OutcomesAreFinal
<1> DEFINE l == [loc[t] EXCEPT !.cur = root, !.stack = <<>>]
<1>1. /\ pc[t] = "root" /\ loc[t] \in Locals /\ root \in Ptr(heap) /\ root \in Nat
      /\ LocalOK(heap, loc[t], "root", call[t])
  BY ThreadState, HeapBasics DEF LoadRoot
<1>2. <<>> \in Seq(Nat) /\ <<>> \in Seq(Routes(heap)) /\ Path(heap, <<>>)
  BY EmptyPath, EmptySeq
<1>3. l \in Locals /\ l.cur = root /\ l.stack = <<>> /\ l.backup = loc[t].backup /\ l.then = loc[t].then
  BY <1>1, <1>2 DEF Locals
<1> HIDE DEF l
<1>4. LocalOK(heap, l, "find", call[t])
  BY <1>1, <1>2, <1>3 DEF LocalOK, CurOK, BaseOK, JoinLocalsOK, StackOK, OwnerLabels, HelperLabels
<1>5. Local(t, "find", l)
  BY DEF LoadRoot, l
<1> QED BY <1>3, <1>4, <1>5, LocalStep DEF Labels, OwnerLabels

LEMMA FindBaseOK ==
    ASSUME IInv, NEW t \in Threads, FindBase(t)
    PROVE  IInv' /\ OutcomesAreFinal
<1> DEFINE n == loc[t].cur
           c == IF call[t].key <= heap[n].key THEN heap[n].left ELSE heap[n].right
           l == [loc[t] EXCEPT !.cur = c]
<1>1. /\ pc[t] = "find" /\ loc[t] \in Locals
      /\ LocalOK(heap, loc[t], "find", call[t])
  BY ThreadState DEF FindBase
<1>2. c \in Ptr(heap) /\ c \in Nat
  BY <1>1, ThreadState, HeapBasics DEF FindBase, IsRoute, LocalOK, CurOK, NodeOK
<1> HIDE DEF c
<1>3. l \in Locals /\ l.cur = c /\ l.stack = loc[t].stack /\ l.backup = loc[t].backup /\ l.then = loc[t].then
  BY <1>1, <1>2 DEF Locals
<1> HIDE DEF l
<1>4. LocalOK(heap, l, "find", call[t])
  BY <1>1, <1>2, <1>3 DEF LocalOK, CurOK, BaseOK, JoinLocalsOK, StackOK, OwnerLabels, HelperLabels
<1>5. Local(t, "find", l)
  BY DEF FindBase, l, c, n
<1> QED BY <1>3, <1>4, <1>5, LocalStep DEF Labels, OwnerLabels

LEMMA LookupOK ==
    ASSUME IInv, NEW t \in Threads, Lookup(t)
    PROVE  IInv' /\ OutcomesAreFinal
<1> DEFINE found == contains(heap[loc[t].cur].data, call[t].key)
           l == [loc[t] EXCEPT !.result = found]
<1>1. pc[t] = "find" /\ loc[t] \in Locals /\ LocalOK(heap, loc[t], "find", call[t])
  BY ThreadState DEF Lookup
<1>2. found \in BOOLEAN
  BY DEF contains
<1>3. Local(t, "return", l)
  BY DEF Lookup
<1> HIDE DEF found
<1>4. l \in Locals /\ l.stack = loc[t].stack /\ l.backup = loc[t].backup /\ l.then = loc[t].then
  BY <1>1, <1>2 DEF Locals
<1> HIDE DEF l
<1>5. LocalOK(heap, l, "return", call[t])
  BY <1>1, <1>4 DEF LocalOK, CurOK, BaseOK, JoinLocalsOK, StackOK, OwnerLabels, HelperLabels
<1> QED BY <1>3, <1>4, <1>5, LocalStep DEF Labels, OwnerLabels

LEMMA FindFullOK ==
    ASSUME IInv, NEW t \in Threads, FindFull(t)
    PROVE  IInv' /\ OutcomesAreFinal
<1> DEFINE l == [loc[t] EXCEPT !.base = loc[t].cur]
<1>1. /\ pc[t] = "find" /\ loc[t] \in Locals /\ LocalOK(heap, loc[t], "find", call[t])
      /\ call[t].op /= "rangeQuery"
  BY ThreadState DEF FindFull, IsUpdate
<1>2. /\ l \in Locals /\ l.base = loc[t].cur
      /\ l.stack = loc[t].stack /\ l.backup = loc[t].backup /\ l.then = loc[t].then
  BY <1>1 DEF Locals
<1>3. Local(t, "split", l)
  BY DEF FindFull
<1> HIDE DEF l
<1>4. LocalOK(heap, l, "split", call[t])
  BY <1>1, <1>2 DEF LocalOK, CurOK, BaseOK, JoinLocalsOK, StackOK, OwnerLabels, HelperLabels
<1> QED BY <1>2, <1>3, <1>4, LocalStep DEF Labels, OwnerLabels

LEMMA CheckBaseOK ==
    ASSUME IInv, NEW t \in Threads, CheckBase(t)
    PROVE  IInv' /\ OutcomesAreFinal
<1> DEFINE b == loc[t].cur
           l1 == [loc[t] EXCEPT !.base = b]
           l2 == [loc[t] EXCEPT !.base = b, !.contended = TRUE]
<1>1. /\ pc[t] = "find" /\ loc[t] \in Locals /\ LocalOK(heap, loc[t], "find", call[t])
      /\ call[t].op /= "rangeQuery" /\ Len(heap[b].data) < TREAP_NODES
  <2>1. pc[t] = "find" /\ loc[t] \in Locals /\ LocalOK(heap, loc[t], "find", call[t]) /\ HeapOK(heap)
    BY ThreadState DEF CheckBase
  <2>2. heap[b].data \in Seq(Int)
    BY <2>1, HeapBasics, NodeTypes_ DEF LocalOK, CurOK
  <2> QED BY <2>1, <2>2, LenProperties, CapacityAssumption DEF CheckBase, IsUpdate, IsFull
<1>2. /\ l1 \in Locals /\ l1.base = b
      /\ l1.stack = loc[t].stack /\ l1.backup = loc[t].backup /\ l1.then = loc[t].then
      /\ l2 \in Locals /\ l2.base = b
      /\ l2.stack = loc[t].stack /\ l2.backup = loc[t].backup /\ l2.then = loc[t].then
  BY <1>1 DEF Locals
<1>3. Local(t, "replace", l1) \/ Local(t, "help", l2)
  BY DEF CheckBase
<1> HIDE DEF l1, l2
<1>4. LocalOK(heap, l1, "replace", call[t]) /\ LocalOK(heap, l2, "help", call[t])
  BY <1>1, <1>2 DEF LocalOK, CurOK, BaseOK, JoinLocalsOK, StackOK, OwnerLabels, HelperLabels
<1> QED BY <1>2, <1>3, <1>4, LocalStep DEF Labels, OwnerLabels

LEMMA ReplaceFailsOK ==
    ASSUME IInv, NEW t \in Threads, ReplaceFails(t)
    PROVE  IInv' /\ OutcomesAreFinal
<1> DEFINE l == [loc[t] EXCEPT !.contended = TRUE]
<1>1. pc[t] = "replace" /\ loc[t] \in Locals /\ LocalOK(heap, loc[t], "replace", call[t])
  BY ThreadState DEF ReplaceFails
<1>2. /\ l \in Locals /\ l.base = loc[t].base
      /\ l.stack = loc[t].stack /\ l.backup = loc[t].backup /\ l.then = loc[t].then
  BY <1>1 DEF Locals
<1>3. Local(t, "help", l)
  BY DEF ReplaceFails
<1> HIDE DEF l
<1>4. LocalOK(heap, l, "help", call[t])
  BY <1>1, <1>2 DEF LocalOK, CurOK, BaseOK, JoinLocalsOK, StackOK, OwnerLabels, HelperLabels
<1> QED BY <1>2, <1>3, <1>4, LocalStep DEF Labels, OwnerLabels

LEMMA HelpOK ==
    ASSUME IInv, NEW t \in Threads, Help(t)
    PROVE  IInv' /\ OutcomesAreFinal
<1> DEFINE b == loc[t].base
           n == IF heap[b].type = "join_neighbor" THEN heap[b].main_node ELSE b
           l == [loc[t] EXCEPT !.m = n]
<1>1. pc[t] = "help" /\ loc[t] \in Locals /\ LocalOK(heap, loc[t], "help", call[t]) /\ HeapOK(heap)
  BY ThreadState DEF Help
<1>2. n \in Ptr(heap) /\ n \in Nat
  BY <1>1, HeapBasics DEF LocalOK, BaseOK, NodeOK
<1>3. \/ heap[n].type = "join_main" /\ Local(t, "abort", l)
      \/ heap[n].type = "join_main" /\ heap[n].neigh2 > 0 /\ Local(t, "load", l)
      \/ Local(t, loc[t].then, loc[t])
  BY DEF Help
<1> HIDE DEF n
<1>4. /\ l \in Locals /\ l.m = n
      /\ l.stack = loc[t].stack /\ l.backup = loc[t].backup /\ l.then = loc[t].then
  BY <1>1, <1>2 DEF Locals
<1> HIDE DEF l
<1>5. CASE heap[n].type = "join_main" /\ Local(t, "abort", l)
  <2>1. LocalOK(heap, l, "abort", call[t])
    BY <1>1, <1>2, <1>4, <1>5 DEF LocalOK, CurOK, BaseOK, JoinLocalsOK, StackOK, OwnerLabels, HelperLabels
  <2> QED BY <1>4, <1>5, <2>1, LocalStep DEF Labels, OwnerLabels
<1>6. CASE heap[n].type = "join_main" /\ heap[n].neigh2 > 0 /\ Local(t, "load", l)
  <2>1. heap[n].neigh2 \notin Unpublished
    BY <1>6 DEF Unpublished, PREPARING, ABORTED
  <2>2. LocalOK(heap, l, "load", call[t])
    BY <1>1, <1>2, <1>4, <1>6, <2>1
       DEF LocalOK, CurOK, BaseOK, JoinLocalsOK, StackOK, OwnerLabels, HelperLabels
  <2> QED BY <1>4, <1>6, <2>2, LocalStep DEF Labels, OwnerLabels
<1>7. CASE Local(t, loc[t].then, loc[t])
  <2>1. loc[t].then = "next" => loc[t].stack = loc[t].backup
    BY <1>1 DEF LocalOK, StackOK
  <2> QED BY <1>1, <1>7, <2>1, ThenOK, LocalStep
<1> QED BY <1>3, <1>5, <1>6, <1>7

LEMMA ChooseSideOK ==
    ASSUME IInv, NEW t \in Threads, ChooseSide(t)
    PROVE  IInv' /\ OutcomesAreFinal
<1> DEFINE b == loc[t].base
           side == IF heap[heap[b].parent].left = b THEN "left" ELSE "right"
           l == [loc[t] EXCEPT !.side = side]
<1>1. pc[t] = "join" /\ loc[t] \in Locals /\ LocalOK(heap, loc[t], "join", call[t])
  BY ThreadState DEF ChooseSide
<1>2. /\ l \in Locals /\ l.base = b
      /\ l.stack = loc[t].stack /\ l.backup = loc[t].backup /\ l.then = loc[t].then
  BY <1>1 DEF Locals
<1>3. \/ heap[b].parent /= null /\ Local(t, "sibling", l)
      \/ Local(t, "return", loc[t])
  BY DEF ChooseSide
<1> HIDE DEF l
<1>4. CASE heap[b].parent /= null /\ Local(t, "sibling", l)
  <2>1. LocalOK(heap, l, "sibling", call[t])
    BY <1>1, <1>2, <1>4 DEF LocalOK, CurOK, BaseOK, JoinLocalsOK, StackOK, OwnerLabels, HelperLabels
  <2> QED BY <1>2, <1>4, <2>1, LocalStep DEF Labels, OwnerLabels
<1>5. CASE Local(t, "return", loc[t])
  BY <1>1, <1>5, ThenOK, LocalStep DEF Labels, OwnerLabels
<1> QED BY <1>3, <1>4, <1>5

(* Either child of a route is a node.                                      *)
LEMMA ChildOK ==
    ASSUME HeapOK(heap), NEW n \in Routes(heap), NEW side
    PROVE  Child(n, side) \in Ptr(heap) /\ Child(n, side) \in Nat
<1>1. n \in Ptr(heap) /\ heap[n].type = "route"
  BY DEF Routes
<1>2. NodeOK(heap, n)
  BY <1>1, HeapBasics
<1>3. Child(n, side) \in Ptr(heap)
  BY <1>1, <1>2 DEF NodeOK, Child
<1> QED BY <1>3, HeapBasics

(* The route above the base that is being joined, and above its main node. *)
LEMMA BaseParent ==
    ASSUME IInv, NEW t \in Threads, pc[t] \in {"sibling", "outermost", "lockMain"}
    PROVE  heap[loc[t].base].parent \in Routes(heap)
<1>1. LocalOK(heap, loc[t], pc[t], call[t]) /\ HeapOK(heap)
  BY ThreadState
<1>2. loc[t].base \in Ptr(heap) /\ heap[loc[t].base].parent /= null
  BY <1>1 DEF LocalOK, BaseOK
<1> QED BY <1>1, <1>2, HeapBasics DEF NodeOK

LEMMA MainParent ==
    ASSUME IInv, NEW t \in Threads, pc[t] \in OwnerLabels \cup HelperLabels
    PROVE  /\ loc[t].m \in Ptr(heap) /\ heap[loc[t].m].type = "join_main"
           /\ Parent(t) \in Routes(heap)
<1>1. LocalOK(heap, loc[t], pc[t], call[t]) /\ HeapOK(heap)
  BY ThreadState
<1>2. loc[t].m \in Ptr(heap) /\ heap[loc[t].m].type = "join_main"
  BY <1>1 DEF LocalOK, JoinLocalsOK
<1> QED BY <1>1, <1>2, HeapBasics DEF NodeOK, Parent

LEMMA LoadSiblingOK ==
    ASSUME IInv, NEW t \in Threads, LoadSibling(t)
    PROVE  IInv' /\ OutcomesAreFinal
<1> DEFINE c == Child(heap[loc[t].base].parent, Opposite(loc[t].side))
           l == [loc[t] EXCEPT !.cur = c]
<1>1. pc[t] = "sibling" /\ loc[t] \in Locals /\ LocalOK(heap, loc[t], "sibling", call[t])
  BY ThreadState DEF LoadSibling
<1>2. c \in Ptr(heap) /\ c \in Nat
  BY <1>1, ThreadState, BaseParent, ChildOK
<1>3. Local(t, "outermost", l)
  BY DEF LoadSibling
<1> HIDE DEF c
<1>4. /\ l \in Locals /\ l.base = loc[t].base /\ l.cur = c
      /\ l.stack = loc[t].stack /\ l.backup = loc[t].backup /\ l.then = loc[t].then
  BY <1>1, <1>2 DEF Locals
<1> HIDE DEF l
<1>5. LocalOK(heap, l, "outermost", call[t])
  BY <1>1, <1>2, <1>4 DEF LocalOK, CurOK, BaseOK, JoinLocalsOK, StackOK, OwnerLabels, HelperLabels
<1> QED BY <1>3, <1>4, <1>5, LocalStep DEF Labels, OwnerLabels

LEMMA FindNeighborOK ==
    ASSUME IInv, NEW t \in Threads, FindNeighbor(t)
    PROVE  IInv' /\ OutcomesAreFinal
<1> DEFINE c == Child(loc[t].cur, loc[t].side)
           l == [loc[t] EXCEPT !.cur = c]
<1>1. pc[t] = "outermost" /\ loc[t] \in Locals /\ LocalOK(heap, loc[t], "outermost", call[t])
  BY ThreadState DEF FindNeighbor
<1>2. loc[t].cur \in Routes(heap)
  BY <1>1 DEF FindNeighbor, IsRoute, Routes, LocalOK, CurOK
<1>3. c \in Ptr(heap) /\ c \in Nat
  BY <1>2, ThreadState, ChildOK
<1>4. Local(t, "outermost", l)
  BY DEF FindNeighbor
<1> HIDE DEF c
<1>5. /\ l \in Locals /\ l.base = loc[t].base /\ l.cur = c
      /\ l.stack = loc[t].stack /\ l.backup = loc[t].backup /\ l.then = loc[t].then
  BY <1>1, <1>3 DEF Locals
<1> HIDE DEF l
<1>6. LocalOK(heap, l, "outermost", call[t])
  BY <1>1, <1>3, <1>5 DEF LocalOK, CurOK, BaseOK, JoinLocalsOK, StackOK, OwnerLabels, HelperLabels
<1> QED BY <1>4, <1>5, <1>6, LocalStep DEF Labels, OwnerLabels

LEMMA CheckNeighborOK ==
    ASSUME IInv, NEW t \in Threads, CheckNeighbor(t)
    PROVE  IInv' /\ OutcomesAreFinal
<1>1. pc[t] = "outermost" /\ loc[t] \in Locals /\ LocalOK(heap, loc[t], "outermost", call[t])
  BY ThreadState DEF CheckNeighbor
<1>2. \/ /\ Len(heap[loc[t].base].data) + Len(heap[loc[t].cur].data) <= TREAP_NODES
         /\ Local(t, "lockMain", loc[t])
      \/ Local(t, "return", loc[t])
  BY DEF CheckNeighbor
<1>3. CASE /\ Len(heap[loc[t].base].data) + Len(heap[loc[t].cur].data) <= TREAP_NODES
           /\ Local(t, "lockMain", loc[t])
  <2>1. LocalOK(heap, loc[t], "lockMain", call[t])
    BY <1>1, <1>3 DEF LocalOK, CurOK, BaseOK, JoinLocalsOK, StackOK, OwnerLabels, HelperLabels
  <2> QED BY <1>1, <1>3, <2>1, LocalStep DEF Labels, OwnerLabels
<1>4. CASE Local(t, "return", loc[t])
  BY <1>1, <1>4, ThenOK, LocalStep DEF Labels, OwnerLabels
<1> QED BY <1>2, <1>3, <1>4

LEMMA ParentOfOK ==
    ASSUME IInv, NEW t \in Threads, ParentOf(t)
    PROVE  IInv' /\ OutcomesAreFinal
<1> DEFINE l == [loc[t] EXCEPT !.cur = root, !.gparent = null]
<1>1. /\ pc[t] = "parentOf" /\ loc[t] \in Locals /\ LocalOK(heap, loc[t], "parentOf", call[t])
      /\ root \in Ptr(heap) /\ root \in Nat
  BY ThreadState, HeapBasics DEF ParentOf
<1>2. /\ l \in Locals /\ l.cur = root /\ l.gparent = null /\ l.m = loc[t].m /\ l.n1 = loc[t].n1
      /\ l.stack = loc[t].stack /\ l.backup = loc[t].backup /\ l.then = loc[t].then
  BY <1>1 DEF Locals, null
<1>3. Local(t, "search", l)
  BY DEF ParentOf
<1> HIDE DEF l
<1>4. LocalOK(heap, l, "search", call[t])
  BY <1>1, <1>2 DEF LocalOK, CurOK, BaseOK, JoinLocalsOK, StackOK, OwnerLabels, HelperLabels
<1> QED BY <1>1, <1>2, <1>3, <1>4, LocalStep DEF Labels, OwnerLabels

LEMMA SearchParentOK ==
    ASSUME IInv, NEW t \in Threads, SearchParent(t)
    PROVE  IInv' /\ OutcomesAreFinal
<1> DEFINE n == loc[t].cur
           c == IF heap[Parent(t)].key < heap[n].key THEN heap[n].left ELSE heap[n].right
           l == [loc[t] EXCEPT !.gparent = n, !.cur = c]
<1>1. pc[t] = "search" /\ loc[t] \in Locals /\ LocalOK(heap, loc[t], "search", call[t])
  BY ThreadState DEF SearchParent
<1>2. n \in Routes(heap) /\ n \in Nat
  BY <1>1 DEF SearchParent, IsRoute, Routes, LocalOK, CurOK, Locals
<1>3. c \in Ptr(heap) /\ c \in Nat
  BY <1>2, ThreadState, HeapBasics DEF Routes, NodeOK
<1>4. Local(t, "search", l)
  BY DEF SearchParent
<1> HIDE DEF c
<1>5. /\ l \in Locals /\ l.cur = c /\ l.gparent = n /\ l.m = loc[t].m /\ l.n1 = loc[t].n1
      /\ l.stack = loc[t].stack /\ l.backup = loc[t].backup /\ l.then = loc[t].then
  BY <1>1, <1>2, <1>3 DEF Locals
<1> HIDE DEF l
<1>6. LocalOK(heap, l, "search", call[t])
  BY <1>1, <1>2, <1>3, <1>5 DEF LocalOK, CurOK, BaseOK, JoinLocalsOK, StackOK, OwnerLabels, HelperLabels
<1> QED BY <1>1, <1>4, <1>5, <1>6, LocalStep DEF Labels, OwnerLabels

LEMMA ParentFoundOK ==
    ASSUME IInv, NEW t \in Threads, ParentFound(t)
    PROVE  IInv' /\ OutcomesAreFinal
<1>1. pc[t] = "search" /\ loc[t] \in Locals /\ LocalOK(heap, loc[t], "search", call[t])
  BY ThreadState DEF ParentFound
<1>2. \/ loc[t].gparent = null /\ Local(t, "readOther", loc[t])
      \/ loc[t].gparent /= null /\ Local(t, "lockGparent", loc[t])
  BY DEF ParentFound
<1>3. CASE loc[t].gparent = null /\ Local(t, "readOther", loc[t])
  <2>1. LocalOK(heap, loc[t], "readOther", call[t])
    BY <1>1, <1>3 DEF LocalOK, CurOK, BaseOK, JoinLocalsOK, StackOK, OwnerLabels, HelperLabels
  <2> QED BY <1>1, <1>3, <2>1, LocalStep DEF Labels, OwnerLabels
<1>4. CASE loc[t].gparent /= null /\ Local(t, "lockGparent", loc[t])
  <2>1. LocalOK(heap, loc[t], "lockGparent", call[t])
    BY <1>1, <1>4 DEF LocalOK, CurOK, BaseOK, JoinLocalsOK, StackOK, OwnerLabels, HelperLabels
  <2> QED BY <1>1, <1>4, <2>1, LocalStep DEF Labels, OwnerLabels
<1> QED BY <1>2, <1>3, <1>4

LEMMA ParentNotFoundOK ==
    ASSUME IInv, NEW t \in Threads, ParentNotFound(t)
    PROVE  IInv' /\ OutcomesAreFinal
<1>1. pc[t] = "search" /\ loc[t] \in Locals /\ LocalOK(heap, loc[t], "search", call[t])
  BY ThreadState DEF ParentNotFound
<1>2. LocalOK(heap, loc[t], "undoParent", call[t])
  BY <1>1 DEF LocalOK, CurOK, BaseOK, JoinLocalsOK, StackOK, OwnerLabels, HelperLabels
<1> QED BY <1>1, <1>2, LocalStep DEF ParentNotFound, Labels, OwnerLabels

LEMMA LoadJoinedOK ==
    ASSUME IInv, NEW t \in Threads, LoadJoined(t)
    PROVE  IInv' /\ OutcomesAreFinal
<1> DEFINE n2 == heap[loc[t].m].neigh2
           l == [loc[t] EXCEPT !.n2 = n2]
<1>1. /\ pc[t] = "load" /\ loc[t] \in Locals /\ LocalOK(heap, loc[t], "load", call[t])
      /\ pc[t] \in HelperLabels
  BY ThreadState DEF LoadJoined, HelperLabels
<1>2. n2 /= DONE => n2 \in Ptr(heap) /\ n2 \in Nat
  <2>1. loc[t].m \in Ptr(heap) /\ heap[loc[t].m].type = "join_main" /\ HeapOK(heap)
    BY <1>1, MainParent, ThreadState
  <2>2. n2 \notin Unpublished
    BY <1>1 DEF LocalOK, JoinLocalsOK
  <2> QED BY <2>1, <2>2, HeapBasics DEF NodeOK
<1>3. \/ n2 = DONE /\ Local(t, loc[t].then, loc[t])
      \/ n2 /= DONE /\ Local(t, "replaceNeighbor", l)
  BY DEF LoadJoined
<1> HIDE DEF n2
<1>4. CASE n2 = DONE /\ Local(t, loc[t].then, loc[t])
  <2>1. loc[t].then = "next" => loc[t].stack = loc[t].backup
    BY <1>1 DEF LocalOK, StackOK
  <2> QED BY <1>1, <1>4, <2>1, ThenOK, LocalStep
<1>5. CASE n2 /= DONE /\ Local(t, "replaceNeighbor", l)
  <2>1. /\ l \in Locals /\ l.n2 = n2 /\ l.m = loc[t].m
        /\ l.stack = loc[t].stack /\ l.backup = loc[t].backup /\ l.then = loc[t].then
    BY <1>1, <1>2, <1>5 DEF Locals
  <2> HIDE DEF l
  <2>2. LocalOK(heap, l, "replaceNeighbor", call[t])
    BY <1>1, <1>2, <1>5, <2>1
       DEF LocalOK, CurOK, BaseOK, JoinLocalsOK, StackOK, OwnerLabels, HelperLabels
  <2> QED BY <1>5, <2>1, <2>2, LocalStep DEF Labels, OwnerLabels
<1> QED BY <1>3, <1>4, <1>5

LEMMA FindSlotOK ==
    ASSUME IInv, NEW t \in Threads, FindSlot(t)
    PROVE  IInv' /\ OutcomesAreFinal
<1> DEFINE g == heap[loc[t].m].gparent
           side == IF heap[g].left = Parent(t) THEN "left" ELSE "right"
           l == [loc[t] EXCEPT !.slot = side]
<1>1. pc[t] = "findSlot" /\ loc[t] \in Locals /\ LocalOK(heap, loc[t], "findSlot", call[t])
  BY ThreadState DEF FindSlot
<1>2. Local(t, "splice", l) \/ Local(t, "done", loc[t])
  BY DEF FindSlot
<1>3. /\ l \in Locals /\ l.m = loc[t].m /\ l.n2 = loc[t].n2
      /\ l.stack = loc[t].stack /\ l.backup = loc[t].backup /\ l.then = loc[t].then
  BY <1>1 DEF Locals
<1> HIDE DEF l
<1>4. LocalOK(heap, l, "splice", call[t]) /\ LocalOK(heap, loc[t], "done", call[t])
  BY <1>1, <1>3 DEF LocalOK, CurOK, BaseOK, JoinLocalsOK, StackOK, OwnerLabels, HelperLabels
<1> QED BY <1>1, <1>2, <1>3, <1>4, LocalStep DEF Labels, OwnerLabels

LEMMA FindBaseStackOK ==
    ASSUME IInv, NEW t \in Threads, FindBaseStack(t)
    PROVE  IInv' /\ OutcomesAreFinal
<1> DEFINE n == loc[t].cur
           c == IF call[t].key < heap[n].key THEN heap[n].left ELSE heap[n].right
           path == Append(loc[t].stack, n)
           l == [loc[t] EXCEPT !.stack = path, !.cur = c]
<1>1. pc[t] = "find" /\ loc[t] \in Locals /\ LocalOK(heap, loc[t], "find", call[t]) /\ HeapOK(heap)
  BY ThreadState DEF FindBaseStack
<1>2. n \in Routes(heap) /\ n \in Ptr(heap) /\ n \in Nat
  BY <1>1, HeapBasics DEF FindBaseStack, IsRoute, Routes, LocalOK, CurOK
<1>3. c \in Ptr(heap) /\ c \in Nat
  BY <1>1, <1>2, HeapBasics DEF Routes, NodeOK
<1>4. path \in Seq(Routes(heap)) /\ Path(heap, path) /\ path \in Seq(Nat)
  <2>1. loc[t].stack \in Seq(Routes(heap)) /\ loc[t].stack \in Seq(Nat)
    BY <1>1 DEF LocalOK, StackOK, Locals
  <2> QED BY <1>1, <1>2, <2>1, PathAppend, AppendProperties
<1>5. Local(t, "find", l)
  BY DEF FindBaseStack
<1> HIDE DEF c, path
<1>6. /\ l \in Locals /\ l.cur = c /\ l.stack = path
      /\ l.backup = loc[t].backup /\ l.then = loc[t].then
  BY <1>1, <1>3, <1>4 DEF Locals
<1> HIDE DEF l
<1>7. LocalOK(heap, l, "find", call[t])
  BY <1>1, <1>3, <1>4, <1>6 DEF LocalOK, CurOK, BaseOK, JoinLocalsOK, StackOK, OwnerLabels, HelperLabels
<1> QED BY <1>5, <1>6, <1>7, LocalStep DEF Labels, OwnerLabels

LEMMA CheckRangeBaseOK ==
    ASSUME IInv, NEW t \in Threads, CheckRangeBase(t)
    PROVE  IInv' /\ OutcomesAreFinal
<1> DEFINE b == loc[t].cur
           path == Append(loc[t].stack, b)
           l1 == [loc[t] EXCEPT !.base = b, !.stack = path]
           l2 == [loc[t] EXCEPT !.base = b, !.stack = loc[t].backup]
<1>1. /\ pc[t] \in {"find", "goLeft"} /\ call[t].op = "rangeQuery"
      /\ loc[t] \in Locals /\ LocalOK(heap, loc[t], pc[t], call[t]) /\ HeapOK(heap)
  BY ThreadState DEF CheckRangeBase
<1>2. b \in Ptr(heap) /\ b \in Nat
  BY <1>1, HeapBasics DEF LocalOK, CurOK
<1>3. Path(heap, path) /\ path \in Seq(Nat) /\ path /= <<>>
  <2>1. loc[t].stack \in Seq(Routes(heap)) /\ loc[t].stack \in Seq(Nat)
    BY <1>1 DEF LocalOK, StackOK, Locals
  <2> QED BY <1>1, <1>2, <2>1, PathAppend, AppendProperties
<1>4. Local(t, "copy", l1) \/ Local(t, "help", l2)
  BY DEF CheckRangeBase
<1> HIDE DEF path
<1>5. /\ l1 \in Locals /\ l1.base = b /\ l1.stack = path
      /\ l1.backup = loc[t].backup /\ l1.then = loc[t].then
      /\ l2 \in Locals /\ l2.base = b /\ l2.stack = loc[t].backup
      /\ l2.backup = loc[t].backup /\ l2.then = loc[t].then
  BY <1>1, <1>2, <1>3 DEF Locals
<1> HIDE DEF l1, l2
<1>6. LocalOK(heap, l1, "copy", call[t]) /\ LocalOK(heap, l2, "help", call[t])
  BY <1>1, <1>2, <1>3, <1>5 DEF LocalOK, CurOK, BaseOK, JoinLocalsOK, StackOK, OwnerLabels, HelperLabels
<1> QED BY <1>4, <1>5, <1>6, LocalStep DEF Labels, OwnerLabels

LEMMA CopyFailsOK ==
    ASSUME IInv, NEW t \in Threads, CopyFails(t)
    PROVE  IInv' /\ OutcomesAreFinal
<1> DEFINE l == [loc[t] EXCEPT !.stack = loc[t].backup]
<1>1. pc[t] = "copy" /\ loc[t] \in Locals /\ LocalOK(heap, loc[t], "copy", call[t])
  BY ThreadState DEF CopyFails
<1>2. /\ l \in Locals /\ l.base = loc[t].base /\ l.stack = l.backup
      /\ l.backup = loc[t].backup /\ l.then = loc[t].then
  BY <1>1 DEF Locals
<1>3. Local(t, l.then, l)
  BY <1>2 DEF CopyFails
<1> HIDE DEF l
<1>4. LocalOK(heap, l, "help", call[t])
  BY <1>1, <1>2 DEF LocalOK, CurOK, BaseOK, JoinLocalsOK, StackOK, OwnerLabels, HelperLabels
<1> QED BY <1>2, <1>3, <1>4, ThenOK, LocalStep

LEMMA FindNextBaseOK ==
    ASSUME IInv, NEW t \in Threads, FindNextBase(t)
    PROVE  IInv' /\ OutcomesAreFinal
<1> DEFINE s == Front(loc[t].stack)
           k == heap[Last(s)].key
           l1 == [loc[t] EXCEPT !.stack = s]
           l2 == [loc[t] EXCEPT !.stack = Front(s), !.floor = k]
<1>1. pc[t] = "next" /\ loc[t] \in Locals /\ LocalOK(heap, loc[t], "next", call[t]) /\ HeapOK(heap)
  BY ThreadState DEF FindNextBase
<1>2. s \in Seq(Routes(heap)) /\ s \in Seq(Nat) /\ Path(heap, s)
  <2>1. Path(heap, loc[t].stack) /\ loc[t].stack /= <<>>
    BY <1>1 DEF LocalOK, StackOK
  <2>2. Routes(heap) \subseteq Nat
    BY <1>1, HeapBasics DEF Routes
  <2> HIDE DEF s
  <2>3. s \in Seq(Routes(heap))
    BY <2>1, PathFront DEF s
  <2> QED BY <2>2, <2>3, RoutesArePath
<1>3. \/ Local(t, "return", loc[t])
      \/ s /= <<>> /\ Local(t, "goRight", l1)
      \/ s /= <<>> /\ Local(t, "climb", l2)
  BY DEF FindNextBase
<1> HIDE DEF s
<1>4. CASE Local(t, "return", loc[t])
  BY <1>1, <1>4, ThenOK, LocalStep DEF Labels, OwnerLabels
<1>5. CASE s /= <<>> /\ Local(t, "goRight", l1)
  <2>1. l1 \in Locals /\ l1.stack = s /\ l1.backup = loc[t].backup /\ l1.then = loc[t].then
    BY <1>1, <1>2 DEF Locals
  <2> HIDE DEF l1
  <2>2. LocalOK(heap, l1, "goRight", call[t])
    BY <1>1, <1>2, <1>5, <2>1
       DEF LocalOK, CurOK, BaseOK, JoinLocalsOK, StackOK, OwnerLabels, HelperLabels
  <2> QED BY <1>5, <2>1, <2>2, LocalStep DEF Labels, OwnerLabels
<1>6. CASE s /= <<>> /\ Local(t, "climb", l2)
  <2>1. Front(s) \in Seq(Routes(heap)) /\ Front(s) \in Seq(Nat) /\ Path(heap, Front(s)) /\ k \in Int
    <3>1. Front(s) \in Seq(Routes(heap)) /\ Last(s) \in Routes(heap)
      BY <1>2, <1>6, RoutesFront
    <3>2. Routes(heap) \subseteq Nat /\ k \in Int
      BY <1>1, <3>1, HeapBasics, NodeTypes_ DEF Routes
    <3> QED BY <3>1, <3>2, RoutesArePath
  <2> HIDE DEF k
  <2>2. l2 \in Locals /\ l2.stack = Front(s) /\ l2.backup = loc[t].backup /\ l2.then = loc[t].then
    BY <1>1, <2>1 DEF Locals
  <2> HIDE DEF l2
  <2>3. LocalOK(heap, l2, "climb", call[t])
    BY <1>1, <1>6, <2>1, <2>2
       DEF LocalOK, CurOK, BaseOK, JoinLocalsOK, StackOK, OwnerLabels, HelperLabels
  <2> QED BY <1>6, <2>2, <2>3, LocalStep DEF Labels, OwnerLabels
<1> QED BY <1>3, <1>4, <1>5, <1>6

LEMMA ClimbOK ==
    ASSUME IInv, NEW t \in Threads, Climb(t)
    PROVE  IInv' /\ OutcomesAreFinal
<1> DEFINE s == loc[t].stack
           l == [loc[t] EXCEPT !.stack = Front(s)]
<1>1. pc[t] = "climb" /\ loc[t] \in Locals /\ LocalOK(heap, loc[t], "climb", call[t]) /\ HeapOK(heap)
  BY ThreadState DEF Climb
<1>2. s \in Seq(Routes(heap))
  BY <1>1 DEF LocalOK, StackOK
<1>3. \/ Local(t, "return", loc[t])
      \/ s /= <<>> /\ Local(t, "goRight", loc[t])
      \/ s /= <<>> /\ Local(t, "climb", l)
  BY DEF Climb
<1>4. CASE Local(t, "return", loc[t])
  BY <1>1, <1>4, ThenOK, LocalStep DEF Labels, OwnerLabels
<1>5. CASE s /= <<>> /\ Local(t, "goRight", loc[t])
  <2>1. LocalOK(heap, loc[t], "goRight", call[t])
    BY <1>1, <1>5 DEF LocalOK, CurOK, BaseOK, JoinLocalsOK, StackOK, OwnerLabels, HelperLabels
  <2> QED BY <1>1, <1>5, <2>1, LocalStep DEF Labels, OwnerLabels
<1>6. CASE s /= <<>> /\ Local(t, "climb", l)
  <2>1. Front(s) \in Seq(Routes(heap)) /\ Front(s) \in Seq(Nat) /\ Path(heap, Front(s))
    <3>1. Front(s) \in Seq(Routes(heap))
      BY <1>2, <1>6, RoutesFront
    <3>2. Routes(heap) \subseteq Nat
      BY <1>1, HeapBasics DEF Routes
    <3> QED BY <3>1, <3>2, RoutesArePath
  <2>2. l \in Locals /\ l.stack = Front(s) /\ l.backup = loc[t].backup /\ l.then = loc[t].then
    BY <1>1, <2>1 DEF Locals
  <2> HIDE DEF l
  <2>3. LocalOK(heap, l, "climb", call[t])
    BY <1>1, <2>1, <2>2 DEF LocalOK, CurOK, BaseOK, JoinLocalsOK, StackOK, OwnerLabels, HelperLabels
  <2> QED BY <1>6, <2>2, <2>3, LocalStep DEF Labels, OwnerLabels
<1> QED BY <1>3, <1>4, <1>5, <1>6

LEMMA GoRightOK ==
    ASSUME IInv, NEW t \in Threads, GoRight(t)
    PROVE  IInv' /\ OutcomesAreFinal
<1> DEFINE c == heap[Last(loc[t].stack)].right
           l == [loc[t] EXCEPT !.cur = c]
<1>1. pc[t] = "goRight" /\ loc[t] \in Locals /\ LocalOK(heap, loc[t], "goRight", call[t]) /\ HeapOK(heap)
  BY ThreadState DEF GoRight
<1>2. c \in Ptr(heap) /\ c \in Nat
  <2>1. loc[t].stack \in Seq(Routes(heap)) /\ loc[t].stack /= <<>>
    BY <1>1 DEF LocalOK, StackOK
  <2>2. Last(loc[t].stack) \in Routes(heap)
    BY <2>1, RoutesFront
  <2> QED BY <1>1, <2>2, HeapBasics DEF Routes, NodeOK
<1>3. Local(t, "goLeft", l)
  BY DEF GoRight
<1> HIDE DEF c
<1>4. /\ l \in Locals /\ l.cur = c
      /\ l.stack = loc[t].stack /\ l.backup = loc[t].backup /\ l.then = loc[t].then
  BY <1>1, <1>2 DEF Locals
<1> HIDE DEF l
<1>5. LocalOK(heap, l, "goLeft", call[t])
  BY <1>1, <1>2, <1>4 DEF LocalOK, CurOK, BaseOK, JoinLocalsOK, StackOK, OwnerLabels, HelperLabels
<1> QED BY <1>3, <1>4, <1>5, LocalStep DEF Labels, OwnerLabels

LEMMA GoLeftOK ==
    ASSUME IInv, NEW t \in Threads, GoLeft(t)
    PROVE  IInv' /\ OutcomesAreFinal
<1> DEFINE n == loc[t].cur
           c == heap[n].left
           path == Append(loc[t].stack, n)
           l == [loc[t] EXCEPT !.stack = path, !.cur = c]
<1>1. pc[t] = "goLeft" /\ loc[t] \in Locals /\ LocalOK(heap, loc[t], "goLeft", call[t]) /\ HeapOK(heap)
  BY ThreadState DEF GoLeft
<1>2. n \in Routes(heap) /\ n \in Ptr(heap) /\ n \in Nat
  BY <1>1, HeapBasics DEF GoLeft, IsRoute, Routes, LocalOK, CurOK
<1>3. c \in Ptr(heap) /\ c \in Nat
  BY <1>1, <1>2, HeapBasics DEF Routes, NodeOK
<1>4. path \in Seq(Routes(heap)) /\ Path(heap, path) /\ path \in Seq(Nat)
  <2>1. loc[t].stack \in Seq(Routes(heap)) /\ loc[t].stack \in Seq(Nat)
    BY <1>1 DEF LocalOK, StackOK, Locals
  <2> QED BY <1>1, <1>2, <2>1, PathAppend, AppendProperties
<1>5. Local(t, "goLeft", l)
  BY DEF GoLeft
<1> HIDE DEF c, path
<1>6. /\ l \in Locals /\ l.cur = c /\ l.stack = path
      /\ l.backup = loc[t].backup /\ l.then = loc[t].then
  BY <1>1, <1>3, <1>4 DEF Locals
<1> HIDE DEF l
<1>7. LocalOK(heap, l, "goLeft", call[t])
  BY <1>1, <1>3, <1>4, <1>6 DEF LocalOK, CurOK, BaseOK, JoinLocalsOK, StackOK, OwnerLabels, HelperLabels
<1> QED BY <1>5, <1>6, <1>7, LocalStep DEF Labels, OwnerLabels

-----------------------------------------------------------------------------
(* The beginning and the end of a call                                     *)

LEMMA LocalsTypes ==
    /\ NewLocals \in Locals
    /\ \A l \in Locals : Reply(l) \in [result : BOOLEAN, found : Seq(Int)]
<1>1. <<>> \in Seq(Nat) /\ <<>> \in Seq(Int)
  BY EmptySeq
<1> QED BY <1>1 DEF NewLocals, Locals, Reply, null

LEMMA NewLocalsOK ==
    ASSUME NEW h, NEW label, NEW c, label = "idle" \/ (label = "root" /\ c \in Calls)
    PROVE  LocalOK(h, NewLocals, label, c)
<1>1. NewLocals.stack = <<>> /\ NewLocals.backup = <<>> /\ NewLocals.then = "root"
  BY DEF NewLocals
<1>2. Path(h, <<>>)
  BY EmptyPath
<1> QED BY <1>1, <1>2 DEF LocalOK, CurOK, BaseOK, JoinLocalsOK, StackOK, OwnerLabels, HelperLabels

LEMMA BeginOK ==
    ASSUME IInv, NEW t \in Threads, Begin(t)
    PROVE  IInv' /\ OutcomesAreFinal
<1>1. /\ todo \in [Threads -> Seq(Calls)]
      /\ call \in [Threads -> Calls \cup {NoCall}]
      /\ reply \in [Threads -> [result : BOOLEAN, found : Seq(Int)]]
  BY DEF IInv, TypeOK
<1>2. Head(todo[t]) \in Calls /\ Tail(todo[t]) \in Seq(Calls)
  BY <1>1, HeadTailProperties DEF Begin
<1>3. /\ todo' \in [Threads -> Seq(Calls)]
      /\ call' \in [Threads -> Calls \cup {NoCall}]
      /\ reply' \in [Threads -> [result : BOOLEAN, found : Seq(Int)]]
      /\ call'[t] \in Calls
      /\ \A u \in Threads : u /= t => call'[u] = call[u]
  BY <1>1, <1>2 DEF Begin
<1>4. heap' = heap /\ root' = root /\ Goto(t, "root", NewLocals)
  BY DEF Begin
<1>5. HeapOK(heap) /\ root \in Ptr(heap) /\ Extends(heap, heap)
  BY ThreadState, HeapExtendsItself
<1>6. LocalOK(heap, NewLocals, "root", call'[t]) /\ NewLocals \in Locals
  BY <1>3, NewLocalsOK, LocalsTypes
<1>7. KeepsOwners(t, NewLocals, "root", heap)
  BY DEF KeepsOwners, OwnerLabels
<1>8. OutcomesAreFinal
  BY <1>4 DEF OutcomesAreFinal
<1> QED BY <1>3, <1>4, <1>5, <1>6, <1>7, <1>8, StepOK DEF Labels

LEMMA ReturnOK ==
    ASSUME IInv, NEW t \in Threads, Return(t)
    PROVE  IInv' /\ OutcomesAreFinal
<1>1. /\ todo \in [Threads -> Seq(Calls)]
      /\ call \in [Threads -> Calls \cup {NoCall}]
      /\ reply \in [Threads -> [result : BOOLEAN, found : Seq(Int)]]
      /\ Reply(loc[t]) \in [result : BOOLEAN, found : Seq(Int)]
  BY ThreadState, LocalsTypes DEF IInv, TypeOK
<1>2. /\ todo' \in [Threads -> Seq(Calls)]
      /\ call' \in [Threads -> Calls \cup {NoCall}]
      /\ reply' \in [Threads -> [result : BOOLEAN, found : Seq(Int)]]
      /\ \A u \in Threads : u /= t => call'[u] = call[u]
  BY <1>1 DEF Return
<1>3. heap' = heap /\ root' = root /\ Goto(t, "idle", NewLocals)
  BY DEF Return
<1>4. HeapOK(heap) /\ root \in Ptr(heap) /\ Extends(heap, heap)
  BY ThreadState, HeapExtendsItself
<1>5. LocalOK(heap, NewLocals, "idle", call'[t]) /\ NewLocals \in Locals
  BY NewLocalsOK, LocalsTypes
<1>6. KeepsOwners(t, NewLocals, "idle", heap)
  BY DEF KeepsOwners, OwnerLabels
<1>7. OutcomesAreFinal
  BY <1>3 DEF OutcomesAreFinal
<1> QED BY <1>2, <1>3, <1>4, <1>5, <1>6, <1>7, StepOK DEF Labels

-----------------------------------------------------------------------------
(* The actions that write to routes only                                   *)

LEMMA SameHeap ==
    ASSUME IInv
    PROVE  HeapOK(heap) /\ Extends(heap, heap) /\ SameBases(heap, heap)
BY HeapExtendsItself DEF IInv, WellFormed, SameBases, SameBase

LEMMA RouteStep ==
    ASSUME IInv, NEW t \in Threads, NEW label \in Labels, NEW l \in Locals,
           Shared(t, label, l), root' \in Ptr(heap),
           HeapOK(heap'), Extends(heap, heap'), SameBases(heap, heap'),
           LocalOK(heap, l, label, call[t]),
           label \in OwnerLabels => pc[t] \in OwnerLabels /\ l.m = loc[t].m
    PROVE  IInv' /\ OutcomesAreFinal
<1>1. HeapOK(heap) /\ LocalOK(heap', l, label, call[t]) /\ root' \in Ptr(heap')
  BY ThreadState, LocalStable, PointersGrow
<1>2. \A n \in Ptr(heap) : heap'[n].neigh2 = heap[n].neigh2
  BY DEF SameBases, SameBase
<1>3. label \in OwnerLabels => l.m \in Ptr(heap) /\ heap[l.m].neigh2 \in Unpublished
  BY ThreadState, MainParent
<1>4. KeepsOwners(t, l, label, heap')
  BY <1>2, <1>3 DEF KeepsOwners, Owns
<1>5. OutcomesAreFinal
  BY <1>2 DEF OutcomesAreFinal, Pointers, Ptr
<1> QED BY <1>1, <1>4, <1>5, SharedStep

LEMMA LockParentOK ==
    ASSUME IInv, NEW t \in Threads, LockParent(t)
    PROVE  IInv' /\ OutcomesAreFinal
<1>1. /\ pc[t] = "lockParent" /\ pc[t] \in OwnerLabels /\ loc[t] \in Locals
      /\ LocalOK(heap, loc[t], "lockParent", call[t])
      /\ HeapOK(heap) /\ root \in Ptr(heap) /\ root' = root
  BY ThreadState DEF LockParent, OwnerLabels
<1>2. Parent(t) \in Ptr(heap) /\ loc[t].m \in Nat
  BY <1>1, MainParent DEF Routes, Locals
<1>3. CASE heap' = [heap EXCEPT ![Parent(t)].join_id = loc[t].m] /\ Shared(t, "parentOf", loc[t])
  <2>1. HeapOK(heap') /\ Extends(heap, heap') /\ SameBases(heap, heap')
    BY <1>1, <1>2, <1>3, SetJoinIdOK
  <2>2. LocalOK(heap, loc[t], "parentOf", call[t])
    BY <1>1 DEF LocalOK, CurOK, BaseOK, JoinLocalsOK, StackOK, OwnerLabels, HelperLabels
  <2> QED BY <1>1, <1>3, <2>1, <2>2, RouteStep DEF Labels
<1>4. CASE heap' = heap /\ Shared(t, "undoMain", loc[t])
  <2>1. LocalOK(heap, loc[t], "undoMain", call[t])
    BY <1>1 DEF LocalOK, CurOK, BaseOK, JoinLocalsOK, StackOK, OwnerLabels, HelperLabels
  <2> QED BY <1>1, <1>4, <2>1, SameHeap, RouteStep DEF Labels
<1> QED BY <1>3, <1>4 DEF LockParent

LEMMA LockGparentOK ==
    ASSUME IInv, NEW t \in Threads, LockGparent(t)
    PROVE  IInv' /\ OutcomesAreFinal
<1>1. /\ pc[t] = "lockGparent" /\ pc[t] \in OwnerLabels /\ loc[t] \in Locals
      /\ LocalOK(heap, loc[t], "lockGparent", call[t])
      /\ HeapOK(heap) /\ root \in Ptr(heap) /\ root' = root
  BY ThreadState DEF LockGparent, OwnerLabels
<1>2. loc[t].gparent \in Ptr(heap) /\ loc[t].m \in Nat
  BY SMTT(30), <1>1 DEF Routes, Locals, LocalOK, JoinLocalsOK
<1>3. CASE heap' = [heap EXCEPT ![loc[t].gparent].join_id = loc[t].m] /\ Shared(t, "readOther", loc[t])
  <2>1. HeapOK(heap') /\ Extends(heap, heap') /\ SameBases(heap, heap')
    BY <1>1, <1>2, <1>3, SetJoinIdOK
  <2>2. LocalOK(heap, loc[t], "readOther", call[t])
    BY <1>1 DEF LocalOK, CurOK, BaseOK, JoinLocalsOK, StackOK, OwnerLabels, HelperLabels
  <2> QED BY <1>1, <1>3, <2>1, <2>2, RouteStep DEF Labels
<1>4. CASE heap' = heap /\ Shared(t, "undoParent", loc[t])
  <2>1. LocalOK(heap, loc[t], "undoParent", call[t])
    BY <1>1 DEF LocalOK, CurOK, BaseOK, JoinLocalsOK, StackOK, OwnerLabels, HelperLabels
  <2> QED BY <1>1, <1>4, <2>1, SameHeap, RouteStep DEF Labels
<1> QED BY <1>3, <1>4 DEF LockGparent

LEMMA UndoGparentOK ==
    ASSUME IInv, NEW t \in Threads, UndoGparent(t)
    PROVE  IInv' /\ OutcomesAreFinal
<1>1. /\ pc[t] = "undoGparent" /\ pc[t] \in OwnerLabels /\ loc[t] \in Locals
      /\ LocalOK(heap, loc[t], "undoGparent", call[t])
      /\ HeapOK(heap) /\ root \in Ptr(heap) /\ root' = root
      /\ heap' = [heap EXCEPT ![loc[t].gparent].join_id = null]
      /\ Shared(t, "undoParent", loc[t])
  BY ThreadState DEF UndoGparent, OwnerLabels
<1>2. loc[t].gparent \in Ptr(heap) /\ null \in Nat
  BY <1>1 DEF Routes, LocalOK, JoinLocalsOK, null
<1>3. HeapOK(heap') /\ Extends(heap, heap') /\ SameBases(heap, heap')
  BY <1>1, <1>2, SetJoinIdOK
<1>4. LocalOK(heap, loc[t], "undoParent", call[t])
  BY <1>1 DEF LocalOK, CurOK, BaseOK, JoinLocalsOK, StackOK, OwnerLabels, HelperLabels
<1> QED BY <1>1, <1>3, <1>4, RouteStep DEF Labels

LEMMA UndoParentOK ==
    ASSUME IInv, NEW t \in Threads, UndoParent(t)
    PROVE  IInv' /\ OutcomesAreFinal
<1>1. /\ pc[t] = "undoParent" /\ pc[t] \in OwnerLabels /\ loc[t] \in Locals
      /\ LocalOK(heap, loc[t], "undoParent", call[t])
      /\ HeapOK(heap) /\ root \in Ptr(heap) /\ root' = root
      /\ heap' = [heap EXCEPT ![Parent(t)].join_id = null]
      /\ Shared(t, "undoMain", loc[t])
  BY ThreadState DEF UndoParent, OwnerLabels
<1>2. Parent(t) \in Ptr(heap) /\ null \in Nat
  BY <1>1, MainParent DEF Routes, null
<1>3. HeapOK(heap') /\ Extends(heap, heap') /\ SameBases(heap, heap')
  BY <1>1, <1>2, SetJoinIdOK
<1>4. LocalOK(heap, loc[t], "undoMain", call[t])
  BY <1>1 DEF LocalOK, CurOK, BaseOK, JoinLocalsOK, StackOK, OwnerLabels, HelperLabels
<1> QED BY <1>1, <1>3, <1>4, RouteStep DEF Labels

(* The fields of a join that is published.                                 *)
LEMMA PublishedJoin ==
    ASSUME IInv, NEW t \in Threads, pc[t] \in HelperLabels
    PROVE  /\ JoinOK(heap, loc[t].m) /\ heap[loc[t].m].neigh2 \notin Unpublished
           /\ heap[loc[t].m].gparent /= null => heap[loc[t].m].gparent \in Routes(heap)
<1>1. heap[loc[t].m].neigh2 \notin Unpublished /\ HeapOK(heap)
  BY ThreadState DEF LocalOK, JoinLocalsOK
<1>2. loc[t].m \in Ptr(heap) /\ heap[loc[t].m].type = "join_main"
  BY MainParent
<1>3. JoinOK(heap, loc[t].m)
  BY <1>1, <1>2, HeapBasics DEF NodeOK
<1> QED BY <1>1, <1>3 DEF JoinOK

LEMMA InvalidateOK ==
    ASSUME IInv, NEW t \in Threads, Invalidate(t)
    PROVE  IInv' /\ OutcomesAreFinal
<1> DEFINE label == IF heap[loc[t].m].gparent = null THEN "splice" ELSE "findSlot"
<1>1. /\ pc[t] = "invalidate" /\ pc[t] \in HelperLabels /\ loc[t] \in Locals
      /\ LocalOK(heap, loc[t], "invalidate", call[t])
      /\ HeapOK(heap) /\ root \in Ptr(heap) /\ root' = root
      /\ heap' = [heap EXCEPT ![Parent(t)].valid = FALSE]
      /\ Shared(t, label, loc[t])
  BY ThreadState DEF Invalidate, HelperLabels
<1>2. Parent(t) \in Ptr(heap)
  BY <1>1, MainParent DEF Routes
<1>3. HeapOK(heap') /\ Extends(heap, heap') /\ SameBases(heap, heap')
  BY <1>1, <1>2, SetValidOK
<1>4. LocalOK(heap, loc[t], label, call[t])
  BY <1>1 DEF LocalOK, CurOK, BaseOK, JoinLocalsOK, StackOK, OwnerLabels, HelperLabels
<1>5. label \in Labels /\ label \notin OwnerLabels
  BY DEF Labels, OwnerLabels
<1> HIDE DEF label
<1> QED BY <1>1, <1>3, <1>4, <1>5, RouteStep

LEMMA UnlockOK ==
    ASSUME IInv, NEW t \in Threads, Unlock(t)
    PROVE  IInv' /\ OutcomesAreFinal
<1> DEFINE g == heap[loc[t].m].gparent
<1>1. /\ pc[t] = "unlock" /\ pc[t] \in HelperLabels /\ loc[t] \in Locals
      /\ LocalOK(heap, loc[t], "unlock", call[t])
      /\ HeapOK(heap) /\ root \in Ptr(heap) /\ root' = root
      /\ Shared(t, "done", loc[t])
      /\ heap' = [heap EXCEPT ![g].join_id = null] \/ heap' = heap
  BY ThreadState DEF Unlock, HelperLabels
<1>2. g \in Ptr(heap) /\ null \in Nat
  <2>1. g /= null
    BY <1>1 DEF LocalOK, JoinLocalsOK
  <2> QED BY <1>1, <2>1, PublishedJoin DEF Routes, null
<1>3. HeapOK(heap') /\ Extends(heap, heap') /\ SameBases(heap, heap')
  BY <1>1, <1>2, SetJoinIdOK, SameHeap
<1>4. LocalOK(heap, loc[t], "done", call[t])
  BY <1>1 DEF LocalOK, CurOK, BaseOK, JoinLocalsOK, StackOK, OwnerLabels, HelperLabels
<1> QED BY SMTT(30), <1>1, <1>3, <1>4, RouteStep DEF Labels, OwnerLabels

-----------------------------------------------------------------------------
(* The outcome of a join                                                   *)

LEMMA OutcomeStep ==
    ASSUME IInv, NEW t \in Threads,
           NEW m \in Ptr(heap), heap[m].type = "join_main",
           NEW o \in {DONE, ABORTED}, o = ABORTED <=> heap[m].neigh2 \in Unpublished,
           heap' = [heap EXCEPT ![m].neigh2 = o], root' = root,
           Shared(t, loc[t].then, loc[t]), pc[t] /= "idle",
           loc[t].then = "next" => loc[t].stack = loc[t].backup
    PROVE  IInv' /\ OutcomesAreFinal
<1>1. /\ HeapOK(heap) /\ root \in Ptr(heap) /\ loc[t] \in Locals
      /\ LocalOK(heap, loc[t], pc[t], call[t])
  BY ThreadState
<1>2. /\ HeapOK(heap') /\ Extends(heap, heap')
      /\ \A n \in Ptr(heap) : heap'[n].neigh2 = IF n = m THEN o ELSE heap[n].neigh2
  <2>1. LET g == [heap EXCEPT ![m].neigh2 = o]
        IN  /\ HeapOK(g) /\ Extends(heap, g)
            /\ \A n \in Ptr(heap) : g[n].neigh2 = IF n = m THEN o ELSE heap[n].neigh2
    BY ZenonT(40), <1>1, SetOutcomeOK
  <2> QED BY <2>1
<1>3. LocalOK(heap, loc[t], loc[t].then, call[t]) /\ loc[t].then \in Labels \ OwnerLabels
  BY <1>1, ThenOK
<1>4. LocalOK(heap', loc[t], loc[t].then, call[t]) /\ root' \in Ptr(heap')
  BY <1>1, <1>2, <1>3, LocalStable, PointersGrow
<1>5. KeepsOwners(t, loc[t], loc[t].then, heap')
  BY <1>2, <1>3 DEF KeepsOwners, Unpublished
<1>6. OutcomesAreFinal
  <2>1. heap[m].neigh2 \notin Unpublished /\ heap[m].neigh2 /= DONE => heap[m].neigh2 > 0
    BY <1>1, HeapBasics DEF NodeOK, Ptr
  <2>2. heap[m].neigh2 \in Unpublished /\ heap[m].neigh2 /= ABORTED => heap[m].neigh2 = PREPARING
    BY DEF Unpublished
  <2>3. DONE /= ABORTED
    BY DEF DONE, ABORTED
  <2> QED BY <1>2, <2>1, <2>2, <2>3 DEF OutcomesAreFinal, Pointers, Ptr
<1> QED BY <1>1, <1>2, <1>3, <1>4, <1>5, <1>6, SharedStep

LEMMA AbortOK ==
    ASSUME IInv, NEW t \in Threads, Abort(t)
    PROVE  IInv' /\ OutcomesAreFinal
<1>1. /\ pc[t] = "abort" /\ loc[t] \in Locals /\ LocalOK(heap, loc[t], "abort", call[t])
      /\ root \in Ptr(heap) /\ root' = root /\ Shared(t, loc[t].then, loc[t])
  BY ThreadState DEF Abort
<1>2. /\ loc[t].m \in Ptr(heap) /\ heap[loc[t].m].type = "join_main"
      /\ loc[t].then = "next" => loc[t].stack = loc[t].backup
  BY <1>1 DEF LocalOK, JoinLocalsOK, StackOK
<1>3. CASE heap[loc[t].m].neigh2 = PREPARING /\ heap' = [heap EXCEPT ![loc[t].m].neigh2 = ABORTED]
  BY <1>1, <1>2, <1>3, OutcomeStep DEF Unpublished
<1>4. CASE heap' = heap
  <2>1. LocalOK(heap, loc[t], loc[t].then, call[t]) /\ loc[t].then \in Labels \ OwnerLabels
    BY <1>1, <1>2, ThenOK
  <2> QED BY <1>1, <1>4, <2>1, SameHeap, RouteStep
<1> QED BY <1>3, <1>4 DEF Abort

LEMMA UndoMainOK ==
    ASSUME IInv, NEW t \in Threads, UndoMain(t)
    PROVE  IInv' /\ OutcomesAreFinal
<1>1. /\ pc[t] = "undoMain" /\ pc[t] \in OwnerLabels /\ loc[t] \in Locals
      /\ LocalOK(heap, loc[t], "undoMain", call[t])
      /\ heap' = [heap EXCEPT ![loc[t].m].neigh2 = ABORTED]
      /\ root' = root /\ Shared(t, loc[t].then, loc[t])
  BY ThreadState DEF UndoMain, OwnerLabels
<1>2. loc[t].m \in Ptr(heap) /\ heap[loc[t].m].type = "join_main" /\ heap[loc[t].m].neigh2 \in Unpublished
  BY <1>1, MainParent, ThreadState
<1>3. loc[t].then /= "next"
  BY <1>1 DEF LocalOK, StackOK
<1> QED BY <1>1, <1>2, <1>3, OutcomeStep

LEMMA DoneOK ==
    ASSUME IInv, NEW t \in Threads, Done(t)
    PROVE  IInv' /\ OutcomesAreFinal
<1>1. /\ pc[t] = "done" /\ pc[t] \in HelperLabels /\ loc[t] \in Locals
      /\ LocalOK(heap, loc[t], "done", call[t])
      /\ heap' = [heap EXCEPT ![loc[t].m].neigh2 = DONE]
      /\ root' = root /\ Shared(t, loc[t].then, loc[t])
  BY ThreadState DEF Done, HelperLabels
<1>2. /\ loc[t].m \in Ptr(heap) /\ heap[loc[t].m].type = "join_main"
      /\ heap[loc[t].m].neigh2 \notin Unpublished
  BY <1>1, MainParent, PublishedJoin
<1>3. loc[t].then = "next" => loc[t].stack = loc[t].backup
  BY <1>1 DEF LocalOK, StackOK
<1>4. DONE /= ABORTED
  BY DEF DONE, ABORTED
<1> QED BY <1>1, <1>2, <1>3, <1>4, OutcomeStep

(* The main node may be given its remaining fields before the publication. *)
LEMMA ReadOtherOK ==
    ASSUME IInv, NEW t \in Threads, ReadOther(t)
    PROVE  IInv' /\ OutcomesAreFinal
<1> DEFINE m == loc[t].m
           other == Child(Parent(t), Opposite(loc[t].side))
           x == [heap[m] EXCEPT !.gparent = loc[t].gparent, !.otherb = other, !.neigh1 = loc[t].n1]
<1>1. /\ pc[t] = "readOther" /\ pc[t] \in OwnerLabels /\ loc[t] \in Locals
      /\ LocalOK(heap, loc[t], "readOther", call[t])
      /\ HeapOK(heap) /\ root \in Ptr(heap) /\ root' = root
      /\ Shared(t, "publish", loc[t])
      /\ heap[m].neigh2 \in Unpublished
  BY ThreadState DEF ReadOther, OwnerLabels
<1>2. m \in Ptr(heap) /\ heap[m].type = "join_main" /\ other \in Ptr(heap) /\ other \in Nat
  BY <1>1, MainParent, ChildOK
<1>3. /\ loc[t].gparent \in Routes(heap) \cup {null} /\ loc[t].gparent \in Nat
      /\ loc[t].n1 \in Ptr(heap) /\ loc[t].n1 \in Nat
  BY <1>1 DEF LocalOK, JoinLocalsOK, OwnerLabels, Locals
<1>4. heap[m] \in Node
  BY <1>1, <1>2, HeapBasics
<1>5. heap' = [heap EXCEPT ![m] = x]
  BY DEF ReadOther
<1> HIDE DEF other
<1>6. /\ x \in Node
      /\ x.gparent = loc[t].gparent /\ x.otherb = other /\ x.neigh1 = loc[t].n1
      /\ x.neigh2 = heap[m].neigh2 /\ x.type = heap[m].type /\ x.data = heap[m].data
      /\ x.parent = heap[m].parent /\ x.main_node = heap[m].main_node
  BY <1>2, <1>3, <1>4 DEF Node
<1> HIDE DEF x
<1>7. /\ HeapOK(heap') /\ Extends(heap, heap') /\ Len(heap') = Len(heap)
      /\ \A j \in Ptr(heap) : heap'[j] = IF j = m THEN x ELSE heap[j]
  <2> HIDE DEF m
  <2>1. LET g == [heap EXCEPT ![m] = x]
        IN  /\ HeapOK(g) /\ Extends(heap, g) /\ Len(g) = Len(heap)
            /\ \A j \in Ptr(heap) : g[j] = IF j = m THEN x ELSE heap[j]
    BY <1>1, <1>2, <1>3, <1>6, RewriteNode DEF m
  <2> QED BY <1>5, <2>1
<1>8. LocalOK(heap', loc[t], "publish", call[t])
  <2>1. LocalOK(heap', loc[t], "readOther", call[t])
    BY <1>1, <1>7, LocalStable
  <2>2. JoinOK(heap', m)
    BY ZenonT(40), <1>1, <1>2, <1>3, <1>6, <1>7, PointersGrow DEF JoinOK
  <2> QED BY <2>1, <2>2 DEF LocalOK, CurOK, BaseOK, JoinLocalsOK, StackOK, OwnerLabels, HelperLabels
<1>9. KeepsOwners(t, loc[t], "publish", heap')
  BY <1>1, <1>2, <1>6, <1>7 DEF KeepsOwners, Owns
<1>10. root' \in Ptr(heap')
  BY <1>1, <1>7, PointersGrow
<1>11. OutcomesAreFinal
  BY <1>6, <1>7 DEF OutcomesAreFinal, Pointers, Ptr
<1> QED BY <1>1, <1>7, <1>8, <1>9, <1>10, <1>11, SharedStep DEF Labels

-----------------------------------------------------------------------------
(* The actions that add nodes or put them in place                         *)

LEMMA InstallOK ==
    ASSUME HeapOK(heap), root \in Ptr(heap), NEW g, HeapOK(g), Extends(heap, g),
           NEW b \in Ptr(heap), NEW new \in Ptr(g), Install(b, new, g)
    PROVE  HeapOK(heap') /\ Extends(heap, heap') /\ SameBases(g, heap') /\ Extends(g, heap')
           /\ root' \in Ptr(heap')
<1> DEFINE p == heap[b].parent
           side == IF heap[p].left = b THEN "left" ELSE "right"
<1>1. \/ p = null /\ root' = new /\ heap' = g
      \/ p /= null /\ root' = root /\ heap' = SetChild(g, p, side, new)
  BY DEF Install
<1>2. p /= null => p \in Ptr(g)
  BY HeapBasics, PointersGrow DEF NodeOK, Routes
<1> HIDE DEF p, side
<1>3. HeapOK(heap') /\ SameBases(g, heap') /\ Extends(g, heap')
  <2>1. CASE p = null /\ heap' = g
    BY <2>1, HeapExtendsItself DEF SameBases, SameBase
  <2>2. CASE p /= null /\ heap' = SetChild(g, p, side, new)
    <3>1. LET f == SetChild(g, p, side, new)
          IN  HeapOK(f) /\ Extends(g, f) /\ SameBases(g, f)
      BY <1>2, <2>2, SetChildOK
    <3> QED BY <2>2, <3>1
  <2> QED BY <1>1, <2>1, <2>2
<1>4. Extends(heap, heap')
  BY <1>3, ExtendsTransitive
<1>5. root' \in Ptr(heap')
  BY <1>1, <1>3, <1>4, PointersGrow
<1> QED BY <1>3, <1>4, <1>5

LEMMA InstallStep ==
    ASSUME IInv, NEW t \in Threads, NEW label \in Labels, NEW l \in Locals, Shared(t, label, l),
           NEW g, HeapOK(g), Extends(heap, g),
           \A n \in Ptr(heap) : g[n].neigh2 = heap[n].neigh2,
           NEW b \in Ptr(heap), NEW new \in Ptr(g), Install(b, new, g),
           LocalOK(g, l, label, call[t]),
           label \in OwnerLabels => pc[t] \in OwnerLabels /\ l.m = loc[t].m
    PROVE  IInv' /\ OutcomesAreFinal
<1>1. HeapOK(heap) /\ root \in Ptr(heap)
  BY ThreadState
<1>2. /\ HeapOK(heap') /\ Extends(heap, heap') /\ SameBases(g, heap') /\ Extends(g, heap')
      /\ root' \in Ptr(heap')
  BY <1>1, InstallOK
<1>3. \A n \in Ptr(heap) : heap'[n].neigh2 = heap[n].neigh2
  BY <1>1, <1>2, PointersGrow DEF SameBases, SameBase
<1>4. LocalOK(heap', l, label, call[t])
  BY <1>2, LocalStable
<1>5. label \in OwnerLabels => l.m \in Ptr(heap) /\ heap[l.m].neigh2 \in Unpublished
  BY ThreadState, MainParent
<1>6. KeepsOwners(t, l, label, heap')
  BY <1>3, <1>5 DEF KeepsOwners, Owns
<1>7. OutcomesAreFinal
  BY <1>3 DEF OutcomesAreFinal, Pointers, Ptr
<1> QED BY <1>2, <1>4, <1>6, <1>7, SharedStep

(* A new base node for a parent that is a route, or at the root.           *)
LEMMA BaseNode ==
    ASSUME NEW p \in Nat, NEW d \in Seq(Int), NEW s \in Int
    PROVE  LET x == Base(p, d, s)
           IN  /\ x \in Node /\ x.type = "normal" /\ x.neigh2 = PREPARING
               /\ x.parent = p /\ x.data = d /\ x.stat = s
<1>1. <<>> \in Seq(Int)
  BY EmptySeq
<1>2. NewNode \in Node /\ NewNode.type = "normal" /\ NewNode.neigh2 = PREPARING
  BY <1>1 DEF NewNode, Node, NodeTypes, null, PREPARING
<1> QED BY <1>2 DEF Base, Node

LEMMA NewDataOK ==
    ASSUME NEW c \in Calls, NEW d \in Seq(Int), Len(d) < TREAP_NODES
    PROVE  /\ NewData(c, d) \in Seq(Int) /\ Len(NewData(c, d)) <= TREAP_NODES
           /\ Result(c, d) \in BOOLEAN
<1>1. c.key \in Int /\ Len(d) \in Nat /\ TREAP_NODES \in Nat
  BY LenProperties, CapacityAssumption DEF Calls
<1>2. /\ immutableInsert(d, c.key) \in Seq(Int) /\ Len(immutableInsert(d, c.key)) = Len(d) + 1
      /\ immutableRemove(d, c.key) \in Seq(Int) /\ Len(immutableRemove(d, c.key)) <= Len(d)
  BY <1>1, InsertLength, RemoveLength
<1>3. Len(immutableRemove(d, c.key)) \in Nat
  BY <1>2, LenProperties
<1>4. NewData(c, d) \in Seq(Int) /\ Len(NewData(c, d)) <= TREAP_NODES
  BY <1>1, <1>2, <1>3 DEF NewData
<1>5. Result(c, d) \in BOOLEAN
  BY DEF Result, contains
<1> QED BY <1>4, <1>5

LEMMA NewStatType ==
    ASSUME HeapOK(heap), NEW b \in Ptr(heap), NEW contended
    PROVE  new_stat(b, contended) \in Int
<1>1. heap[b].stat \in Int
  BY HeapBasics, NodeTypes_
<1>2. CONT_CONTRIB \in Int /\ LOW_CONT_CONTRIB \in Int /\ HIGH_CONT \in Int /\ LOW_CONT \in Int
  BY StatAssumption
<1> QED BY <1>1, <1>2 DEF new_stat

LEMMA ReplaceOK ==
    ASSUME IInv, NEW t \in Threads, Replace(t)
    PROVE  IInv' /\ OutcomesAreFinal
<1> DEFINE b == loc[t].base
           stat == new_stat(b, loc[t].contended)
           newb == Len(heap) + 1
           d == NewData(call[t], heap[b].data)
           res == Result(call[t], heap[b].data)
           x == Base(heap[b].parent, d, stat)
           g == Append(heap, x)
           label == IF stat > HIGH_CONT THEN "split" ELSE IF stat < LOW_CONT THEN "join" ELSE "return"
           l == [loc[t] EXCEPT !.base = newb, !.then = "return", !.result = res]
<1>1. /\ pc[t] = "replace" /\ loc[t] \in Locals /\ LocalOK(heap, loc[t], "replace", call[t])
      /\ HeapOK(heap)
  BY ThreadState DEF Replace
<1>2. /\ b \in Ptr(heap) /\ Len(heap[b].data) < TREAP_NODES /\ call[t] \in Calls
      /\ loc[t].then /= "next"
  BY <1>1 DEF LocalOK, BaseOK, StackOK
<1>3. Install(b, newb, g) /\ Shared(t, label, l)
  BY DEF Replace
<1>4. /\ heap[b] \in Node /\ NodeOK(heap, b) /\ Len(heap) \in Nat
  BY <1>1, <1>2, HeapBasics
<1>5. d \in Seq(Int) /\ Len(d) <= TREAP_NODES /\ res \in BOOLEAN /\ stat \in Int
  BY <1>1, <1>2, <1>4, NodeTypes_, NewDataOK, NewStatType
<1>6. heap[b].parent \in Routes(heap) \cup {null} /\ heap[b].parent \in Nat
  BY <1>4, NodeTypes_ DEF NodeOK
<1>7. label \in {"split", "join", "return"}
  OBVIOUS
<1> HIDE DEF label, stat, d, res
<1>8. /\ x \in Node /\ x.type = "normal" /\ x.neigh2 = PREPARING
      /\ x.parent = heap[b].parent /\ x.data = d
  BY <1>5, <1>6, BaseNode
<1> HIDE DEF x
<1>9. /\ HeapOK(g) /\ Extends(heap, g) /\ newb \in Ptr(g)
      /\ \A j \in Ptr(heap) : g[j] = heap[j]
      /\ g[newb] = x
  BY <1>1, <1>5, <1>6, <1>8, AddNode
<1> HIDE DEF g
<1>10. /\ l \in Locals /\ l.base = newb /\ l.then = "return"
       /\ l.stack = loc[t].stack /\ l.backup = loc[t].backup
  <2>1. newb \in Nat /\ res \in BOOLEAN /\ loc[t] \in Locals
    BY <1>1, <1>4, <1>5
  <2> HIDE DEF newb
  <2> QED BY <2>1 DEF Locals
<1> HIDE DEF l
<1>11. LocalOK(g, l, label, call[t])
  <2>1. LocalOK(g, loc[t], "replace", call[t])
    BY <1>1, <1>9, LocalStable
  <2>2. CASE label = "join"
    BY <1>8, <1>9, <1>10, <2>1, <2>2
       DEF LocalOK, CurOK, BaseOK, JoinLocalsOK, StackOK, OwnerLabels, HelperLabels
  <2>3. CASE label /= "join"
    BY <1>7, <1>9, <1>10, <2>1, <2>3
       DEF LocalOK, CurOK, BaseOK, JoinLocalsOK, StackOK, OwnerLabels, HelperLabels
  <2> QED BY <2>2, <2>3
<1>12. label \in Labels /\ label \notin OwnerLabels
  BY <1>7 DEF Labels, OwnerLabels
<1> QED BY <1>2, <1>3, <1>9, <1>10, <1>11, <1>12, InstallStep

LEMMA CopyBaseOK ==
    ASSUME IInv, NEW t \in Threads, CopyBase(t)
    PROVE  IInv' /\ OutcomesAreFinal
<1> DEFINE b == loc[t].base
           d == heap[b].data
           new == Len(heap) + 1
           front == Front(loc[t].stack)
           path == Append(front, new)
           more == rangeQuery(d, call[t].key, call[t].hi)
           found == loc[t].found \o more
           g == Append(heap, heap[b])
           label == IF d /= <<>> /\ getMaxValue(d) >= call[t].hi THEN "return" ELSE "next"
           l == [loc[t] EXCEPT !.stack = path, !.backup = path, !.then = "next", !.found = found]
<1>1. /\ pc[t] = "copy" /\ loc[t] \in Locals /\ LocalOK(heap, loc[t], "copy", call[t])
      /\ HeapOK(heap)
  BY ThreadState DEF CopyBase
<1>2. /\ b \in Ptr(heap) /\ call[t] \in Calls /\ call[t].op = "rangeQuery"
      /\ loc[t].stack /= <<>> /\ Path(heap, loc[t].stack)
  BY <1>1 DEF LocalOK, BaseOK, StackOK
<1>3. Install(b, new, g) /\ Shared(t, label, l)
  BY DEF CopyBase
<1>4. heap[b] \in Node /\ NodeOK(heap, b) /\ Len(heap) \in Nat
  BY <1>1, <1>2, HeapBasics
<1>5. /\ HeapOK(g) /\ Extends(heap, g) /\ new \in Ptr(g)
      /\ \A j \in Ptr(heap) : g[j] = heap[j]
  BY <1>1, <1>4, AddNode DEF NodeOK, JoinOK
<1>6. found \in Seq(Int)
  <2>1. d \in Seq(Int) /\ call[t].key \in Int /\ call[t].hi \in Int /\ loc[t].found \in Seq(Int)
    BY <1>1, <1>2, <1>4, NodeTypes_ DEF Calls, Locals
  <2> HIDE DEF d
  <2>2. more \in Seq(Int)
    BY <2>1, RangeQueryType
  <2> HIDE DEF more
  <2> QED BY <2>1, <2>2, ConcatProperties
<1>7. label \in {"next", "return"}
  OBVIOUS
<1> HIDE DEF label, found, g, more
<1>8. /\ path \in Seq(Nat) /\ path /= <<>> /\ Path(g, path)
  <2>1. front \in Seq(Routes(heap))
    BY <1>2, PathFront
  <2> HIDE DEF front
  <2>2. front \in Seq(Routes(g)) /\ Routes(g) \subseteq Nat /\ new \in Nat
    BY <1>1, <1>4, <1>5, <2>1, PointersGrow, HeapBasics DEF Routes
  <2>3. front \in Seq(Nat)
    BY <2>2
  <2> HIDE DEF new
  <2> QED BY <1>5, <2>2, <2>3, PathAppend, AppendProperties
<1> HIDE DEF path
<1>9. l \in Locals /\ l.stack = path /\ l.backup = path /\ l.then = "next"
  BY <1>1, <1>6, <1>8 DEF Locals
<1> HIDE DEF l
<1>10. LocalOK(g, l, label, call[t])
  BY <1>2, <1>7, <1>8, <1>9
     DEF LocalOK, CurOK, BaseOK, JoinLocalsOK, StackOK, OwnerLabels, HelperLabels
<1>11. label \in Labels /\ label \notin OwnerLabels
  BY <1>7 DEF Labels, OwnerLabels
<1>12. \A n \in Ptr(heap) : g[n].neigh2 = heap[n].neigh2
  BY <1>5
<1> QED BY <1>2, <1>3, <1>5, <1>9, <1>10, <1>11, <1>12, InstallStep

LEMMA LockNeighborOK ==
    ASSUME IInv, NEW t \in Threads, LockNeighbor(t)
    PROVE  IInv' /\ OutcomesAreFinal
<1> DEFINE n0 == loc[t].cur
           m == loc[t].m
           n1 == Len(heap) + 1
           x == [heap[n0] EXCEPT !.type = "join_neighbor", !.main_node = m]
           g == Append(heap, x)
           l == [loc[t] EXCEPT !.n1 = n1]
<1>1. /\ pc[t] = "lockNeighbor" /\ pc[t] \in OwnerLabels /\ loc[t] \in Locals
      /\ LocalOK(heap, loc[t], "lockNeighbor", call[t])
      /\ HeapOK(heap)
  BY ThreadState DEF LockNeighbor, OwnerLabels
<1>2. /\ n0 \in Ptr(heap) /\ m \in Ptr(heap) /\ heap[m].type = "join_main" /\ m \in Nat
      /\ Len(heap[m].data) + Len(heap[n0].data) <= TREAP_NODES
  BY <1>1, MainParent DEF LocalOK, CurOK, JoinLocalsOK, Locals
<1>3. heap[n0] \in Node /\ NodeOK(heap, n0) /\ Len(heap) \in Nat
  BY <1>1, <1>2, HeapBasics
<1>4. CASE Install(n0, n1, g) /\ Shared(t, "lockParent", l)
  <2>1. /\ x \in Node /\ x.type = "join_neighbor" /\ x.main_node = m
        /\ x.data = heap[n0].data /\ x.parent = heap[n0].parent
    <3> HIDE DEF m
    <3> QED BY <1>2, <1>3 DEF Node, NodeTypes
  <2> HIDE DEF x
  <2>2. /\ HeapOK(g) /\ Extends(heap, g) /\ n1 \in Ptr(g)
        /\ \A j \in Ptr(heap) : g[j] = heap[j]
        /\ g[n1] = x
    <3>1. Len(x.data) <= TREAP_NODES /\ x.parent \in Routes(heap) \cup {null}
      BY <1>3, <2>1 DEF NodeOK
    <3> HIDE DEF m
    <3> QED BY <1>1, <1>2, <2>1, <3>1, AddNode
  <2> HIDE DEF g
  <2>3. n1 \in Nat
    BY <1>3
  <2> HIDE DEF n1
  <2>4. /\ l \in Locals /\ l.n1 = n1 /\ l.m = m
        /\ l.stack = loc[t].stack /\ l.backup = loc[t].backup /\ l.then = loc[t].then
    BY <1>1, <2>3 DEF Locals
  <2> HIDE DEF l
  <2>5. LocalOK(g, l, "lockParent", call[t])
    <3>1. LocalOK(g, loc[t], "lockNeighbor", call[t])
      BY <1>1, <2>2, LocalStable
    <3>2. g[n1].type = "join_neighbor" /\ Len(g[m].data) + Len(g[n1].data) <= TREAP_NODES
      BY <1>2, <2>1, <2>2
    <3> QED BY <2>2, <2>4, <3>1, <3>2
            DEF LocalOK, CurOK, BaseOK, JoinLocalsOK, StackOK, OwnerLabels, HelperLabels
  <2>6. \A n \in Ptr(heap) : g[n].neigh2 = heap[n].neigh2
    BY <2>2
  <2> QED BY <1>1, <1>2, <1>4, <2>2, <2>4, <2>5, <2>6, InstallStep DEF Labels
<1>5. CASE heap' = heap /\ root' = root /\ Shared(t, "undoMain", loc[t])
  <2>1. LocalOK(heap, loc[t], "undoMain", call[t])
    BY <1>1 DEF LocalOK, CurOK, BaseOK, JoinLocalsOK, StackOK, OwnerLabels, HelperLabels
  <2> QED BY <1>1, <1>5, <2>1, ThreadState, SameHeap, RouteStep DEF Labels
<1> QED BY <1>4, <1>5 DEF LockNeighbor

LEMMA ReplaceNeighborOK ==
    ASSUME IInv, NEW t \in Threads, ReplaceNeighbor(t)
    PROVE  IInv' /\ OutcomesAreFinal
<1> DEFINE n1 == heap[loc[t].m].neigh1
<1>1. /\ pc[t] = "replaceNeighbor" /\ pc[t] \in HelperLabels /\ loc[t] \in Locals
      /\ LocalOK(heap, loc[t], "replaceNeighbor", call[t])
      /\ HeapOK(heap) /\ root \in Ptr(heap)
      /\ Shared(t, "invalidate", loc[t])
  BY ThreadState DEF ReplaceNeighbor, HelperLabels
<1>2. n1 \in Ptr(heap) /\ loc[t].n2 \in Ptr(heap)
  BY <1>1, PublishedJoin DEF JoinOK, LocalOK, JoinLocalsOK
<1>3. LocalOK(heap, loc[t], "invalidate", call[t])
  BY <1>1 DEF LocalOK, CurOK, BaseOK, JoinLocalsOK, StackOK, OwnerLabels, HelperLabels
<1>4. CASE Install(n1, loc[t].n2, heap)
  <2> HIDE DEF n1
  <2> QED BY <1>1, <1>2, <1>3, <1>4, SameHeap, InstallStep DEF Labels, OwnerLabels
<1>5. CASE heap' = heap /\ root' = root
  BY <1>1, <1>3, <1>5, SameHeap, RouteStep DEF Labels, OwnerLabels
<1> QED BY <1>4, <1>5 DEF ReplaceNeighbor

LEMMA SpliceOK ==
    ASSUME IInv, NEW t \in Threads, Splice(t)
    PROVE  IInv' /\ OutcomesAreFinal
<1> DEFINE g == heap[loc[t].m].gparent
           c == IF heap[loc[t].m].otherb = heap[loc[t].m].neigh1 THEN loc[t].n2 ELSE heap[loc[t].m].otherb
           label == IF g = null THEN "done" ELSE "unlock"
<1>1. /\ pc[t] = "splice" /\ pc[t] \in HelperLabels /\ loc[t] \in Locals
      /\ LocalOK(heap, loc[t], "splice", call[t])
      /\ HeapOK(heap) /\ root \in Ptr(heap)
      /\ Shared(t, label, loc[t])
  BY ThreadState DEF Splice, HelperLabels
<1>2. c \in Ptr(heap) /\ (g /= null => g \in Ptr(heap))
  BY <1>1, PublishedJoin DEF JoinOK, LocalOK, JoinLocalsOK, Routes
<1>3. \/ root' \in {root, c} /\ heap' = heap
      \/ g /= null /\ root' = root /\ heap' = SetChild(heap, g, loc[t].slot, c)
  BY DEF Splice
<1>4. LocalOK(heap, loc[t], label, call[t])
  BY <1>1 DEF LocalOK, CurOK, BaseOK, JoinLocalsOK, StackOK, OwnerLabels, HelperLabels
<1>5. label \in Labels /\ label \notin OwnerLabels
  BY DEF Labels, OwnerLabels
<1> HIDE DEF g, c, label
<1>6. HeapOK(heap') /\ Extends(heap, heap') /\ SameBases(heap, heap') /\ root' \in Ptr(heap)
  <2>1. CASE root' \in {root, c} /\ heap' = heap
    BY <1>1, <1>2, <2>1, SameHeap
  <2>2. CASE g /= null /\ root' = root /\ heap' = SetChild(heap, g, loc[t].slot, c)
    <3>1. LET f == SetChild(heap, g, loc[t].slot, c)
          IN  HeapOK(f) /\ Extends(heap, f) /\ SameBases(heap, f)
      BY <1>1, <1>2, <2>2, SetChildOK
    <3> QED BY <1>1, <2>2, <3>1
  <2> QED BY <1>3, <2>1, <2>2
<1> QED BY <1>1, <1>4, <1>5, <1>6, RouteStep

(* The main node of a new join is published, and owned by t.               *)
LEMMA LockMainOK ==
    ASSUME IInv, NEW t \in Threads, LockMain(t)
    PROVE  IInv' /\ OutcomesAreFinal
<1> DEFINE b == loc[t].base
           p == heap[b].parent
           m == Len(heap) + 1
           x == [heap[b] EXCEPT !.type = "join_main"]
           g == Append(heap, x)
           f == SetChild(g, p, loc[t].side, m)
           l == [loc[t] EXCEPT !.m = m]
<1>1. /\ pc[t] = "lockMain" /\ loc[t] \in Locals /\ LocalOK(heap, loc[t], "lockMain", call[t])
      /\ HeapOK(heap) /\ root \in Ptr(heap) /\ root' = root
  BY ThreadState DEF LockMain
<1>2. /\ b \in Ptr(heap) /\ heap[b].type = "normal" /\ p /= null
      /\ loc[t].cur \in Ptr(heap)
      /\ Len(heap[b].data) + Len(heap[loc[t].cur].data) <= TREAP_NODES
  BY <1>1 DEF LocalOK, CurOK, BaseOK
<1>3. heap[b] \in Node /\ NodeOK(heap, b) /\ Len(heap) \in Nat
  BY <1>1, <1>2, HeapBasics
<1>4. CASE heap' = f /\ Shared(t, "lockNeighbor", l)
  <2>1. /\ x \in Node /\ x.type = "join_main" /\ x.neigh2 = PREPARING
        /\ x.data = heap[b].data /\ x.parent = p
    BY <1>2, <1>3 DEF Node, NodeTypes, NodeOK
  <2>2. p \in Routes(heap) /\ Len(heap[b].data) <= TREAP_NODES /\ PREPARING \in Unpublished
    BY <1>2, <1>3 DEF NodeOK, Unpublished
  <2> HIDE DEF x, p
  <2>3. /\ HeapOK(g) /\ Extends(heap, g) /\ m \in Ptr(g) /\ Len(g) = Len(heap) + 1
        /\ \A j \in Ptr(heap) : g[j] = heap[j]
        /\ g[m] = x
    BY <1>1, <1>2, <2>1, <2>2, AddNode
  <2>4. m \in Nat /\ m \notin Ptr(heap)
    BY <1>3 DEF Ptr
  <2> HIDE DEF g, m
  <2>5. p \in Ptr(g)
    BY <1>1, <2>2, <2>3, PointersGrow DEF Routes
  <2>6. HeapOK(f) /\ Extends(g, f) /\ SameBases(g, f)
    BY <2>3, <2>5, SetChildOK
  <2> HIDE DEF f
  <2>7. Extends(heap, f) /\ Ptr(heap) \subseteq Ptr(g) /\ root \in Ptr(f) /\ m \in Ptr(f)
    BY <1>1, <2>3, <2>6, ExtendsTransitive, PointersGrow
  <2>8. /\ \A n \in Ptr(heap) : f[n].neigh2 = heap[n].neigh2 /\ f[n].data = heap[n].data
        /\ f[m].type = "join_main" /\ f[m].neigh2 \in Unpublished /\ f[m].data = heap[b].data
    BY <2>1, <2>2, <2>3, <2>6, <2>7 DEF SameBases, SameBase
  <2>9. /\ l \in Locals /\ l.m = m /\ l.cur = loc[t].cur
        /\ l.stack = loc[t].stack /\ l.backup = loc[t].backup /\ l.then = loc[t].then
    BY <1>1, <2>4 DEF Locals
  <2> HIDE DEF l
  <2>10. LocalOK(f, l, "lockNeighbor", call[t])
    <3>1. LocalOK(f, loc[t], "lockMain", call[t])
      BY <1>1, <2>6, <2>7, LocalStable
    <3>2. Len(f[m].data) + Len(f[loc[t].cur].data) <= TREAP_NODES
      BY <1>2, <2>8
    <3> QED BY <2>7, <2>8, <2>9, <3>1, <3>2
            DEF LocalOK, CurOK, BaseOK, JoinLocalsOK, StackOK, OwnerLabels, HelperLabels
  <2>11. KeepsOwners(t, l, "lockNeighbor", f)
    BY <2>4, <2>8, <2>9 DEF KeepsOwners
  <2>12. OutcomesAreFinal
    BY <1>4, <2>8 DEF OutcomesAreFinal, Pointers, Ptr
  <2> QED BY <1>1, <1>4, <2>6, <2>7, <2>9, <2>10, <2>11, <2>12, SharedStep DEF Labels
<1>5. CASE heap' = heap /\ Shared(t, "return", loc[t])
  <2>1. LocalOK(heap, loc[t], "return", call[t])
    BY <1>1, ThenOK
  <2> QED BY <1>1, <1>5, <2>1, SameHeap, RouteStep DEF Labels, OwnerLabels
<1> QED BY <1>4, <1>5 DEF LockMain

(* The merged node: it fits a treap, by what the thread has checked.       *)
LEMMA JoinedOK ==
    ASSUME IInv, NEW t \in Threads, pc[t] = "publish"
    PROVE  LET x == Joined(t)
           IN  /\ x \in Node /\ x.type = "join_neighbor" /\ Len(x.data) <= TREAP_NODES
               /\ x.parent \in Routes(heap) \cup {null}
               /\ x.main_node \in Ptr(heap) /\ heap[x.main_node].type = "join_main"
<1> DEFINE m == loc[t].m
           n1 == loc[t].n1
           p == IF heap[m].otherb = n1 THEN loc[t].gparent ELSE heap[n1].parent
           d == IF loc[t].side = "left" THEN merge(heap[m].data, heap[n1].data)
                ELSE merge(heap[n1].data, heap[m].data)
           x == [heap[n1] EXCEPT !.parent = p, !.data = d]
<1>1. loc[t] \in Locals /\ LocalOK(heap, loc[t], "publish", call[t]) /\ HeapOK(heap)
  BY ThreadState
<1>2. /\ m \in Ptr(heap) /\ n1 \in Ptr(heap) /\ heap[n1].type = "join_neighbor"
      /\ Len(heap[m].data) + Len(heap[n1].data) <= TREAP_NODES
      /\ loc[t].gparent \in Routes(heap) \cup {null} /\ loc[t].gparent \in Nat
  BY <1>1 DEF LocalOK, JoinLocalsOK, OwnerLabels, Locals
<1>3. heap[m] \in Node /\ heap[n1] \in Node /\ NodeOK(heap, n1)
  BY <1>1, <1>2, HeapBasics
<1>4. heap[m].data \in Seq(Int) /\ heap[n1].data \in Seq(Int) /\ heap[n1].parent \in Nat
  BY <1>3, NodeTypes_
<1>5. d \in Seq(Int) /\ Len(d) <= TREAP_NODES
  <2>1. /\ Len(heap[m].data) \in Nat /\ Len(heap[n1].data) \in Nat
    BY <1>4, LenProperties
  <2>2. /\ merge(heap[m].data, heap[n1].data) \in Seq(Int)
        /\ Len(merge(heap[m].data, heap[n1].data)) = Len(heap[m].data) + Len(heap[n1].data)
        /\ merge(heap[n1].data, heap[m].data) \in Seq(Int)
        /\ Len(merge(heap[n1].data, heap[m].data)) = Len(heap[n1].data) + Len(heap[m].data)
    BY <1>4, MergeLength
  <2>3. Len(heap[n1].data) + Len(heap[m].data) <= TREAP_NODES
    <3>1. \A a, b \in Nat : a + b = b + a
      OBVIOUS
    <3> HIDE DEF m, n1
    <3> QED BY <1>2, <2>1, <3>1
  <2> QED BY <1>2, <2>2, <2>3
<1>6. p \in Nat /\ p \in Routes(heap) \cup {null}
  BY <1>2, <1>3, <1>4 DEF NodeOK
<1>7. heap[n1].main_node \in Ptr(heap) /\ heap[heap[n1].main_node].type = "join_main"
  BY <1>2, <1>3 DEF NodeOK
<1>8. Joined(t) = x
  BY DEF Joined
<1> HIDE DEF p, d
<1>9. /\ x \in Node /\ x.type = heap[n1].type /\ x.data = d /\ x.parent = p
      /\ x.main_node = heap[n1].main_node
  BY <1>3, <1>5, <1>6 DEF Node
<1> HIDE DEF x
<1> QED BY <1>2, <1>5, <1>6, <1>7, <1>8, <1>9

LEMMA PublishOK ==
    ASSUME IInv, NEW t \in Threads, Publish(t)
    PROVE  IInv' /\ OutcomesAreFinal
<1> DEFINE m == loc[t].m
           new == Len(heap) + 1
           j == Joined(t)
           g == Append(heap, j)
           x == [g[m] EXCEPT !.neigh2 = new]
           f == [g EXCEPT ![m] = x]
           undo == IF loc[t].gparent = null THEN "undoParent" ELSE "undoGparent"
<1>1. /\ pc[t] = "publish" /\ pc[t] \in OwnerLabels /\ loc[t] \in Locals
      /\ LocalOK(heap, loc[t], "publish", call[t])
      /\ HeapOK(heap) /\ root \in Ptr(heap) /\ root' = root
      /\ heap[m].neigh2 \in Unpublished
  BY ThreadState DEF Publish, OwnerLabels
<1>2. /\ m \in Ptr(heap) /\ heap[m].type = "join_main" /\ JoinOK(heap, m)
      /\ loc[t].then /= "next"
  BY <1>1, MainParent DEF LocalOK, JoinLocalsOK, StackOK
<1>3. CASE /\ heap[m].neigh2 = PREPARING
           /\ heap' = [g EXCEPT ![m].neigh2 = new] /\ Shared(t, "load", loc[t])
  <2>1. /\ j \in Node /\ j.type = "join_neighbor" /\ Len(j.data) <= TREAP_NODES
        /\ j.parent \in Routes(heap) \cup {null}
        /\ j.main_node \in Ptr(heap) /\ heap[j.main_node].type = "join_main"
    BY <1>1, JoinedOK
  <2>2. heap' = f
    BY <1>3
  <2> HIDE DEF j, m
  <2>3. /\ HeapOK(g) /\ Extends(heap, g) /\ new \in Ptr(g)
        /\ \A i \in Ptr(heap) : g[i] = heap[i]
    BY <1>1, <2>1, AddNode
  <2> HIDE DEF g
  <2>4. new \in Nat \ {0} /\ new \notin Unpublished /\ new /= DONE
    BY <1>1, HeapBasics DEF Unpublished, PREPARING, ABORTED, DONE
  <2> HIDE DEF new
  <2>5. m \in Ptr(g) /\ g[m] \in Node /\ g[m] = heap[m] /\ JoinOK(g, m)
    BY <1>1, <1>2, <2>3, PointersGrow, HeapBasics DEF JoinOK
  <2>6. /\ x \in Node /\ x.neigh2 = new
        /\ x.type = g[m].type /\ x.data = g[m].data /\ x.parent = g[m].parent
        /\ x.main_node = g[m].main_node /\ x.neigh1 = g[m].neigh1
        /\ x.gparent = g[m].gparent /\ x.otherb = g[m].otherb
    BY <2>4, <2>5 DEF Node
  <2> HIDE DEF x
  <2>7. /\ HeapOK(f) /\ Extends(g, f)
        /\ \A i \in Ptr(g) : f[i] = IF i = m THEN x ELSE g[i]
    <3>1. x.type = "join_main" /\ g[m].neigh2 \in Unpublished
      BY <1>1, <1>2, <2>5, <2>6 DEF m
    <3>2. /\ x.neigh1 \in Ptr(g) /\ x.otherb \in Ptr(g)
          /\ x.gparent \in Routes(g) \cup {null}
      BY <2>5, <2>6 DEF JoinOK
    <3>3. /\ x.type = "route" => x.left \in Ptr(g) /\ x.right \in Ptr(g)
          /\ x.type = "normal" => x.neigh2 = PREPARING
          /\ x.type = "join_main" /\ x.neigh2 \notin Unpublished =>
                /\ x.neigh1 \in Ptr(g) /\ x.otherb \in Ptr(g)
                /\ x.gparent \in Routes(g) \cup {null}
                /\ x.neigh2 /= DONE => x.neigh2 \in Ptr(g)
      BY <2>3, <2>6, <3>1, <3>2
    <3>4. g[m].neigh2 \notin Unpublished => x.neigh2 \notin Unpublished /\ x.gparent = g[m].gparent
      BY <3>1
    <3>5. LET e == [g EXCEPT ![m] = x]
          IN  /\ HeapOK(e) /\ Extends(g, e)
              /\ \A i \in Ptr(g) : e[i] = IF i = m THEN x ELSE g[i]
      BY <2>3, <2>5, <2>6, <3>2, <3>3, <3>4, RewriteNode
    <3> QED BY <3>5 DEF f
  <2> HIDE DEF f
  <2>8. Extends(heap, f) /\ Ptr(heap) \subseteq Ptr(g) /\ root \in Ptr(f)
    BY <1>1, <2>3, <2>7, ExtendsTransitive, PointersGrow
  <2>9. f[m].neigh2 = new /\ \A n \in Ptr(heap) : n /= m => f[n].neigh2 = heap[n].neigh2
    BY <2>3, <2>5, <2>6, <2>7, <2>8
  <2>10. LocalOK(f, loc[t], "load", call[t])
    <3>1. LocalOK(f, loc[t], "publish", call[t])
      BY <1>1, <2>7, <2>8, LocalStable
    <3>2. f[loc[t].m].neigh2 \notin Unpublished
      BY <2>4, <2>9 DEF m
    <3> QED BY <1>2, <3>1, <3>2
            DEF LocalOK, CurOK, BaseOK, JoinLocalsOK, StackOK, OwnerLabels, HelperLabels
  <2>11. KeepsOwners(t, loc[t], "load", f)
    <3>1. Owns(t, m) /\ "load" \notin OwnerLabels
      BY <1>1 DEF Owns, OwnerLabels, m
    <3> QED BY <2>9, <3>1 DEF KeepsOwners
  <2>12. OutcomesAreFinal
    BY <1>3, <2>2, <2>4, <2>9 DEF OutcomesAreFinal, Pointers, Ptr
  <2> QED BY ZenonT(40), <1>1, <1>3, <2>2, <2>7, <2>8, <2>10, <2>11, <2>12, SharedStep DEF Labels
<1>4. CASE heap' = heap /\ Shared(t, undo, loc[t])
  <2>1. LocalOK(heap, loc[t], undo, call[t])
    BY <1>1 DEF LocalOK, CurOK, BaseOK, JoinLocalsOK, StackOK, OwnerLabels, HelperLabels
  <2>2. undo \in Labels
    BY DEF Labels
  <2> HIDE DEF undo
  <2> QED BY <1>1, <1>4, <2>1, <2>2, SameHeap, RouteStep
<1> QED BY <1>3, <1>4 DEF Publish

(* Nodes r, a and c may follow heap h: a route and the two bases below it. *)
MaySplit(h, r, a, c) ==
    /\ HeapOK(h) /\ {r, a, c} \subseteq Node
    /\ r.type = "route" /\ r.left = Len(h) + 2 /\ r.right = Len(h) + 3
    /\ r.parent = null /\ Len(r.data) <= TREAP_NODES
    /\ \A x \in {a, c} :
        /\ x.type = "normal" /\ x.neigh2 = PREPARING
        /\ x.parent = Len(h) + 1 /\ Len(x.data) <= TREAP_NODES

(* Heap g is heap h followed by these nodes.                               *)
HasSplit(h, g, r, a, c) ==
    /\ HeapOK(g) /\ Extends(h, g) /\ Len(h) + 1 \in Ptr(g)
    /\ \A j \in Ptr(h) : g[j] = h[j]
    /\ Ptr(g) = Ptr(h) \cup {Len(h) + 1, Len(h) + 2, Len(h) + 3}
    /\ g[Len(h) + 1] = r /\ g[Len(h) + 2] = a /\ g[Len(h) + 3] = c

LEMMA AddSplit ==
    ASSUME NEW h, NEW r, NEW a, NEW c, MaySplit(h, r, a, c)
    PROVE  HasSplit(h, h \o <<r, a, c>>, r, a, c)
<1>1. HeapOK(h) /\ r \in Node /\ a \in Node /\ c \in Node
  BY DEF MaySplit
<1>2. /\ r.type = "route" /\ r.left = Len(h) + 2 /\ r.right = Len(h) + 3
       /\ r.parent = null /\ Len(r.data) <= TREAP_NODES
      /\ a.type = "normal" /\ a.neigh2 = PREPARING /\ a.parent = Len(h) + 1 /\ Len(a.data) <= TREAP_NODES
      /\ c.type = "normal" /\ c.neigh2 = PREPARING /\ c.parent = Len(h) + 1 /\ Len(c.data) <= TREAP_NODES
  BY DEF MaySplit
<1> DEFINE s == <<r, a, c>>
           g == h \o s
           k == Len(h)
<1>3. k \in Nat /\ h \in Seq(Node)
  BY <1>1, HeapBasics DEF HeapOK
<1>4. s \in Seq(Node) /\ Len(s) = 3 /\ s[1] = r /\ s[2] = a /\ s[3] = c
  BY <1>1
<1> HIDE DEF s
<1>5. /\ g \in Seq(Node) /\ Len(g) = k + 3
      /\ \A i \in 1 .. k + 3 : g[i] = IF i <= k THEN h[i] ELSE s[i - k]
  <2> HIDE DEF k
  <2>1. /\ g \in Seq(Node) /\ Len(g) = Len(h) + Len(s)
        /\ \A i \in 1 .. Len(h) + Len(s) : g[i] = IF i <= Len(h) THEN h[i] ELSE s[i - Len(h)]
    BY <1>3, <1>4, ConcatProperties
  <2> HIDE DEF g
  <2> QED BY <1>4, <2>1 DEF k
<1> HIDE DEF g
<1>6. /\ \A j \in Ptr(h) : g[j] = h[j]
      /\ Ptr(g) = Ptr(h) \cup {k + 1, k + 2, k + 3}
  <2>1. Ptr(h) = 1 .. k /\ Ptr(g) = 1 .. k + 3
    BY <1>5 DEF Ptr
  <2> HIDE DEF k
  <2>2. 1 .. k + 3 = (1 .. k) \cup {k + 1, k + 2, k + 3}
    BY <1>3
  <2>3. ASSUME NEW j \in 1 .. k PROVE g[j] = h[j]
    <3>1. j \in 1 .. k + 3 /\ j <= k
      BY <1>3
    <3> QED BY <1>5, <3>1
  <2> QED BY <2>1, <2>2, <2>3
<1>7. g[k + 1] = r /\ g[k + 2] = a /\ g[k + 3] = c
  <2>1. /\ k + 1 \in 1 .. k + 3 /\ k + 2 \in 1 .. k + 3 /\ k + 3 \in 1 .. k + 3
        /\ ~(k + 1 <= k) /\ ~(k + 2 <= k) /\ ~(k + 3 <= k)
        /\ (k + 1) - k = 1 /\ (k + 2) - k = 2 /\ (k + 3) - k = 3
    BY <1>3
  <2>2. g[k + 1] = s[(k + 1) - k] /\ g[k + 2] = s[(k + 2) - k] /\ g[k + 3] = s[(k + 3) - k]
    BY <1>5, <2>1
  <2> QED BY <1>4, <2>1, <2>2
<1> HIDE DEF k
<1>8. Routes(h) \cup {k + 1} \subseteq Routes(g)
  BY <1>2, <1>6, <1>7 DEF Routes
<1>9. ASSUME NEW n \in Ptr(g) PROVE NodeOK(g, n)
  <2>1. CASE n = k + 1
    BY <1>1, <1>2, <1>6, <1>7, <2>1 DEF NodeOK, k
  <2>2. CASE n = k + 2
    BY <1>1, <1>2, <1>7, <1>8, <2>2 DEF NodeOK, k
  <2>3. CASE n = k + 3
    BY <1>1, <1>2, <1>7, <1>8, <2>3 DEF NodeOK, k
  <2>4. CASE n \in Ptr(h)
    <3>1. NodeOK(h, n) /\ g[n] = h[n] /\ Ptr(h) \subseteq Ptr(g)
      BY <1>1, <1>6, <2>4 DEF HeapOK
    <3> QED BY <1>6, <1>8, <3>1 DEF NodeOK, JoinOK
  <2> QED BY <1>6, <2>1, <2>2, <2>3, <2>4
<1>10. ASSUME NEW n \in Ptr(h) PROVE Keeps(h, g, n)
  BY <1>1, <1>6, <1>8 DEF Keeps, JoinOK
<1>11. HeapOK(g) /\ Extends(h, g)
  BY <1>1, <1>3, <1>5, <1>9, <1>10 DEF HeapOK, Extends, k
<1>12. k + 1 \in Ptr(g)
  BY <1>6
<1> QED BY <1>6, <1>7, <1>11, <1>12 DEF g, s, k, HasSplit

(* Heap g is heap h with a route and its two bases added.                  *)
AddsSplit(h, g) ==
    LET r == Len(h) + 1
    IN  /\ Ptr(g) = Ptr(h) \cup {r, r + 1, r + 2}
        /\ \A j \in Ptr(h) : g[j] = h[j]
        /\ g[r].type = "route" /\ g[r].left = r + 1 /\ g[r].right = r + 2 /\ g[r].parent = null
        /\ g[r + 1].type = "normal" /\ g[r + 1].parent = r
        /\ g[r + 2].type = "normal" /\ g[r + 2].parent = r

LEMMA SplitNodesOK ==
    ASSUME HeapOK(heap), NEW b \in Ptr(heap), Len(heap[b].data) >= 2
    PROVE  /\ HeapOK(SplitNodes(b)) /\ Extends(heap, SplitNodes(b))
           /\ Len(heap) + 1 \in Ptr(SplitNodes(b))
           /\ \A j \in Ptr(heap) : SplitNodes(b)[j] = heap[j]
           /\ AddsSplit(heap, SplitNodes(b))
<1> DEFINE n == Len(heap) + 1
           d == heap[b].data
           k == getMedianVal(d)
           r == [NewNode EXCEPT !.type = "route", !.key = k, !.left = n + 1, !.right = n + 2]
           left == splitLeft(d, k)
           right == splitRight(d, k)
           x == Base(n, left, 0)
           y == Base(n, right, 0)
<1>1. heap[b] \in Node /\ NodeOK(heap, b) /\ Len(heap) \in Nat
  BY HeapBasics
<1>2. d \in Seq(Int) /\ Len(d) <= TREAP_NODES /\ Len(d) \in Nat /\ TREAP_NODES \in Nat
  BY <1>1, NodeTypes_, LenProperties, CapacityAssumption DEF NodeOK
<1>3. SplitNodes(b) = heap \o <<r, x, y>>
  BY DEF SplitNodes
<1>4. Len(d) >= 2
  OBVIOUS
<1> HIDE DEF d
<1>5. k \in Int
  BY <1>2, <1>4, MedianType
<1> HIDE DEF k
<1>6. /\ left \in Seq(Int) /\ Len(left) <= TREAP_NODES
      /\ right \in Seq(Int) /\ Len(right) <= TREAP_NODES
  <2>1. /\ left \in Seq(Int) /\ Len(left) <= Len(d)
        /\ right \in Seq(Int) /\ Len(right) <= Len(d)
    BY <1>2, <1>5, SplitLengths
  <2> HIDE DEF left, right
  <2>2. Len(left) \in Nat /\ Len(right) \in Nat
    BY <2>1, LenProperties
  <2> QED BY <1>2, <2>1, <2>2
<1>7. n \in Nat /\ n + 1 = Len(heap) + 2 /\ n + 2 = Len(heap) + 3 /\ n + 1 \in Nat /\ n + 2 \in Nat
  BY <1>1
<1> HIDE DEF left, right
<1>8. /\ x \in Node /\ x.type = "normal" /\ x.neigh2 = PREPARING /\ x.parent = n /\ x.data = left
      /\ y \in Node /\ y.type = "normal" /\ y.neigh2 = PREPARING /\ y.parent = n /\ y.data = right
  BY <1>6, <1>7, BaseNode
<1> HIDE DEF x, y
<1>9. r \in Node /\ r.type = "route" /\ r.left = n + 1 /\ r.right = n + 2 /\ r.parent = null /\ r.data = <<>>
  <2>1. <<>> \in Seq(Int)
    BY EmptySeq
  <2>2. NewNode \in Node /\ NewNode.parent = null /\ NewNode.data = <<>>
    BY <2>1 DEF NewNode, Node, NodeTypes, null, PREPARING
  <2> HIDE DEF n
  <2> QED BY <1>5, <1>7, <2>2 DEF Node, NodeTypes
<1>10. Len(r.data) <= TREAP_NODES
  <2>1. Len(<<>>) = 0
    BY EmptySeq
  <2> QED BY <1>2, <1>9, <2>1
<1> HIDE DEF r
<1>11. /\ r.left = Len(heap) + 2 /\ r.right = Len(heap) + 3
       /\ x.parent = Len(heap) + 1 /\ y.parent = Len(heap) + 1
       /\ Len(x.data) <= TREAP_NODES /\ Len(y.data) <= TREAP_NODES
  BY <1>6, <1>7, <1>8, <1>9
<1>12. LET g == heap \o <<r, x, y>>
       IN  /\ HeapOK(g) /\ Extends(heap, g) /\ Len(heap) + 1 \in Ptr(g)
           /\ \A j \in Ptr(heap) : g[j] = heap[j]
           /\ Ptr(g) = Ptr(heap) \cup {Len(heap) + 1, Len(heap) + 2, Len(heap) + 3}
           /\ g[Len(heap) + 1] = r /\ g[Len(heap) + 2] = x /\ g[Len(heap) + 3] = y
  <2> HIDE DEF n
  <2>1. MaySplit(heap, r, x, y)
    BY <1>8, <1>9, <1>10, <1>11 DEF MaySplit
  <2>2. HasSplit(heap, heap \o <<r, x, y>>, r, x, y)
    BY <2>1, AddSplit
  <2> QED BY <2>2 DEF HasSplit
<1>13. AddsSplit(heap, SplitNodes(b))
  <2> DEFINE g == SplitNodes(b)
  <2>1. /\ \A j \in Ptr(heap) : g[j] = heap[j]
        /\ Ptr(g) = Ptr(heap) \cup {n, n + 1, n + 2}
        /\ g[n] = r /\ g[n + 1] = x /\ g[n + 2] = y
    BY <1>3, <1>7, <1>12
  <2> HIDE DEF g
  <2>2. AddsSplit(heap, g)
    BY <1>8, <1>9, <2>1 DEF AddsSplit
  <2> QED BY <2>2 DEF g
<1> QED BY <1>3, <1>12, <1>13

LEMMA SplitOK ==
    ASSUME IInv, NEW t \in Threads, Split(t)
    PROVE  IInv' /\ OutcomesAreFinal
<1> DEFINE b == loc[t].base
<1>1. /\ pc[t] = "split" /\ loc[t] \in Locals /\ LocalOK(heap, loc[t], "split", call[t])
      /\ HeapOK(heap) /\ root \in Ptr(heap)
      /\ Shared(t, loc[t].then, loc[t])
  BY ThreadState DEF Split
<1>2. /\ b \in Ptr(heap) /\ loc[t].then /= "next"
  BY <1>1 DEF LocalOK, BaseOK, StackOK
<1>3. LocalOK(heap, loc[t], loc[t].then, call[t]) /\ loc[t].then \in Labels \ OwnerLabels
  BY <1>1, <1>2, ThenOK
<1>4. CASE Len(heap[b].data) >= 2 /\ Install(b, Len(heap) + 1, SplitNodes(b))
  <2>1. /\ HeapOK(SplitNodes(b)) /\ Extends(heap, SplitNodes(b))
        /\ Len(heap) + 1 \in Ptr(SplitNodes(b))
        /\ \A j \in Ptr(heap) : SplitNodes(b)[j] = heap[j]
    BY <1>1, <1>2, <1>4, SplitNodesOK
  <2>2. LocalOK(SplitNodes(b), loc[t], loc[t].then, call[t])
    BY <1>1, <1>3, <2>1, LocalStable
  <2>3. \A n \in Ptr(heap) : SplitNodes(b)[n].neigh2 = heap[n].neigh2
    BY <2>1
  <2> HIDE DEF b
  <2> QED BY <1>1, <1>2, <1>3, <1>4, <2>1, <2>2, <2>3, InstallStep
<1>5. CASE heap' = heap /\ root' = root
  BY <1>1, <1>3, <1>5, SameHeap, RouteStep
<1> QED BY <1>4, <1>5 DEF Split

-----------------------------------------------------------------------------
(* The invariant and what follows from it                                  *)

LEMMA InitOK == Init => IInv
<1> SUFFICES ASSUME Init PROVE IInv
  OBVIOUS
<1> DEFINE empty == <<>>
           b == Base(null, empty, 0)
<1>1. empty \in Seq(Int) /\ Len(empty) = 0 /\ 0 \in Int /\ null \in Nat
  BY EmptySeq DEF null
<1> HIDE DEF empty
<1>2. b \in Node /\ b.type = "normal" /\ b.neigh2 = PREPARING /\ b.parent = null /\ b.data = empty
  <2>1. NewNode \in Node /\ NewNode.type = "normal" /\ NewNode.neigh2 = PREPARING
    BY EmptySeq DEF NewNode, Node, NodeTypes, null, PREPARING
  <2> QED BY <1>1, <2>1 DEF Base, Node
<1>3. Len(b.data) <= TREAP_NODES
  BY <1>1, <1>2, CapacityAssumption
<1> HIDE DEF b
<1>4. heap = <<b>> /\ root = 1
  BY DEF Init, InitTree, b, empty
<1>5. heap \in Seq(Node) /\ Ptr(heap) = {1} /\ heap[1] = b
  <2>1. heap \in Seq(Node) /\ Len(heap) = 1 /\ heap[1] = b
    BY <1>2, <1>4
  <2> QED BY <2>1 DEF Ptr
<1>6. HeapOK(heap)
  BY <1>2, <1>3, <1>5 DEF HeapOK, NodeOK
<1>7. /\ pc \in [Threads -> Labels] /\ \A t \in Threads : pc[t] = "idle"
      /\ loc \in [Threads -> Locals] /\ \A t \in Threads : loc[t] = NewLocals
      /\ todo \in [Threads -> Seq(Calls)]
      /\ call \in [Threads -> Calls \cup {NoCall}]
      /\ reply \in [Threads -> [result : BOOLEAN, found : Seq(Int)]]
  BY LocalsTypes, ProgramsAssumption DEF Init, InitThreads, Labels
<1>8. TypeOK
  BY <1>4, <1>5, <1>7 DEF TypeOK
<1>9. \A t \in Threads : LocalOK(heap, loc[t], pc[t], call[t])
  BY <1>7, NewLocalsOK
<1>10. OwnersOK
  BY <1>7 DEF OwnersOK, OwnerLabels
<1> QED BY <1>4, <1>5, <1>6, <1>8, <1>9, <1>10 DEF IInv, WellFormed

LEMMA ThreadOK ==
    ASSUME IInv, NEW t \in Threads, Thread(t)
    PROVE  IInv' /\ OutcomesAreFinal
BY BeginOK, LoadRootOK, ReturnOK, FindBaseOK, LookupOK, FindFullOK, CheckBaseOK,
   ReplaceOK, ReplaceFailsOK, HelpOK, AbortOK, SplitOK,
   ChooseSideOK, LoadSiblingOK, FindNeighborOK, CheckNeighborOK,
   LockMainOK, LockNeighborOK, LockParentOK, ParentOfOK, SearchParentOK, ParentFoundOK,
   ParentNotFoundOK, LockGparentOK, ReadOtherOK, PublishOK,
   UndoGparentOK, UndoParentOK, UndoMainOK,
   LoadJoinedOK, ReplaceNeighborOK, InvalidateOK, FindSlotOK, SpliceOK, UnlockOK, DoneOK,
   FindBaseStackOK, CheckRangeBaseOK, CopyBaseOK, CopyFailsOK, FindNextBaseOK,
   ClimbOK, GoRightOK, GoLeftOK
   DEF Thread

LEMMA StutterOK ==
    ASSUME IInv, UNCHANGED vars
    PROVE  IInv' /\ OutcomesAreFinal
<1>1. IInv'
  BY DEF vars, client, IInv, TypeOK, WellFormed, OwnersOK, Owns
<1>2. OutcomesAreFinal
  BY DEF vars, OutcomesAreFinal
<1> QED BY <1>1, <1>2

LEMMA NextOK == IInv /\ [Next]_vars => IInv' /\ OutcomesAreFinal
BY ThreadOK, StutterOK DEF Next, Finished

THEOREM Inductive == Spec => []IInv
BY InitOK, NextOK, PTL DEF Spec

(* Every variable holds values of its type, for any threads, programs and  *)
(* treap size.                                                             *)
THEOREM TypeCorrect == Spec => []TypeOK
<1>1. IInv => TypeOK
  BY DEF IInv
<1> QED BY <1>1, Inductive, PTL

(* No thread follows a pointer that is null, a sentinel or to a node of    *)
(* another kind than the code takes it for (lfca.cpp throughout).          *)
THEOREM PointersAreGood == Spec => []WellFormed
<1>1. IInv => WellFormed
  BY DEF IInv
<1> QED BY <1>1, Inductive, PTL

(* No treap outgrows its array, although secure_join (lfca.cpp:354-446)    *)
(* merges two treaps whose sizes it checked before it locked them.         *)
THEOREM TreapsFit == Spec => []Capacity
<1>1. IInv => Capacity
  BY DEF IInv, WellFormed, HeapOK, NodeOK, Capacity, Pointers, Ptr
<1> QED BY <1>1, Inductive, PTL

(* A join that was published is never aborted, and an aborted one is never *)
(* published, whichever thread stores to neigh2 last (lfca.cpp:109, 392,   *)
(* 398, 406, 435, 444 and 478).                                            *)
THEOREM OutcomesStay == Spec => JoinOutcomeIsFinal
<1>1. IInv /\ [Next]_vars => [OutcomesAreFinal]_heap
  BY NextOK
<1> QED BY <1>1, Inductive, PTL DEF Spec, JoinOutcomeIsFinal
=============================================================================
