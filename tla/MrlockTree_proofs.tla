-------------------------- MODULE MrlockTree_proofs ---------------------------
(***************************************************************************)
(* The calls of MrlockTree run one at a time, for any threads, programs,   *)
(* trees and sizes: what the lock promises (ResourceLock) is enough, and   *)
(* no way out of a call forgets the lock or lets go of it twice.  What     *)
(* they make of the tree is a search tree that holds every value where it  *)
(* is looked for, with nothing leaked, and they throw only for a reason.   *)
(* What they answer is what a search tree promises (SearchTree).           *)
(***************************************************************************)
EXTENDS MrlockHistory, TreapSeq_proofs, TLAPS

-----------------------------------------------------------------------------
(* The promise of the lock on its own, for any resources: a lock that      *)
(* grants conflicting requests in their order grants each resource to one  *)
(* thread at a time.                                                       *)

CONSTANT Resources

Order == INSTANCE ResourceLock

(* The requests are for resources in R.  Of two threads whose requests     *)
(* conflict, one waits for the other; who holds its request waits for      *)
(* nobody.                                                                 *)
OrderInv(R) ==
    /\ request \in [Threads -> SUBSET R]
    /\ holds \subseteq Threads
    /\ ahead \in [Threads -> SUBSET Threads]
    /\ \A t, u \in Threads : Order!Conflict(t, u) => t \in ahead[u] \/ u \in ahead[t]
    /\ \A t \in holds : request[t] /= {} /\ ahead[t] = {}

(* Every request, grant and release keeps the invariant.                   *)
LEMMA StepKeepsOrder ==
    ASSUME NEW R, OrderInv(R), NEW t \in Threads,
           \/ \E asked \in (SUBSET R) \ {{}} : Order!Request(t, asked)
           \/ Order!Grant(t)
           \/ Order!Release(t)
    PROVE  OrderInv(R)'
<1> USE DEF OrderInv, Order!Conflict
<1>1. ASSUME NEW asked \in (SUBSET R) \ {{}}, Order!Request(t, asked)
      PROVE OrderInv(R)'
  <2>1. request' \in [Threads -> SUBSET R] /\ holds' \subseteq Threads
        /\ ahead' \in [Threads -> SUBSET Threads]
    BY <1>1 DEF Order!Request
  <2>2. t \notin holds
    BY <1>1 DEF Order!Request
  <2>3. ASSUME NEW u \in Threads, NEW v \in Threads, Order!Conflict(u, v)'
        PROVE u \in ahead'[v] \/ v \in ahead'[u]
    BY <1>1, <2>3 DEF Order!Request
  <2>4. \A u \in holds' : request'[u] /= {} /\ ahead'[u] = {}
    BY <1>1, <2>2 DEF Order!Request
  <2> QED BY <2>1, <2>3, <2>4
<1>2. CASE Order!Grant(t)
  BY <1>2 DEF Order!Grant
<1>3. CASE Order!Release(t)
  <2>1. request' \in [Threads -> SUBSET R] /\ holds' \subseteq Threads
        /\ ahead' \in [Threads -> SUBSET Threads]
    BY <1>3 DEF Order!Release
  <2>2. ASSUME NEW u \in Threads, NEW v \in Threads, Order!Conflict(u, v)'
        PROVE u \in ahead'[v] \/ v \in ahead'[u]
    <3>1. u /= t /\ v /= t
      BY <1>3, <2>2 DEF Order!Release
    <3> QED BY <1>3, <2>2, <3>1 DEF Order!Release
  <2>3. \A u \in holds' : request'[u] /= {} /\ ahead'[u] = {}
    BY <1>3 DEF Order!Release
  <2> QED BY <2>1, <2>2, <2>3
<1> QED BY <1>1, <1>2, <1>3

(* Two threads never hold the same resource between Lock (mrlock.h:68) and *)
(* Unlock (mrlock.h:114) if conflicting requests are granted in order.     *)
THEOREM OrderExcludes == Order!Spec => []Order!Exclusive
<1>1. Order!Init => OrderInv(Resources)
  BY DEF Order!Init, OrderInv, Order!Conflict
<1>2. OrderInv(Resources) => Order!Exclusive
  BY DEF OrderInv, Order!Conflict, Order!Exclusive
<1>3. OrderInv(Resources) /\ [Order!Next]_(Order!vars) => OrderInv(Resources)'
  <2> SUFFICES ASSUME OrderInv(Resources), [Order!Next]_(Order!vars) PROVE OrderInv(Resources)'
    OBVIOUS
  <2>1. CASE Order!Next
    BY <2>1, StepKeepsOrder DEF Order!Next
  <2>2. CASE UNCHANGED Order!vars
    BY <2>2 DEF Order!vars, OrderInv, Order!Conflict
  <2> QED BY <2>1, <2>2
<1> QED BY <1>1, <1>2, <1>3, PTL DEF Order!Spec

-----------------------------------------------------------------------------

Outside == {"idle", "lock", "return", "failed"}
Inside == {"search", "split", "splitLeft", "splitRight", "merge", "query", "unlock", "unwind"}

(* A thread is in the tree just when it holds its request, and all ask for *)
(* the same resource.                                                      *)
HolderInside ==
    /\ pc \in [Threads -> Outside \cup Inside \cup {"wait"}]
    /\ \A t \in Threads :
        /\ pc[t] \in Inside <=> t \in holds
        /\ request[t] = IF pc[t] \in Outside THEN {} ELSE {1}

LInv == OrderInv({1}) /\ HolderInside

(* A step of thread t that asks for the lock, gets it, lets go of it, or   *)
(* leaves the lock alone and stays on its side.                            *)
LockStep(t) ==
    /\ pc[t] \in Outside \cup Inside \cup {"wait"}
    /\ \/ /\ pc[t] = "lock" /\ pc' = [pc EXCEPT ![t] = "wait"]
          /\ Lock!Request(t, {1})
       \/ /\ pc[t] = "wait" /\ \E label \in Inside : pc' = [pc EXCEPT ![t] = label]
          /\ Lock!Grant(t)
       \/ /\ pc[t] \in Inside /\ \E label \in Outside : pc' = [pc EXCEPT ![t] = label]
          /\ Lock!Release(t)
       \/ /\ \/ pc[t] \in Inside /\ \E label \in Inside : pc' = [pc EXCEPT ![t] = label]
             \/ pc[t] \in Outside /\ \E label \in Outside : pc' = [pc EXCEPT ![t] = label]
          /\ UNCHANGED lockVars

(* Each action of a thread is such a step.                                 *)
LEMMA ThreadLockStep ==
    ASSUME NEW t \in Threads, LInv, Thread(t)
    PROVE  LockStep(t) \/ UNCHANGED <<pc, lockVars>>
<1> USE DEF Goto, lockVars, LockStep, Inside, Outside
<1>1. CASE Call(t)
  BY <1>1 DEF Call
<1>2. CASE Request(t)
  BY <1>2 DEF Request, TreeLock
<1>3. CASE Acquire(t)
  BY <1>3 DEF Acquire
<1>4. CASE Search(t)
  BY <1>4 DEF Search
<1>5. CASE Unlock(t)
  BY <1>5 DEF Unlock
<1>6. CASE Return(t)
  BY <1>6 DEF Return
<1>7. CASE OutOfTreaps(t)
  BY <1>7 DEF OutOfTreaps, AtBase
<1>8. CASE InsertValue(t)
  BY <1>8 DEF InsertValue, AtBase
<1>9. CASE MakeNodes(t)
  BY <1>9 DEF MakeNodes
<1>10. CASE SplitLeft(t)
  BY <1>10 DEF SplitLeft
<1>11. CASE SplitRight(t)
  BY <1>11 DEF SplitRight
<1>12. CASE RemoveValue(t)
  BY <1>12 DEF RemoveValue, AtBase
<1>13. CASE Merge(t)
  BY <1>13 DEF Merge
<1>14. CASE Lookup(t)
  BY <1>14 DEF Lookup, AtBase
<1>15. CASE CheckNode(t)
  BY <1>15 DEF CheckNode
<1>16. CASE QueryEnds(t)
  BY <1>16 DEF QueryEnds
<1> QED BY <1>1, <1>2, <1>3, <1>4, <1>5, <1>6, <1>7, <1>8, <1>9, <1>10, <1>11, <1>12,
           <1>13, <1>14, <1>15, <1>16 DEF Thread

LEMMA LockStepKeeps ==
    ASSUME NEW t \in Threads, LInv, LockStep(t)
    PROVE  LInv'
<1> USE DEF LInv, HolderInside, Inside, Outside
<1>1. CASE /\ pc[t] = "lock" /\ pc' = [pc EXCEPT ![t] = "wait"]
           /\ Lock!Request(t, {1})
  <2>1. OrderInv({1})'
    <3>1. Order!Request(t, {1})
      BY <1>1 DEF Lock!Request, Order!Request
    <3> QED BY <3>1, StepKeepsOrder
  <2>2. HolderInside'
    BY <1>1 DEF Lock!Request, OrderInv
  <2> QED BY <2>1, <2>2
<1>2. CASE /\ pc[t] = "wait" /\ \E label \in Inside : pc' = [pc EXCEPT ![t] = label]
           /\ Lock!Grant(t)
  <2>1. OrderInv({1})'
    <3>1. Order!Grant(t)
      BY <1>2 DEF Lock!Grant, Order!Grant
    <3> QED BY <3>1, StepKeepsOrder
  <2>2. HolderInside'
    BY <1>2 DEF Lock!Grant
  <2> QED BY <2>1, <2>2
<1>3. CASE /\ pc[t] \in Inside /\ \E label \in Outside : pc' = [pc EXCEPT ![t] = label]
           /\ Lock!Release(t)
  <2>1. OrderInv({1})'
    <3>1. Order!Release(t)
      BY <1>3 DEF Lock!Release, Order!Release
    <3> QED BY <3>1, StepKeepsOrder
  <2>2. HolderInside'
    <3>1. request \in [Threads -> SUBSET {1}] /\ holds \subseteq Threads
      BY DEF OrderInv
    <3>2. holds' = holds \ {t} /\ request' = [request EXCEPT ![t] = {}]
      BY <1>3 DEF Lock!Release
    <3> QED BY <1>3, <3>1, <3>2
  <2> QED BY <2>1, <2>2
<1>4. CASE /\ \/ pc[t] \in Inside /\ \E label \in Inside : pc' = [pc EXCEPT ![t] = label]
              \/ pc[t] \in Outside /\ \E label \in Outside : pc' = [pc EXCEPT ![t] = label]
           /\ UNCHANGED lockVars
  <2>1. OrderInv({1})'
    BY <1>4 DEF lockVars, OrderInv, Order!Conflict
  <2>2. HolderInside'
    BY <1>4 DEF lockVars
  <2> QED BY <2>1, <2>2
<1> QED BY <1>1, <1>2, <1>3, <1>4 DEF LockStep

LEMMA LockBegins == Init => LInv
BY DEF Init, LInv, HolderInside, Inside, Outside, Lock!Init, OrderInv, Order!Conflict

LEMMA LockStays == LInv /\ [Next]_vars => LInv'
<1> SUFFICES ASSUME LInv, [Next]_vars PROVE LInv'
  OBVIOUS
<1>1. ASSUME UNCHANGED <<pc, lockVars>> PROVE LInv'
  <2>1. OrderInv({1})'
    BY <1>1 DEF LInv, lockVars, OrderInv, Order!Conflict
  <2> QED BY <1>1, <2>1 DEF LInv, HolderInside, lockVars
<1>2. ASSUME NEW t \in Threads, Thread(t) PROVE LInv'
  BY <1>1, <1>2, ThreadLockStep, LockStepKeeps
<1>3. CASE Deallocate
  BY <1>1, <1>3 DEF Deallocate
<1>4. CASE DeleteNode
  BY <1>1, <1>4 DEF DeleteNode
<1>5. ASSUME NEW t \in Threads, Spin(t) PROVE LInv'
  BY <1>1, <1>5 DEF Spin, vars
<1>6. CASE Stopped \/ UNCHANGED vars
  BY <1>1, <1>6 DEF Stopped, vars
<1> QED BY <1>2, <1>3, <1>4, <1>5, <1>6 DEF Next

LEMMA RunsAlone == LInv => CallsRunAlone
BY DEF LInv, HolderInside, Inside, Outside, CallsRunAlone, InTree, OrderInv, Order!Conflict

(* MrlockTree's calls run alone (ScopedMrLock, mrlocktree.h:24-38): on     *)
(* every path, also the ones that throw, a thread lets go of the lock once *)
(* it has left the tree, and not before.                                   *)
THEOREM TreeIsLocked == Spec => []CallsRunAlone
BY LockBegins, LockStays, RunsAlone, PTL DEF Spec

-----------------------------------------------------------------------------
(* Searches and reachable nodes                                            *)

(* The path of v starts at the head, and follows the routes: it is the     *)
(* least set that does.                                                    *)
LEMMA PathFacts ==
    ASSUME NEW its, NEW v, NEW roots, Forest(its, roots), head \in roots
    PROVE  /\ head \in Path(its, v) /\ Path(its, v) \subseteq DOMAIN its
           /\ \A r \in Path(its, v) \cap Routes(its) : Toward(its, r, v) \in Path(its, v)
           /\ \A S \in SUBSET DOMAIN its : ClosedToward(its, v, S) => Path(its, v) \subseteq S
<1>1. head \in DOMAIN its
  BY DEF Forest
<1>2. \A r \in Routes(its) : Toward(its, r, v) \in DOMAIN its
  BY DEF Forest, Toward, Children
<1>3. \A S \in SUBSET DOMAIN its : ClosedToward(its, v, S) => Path(its, v) \subseteq S
  BY DEF Path
<1>4. head \in Path(its, v)
  BY <1>1 DEF Path, ClosedToward
<1>5. ASSUME NEW r \in Path(its, v) \cap Routes(its) PROVE Toward(its, r, v) \in Path(its, v)
  BY <1>2, <1>5 DEF Path, ClosedToward
<1>6. Path(its, v) \subseteq DOMAIN its
  BY DEF Path
<1> QED BY <1>3, <1>4, <1>5, <1>6

(* A search comes to a child from its parent, and only if it belongs there.*)
LEMMA PathComesFrom ==
    ASSUME NEW its, NEW v, NEW roots, Forest(its, roots), head \in roots,
           NEW r \in Routes(its), NEW c \in Children(its, r), c \in Path(its, v)
    PROVE  r \in Path(its, v) /\ c = Toward(its, r, v)
<1> SUFFICES ASSUME ~(r \in Path(its, v) /\ c = Toward(its, r, v)) PROVE FALSE
  OBVIOUS
<1> DEFINE S == Path(its, v) \ {c}
<1>1. /\ head \in Path(its, v) /\ Path(its, v) \subseteq DOMAIN its
      /\ \A q \in Path(its, v) \cap Routes(its) : Toward(its, q, v) \in Path(its, v)
      /\ \A T \in SUBSET DOMAIN its : ClosedToward(its, v, T) => Path(its, v) \subseteq T
  BY PathFacts
<1>2. head /= c
  BY DEF Forest
<1>3. ASSUME NEW q \in S \cap Routes(its) PROVE Toward(its, q, v) \in S
  <2>1. Toward(its, q, v) \in Path(its, v) /\ Toward(its, q, v) \in Children(its, q)
    BY <1>1, <1>3 DEF Toward, Children
  <2>2. ASSUME Toward(its, q, v) = c PROVE FALSE
    <3>1. q = r
      BY <1>3, <2>1, <2>2 DEF Forest
    <3> QED BY <1>3, <2>2, <3>1
  <2> QED BY <2>1, <2>2
<1>4. ClosedToward(its, v, S)
  BY <1>1, <1>2, <1>3 DEF ClosedToward
<1>5. Path(its, v) \subseteq S
  <2> HIDE DEF S
  <2>1. S \in SUBSET DOMAIN its
    BY <1>1 DEF S
  <2> QED BY <1>1, <1>4, <2>1
<1> QED BY <1>5

SameLinks(its, its2, r) ==
    r \in Routes(its2) /\ its2[r].left = its[r].left /\ its2[r].right = its[r].right /\ its2[r].val = its[r].val

(* its2 is an edit of its around the nodes D: the others are still there,  *)
(* and a route among them keeps its links or led into D.                   *)
Edit(its, its2, D) ==
    /\ DOMAIN its \ D \subseteq DOMAIN its2
    /\ \A r \in Routes(its) \ D : Children(its, r) \subseteq D \/ SameLinks(its, its2, r)

(* An edit around bases takes nothing else out of the path of a search.    *)
LEMMA PathKept ==
    ASSUME NEW its, NEW its2, NEW D, NEW v, NEW roots, Forest(its, roots), head \in roots,
           Edit(its, its2, D), D \cap Routes(its) = {}, head \notin D
    PROVE  Path(its, v) \ D \subseteq Path(its2, v)
<1> SUFFICES ASSUME NEW b \in Path(its, v) \ D PROVE b \in Path(its2, v)
  OBVIOUS
<1>1. Path(its, v) \subseteq DOMAIN its
  BY DEF Path
<1>2. b \in DOMAIN its2
  BY <1>1 DEF Edit
<1> SUFFICES ASSUME NEW S \in SUBSET DOMAIN its2, ClosedToward(its2, v, S) PROVE b \in S
  BY <1>2 DEF Path
<1> DEFINE T == (S \cup D) \cap DOMAIN its
<1>3. head \in T
  BY DEF ClosedToward, Forest
<1>4. ASSUME NEW r \in T \cap Routes(its) PROVE Toward(its, r, v) \in T
  <2>1. r \in S /\ r \notin D
    BY <1>4
  <2>2. Toward(its, r, v) \in Children(its, r) /\ Children(its, r) \subseteq DOMAIN its
    BY <1>4 DEF Toward, Children, Forest
  <2>3. CASE Children(its, r) \subseteq D
    BY <2>2, <2>3
  <2>4. CASE SameLinks(its, its2, r)
    <3>1. Toward(its2, r, v) \in S
      BY <2>1, <2>4 DEF ClosedToward, SameLinks
    <3> QED BY <2>2, <2>4, <3>1 DEF SameLinks, Toward
  <2> QED BY <1>4, <2>1, <2>3, <2>4 DEF Edit
<1>5. ClosedToward(its, v, T)
  BY <1>3, <1>4 DEF ClosedToward
<1>6. b \in T
  <2> HIDE DEF T
  <2>1. T \in SUBSET DOMAIN its
    BY DEF T
  <2> QED BY <1>5, <2>1 DEF Path
<1> QED BY <1>6

(* The same of what can be reached from some roots, if the new ones make   *)
(* up for what is cut out.                                                 *)
LEMMA BelowKept ==
    ASSUME NEW its, NEW its2, NEW D, NEW roots, NEW roots2, NEW its_roots, Forest(its, its_roots),
           Edit(its, its2, D), roots \subseteq roots2 \cup D, roots \subseteq DOMAIN its,
           \A r \in Routes(its) \cap D : Children(its, r) \subseteq roots2 \cup D
    PROVE  Below(its, roots) \ D \subseteq Below(its2, roots2)
<1> SUFFICES ASSUME NEW b \in Below(its, roots) \ D PROVE b \in Below(its2, roots2)
  OBVIOUS
<1>1. Below(its, roots) \subseteq DOMAIN its
  BY DEF Below
<1>2. b \in DOMAIN its2
  BY <1>1 DEF Edit
<1> SUFFICES ASSUME NEW S \in SUBSET DOMAIN its2, ClosedBelow(its2, roots2, S) PROVE b \in S
  BY <1>2 DEF Below
<1> DEFINE T == (S \cup D) \cap DOMAIN its
<1>3. roots2 \subseteq S
  BY DEF ClosedBelow
<1>4. roots \subseteq T
  BY <1>3
<1>5. ASSUME NEW r \in T \cap Routes(its) PROVE Children(its, r) \subseteq T
  <2>1. Children(its, r) \subseteq DOMAIN its
    BY <1>5 DEF Forest
  <2>2. CASE r \in D
    BY <1>3, <1>5, <2>1, <2>2
  <2>3. CASE r \notin D /\ Children(its, r) \subseteq D
    BY <2>1, <2>3
  <2>4. CASE r \notin D /\ SameLinks(its, its2, r)
    <3>1. Children(its2, r) \subseteq S
      BY <1>5, <2>4 DEF ClosedBelow, SameLinks
    <3> QED BY <2>1, <2>4, <3>1 DEF SameLinks, Children
  <2> QED BY <1>5, <2>2, <2>3, <2>4 DEF Edit
<1>6. ClosedBelow(its, roots, T)
  BY <1>4, <1>5 DEF ClosedBelow
<1>7. b \in T
  <2> HIDE DEF T
  <2>1. T \in SUBSET DOMAIN its
    BY DEF T
  <2> QED BY <1>6, <2>1 DEF Below
<1> QED BY <1>7

(* What is reached stays in the set of nodes, with the roots and the       *)
(* children of routes.                                                     *)
LEMMA BelowFacts ==
    ASSUME NEW its, NEW roots, NEW its_roots, Forest(its, its_roots), roots \subseteq DOMAIN its
    PROVE  /\ roots \subseteq Below(its, roots) /\ Below(its, roots) \subseteq DOMAIN its
           /\ \A r \in Below(its, roots) \cap Routes(its) : Children(its, r) \subseteq Below(its, roots)
<1>1. roots \subseteq Below(its, roots)
  BY DEF Below, ClosedBelow
<1>2. ASSUME NEW r \in Below(its, roots) \cap Routes(its) PROVE Children(its, r) \subseteq Below(its, roots)
  <2>1. Children(its, r) \subseteq DOMAIN its
    BY <1>2 DEF Forest
  <2> QED BY <1>2, <2>1 DEF Below, ClosedBelow
<1>3. Below(its, roots) \subseteq DOMAIN its
  BY DEF Below
<1> QED BY <1>1, <1>2, <1>3

-----------------------------------------------------------------------------
(* What the actions do to the nodes                                        *)

(* A base gets another treap.                                              *)
HasTreap(its, its2, n, d) ==
    /\ its2 \in [DOMAIN its -> Node] /\ Routes(its2) = Routes(its)
    /\ its2[n] = [its[n] EXCEPT !.treap = d] /\ its2[n] \in Node /\ its2[n].treap = d
    /\ \A m \in DOMAIN its \ {n} : its2[m] = its[m]
    /\ \A m \in DOMAIN its :
        its2[m].val = its[m].val /\ its2[m].left = its[m].left /\ its2[m].right = its[m].right

LEMMA TreapChanges ==
    ASSUME NEW its, NEW capacity, GoodNodes(its, capacity), NEW n \in Bases(its), NEW d \in Seq(Int)
    PROVE  HasTreap(its, [its EXCEPT ![n].treap = d], n, d)
<1> DEFINE its2 == [its EXCEPT ![n].treap = d]
<1>1. n \in DOMAIN its /\ its \in [DOMAIN its -> Node]
  BY DEF GoodNodes, Bases
<1>2. DOMAIN its2 = DOMAIN its /\ \A m \in DOMAIN its \ {n} : its2[m] = its[m]
  OBVIOUS
<1>3. its2[n] = [its[n] EXCEPT !.treap = d]
  BY <1>1
<1>4. its[n] \in Node
  BY <1>1
<1> HIDE DEF its2
<1>5. /\ its2[n] \in Node /\ its2[n].treap = d /\ its2[n].isRoute = its[n].isRoute
      /\ its2[n].val = its[n].val /\ its2[n].left = its[n].left /\ its2[n].right = its[n].right
  BY <1>3, <1>4 DEF Node
<1>6. Routes(its2) = Routes(its)
  BY <1>2, <1>5 DEF Routes
<1>7. its2 \in [DOMAIN its -> Node]
  <2>1. its2 = [m \in DOMAIN its |-> IF m = n THEN [its[n] EXCEPT !.treap = d] ELSE its[m]]
    BY <1>1 DEF its2
  <2>2. [its[n] EXCEPT !.treap = d] \in Node
    BY <1>3, <1>5
  <2> QED BY <1>1, <2>1, <2>2
<1> QED BY <1>2, <1>3, <1>5, <1>6, <1>7 DEF HasTreap, its2

LEMMA HasTreapForest ==
    ASSUME NEW its, NEW its2, NEW n, NEW d, NEW roots, HasTreap(its, its2, n, d), Forest(its, roots)
    PROVE  Forest(its2, roots) /\ Edit(its, its2, {}) /\ \A r \in Routes(its) : Children(its2, r) = Children(its, r)
<1>1. DOMAIN its2 = DOMAIN its /\ Routes(its2) = Routes(its) /\ Routes(its) \subseteq DOMAIN its
  BY DEF HasTreap, Routes
<1>2. \A m \in DOMAIN its :
        its2[m].val = its[m].val /\ its2[m].left = its[m].left /\ its2[m].right = its[m].right
  BY DEF HasTreap
<1>3. \A r \in Routes(its) : Children(its2, r) = Children(its, r) /\ its2[r].left = its[r].left /\ its2[r].right = its[r].right
  BY <1>1, <1>2 DEF Children
<1>4. Forest(its2, roots)
  BY <1>1, <1>3 DEF Forest
<1>5. Edit(its, its2, {})
  BY <1>1, <1>2 DEF Edit, SameLinks
<1> QED BY <1>3, <1>4, <1>5

LEMMA HasTreapGood ==
    ASSUME NEW its, NEW its2, NEW n \in Bases(its), NEW d, NEW capacity, HasTreap(its, its2, n, d),
           GoodNodes(its, capacity), Sorted(d), Len(d) <= capacity
    PROVE  GoodNodes(its2, capacity)
<1>1. DOMAIN its2 = DOMAIN its /\ Bases(its2) = Bases(its) /\ n \in DOMAIN its
  BY DEF HasTreap, Bases
<1>2. its2 \in [DOMAIN its2 -> Node]
  BY <1>1 DEF HasTreap
<1> QED BY <1>1, <1>2 DEF GoodNodes, HasTreap, Bases

(* The values of the new treap are in place.                               *)
LEMMA HasTreapInPlace ==
    ASSUME NEW its, NEW its2, NEW n \in Bases(its), NEW d, NEW roots, HasTreap(its, its2, n, d),
           Forest(its, roots), head \in roots, InPlace(its),
           \A v \in ToSet(d) : n \in Path(its, v)
    PROVE  InPlace(its2)
<1>1. Bases(its2) = Bases(its) /\ Edit(its, its2, {})
  BY HasTreapForest DEF HasTreap, Bases
<1>2. \A v : Path(its, v) \ {} \subseteq Path(its2, v)
  BY <1>1, PathKept
<1>3. \A b \in Bases(its2) : \A v \in ToSet(its2[b].treap) : b \in Path(its, v)
  BY <1>1 DEF HasTreap, InPlace, Bases
<1> QED BY <1>2, <1>3 DEF InPlace

LEMMA HasTreapBelow ==
    ASSUME NEW its, NEW its2, NEW n \in Bases(its), NEW d, NEW roots, NEW all, HasTreap(its, its2, n, d),
           Forest(its, roots), all \subseteq DOMAIN its, Below(its, all) = DOMAIN its
    PROVE  Below(its2, all) = DOMAIN its2
<1>1. Edit(its, its2, {}) /\ Forest(its2, roots) /\ DOMAIN its2 = DOMAIN its
  BY HasTreapForest DEF HasTreap
<1>2. Below(its, all) \ {} \subseteq Below(its2, all)
  BY <1>1, BelowKept
<1>3. Below(its2, all) \subseteq DOMAIN its2
  BY <1>1, BelowFacts
<1> QED BY <1>1, <1>2, <1>3

-----------------------------------------------------------------------------
(* new Node: two empty bases that nothing leads to.                        *)
HasNew(its, its2, l, r) ==
    /\ l /= r /\ {l, r} \cap DOMAIN its = {} /\ l \in Nat \ {null} /\ r \in Nat \ {null}
    /\ DOMAIN its2 = DOMAIN its \cup {l, r}
    /\ its2[l] = Base(<<>>) /\ its2[r] = Base(<<>>)
    /\ its2 \in [DOMAIN its2 -> Node]
    /\ \A m \in DOMAIN its : its2[m] = its[m]

LEMMA FreshIsNew ==
    ASSUME NEW used, IsFiniteSet(used)
    PROVE  Fresh(used) \in Nat \ {null} /\ Fresh(used) \notin used
<1> DEFINE c == Cardinality(used)
           I == 1 .. c + 1
<1>1. c \in Nat
  BY FS_CardinalityType
<1>2. \E n \in I : n \notin used
  <2> SUFFICES ASSUME I \subseteq used PROVE FALSE
    OBVIOUS
  <2>1. Cardinality(I) = c + 1
    <3>1. Cardinality(I) = IF 1 > c + 1 THEN 0 ELSE c + 1 - 1 + 1
      BY <1>1, FS_Interval
    <3> HIDE DEF I
    <3> QED BY <1>1, <3>1
  <2> HIDE DEF I
  <2>2. Cardinality(I) <= c
    <3>1. I \in SUBSET used
      OBVIOUS
    <3> QED BY <3>1, FS_Subset
  <2> QED BY <1>1, <2>1, <2>2
<1>3. Fresh(used) = CHOOSE n \in I : n \notin used
  BY DEF Fresh
<1>4. Fresh(used) \in I /\ Fresh(used) \notin used
  <2> HIDE DEF I
  <2> QED BY <1>2, <1>3
<1>5. \A i \in I : i \in Nat \ {null}
  BY <1>1 DEF null
<1> QED BY <1>4, <1>5

LEMMA NewNodesAreNew ==
    ASSUME NEW its, NEW capacity, GoodNodes(its, capacity), NEW l, NEW r,
           l = Fresh(DOMAIN its), r = Fresh(DOMAIN its \cup {l})
    PROVE  HasNew(its, [n \in DOMAIN its \cup {l, r} |-> IF n \in DOMAIN its THEN its[n] ELSE Base(<<>>)], l, r)
<1> DEFINE its2 == [n \in DOMAIN its \cup {l, r} |-> IF n \in DOMAIN its THEN its[n] ELSE Base(<<>>)]
<1>1. IsFiniteSet(DOMAIN its) /\ its \in [DOMAIN its -> Node]
  BY DEF GoodNodes
<1>2. l \in Nat \ {null} /\ l \notin DOMAIN its
  BY <1>1, FreshIsNew
<1>3. IsFiniteSet(DOMAIN its \cup {l})
  BY <1>1, FS_AddElement
<1>4. r \in Nat \ {null} /\ r \notin DOMAIN its \cup {l}
  BY <1>3, FreshIsNew
<1>5. its2 = [m \in DOMAIN its \cup {l, r} |-> IF m \in DOMAIN its THEN its[m] ELSE Base(<<>>)]
  OBVIOUS
<1>6. Base(<<>>) \in Node
  <2>1. <<>> \in Seq(Int)
    BY EmptySeq
  <2> QED BY <2>1 DEF Base, Node, null
<1> HIDE DEF its2
<1>7. DOMAIN its2 = DOMAIN its \cup {l, r} /\ its2 \in [DOMAIN its2 -> Node]
  <2> HIDE DEF Base, Node
  <2> QED BY <1>1, <1>5, <1>6
<1>8. its2[l] = Base(<<>>) /\ its2[r] = Base(<<>>) /\ \A m \in DOMAIN its : its2[m] = its[m]
  BY <1>2, <1>4, <1>5
<1> QED BY <1>2, <1>4, <1>7, <1>8 DEF HasNew, its2

(* The new bases change nothing for the others.                            *)
LEMMA HasNewKeeps ==
    ASSUME NEW its, NEW its2, NEW l, NEW r, NEW roots, NEW capacity, HasNew(its, its2, l, r),
           GoodNodes(its, capacity), capacity \in Nat, Forest(its, roots), head \in roots, InPlace(its)
    PROVE  /\ GoodNodes(its2, capacity) /\ Forest(its2, roots) /\ InPlace(its2)
           /\ Routes(its2) = Routes(its) /\ Bases(its2) = Bases(its) \cup {l, r}
           /\ \A q \in Routes(its) : Children(its2, q) = Children(its, q)
           /\ Edit(its, its2, {})
<1>1. /\ Base(<<>>).isRoute = FALSE /\ Base(<<>>).left = null /\ Base(<<>>).right = null
      /\ Base(<<>>).treap = <<>>
  BY DEF Base
<1>2. /\ DOMAIN its2 = DOMAIN its \cup {l, r} /\ \A m \in DOMAIN its : its2[m] = its[m]
      /\ its2[l] = Base(<<>>) /\ its2[r] = Base(<<>>) /\ {l, r} \cap DOMAIN its = {}
  BY DEF HasNew
<1>3. Routes(its2) = Routes(its) /\ Bases(its2) = Bases(its) \cup {l, r}
  BY <1>1, <1>2 DEF Routes, Bases
<1>4. Routes(its) \subseteq DOMAIN its /\ Bases(its) \subseteq DOMAIN its
  BY DEF Routes, Bases
<1>5. \A q \in Routes(its) : Children(its2, q) = Children(its, q)
  BY <1>2, <1>4 DEF Children
<1>6. Forest(its2, roots)
  BY <1>2, <1>3, <1>4, <1>5 DEF Forest
<1>7. Edit(its, its2, {})
  BY <1>2, <1>3, <1>4 DEF Edit, SameLinks
<1>8. Sorted(<<>>) /\ Len(<<>>) <= capacity /\ ToSet(<<>>) = {}
  <2>1. Len(<<>>) = 0 /\ DOMAIN <<>> = {}
    OBVIOUS
  <2> QED BY <2>1 DEF Sorted, ToSet
<1>9. GoodNodes(its2, capacity)
  <2>1. IsFiniteSet(DOMAIN its2)
    <3>1. IsFiniteSet(DOMAIN its)
      BY DEF GoodNodes
    <3>2. IsFiniteSet((DOMAIN its \cup {l}) \cup {r})
      BY <3>1, FS_AddElement
    <3>3. (DOMAIN its \cup {l}) \cup {r} = DOMAIN its2
      BY <1>2
    <3> QED BY <3>2, <3>3
  <2>2. DOMAIN its2 \subseteq Nat \ {null}
    BY <1>2 DEF HasNew, GoodNodes
  <2>3. its2 \in [DOMAIN its2 -> Node]
    BY DEF HasNew
  <2>4. ASSUME NEW b \in Bases(its2)
        PROVE  /\ its2[b].left = null /\ its2[b].right = null
               /\ Sorted(its2[b].treap) /\ Len(its2[b].treap) <= capacity
    BY <1>1, <1>2, <1>3, <1>4, <1>8 DEF GoodNodes
  <2> QED BY <2>1, <2>2, <2>3, <2>4 DEF GoodNodes
<1>10. InPlace(its2)
  <2>1. \A v : Path(its, v) \ {} \subseteq Path(its2, v)
    BY <1>7, PathKept
  <2>2. \A b \in Bases(its2) : \A v \in ToSet(its2[b].treap) : b \in Path(its, v)
    BY <1>1, <1>2, <1>3, <1>4, <1>8 DEF InPlace
  <2> QED BY <2>1, <2>2 DEF InPlace
<1> QED BY <1>3, <1>5, <1>6, <1>7, <1>9, <1>10

(* They have to be counted as roots until a route leads to them.           *)
LEMMA HasNewBelow ==
    ASSUME NEW its, NEW its2, NEW l, NEW r, NEW roots, NEW capacity, NEW all, HasNew(its, its2, l, r),
           GoodNodes(its, capacity), capacity \in Nat, Forest(its, roots), head \in roots, InPlace(its),
           all \subseteq DOMAIN its, Below(its, all) = DOMAIN its
    PROVE  Below(its2, all \cup {l, r}) = DOMAIN its2
<1>1. Edit(its, its2, {}) /\ Forest(its2, roots)
  BY HasNewKeeps
<1>2. Below(its, all) \ {} \subseteq Below(its2, all \cup {l, r})
  BY <1>1, BelowKept
<1>3. DOMAIN its2 = DOMAIN its \cup {l, r}
  BY DEF HasNew
<1>4. all \cup {l, r} \subseteq DOMAIN its2
  BY <1>3
<1>5. all \cup {l, r} \subseteq Below(its2, all \cup {l, r}) /\ Below(its2, all \cup {l, r}) \subseteq DOMAIN its2
  BY <1>1, <1>4, BelowFacts
<1> QED BY <1>2, <1>3, <1>5

-----------------------------------------------------------------------------
(* A split: base n becomes a route to l and r, which get treaps d and e.   *)
Divided(its, its2, n, l, r, val, d, e) ==
    /\ its2 \in [DOMAIN its -> Node]
    /\ its2[n] = Route(val, l, r)
    /\ its2[l] = [its[l] EXCEPT !.treap = d] /\ its2[r] = [its[r] EXCEPT !.treap = e]
    /\ \A m \in DOMAIN its \ {n, l, r} : its2[m] = its[m]

(* Bases l and r are not part of the tree yet, and n is.                   *)
Divisible(its, roots, n, l, r) ==
    /\ {n, l, r} \subseteq Bases(its) /\ l /= r /\ n \notin {l, r} /\ {l, r} \cap roots = {}
    /\ its[l].treap = <<>> /\ its[r].treap = <<>>
    /\ \A q \in Routes(its) : Children(its, q) \cap {l, r} = {}

LEMMA SplitDivides ==
    ASSUME NEW its, NEW capacity, NEW roots, NEW n, NEW l, NEW r, NEW val \in Int,
           NEW d \in Seq(Int), NEW e \in Seq(Int),
           GoodNodes(its, capacity), Divisible(its, roots, n, l, r)
    PROVE  Divided(its, [its EXCEPT ![l].treap = d, ![r].treap = e, ![n] = Route(val, l, r)],
                   n, l, r, val, d, e)
<1> DEFINE its2 == [its EXCEPT ![l].treap = d, ![r].treap = e, ![n] = Route(val, l, r)]
           a == [its[l] EXCEPT !.treap = d]
           b == [its[r] EXCEPT !.treap = e]
           c == Route(val, l, r)
<1>1. /\ n \in DOMAIN its /\ l \in DOMAIN its /\ r \in DOMAIN its /\ l /= r /\ n /= l /\ n /= r
      /\ its \in [DOMAIN its -> Node] /\ DOMAIN its \subseteq Nat
  BY DEF GoodNodes, Divisible, Bases
<1>2. a \in Node /\ b \in Node
  BY <1>1 DEF Node
<1>3. c \in Node
  <2>1. <<>> \in Seq(Int)
    BY EmptySeq
  <2>2. l \in Nat /\ r \in Nat
    BY <1>1
  <2> QED BY <2>1, <2>2 DEF Route, Node
<1>4. its2 = [m \in DOMAIN its |-> IF m = n THEN c ELSE IF m = r THEN b ELSE IF m = l THEN a ELSE its[m]]
  BY <1>1
<1> HIDE DEF a, b, c, its2
<1>5. its2 \in [DOMAIN its -> Node]
  <2> HIDE DEF Node
  <2> QED BY <1>1, <1>2, <1>3, <1>4
<1>6. /\ its2[n] = c /\ its2[l] = a /\ its2[r] = b
      /\ \A m \in DOMAIN its \ {n, l, r} : its2[m] = its[m]
  BY <1>1, <1>4
<1> QED BY <1>5, <1>6 DEF Divided, a, b, c, its2

(* What a split starts from, and what the links are afterwards.            *)
SplitBegins(its, its2, n, l, r, val, d, e, roots, capacity) ==
    /\ GoodNodes(its, capacity) /\ Divisible(its, roots, n, l, r) /\ Forest(its, roots)
    /\ Divided(its, its2, n, l, r, val, d, e)

SplitLinks(its, its2, n, l, r, val, d, e, roots) ==
    /\ DOMAIN its2 = DOMAIN its
    /\ Routes(its2) = Routes(its) \cup {n} /\ Bases(its2) = Bases(its) \ {n}
    /\ Forest(its2, roots) /\ Edit(its, its2, {l, r})
    /\ its2[n].left = l /\ its2[n].right = r /\ its2[n].val = val
    /\ its2[l].treap = d /\ its2[r].treap = e
    /\ its2[l].left = null /\ its2[l].right = null /\ its2[r].left = null /\ its2[r].right = null
    /\ \A m \in Bases(its) \ {n, l, r} : its2[m] = its[m]

LEMMA DividedLinks ==
    ASSUME NEW its, NEW its2, NEW n, NEW l, NEW r, NEW val, NEW d, NEW e, NEW roots, NEW capacity,
           SplitBegins(its, its2, n, l, r, val, d, e, roots, capacity)
    PROVE  SplitLinks(its, its2, n, l, r, val, d, e, roots)
<1> USE DEF SplitBegins
<1>1. /\ n \in DOMAIN its /\ l \in DOMAIN its /\ r \in DOMAIN its /\ l /= r /\ n /= l /\ n /= r
      /\ its[l] \in Node /\ its[r] \in Node
      /\ ~its[l].isRoute /\ ~its[r].isRoute /\ ~its[n].isRoute
      /\ its[l].left = null /\ its[l].right = null /\ its[r].left = null /\ its[r].right = null
  BY DEF GoodNodes, Divisible, Bases, Routes
<1>2. DOMAIN its2 = DOMAIN its
  BY DEF Divided
<1>3. its2[n].isRoute /\ its2[n].left = l /\ its2[n].right = r /\ its2[n].val = val
  BY DEF Divided, Route
<1>4. /\ its2[l].treap = d /\ its2[r].treap = e /\ ~its2[l].isRoute /\ ~its2[r].isRoute
      /\ its2[l].left = null /\ its2[l].right = null /\ its2[r].left = null /\ its2[r].right = null
  BY <1>1 DEF Divided, Node
<1>5. \A m \in DOMAIN its \ {n, l, r} : its2[m] = its[m]
  BY DEF Divided
<1>6. Routes(its2) = Routes(its) \cup {n}
  BY <1>1, <1>2, <1>3, <1>4, <1>5 DEF Routes
<1>7. Bases(its2) = Bases(its) \ {n}
  BY <1>2, <1>6 DEF Bases
<1>8. Bases(its) \subseteq DOMAIN its /\ Routes(its) \subseteq DOMAIN its \ {n, l, r}
  BY <1>1 DEF Bases, Routes
<1>9. \A q \in Routes(its) : its2[q] = its[q] /\ Children(its2, q) = Children(its, q)
  BY <1>5, <1>8 DEF Children
<1>10. Children(its2, n) = {l, r}
  BY <1>3 DEF Children
<1>11. Forest(its2, roots)
  <2>1. \A q \in Routes(its) : Children(its, q) \cap {l, r} = {}
    BY DEF Divisible
  <2>2. l /= r /\ {l, r} \cap roots = {}
    BY DEF Divisible
  <2>3. roots \subseteq DOMAIN its2
    BY <1>2 DEF Forest
  <2>4. ASSUME NEW q \in Routes(its2)
        PROVE  /\ its2[q].left /= its2[q].right
               /\ Children(its2, q) \subseteq DOMAIN its2 \ roots
               /\ \A x \in Routes(its2) \ {q} : Children(its2, q) \cap Children(its2, x) = {}
    <3>1. CASE q = n
      BY <1>1, <1>2, <1>3, <1>6, <1>9, <1>10, <2>1, <2>2, <3>1
    <3>2. CASE q \in Routes(its)
      <4>1. its2[q].left /= its2[q].right /\ Children(its2, q) \subseteq DOMAIN its2 \ roots
        BY <1>2, <1>9, <3>2 DEF Forest
      <4>2. \A x \in Routes(its) \ {q} : Children(its2, q) \cap Children(its2, x) = {}
        BY <1>9, <3>2 DEF Forest
      <4>3. Children(its2, q) \cap Children(its2, n) = {}
        BY <1>9, <1>10, <2>1, <3>2
      <4> QED BY <1>6, <4>1, <4>2, <4>3
    <3> QED BY <1>6, <3>1, <3>2
  <2> QED BY <2>3, <2>4 DEF Forest
<1>12. Edit(its, its2, {l, r})
  <2>1. \A q \in Routes(its) : SameLinks(its, its2, q)
    BY <1>6, <1>9 DEF SameLinks
  <2> QED BY <1>2, <2>1 DEF Edit
<1>13. \A m \in Bases(its) \ {n, l, r} : its2[m] = its[m]
  BY <1>5, <1>8
<1> QED BY <1>2, <1>3, <1>4, <1>6, <1>7, <1>11, <1>12, <1>13 DEF SplitLinks

(* The treap of n is divided at val, and its parts are in place.           *)
LEMMA DividedGood ==
    ASSUME NEW its, NEW its2, NEW n, NEW l, NEW r, NEW val \in Int, NEW d, NEW e, NEW roots, NEW capacity,
           SplitBegins(its, its2, n, l, r, val, d, e, roots, capacity), head \in roots, InPlace(its),
           Sorted(d), Sorted(e), Len(d) <= capacity, Len(e) <= capacity,
           \A v \in ToSet(d) : v \in ToSet(its[n].treap) /\ v <= val,
           \A v \in ToSet(e) : v \in ToSet(its[n].treap) /\ ~(v <= val)
    PROVE  GoodNodes(its2, capacity) /\ InPlace(its2)
<1>1. /\ DOMAIN its2 = DOMAIN its
      /\ Routes(its2) = Routes(its) \cup {n} /\ Bases(its2) = Bases(its) \ {n}
      /\ Forest(its2, roots) /\ Edit(its, its2, {l, r})
      /\ its2[n].left = l /\ its2[n].right = r /\ its2[n].val = val
      /\ its2[l].treap = d /\ its2[r].treap = e
      /\ its2[l].left = null /\ its2[l].right = null /\ its2[r].left = null /\ its2[r].right = null
      /\ \A m \in Bases(its) \ {n, l, r} : its2[m] = its[m]
  <2>1. SplitLinks(its, its2, n, l, r, val, d, e, roots)
    BY DividedLinks
  <2> QED BY <2>1 DEF SplitLinks
<1>2. GoodNodes(its2, capacity)
  <2>1. IsFiniteSet(DOMAIN its2) /\ DOMAIN its2 \subseteq Nat \ {null} /\ its2 \in [DOMAIN its2 -> Node]
    BY <1>1 DEF GoodNodes, Divided, SplitBegins
  <2>2. ASSUME NEW b \in Bases(its2)
        PROVE  /\ its2[b].left = null /\ its2[b].right = null
               /\ Sorted(its2[b].treap) /\ Len(its2[b].treap) <= capacity
    <3>1. CASE b \in {l, r}
      BY <1>1, <3>1
    <3>2. CASE b \notin {l, r}
      BY <1>1, <3>2 DEF GoodNodes, SplitBegins
    <3> QED BY <3>1, <3>2
  <2> QED BY <2>1, <2>2 DEF GoodNodes
<1>3. /\ {l, r} \cap Routes(its) = {} /\ head \notin {l, r} /\ n \in Bases(its) /\ n \notin {l, r}
  BY DEF Divisible, Bases, SplitBegins
<1>4. \A v : Path(its, v) \ {l, r} \subseteq Path(its2, v)
  BY <1>1, <1>3, PathKept DEF SplitBegins
<1>5. \A v : \A q \in Path(its2, v) \cap Routes(its2) : Toward(its2, q, v) \in Path(its2, v)
  BY <1>1, PathFacts
<1>6. \A v \in ToSet(its[n].treap) : n \in Path(its2, v)
  BY <1>3, <1>4 DEF InPlace
<1>7. \A v \in ToSet(d) : l \in Path(its2, v)
  <2> TAKE v \in ToSet(d)
  <2>1. n \in Path(its2, v) /\ n \in Routes(its2)
    BY <1>1, <1>6
  <2>2. Toward(its2, n, v) = l
    BY <1>1 DEF Toward
  <2> QED BY <1>5, <2>1, <2>2
<1>8. \A v \in ToSet(e) : r \in Path(its2, v)
  <2> TAKE v \in ToSet(e)
  <2>1. n \in Path(its2, v) /\ n \in Routes(its2)
    BY <1>1, <1>6
  <2>2. Toward(its2, n, v) = r
    BY <1>1 DEF Toward
  <2> QED BY <1>5, <2>1, <2>2
<1>9. ASSUME NEW b \in Bases(its2) \ {l, r}, NEW v \in ToSet(its2[b].treap) PROVE b \in Path(its2, v)
  <2>1. b \in Bases(its) /\ its2[b] = its[b]
    BY <1>1
  <2> QED BY <1>4, <2>1 DEF InPlace
<1>10. InPlace(its2)
  BY <1>1, <1>7, <1>8, <1>9 DEF InPlace
<1> QED BY <1>2, <1>10

(* The route leads to the new bases.                                       *)
LEMMA DividedBelow ==
    ASSUME NEW its, NEW its2, NEW n, NEW l, NEW r, NEW val, NEW d, NEW e, NEW roots, NEW capacity,
           SplitBegins(its, its2, n, l, r, val, d, e, roots, capacity), Below(its, roots \cup {l, r}) = DOMAIN its
    PROVE  Below(its2, roots) = DOMAIN its2
<1>1. /\ DOMAIN its2 = DOMAIN its
      /\ Routes(its2) = Routes(its) \cup {n}
      /\ Forest(its2, roots) /\ Edit(its, its2, {l, r})
      /\ its2[n].left = l /\ its2[n].right = r
  <2>1. SplitLinks(its, its2, n, l, r, val, d, e, roots)
    BY DividedLinks
  <2> QED BY <2>1 DEF SplitLinks
<1>2. {l, r} \cap Routes(its) = {} /\ {n, l, r} \subseteq DOMAIN its /\ n \notin {l, r}
  BY DEF Divisible, Bases, SplitBegins
<1>3. roots \subseteq DOMAIN its
  BY DEF Forest, SplitBegins
<1>4. Below(its, roots \cup {l, r}) \ {l, r} \subseteq Below(its2, roots)
  BY <1>1, <1>2, <1>3, BelowKept DEF SplitBegins
<1>5. n \in Below(its2, roots)
  BY <1>2, <1>4
<1>6. /\ Below(its2, roots) \subseteq DOMAIN its2
      /\ \A q \in Below(its2, roots) \cap Routes(its2) : Children(its2, q) \subseteq Below(its2, roots)
  BY <1>1, <1>3, BelowFacts
<1>7. {l, r} \subseteq Below(its2, roots)
  BY <1>1, <1>5, <1>6 DEF Children
<1> QED BY <1>1, <1>4, <1>6, <1>7

-----------------------------------------------------------------------------
(* A merge: route p becomes a base with treap d, and its children go.      *)
Merged(its, its2, p, d) ==
    /\ DOMAIN its2 = DOMAIN its \ Children(its, p)
    /\ its2[p] = [its[p] EXCEPT !.treap = d, !.isRoute = FALSE, !.left = null, !.right = null]
    /\ its2[p] \in Node /\ its2 \in [DOMAIN its2 -> Node]
    /\ \A m \in DOMAIN its2 \ {p} : its2[m] = its[m]

LEMMA MergeMerges ==
    ASSUME NEW its, NEW capacity, NEW p \in Routes(its), NEW d \in Seq(Int), GoodNodes(its, capacity),
           Children(its, p) \subseteq Bases(its)
    PROVE  LET merged == [its[p] EXCEPT !.treap = d, !.isRoute = FALSE, !.left = null, !.right = null]
           IN  Merged(its, [m \in DOMAIN its \ Children(its, p) |-> IF m = p THEN merged ELSE its[m]], p, d)
<1> DEFINE merged == [its[p] EXCEPT !.treap = d, !.isRoute = FALSE, !.left = null, !.right = null]
           its2 == [m \in DOMAIN its \ Children(its, p) |-> IF m = p THEN merged ELSE its[m]]
<1>1. its \in [DOMAIN its -> Node] /\ p \in DOMAIN its
  BY DEF GoodNodes, Routes
<1>2. merged \in Node
  BY <1>1 DEF Node, null
<1>3. p \in DOMAIN its \ Children(its, p)
  BY <1>1 DEF Bases
<1> HIDE DEF merged
<1>4. its2 \in [DOMAIN its2 -> Node] /\ DOMAIN its2 = DOMAIN its \ Children(its, p)
  <2> HIDE DEF Node
  <2> QED BY <1>1, <1>2
<1>5. its2[p] = merged /\ \A m \in DOMAIN its2 \ {p} : its2[m] = its[m]
  BY <1>3, <1>4
<1> HIDE DEF its2
<1> QED BY <1>2, <1>4, <1>5 DEF Merged, merged, its2

LEMMA MergedLinks ==
    ASSUME NEW its, NEW its2, NEW p \in Routes(its), NEW d, NEW roots, NEW capacity,
           GoodNodes(its, capacity), Children(its, p) \subseteq Bases(its), Forest(its, roots),
           Merged(its, its2, p, d)
    PROVE  /\ Routes(its2) = Routes(its) \ {p}
           /\ Bases(its2) = (Bases(its) \ Children(its, p)) \cup {p}
           /\ Forest(its2, roots) /\ Edit(its, its2, Children(its, p))
           /\ its2[p].treap = d /\ its2[p].left = null /\ its2[p].right = null
           /\ \A m \in Bases(its2) \ {p} : its2[m] = its[m]
<1> DEFINE C == Children(its, p)
<1>1. p \in DOMAIN its /\ its[p] \in Node /\ p \notin C
  BY DEF GoodNodes, Routes, Bases
<1>2. /\ DOMAIN its2 = DOMAIN its \ C /\ \A m \in DOMAIN its2 \ {p} : its2[m] = its[m]
  BY DEF Merged
<1>3. its2[p].treap = d /\ its2[p].left = null /\ its2[p].right = null /\ ~its2[p].isRoute
  BY <1>1 DEF Merged, Node
<1>4. C \cap Routes(its) = {}
  BY DEF Bases
<1>5. Routes(its2) = Routes(its) \ {p}
  <2> HIDE DEF C
  <2> QED BY <1>1, <1>2, <1>3, <1>4 DEF Routes
<1>6. Bases(its2) = (Bases(its) \ C) \cup {p}
  <2> HIDE DEF C
  <2>1. Routes(its) \subseteq DOMAIN its
    BY DEF Routes
  <2> QED BY <1>1, <1>2, <1>5, <2>1 DEF Bases
<1>7. \A q \in Routes(its) \ {p} : its2[q] = its[q] /\ Children(its2, q) = Children(its, q)
  <2>1. Routes(its) \ {p} \subseteq DOMAIN its2 \ {p}
    BY <1>2, <1>4 DEF Routes
  <2> QED BY <1>2, <2>1 DEF Children
<1>8. Forest(its2, roots)
  <2>1. roots \subseteq DOMAIN its2
    BY <1>2 DEF Forest
  <2>2. ASSUME NEW q \in Routes(its) \ {p}
        PROVE  /\ its2[q].left /= its2[q].right
               /\ Children(its2, q) \subseteq DOMAIN its2 \ roots
    <3>1. Children(its, q) \cap Children(its, p) = {}
      BY DEF Forest
    <3>2. its[q].left /= its[q].right /\ Children(its, q) \subseteq DOMAIN its \ roots
      BY DEF Forest
    <3> QED BY <1>2, <1>7, <3>1, <3>2
  <2>3. ASSUME NEW q \in Routes(its) \ {p}, NEW x \in (Routes(its) \ {p}) \ {q}
        PROVE  Children(its2, q) \cap Children(its2, x) = {}
    <3>1. Children(its, q) \cap Children(its, x) = {}
      BY DEF Forest
    <3> QED BY <1>7, <3>1
  <2> QED BY <1>5, <2>1, <2>2, <2>3 DEF Forest
<1>9. Edit(its, its2, C)
  <2>1. \A q \in Routes(its) \ {p} : SameLinks(its, its2, q)
    BY <1>5, <1>7 DEF SameLinks
  <2>2. \A q \in Routes(its) \ C : Children(its, q) \subseteq C \/ SameLinks(its, its2, q)
    BY <2>1
  <2> QED BY <1>2, <2>2 DEF Edit
<1>10. \A m \in Bases(its2) \ {p} : its2[m] = its[m]
  BY <1>2 DEF Bases
<1> QED BY <1>3, <1>5, <1>6, <1>8, <1>9, <1>10

(* Which side of a route values are on.                                    *)
LEMMA SidesInPlace ==
    ASSUME NEW its, NEW p \in Routes(its), NEW roots, Forest(its, roots), head \in roots, InPlace(its),
           Children(its, p) \subseteq Bases(its)
    PROVE  /\ \A v \in ToSet(its[its[p].left].treap) : p \in Path(its, v) /\ v <= its[p].val
           /\ \A v \in ToSet(its[its[p].right].treap) : p \in Path(its, v) /\ ~(v <= its[p].val)
<1>1. its[p].left \in Children(its, p) /\ its[p].right \in Children(its, p)
  BY DEF Children
<1>2. its[p].left /= its[p].right
  BY DEF Forest
<1>3. ASSUME NEW c \in Children(its, p), NEW v \in ToSet(its[c].treap)
      PROVE  p \in Path(its, v) /\ c = Toward(its, p, v)
  <2>1. c \in Path(its, v)
    BY <1>3 DEF InPlace
  <2> QED BY <2>1, PathComesFrom
<1> QED BY <1>1, <1>2, <1>3 DEF Toward

(* The values of both bases are in place in the merged one.                *)
LEMMA MergedGood ==
    ASSUME NEW its, NEW its2, NEW p \in Routes(its), NEW d, NEW roots, NEW capacity,
           GoodNodes(its, capacity), Children(its, p) \subseteq Bases(its), Forest(its, roots),
           Merged(its, its2, p, d), head \in roots, InPlace(its),
           Sorted(d), Len(d) <= capacity,
           ToSet(d) \subseteq ToSet(its[its[p].left].treap) \cup ToSet(its[its[p].right].treap)
    PROVE  GoodNodes(its2, capacity) /\ InPlace(its2)
<1> DEFINE C == Children(its, p)
<1>1. /\ Routes(its2) = Routes(its) \ {p}
      /\ Bases(its2) = (Bases(its) \ C) \cup {p}
      /\ Forest(its2, roots) /\ Edit(its, its2, C)
      /\ its2[p].treap = d /\ its2[p].left = null /\ its2[p].right = null
      /\ \A m \in Bases(its2) \ {p} : its2[m] = its[m]
  BY MergedLinks
<1>2. GoodNodes(its2, capacity)
  <2>1. DOMAIN its2 \subseteq DOMAIN its
    BY DEF Merged
  <2>2. IsFiniteSet(DOMAIN its2)
    <3>1. IsFiniteSet(DOMAIN its)
      BY DEF GoodNodes
    <3> QED BY <2>1, <3>1, FS_Subset
  <2>3. DOMAIN its2 \subseteq Nat \ {null} /\ its2 \in [DOMAIN its2 -> Node]
    BY <2>1 DEF GoodNodes, Merged
  <2>4. ASSUME NEW b \in Bases(its2)
        PROVE  /\ its2[b].left = null /\ its2[b].right = null
               /\ Sorted(its2[b].treap) /\ Len(its2[b].treap) <= capacity
    <3>1. CASE b = p
      BY <1>1, <3>1
    <3>2. CASE b /= p
      BY <1>1, <3>2 DEF GoodNodes
    <3> QED BY <3>1, <3>2
  <2> QED BY <2>2, <2>3, <2>4 DEF GoodNodes
<1>3. C \cap Routes(its) = {} /\ head \notin C /\ p \notin C
  BY DEF Bases, Forest
<1>4. \A v : Path(its, v) \ C \subseteq Path(its2, v)
  <2> HIDE DEF C
  <2> QED BY <1>1, <1>3, PathKept
<1>5. \A v \in ToSet(d) : p \in Path(its, v)
  BY SidesInPlace
<1>6. ASSUME NEW b \in Bases(its2), NEW v \in ToSet(its2[b].treap) PROVE b \in Path(its2, v)
  <2>1. CASE b = p
    BY <1>1, <1>3, <1>4, <1>5, <1>6, <2>1
  <2>2. CASE b /= p
    <3>1. b \in Bases(its) \ C /\ its2[b] = its[b]
      BY <1>1, <2>2
    <3>2. b \in Path(its, v)
      BY <1>6, <3>1 DEF InPlace
    <3> QED BY <1>4, <3>1, <3>2
  <2> QED BY <2>1, <2>2
<1>7. InPlace(its2)
  BY <1>6 DEF InPlace
<1> QED BY <1>2, <1>7

LEMMA MergedBelow ==
    ASSUME NEW its, NEW its2, NEW p \in Routes(its), NEW d, NEW roots, NEW capacity,
           GoodNodes(its, capacity), Children(its, p) \subseteq Bases(its), Forest(its, roots),
           Merged(its, its2, p, d), Below(its, roots) = DOMAIN its
    PROVE  Below(its2, roots) = DOMAIN its2
<1> DEFINE C == Children(its, p)
<1>1. Forest(its2, roots) /\ Edit(its, its2, C)
  BY MergedLinks
<1>2. C \cap Routes(its) = {} /\ roots \subseteq DOMAIN its /\ roots \subseteq DOMAIN its2
  BY <1>1 DEF Bases, Forest
<1>3. Below(its, roots) \ C \subseteq Below(its2, roots)
  <2> HIDE DEF C
  <2> QED BY <1>1, <1>2, BelowKept
<1>4. Below(its2, roots) \subseteq DOMAIN its2 /\ DOMAIN its2 = DOMAIN its \ C
  BY <1>1, <1>2, BelowFacts DEF Merged
<1> QED BY <1>3, <1>4

-----------------------------------------------------------------------------
(* The destructor deletes one of the roots; its children are roots then.   *)
DeleteBegins(its, its2, n, roots, roots2, capacity) ==
    /\ GoodNodes(its, capacity) /\ Forest(its, roots) /\ n \in roots
    /\ its2 = [m \in DOMAIN its \ {n} |-> its[m]]
    /\ roots2 = (roots \ {n}) \cup (Children(its, n) \ {null})

LEMMA DeletedKeeps ==
    ASSUME NEW its, NEW its2, NEW n, NEW roots, NEW roots2, NEW capacity,
           DeleteBegins(its, its2, n, roots, roots2, capacity)
    PROVE  /\ GoodNodes(its2, capacity) /\ Forest(its2, roots2)
           /\ Below(its, roots) = DOMAIN its => Below(its2, roots2) = DOMAIN its2
<1>0. /\ GoodNodes(its, capacity) /\ Forest(its, roots) /\ n \in roots
      /\ its2 = [m \in DOMAIN its \ {n} |-> its[m]]
      /\ roots2 = (roots \ {n}) \cup (Children(its, n) \ {null})
  BY DEF DeleteBegins
<1>1. DOMAIN its2 = DOMAIN its \ {n} /\ \A m \in DOMAIN its2 : its2[m] = its[m]
  BY <1>0
<1>2. Routes(its2) = Routes(its) \ {n} /\ Bases(its2) = Bases(its) \ {n}
  BY <1>0, <1>1 DEF Routes, Bases
<1>3. /\ its2 \in [DOMAIN its2 -> Node] /\ DOMAIN its2 \subseteq Nat \ {null}
  <2> HIDE DEF Node
  <2> QED BY <1>0, <1>1 DEF GoodNodes
<1>4. IsFiniteSet(DOMAIN its2)
  <2>1. IsFiniteSet(DOMAIN its)
    BY <1>0 DEF GoodNodes
  <2> QED BY <1>0, <1>1, <2>1, FS_RemoveElement
<1>5. GoodNodes(its2, capacity)
  <2>1. \A b \in Bases(its2) : b \in Bases(its) /\ its2[b] = its[b]
    BY <1>0, <1>1, <1>2 DEF Bases
  <2> QED BY <1>0, <1>3, <1>4, <2>1 DEF GoodNodes
<1>6. \A q \in Routes(its2) : q \in Routes(its) /\ its2[q] = its[q] /\ Children(its2, q) = Children(its, q)
  BY <1>0, <1>1, <1>2 DEF Routes, Children
<1>7. n \in Routes(its) => Children(its, n) \subseteq DOMAIN its \ roots
  BY <1>0 DEF Forest
<1>8. n \in Bases(its) => Children(its, n) = {null}
  BY <1>0 DEF GoodNodes, Children
<1>9. n \in DOMAIN its /\ roots \subseteq DOMAIN its
  BY <1>0 DEF Forest
<1>10. n \in Routes(its) \/ n \in Bases(its)
  BY <1>0, <1>9 DEF Bases
<1>11. roots2 \subseteq DOMAIN its2
  BY <1>0, <1>1, <1>7, <1>8, <1>9, <1>10
<1>12. Forest(its2, roots2)
  <2>1. ASSUME NEW q \in Routes(its2)
        PROVE  /\ its2[q].left /= its2[q].right
               /\ Children(its2, q) \subseteq DOMAIN its2 \ roots2
    <3>1. its[q].left /= its[q].right /\ Children(its, q) \subseteq DOMAIN its \ roots
      BY <1>0, <1>6 DEF Forest
    <3>2. n \in Routes(its) => Children(its, q) \cap Children(its, n) = {}
      BY <1>0, <1>2, <1>6 DEF Forest
    <3>3. Children(its, q) \cap (Children(its, n) \ {null}) = {}
      BY <1>0, <1>8, <1>10, <3>2
    <3> QED BY <1>0, <1>1, <1>6, <3>1, <3>3
  <2>2. ASSUME NEW q \in Routes(its2), NEW x \in Routes(its2) \ {q}
        PROVE  Children(its2, q) \cap Children(its2, x) = {}
    <3>1. Children(its, q) \cap Children(its, x) = {}
      BY <1>0, <1>6 DEF Forest
    <3> QED BY <1>0, <1>6, <3>1
  <2> QED BY <1>0, <1>11, <2>1, <2>2 DEF Forest
<1>13. ASSUME Below(its, roots) = DOMAIN its PROVE Below(its2, roots2) = DOMAIN its2
  <2>1. Edit(its, its2, {n})
    BY <1>0, <1>1, <1>2, <1>6 DEF Edit, SameLinks
  <2>2. \A r \in Routes(its) \cap {n} : Children(its, r) \subseteq roots2 \cup {n}
    <3>1. n \in Routes(its) => null \notin Children(its, n)
      BY <1>0, <1>7 DEF GoodNodes
    <3> QED BY <1>0, <3>1
  <2>3. Below(its, roots) \ {n} \subseteq Below(its2, roots2)
    BY <1>0, <1>9, <2>1, <2>2, BelowKept
  <2>4. Below(its2, roots2) \subseteq DOMAIN its2
    BY <1>0, <1>11, <1>12, BelowFacts
  <2> QED BY <1>0, <1>1, <1>13, <2>3, <2>4
<1> QED BY <1>0, <1>5, <1>12, <1>13


-----------------------------------------------------------------------------
(* Which bases are full afterwards                                         *)

FullTreap(d, capacity) == Len(d) = capacity /\ ~Unsplittable(d)

LEMMA HasTreapFull ==
    ASSUME NEW its, NEW its2, NEW n \in Bases(its), NEW d, NEW capacity, HasTreap(its, its2, n, d)
    PROVE  Full(its2, capacity) \subseteq (Full(its, capacity) \ {n}) \cup {m \in {n} : FullTreap(d, capacity)}
<1>1. Bases(its2) = Bases(its) /\ its2[n].treap = d
  BY DEF HasTreap, Bases
<1>2. \A m \in Bases(its) \ {n} : its2[m] = its[m]
  BY DEF HasTreap, Bases
<1> QED BY <1>1, <1>2 DEF Full, FullTreap

LEMMA HasNewFull ==
    ASSUME NEW its, NEW its2, NEW l, NEW r, NEW capacity \in Nat \ {0}, HasNew(its, its2, l, r)
    PROVE  Full(its2, capacity) \subseteq Full(its, capacity)
<1>1. its2[l].treap = <<>> /\ its2[r].treap = <<>> /\ Len(<<>>) = 0
  BY DEF HasNew, Base
<1>2. ASSUME NEW b \in Bases(its2) \ {l, r} PROVE b \in Bases(its) /\ its2[b] = its[b]
  BY <1>2 DEF HasNew, Bases, Routes
<1> QED BY <1>1, <1>2 DEF Full

LEMMA SplitLinksFull ==
    ASSUME NEW its, NEW its2, NEW n, NEW l, NEW r, NEW val, NEW d, NEW e, NEW roots, NEW capacity,
           SplitLinks(its, its2, n, l, r, val, d, e, roots),
           ~FullTreap(d, capacity), ~FullTreap(e, capacity)
    PROVE  Full(its2, capacity) \subseteq Full(its, capacity) \ {n}
BY DEF Full, FullTreap, SplitLinks

LEMMA MergedFull ==
    ASSUME NEW its, NEW its2, NEW p \in Routes(its), NEW d, NEW roots, NEW capacity,
           GoodNodes(its, capacity), Children(its, p) \subseteq Bases(its), Forest(its, roots),
           Merged(its, its2, p, d), Len(d) /= capacity
    PROVE  Full(its2, capacity) \subseteq Full(its, capacity)
<1>1. /\ Routes(its2) = Routes(its) \ {p}
      /\ Bases(its2) = (Bases(its) \ Children(its, p)) \cup {p}
      /\ Forest(its2, roots) /\ Edit(its, its2, Children(its, p))
      /\ its2[p].treap = d /\ its2[p].left = null /\ its2[p].right = null
      /\ \A m \in Bases(its2) \ {p} : its2[m] = its[m]
  BY MergedLinks
<1> QED BY <1>1 DEF Full

(* A treap that a split leaves as full as it was could not be split again. *)
LEMMA SplitIsSplit ==
    ASSUME NEW a \in Seq(Int), Sorted(a), Len(a) >= 1
    PROVE  LET val == getMedianVal(a)
           IN  ~FullTreap(splitLeft(a, val), Len(a)) /\ ~FullTreap(splitRight(a, val), Len(a))
<1> DEFINE val == getMedianVal(a)
           d == splitLeft(a, val)
           e == splitRight(a, val)
<1>1. val \in Int
  BY MedianType
<1>2. /\ d \in Seq(Int) /\ e \in Seq(Int) /\ Len(d) = Rank(a, val) /\ Len(e) = Len(a) - Rank(a, val)
      /\ \A i \in 1 .. Len(d) : d[i] = a[i]
      /\ \A i \in 1 .. Len(e) : e[i] = a[Rank(a, val) + i]
      /\ Rank(a, val) \in 0 .. Len(a) /\ Len(a) \in Nat
  <2> HIDE DEF val
  <2> QED BY <1>1, SplitLengths, SplitSorted, RankBounds, LenProperties
<1>3. ASSUME Len(d) = Len(a) PROVE Unsplittable(d)
  <2>1. d = a
    <3> HIDE DEF d
    <3> QED BY <1>2, <1>3, SeqEqual
  <2>2. Unsplittable(a)
    BY <1>2, <1>3 DEF Unsplittable
  <2> QED BY <2>1, <2>2
<1>4. ASSUME Len(e) = Len(a) PROVE Unsplittable(e)
  <2>1. Rank(a, val) = 0
    BY <1>2, <1>4
  <2>2. e = a
    <3> HIDE DEF e, val
    <3>1. \A i \in 1 .. Len(e) : e[i] = a[i]
      BY <1>2, <2>1
    <3> QED BY <1>2, <1>4, <3>1, SeqEqual
  <2>3. Unsplittable(a)
    BY <2>1 DEF Unsplittable
  <2> QED BY <2>2, <2>3
<1> QED BY <1>3, <1>4 DEF FullTreap
-----------------------------------------------------------------------------
(* What an action of t relies on, and what it leaves of the other threads. *)
Ready(t) ==
    /\ VarsOK /\ isPreallocated /\ LocalOK(t) /\ PointersOK(t)
    /\ GoodNodes(nodes, TREAP_NODES) /\ Forest(nodes, {head}) /\ InPlace(nodes)

SameThread(u) ==
    /\ pc'[u] = pc[u] /\ call'[u] = call[u] /\ temp'[u] = temp[u] /\ tempParent'[u] = tempParent[u]
    /\ made'[u] = made[u] /\ nodesToCheck'[u] = nodesToCheck[u]

LEMMA OthersStay ==
    ASSUME NEW t \in Threads, VarsOK, Thread(t)
    PROVE  UNCHANGED <<isPreallocated, nodeStack>> /\ \A u \in Threads \ {t} : SameThread(u)
<1> USE DEF VarsOK, Goto, SameThread, poolVars, callVars, walkVars, queryVars
<1>1. CASE Call(t)
  BY <1>1 DEF Call
<1>2. CASE Request(t)
  BY <1>2 DEF Request
<1>3. CASE Acquire(t)
  BY <1>3 DEF Acquire
<1>4. CASE Search(t)
  BY <1>4 DEF Search
<1>5. CASE Unlock(t)
  BY <1>5 DEF Unlock
<1>6. CASE Return(t)
  BY <1>6 DEF Return
<1>7. CASE OutOfTreaps(t)
  BY <1>7 DEF OutOfTreaps, Treaps!NewThrows
<1>8. CASE InsertValue(t)
  BY <1>8 DEF InsertValue, Treaps!New
<1>9. CASE MakeNodes(t)
  BY <1>9 DEF MakeNodes
<1>10. CASE SplitLeft(t)
  BY <1>10 DEF SplitLeft, Treaps!New
<1>11. CASE SplitRight(t)
  BY <1>11 DEF SplitRight, Treaps!New
<1>12. CASE RemoveValue(t)
  BY <1>12 DEF RemoveValue, Treaps!New
<1>13. CASE Merge(t)
  BY <1>13 DEF Merge, Treaps!New
<1>14. CASE Lookup(t)
  BY <1>14 DEF Lookup
<1>15. CASE CheckNode(t)
  BY <1>15 DEF CheckNode
<1>16. CASE QueryEnds(t)
  BY <1>16 DEF QueryEnds
<1> QED BY <1>1, <1>2, <1>3, <1>4, <1>5, <1>6, <1>7, <1>8, <1>9, <1>10, <1>11, <1>12,
           <1>13, <1>14, <1>15, <1>16 DEF Thread

(* The types of what an action finds.                                      *)
LEMMA CallTypes ==
    ASSUME NEW t \in Threads, Ready(t), pc[t] /= "idle"
    PROVE  call[t] \in Calls /\ call[t].key \in Int /\ call[t].hi \in Int
<1>1. call[t] \in Calls
  BY DEF Ready, VarsOK, LocalOK
<1> QED BY <1>1 DEF Calls

LEMMA NodeTypes ==
    ASSUME NEW its, NEW capacity, GoodNodes(its, capacity), NEW n \in DOMAIN its
    PROVE  /\ its[n] \in Node /\ its[n].isRoute \in BOOLEAN
           /\ its[n].val \in Int /\ its[n].treap \in Seq(Int) /\ its[n].left \in Nat /\ its[n].right \in Nat
           /\ n \in Nat /\ n /= null
           /\ n \in Routes(its) <=> its[n].isRoute
           /\ n \in Bases(its) <=> ~its[n].isRoute
           /\ n \in Bases(its) => Sorted(its[n].treap) /\ Len(its[n].treap) <= capacity
<1>1. its[n] \in Node
  BY DEF GoodNodes
<1> QED BY <1>1 DEF GoodNodes, Node, Routes, Bases

LEMMA SuccessorType ==
    ASSUME VarsOK
    PROVE  Treaps!Successor(currentElementIndex) \in -INT_MAX - 1 .. INT_MAX
BY PreallocationAssumption DEF VarsOK, Treaps!Successor

LEMMA FrontFacts ==
    ASSUME NEW S, NEW s \in Seq(S), s /= <<>>
    PROVE  /\ Last(s) \in ToSet(s) /\ Front(s) \in Seq(S) /\ ToSet(s) \subseteq S
           /\ ToSet(s) = ToSet(Front(s)) \cup {Last(s)}
           /\ Len(Front(s)) = Len(s) - 1 /\ \A i \in 1 .. Len(s) - 1 : Front(s)[i] = s[i]
<1>1. Len(s) \in Nat \ {0} /\ DOMAIN s = 1 .. Len(s)
  BY LenProperties, EmptySeq
<1>2. Last(s) = s[Len(s)] /\ Front(s) = SubSeq(s, 1, Len(s) - 1)
  BY DEF Last, Front
<1>3. \A i \in 1 .. Len(s) : s[i] \in S
  BY ElementOfSeq
<1>4. Len(Front(s)) = Len(s) - 1 /\ Front(s) \in Seq(S) /\ \A i \in 1 .. Len(s) - 1 : Front(s)[i] = s[i]
  BY <1>1, <1>2, <1>3, SubSeqProperties
<1>5. DOMAIN Front(s) = 1 .. Len(s) - 1
  BY <1>4, LenProperties
<1>6. ToSet(s) = {s[i] : i \in 1 .. Len(s)} /\ ToSet(Front(s)) = {s[i] : i \in 1 .. Len(s) - 1}
  BY <1>1, <1>4, <1>5 DEF ToSet
<1>7. ToSet(s) = ToSet(Front(s)) \cup {s[Len(s)]}
  BY <1>1, <1>6
<1> QED BY <1>1, <1>2, <1>3, <1>4, <1>6, <1>7

LEMMA ConcatSet ==
    ASSUME NEW S, NEW s \in Seq(S), NEW e \in Seq(S)
    PROVE  s \o e \in Seq(S) /\ ToSet(s \o e) = ToSet(s) \cup ToSet(e)
<1>1. /\ Len(s) \in Nat /\ DOMAIN s = 1 .. Len(s) /\ Len(e) \in Nat /\ DOMAIN e = 1 .. Len(e)
  BY LenProperties
<1>2. /\ s \o e \in Seq(S) /\ Len(s \o e) = Len(s) + Len(e)
      /\ \A i \in 1 .. Len(s) + Len(e) : (s \o e)[i] = IF i <= Len(s) THEN s[i] ELSE e[i - Len(s)]
  BY ConcatProperties
<1>3. DOMAIN (s \o e) = 1 .. Len(s) + Len(e)
  BY <1>2, LenProperties
<1>4. ToSet(s \o e) \subseteq ToSet(s) \cup ToSet(e)
  BY <1>1, <1>2, <1>3 DEF ToSet
<1>5. ToSet(s) \subseteq ToSet(s \o e)
  BY <1>1, <1>2, <1>3 DEF ToSet
<1>6. ASSUME NEW j \in 1 .. Len(e) PROVE e[j] \in ToSet(s \o e)
  <2>1. Len(s) + j \in 1 .. Len(s) + Len(e) /\ (s \o e)[Len(s) + j] = e[j]
    BY <1>1, <1>2
  <2> QED BY <1>3, <2>1 DEF ToSet
<1>7. ToSet(e) \subseteq ToSet(s \o e)
  BY <1>1, <1>6 DEF ToSet
<1> QED BY <1>2, <1>4, <1>5, <1>7

LEMMA ShortSets ==
    ASSUME NEW S, NEW x \in S, NEW y \in S
    PROVE  /\ <<>> \in Seq(S) /\ <<x>> \in Seq(S) /\ <<x, y>> \in Seq(S)
           /\ ToSet(<<>>) = {} /\ ToSet(<<x>>) = {x} /\ ToSet(<<x, y>>) = {x, y}
BY DEF ToSet

(* A query goes on to nodes that are there.                                *)
LEMMA InRangeNodes ==
    ASSUME NEW n \in Routes(nodes), NEW low, NEW high,
           GoodNodes(nodes, TREAP_NODES), Forest(nodes, {head})
    PROVE  InRange(n, low, high) \in Seq(Nat) /\ ToSet(InRange(n, low, high)) \subseteq DOMAIN nodes
<1>1. Children(nodes, n) \subseteq DOMAIN nodes /\ DOMAIN nodes \subseteq Nat
  BY DEF Forest, GoodNodes
<1> DEFINE l == nodes[n].left
           r == nodes[n].right
           a == IF nodes[n].val >= low THEN <<l>> ELSE <<>>
           b == IF nodes[n].val <= high THEN <<r>> ELSE <<>>
<1>2. l \in DOMAIN nodes /\ r \in DOMAIN nodes /\ l \in Nat /\ r \in Nat
  BY <1>1 DEF Children
<1>3. a \in Seq(Nat) /\ b \in Seq(Nat) /\ ToSet(a) \subseteq {l} /\ ToSet(b) \subseteq {r}
  <2> HIDE DEF l, r
  <2> QED BY <1>2, ShortSets
<1>4. InRange(n, low, high) = a \o b
  BY DEF InRange
<1>5. InRange(n, low, high) \in Seq(Nat) /\ ToSet(InRange(n, low, high)) = ToSet(a) \cup ToSet(b)
  <2> HIDE DEF a, b
  <2> QED BY <1>3, <1>4, ConcatSet
<1> HIDE DEF a, b, l, r
<1> QED BY <1>2, <1>3, <1>5

(* Every action keeps the types of what threads and calls hold.            *)
LEMMA TypesStay ==
    ASSUME NEW t \in Threads, Ready(t), Thread(t)
    PROVE  VarsOK'
<1> USE DEF Goto, poolVars, callVars, walkVars, queryVars
<1>1. Treaps!Successor(currentElementIndex) \in -INT_MAX - 1 .. INT_MAX
  BY SuccessorType DEF Ready
<1>2. VarsOK /\ GoodNodes(nodes, TREAP_NODES) /\ Forest(nodes, {head})
  BY DEF Ready
<1>3. pc[t] /= "idle" => call[t] \in Calls /\ call[t].key \in Int /\ call[t].hi \in Int
  BY CallTypes
<1>4. CASE Call(t)
  <2>1. Head(todo[t]) \in Calls /\ Tail(todo[t]) \in Seq(Calls)
    BY <1>2, <1>4, HeadTailProperties DEF Call, VarsOK
  <2> QED BY <1>2, <1>4, <2>1 DEF Call, VarsOK, Labels
<1>5. CASE Request(t)
  BY <1>2, <1>5 DEF Request, VarsOK, Labels
<1>6. CASE Acquire(t)
  <2>1. <<head>> \in Seq(Nat)
    BY ShortSets DEF head
  <2>2. UNCHANGED <<poolVars, callVars, tempParent, made, result, success, reply, nodeStack>>
    BY <1>6 DEF Acquire
  <2>3. \/ nodesToCheck' = [nodesToCheck EXCEPT ![t] = <<head>>] /\ pc' = [pc EXCEPT ![t] = "query"] /\ temp' = temp
        \/ temp' = [temp EXCEPT ![t] = head] /\ pc' = [pc EXCEPT ![t] = "search"] /\ nodesToCheck' = nodesToCheck
    BY <1>6 DEF Acquire
  <2>4. temp \in [Threads -> Nat] /\ pc \in [Threads -> Labels] /\ nodesToCheck \in [Threads -> Seq(Nat)]
    BY <1>2 DEF VarsOK
  <2>5. temp' \in [Threads -> Nat]
    <3>1. head \in Nat
      BY DEF head
    <3> QED BY <2>3, <2>4, <3>1
  <2>6. nodesToCheck' \in [Threads -> Seq(Nat)]
    BY <2>1, <2>3, <2>4
  <2>7. pc' \in [Threads -> Labels]
    BY <2>3, <2>4 DEF Labels
  <2> QED BY <1>2, <2>2, <2>5, <2>6, <2>7 DEF VarsOK
<1>7. CASE Search(t)
  <2>1. NextNode(temp[t], call[t].key) \in Nat
    BY <1>2, <1>7, NodeTypes DEF Search, Ready, PointersOK, NextNode
  <2> QED BY <1>2, <1>7, <2>1 DEF Search, VarsOK
<1>8. CASE Unlock(t)
  BY <1>2, <1>8 DEF Unlock, VarsOK, Labels, null
<1>9. CASE Return(t)
  <2>1. <<>> \in Seq(Int)
    BY EmptySeq
  <2> QED BY <1>2, <1>9, <2>1 DEF Return, VarsOK, Labels
<1>10. CASE OutOfTreaps(t)
  BY <1>1, <1>2, <1>10 DEF OutOfTreaps, Treaps!NewThrows, VarsOK, Labels
<1>11. CASE InsertValue(t)
  BY <1>1, <1>2, <1>11 DEF InsertValue, Treaps!New, VarsOK, Labels
<1>12. CASE MakeNodes(t)
  <2> DEFINE l == Fresh(DOMAIN nodes)
             r == Fresh(DOMAIN nodes \cup {l})
  <2>1. l \in Nat /\ r \in Nat
    <3>1. IsFiniteSet(DOMAIN nodes) /\ IsFiniteSet(DOMAIN nodes \cup {l})
      BY <1>2, FS_AddElement DEF GoodNodes
    <3> QED BY <3>1, FreshIsNew
  <2>2. UNCHANGED <<poolVars, callVars, temp, tempParent, queryVars, success, reply, nodeStack>>
    BY <1>12 DEF MakeNodes
  <2>3. made' = [made EXCEPT ![t] = <<l, r>>] /\ pc' = [pc EXCEPT ![t] = "splitLeft"]
    BY <1>12 DEF MakeNodes
  <2> HIDE DEF l, r
  <2> QED BY <1>2, <2>1, <2>2, <2>3 DEF VarsOK, Labels
<1>13. CASE SplitLeft(t)
  BY <1>1, <1>2, <1>13 DEF SplitLeft, Treaps!New, VarsOK, Labels
<1>14. CASE SplitRight(t)
  BY <1>1, <1>2, <1>14 DEF SplitRight, Treaps!New, VarsOK, Labels
<1>15. CASE RemoveValue(t)
  <2>1. contains(BaseTreap(t), call[t].key) \in BOOLEAN
    BY DEF contains
  <2> QED BY <1>1, <1>2, <1>15, <2>1 DEF RemoveValue, Treaps!New, VarsOK, Labels
<1>16. CASE Merge(t)
  BY <1>1, <1>2, <1>16 DEF Merge, Treaps!New, VarsOK, Labels
<1>17. CASE Lookup(t)
  <2>1. contains(BaseTreap(t), call[t].key) \in BOOLEAN
    BY DEF contains
  <2> QED BY <1>2, <1>17, <2>1 DEF Lookup, VarsOK, Labels
<1>18. CASE CheckNode(t)
  <2> DEFINE n == Last(nodesToCheck[t])
             low == call[t].key
             high == call[t].hi
  <2>1. /\ pc[t] = "query" /\ nodesToCheck[t] /= <<>> /\ nodesToCheck[t] \in Seq(Nat)
        /\ low \in Int /\ high \in Int /\ result[t] \in Seq(Int)
    BY <1>2, <1>3, <1>18 DEF CheckNode, VarsOK
  <2>2. n \in DOMAIN nodes
    BY <2>1, FrontFacts DEF Ready, PointersOK
  <2>3. Front(nodesToCheck[t]) \in Seq(Nat)
    BY <2>1, FrontFacts
  <2>4. nodes[n].treap \in Seq(Int) /\ (nodes[n].isRoute => n \in Routes(nodes))
    BY <1>2, <2>2, NodeTypes
  <2>5. result[t] \o rangeQuery(nodes[n].treap, low, high) \in Seq(Int)
    BY <2>1, <2>4, RangeQueryType, ConcatSet
  <2>6. nodes[n].isRoute => Front(nodesToCheck[t]) \o InRange(n, low, high) \in Seq(Nat)
    BY <1>2, <2>3, <2>4, InRangeNodes, ConcatSet
  <2>7. nodesToCheck' \in [Threads -> Seq(Nat)] /\ result' \in [Threads -> Seq(Int)]
    BY <1>2, <1>18, <2>3, <2>5, <2>6 DEF CheckNode, VarsOK
  <2>8. UNCHANGED <<poolVars, pc, callVars, walkVars, success, reply, nodeStack>>
    BY <1>18 DEF CheckNode
  <2> QED BY <1>2, <2>7, <2>8 DEF VarsOK
<1>19. CASE QueryEnds(t)
  BY <1>2, <1>19 DEF QueryEnds, VarsOK, Labels
<1> QED BY <1>4, <1>5, <1>6, <1>7, <1>8, <1>9, <1>10, <1>11, <1>12,
           <1>13, <1>14, <1>15, <1>16, <1>17, <1>18, <1>19 DEF Thread

-----------------------------------------------------------------------------
(* What the actions leave of the tree, and of the thread that takes them   *)
Made(t) == IF Splitting(t) THEN ToSet(made[t]) ELSE {}

(* The full base that t is about to split.                                 *)
Cut(t) == IF Splits(t) THEN {temp[t]} ELSE {}

LocalKept(t) == LocalOK(t)' /\ PointersOK(t)'

NodesKept(t) ==
    /\ InTree(t) \/ (nodes' = nodes /\ Made(t)' = Made(t))
    /\ GoodNodes(nodes', TREAP_NODES) /\ Forest(nodes', {head}) /\ InPlace(nodes')
    /\ ~Failed(t)' =>
        /\ ~Failed(t)
        /\ Below(nodes, {head} \cup Made(t)) = DOMAIN nodes
            => Below(nodes', {head} \cup Made(t)') = DOMAIN nodes'
    /\ ~Failed(t)' /\ Full(nodes, TREAP_NODES) \subseteq Cut(t) => Full(nodes', TREAP_NODES) \subseteq Cut(t)'

LEMMA SameNodesKept ==
    ASSUME NEW t \in Threads, Ready(t), UNCHANGED nodes, Failed(t) => Failed(t)',
           (InTree(t) /\ Failed(t)') \/ (Made(t)' = Made(t) /\ Cut(t)' = Cut(t))
    PROVE  NodesKept(t)
BY DEF Ready, NodesKept

(* The actions that only look at the nodes.                                *)
LEMMA CallKeeps ==
    ASSUME NEW t \in Threads, Ready(t), Call(t)
    PROVE  LocalKept(t) /\ NodesKept(t)
<1>1. pc' = [pc EXCEPT ![t] = "lock"] /\ call' = [call EXCEPT ![t] = Head(todo[t])] /\ pc[t] = "idle"
  BY DEF Call, Goto
<1>2. pc'[t] = "lock" /\ call'[t] = Head(todo[t])
  BY <1>1 DEF Ready, VarsOK
<1>3. Head(todo[t]) \in Calls
  BY HeadTailProperties DEF Call, Ready, VarsOK
<1>4. UNCHANGED <<nodes, temp, tempParent, nodesToCheck>>
  BY DEF Call, walkVars, queryVars
<1>5. LocalKept(t)
  BY <1>1, <1>2, <1>3, <1>4, NoCallAssumption
     DEF Ready, LocalKept, LocalOK, PointersOK, InTree, Splits, Splitting
<1>6. NodesKept(t)
  BY <1>1, <1>2, <1>4, SameNodesKept DEF Failed, Made, Cut, Splits, Splitting
<1> QED BY <1>5, <1>6

LEMMA RequestKeeps ==
    ASSUME NEW t \in Threads, Ready(t), Request(t)
    PROVE  LocalKept(t) /\ NodesKept(t)
<1>1. pc[t] = "lock" /\ pc'[t] = "wait" /\ UNCHANGED <<nodes, call, temp, tempParent, nodesToCheck>>
  BY DEF Request, Goto, callVars, walkVars, queryVars, Ready, VarsOK
<1>2. LocalKept(t)
  BY <1>1 DEF Ready, LocalKept, LocalOK, PointersOK, InTree, Splits, Splitting
<1>3. NodesKept(t)
  BY <1>1, SameNodesKept DEF Failed, Made, Cut, Splits, Splitting
<1> QED BY <1>2, <1>3

LEMMA AcquireKeeps ==
    ASSUME NEW t \in Threads, Ready(t), Acquire(t)
    PROVE  LocalKept(t) /\ NodesKept(t)
<1>1. /\ pc[t] = "wait" /\ UNCHANGED <<nodes, call, tempParent>>
      /\ IF call[t].op = "rangeQuery"
         THEN nodesToCheck'[t] = <<head>> /\ pc'[t] = "query" /\ UNCHANGED temp
         ELSE temp'[t] = head /\ pc'[t] = "search" /\ UNCHANGED nodesToCheck
  BY DEF Acquire, Goto, callVars, Ready, VarsOK
<1>2. tempParent[t] = null /\ nodesToCheck[t] = <<>> /\ call[t] /= NoCall
  BY <1>1 DEF Ready, LocalOK, InTree
<1>3. head \in DOMAIN nodes /\ head \in Path(nodes, call[t].key)
  BY PathFacts DEF Ready, Forest
<1>4. ToSet(<<head>>) \subseteq DOMAIN nodes /\ ToSet(<<>>) = {}
  BY ZenonT(40), <1>3, ShortSets
<1>5. LocalKept(t)
  BY <1>1, <1>2, <1>3, <1>4 DEF LocalKept, LocalOK, PointersOK, InTree, Splits, Splitting
<1>6. NodesKept(t)
  BY <1>1, SameNodesKept DEF Failed, Made, Cut, Splits, Splitting
<1> QED BY <1>5, <1>6

LEMMA SearchKeeps ==
    ASSUME NEW t \in Threads, Ready(t), Search(t)
    PROVE  LocalKept(t) /\ NodesKept(t)
<1> DEFINE n == temp[t]
           v == call[t].key
<1>1. /\ pc[t] = "search" /\ nodes[n].isRoute /\ UNCHANGED <<nodes, pc, call, made, nodesToCheck>>
      /\ temp'[t] = NextNode(n, v) /\ tempParent'[t] = n
  BY DEF Search, callVars, queryVars, Ready, VarsOK
<1>2. n \in DOMAIN nodes /\ n \in Path(nodes, v) /\ v \in Int /\ call[t].op /= "rangeQuery"
  BY <1>1, CallTypes DEF Ready, PointersOK, LocalOK
<1>3. n \in Routes(nodes) /\ nodes[n].val \in Int
  BY <1>1, <1>2, NodeTypes DEF Ready
<1>4. NextNode(n, v) = Toward(nodes, n, v)
  BY <1>2, <1>3 DEF NextNode, Toward
<1>5. Toward(nodes, n, v) \in Path(nodes, v)
  BY <1>2, <1>3, PathFacts DEF Ready
<1>6. Toward(nodes, n, v) \in Children(nodes, n) /\ Children(nodes, n) \subseteq DOMAIN nodes
  BY <1>3 DEF Ready, Forest, Toward, Children
<1> HIDE DEF n, v
<1>7. LocalKept(t)
  BY <1>1, <1>2, <1>3, <1>4, <1>5, <1>6
     DEF Ready, LocalKept, LocalOK, PointersOK, InTree, Splits, Splitting, v
<1>8. NodesKept(t)
  BY <1>1, SameNodesKept DEF Failed, Made, Cut, Splits, Splitting
<1> QED BY <1>7, <1>8

LEMMA UnlockKeeps ==
    ASSUME NEW t \in Threads, Ready(t), Unlock(t)
    PROVE  LocalKept(t) /\ NodesKept(t)
<1>1. /\ pc[t] \in {"unlock", "unwind"} /\ pc'[t] = IF pc[t] = "unlock" THEN "return" ELSE "failed"
      /\ tempParent'[t] = null /\ UNCHANGED <<nodes, call, nodesToCheck>>
  BY DEF Unlock, Goto, callVars, queryVars, Ready, VarsOK
<1>2. LocalKept(t)
  BY <1>1 DEF Ready, LocalKept, LocalOK, PointersOK, InTree, Splits, Splitting
<1>3. NodesKept(t)
  BY <1>1, SameNodesKept DEF Failed, Made, Cut, Splits, Splitting
<1> QED BY <1>2, <1>3

LEMMA ReturnKeeps ==
    ASSUME NEW t \in Threads, Ready(t), Return(t)
    PROVE  LocalKept(t) /\ NodesKept(t)
<1>1. /\ pc[t] = "return" /\ pc'[t] = "idle" /\ call'[t] = NoCall
      /\ UNCHANGED <<nodes, temp, tempParent, nodesToCheck>>
  BY DEF Return, Goto, walkVars, Ready, VarsOK
<1>2. LocalKept(t)
  BY <1>1 DEF Ready, LocalKept, LocalOK, PointersOK, InTree, Splits, Splitting
<1>3. NodesKept(t)
  BY <1>1, SameNodesKept DEF Failed, Made, Cut, Splits, Splitting
<1> QED BY <1>2, <1>3

LEMMA OutOfTreapsKeeps ==
    ASSUME NEW t \in Threads, Ready(t), OutOfTreaps(t)
    PROVE  LocalKept(t) /\ NodesKept(t)
<1>1. /\ pc[t] \in {"search", "splitLeft", "splitRight", "merge"} /\ pc'[t] = "unwind"
      /\ UNCHANGED <<nodes, call, temp, tempParent, nodesToCheck>>
  BY DEF OutOfTreaps, AtBase, Goto, callVars, walkVars, queryVars, Ready, VarsOK
<1>2. LocalKept(t)
  BY <1>1 DEF Ready, LocalKept, LocalOK, PointersOK, InTree, Splits, Splitting
<1>3. NodesKept(t)
  BY <1>1, SameNodesKept DEF Failed, InTree
<1> QED BY <1>2, <1>3

LEMMA SplitLeftKeeps ==
    ASSUME NEW t \in Threads, Ready(t), SplitLeft(t)
    PROVE  LocalKept(t) /\ NodesKept(t)
<1>1. /\ pc[t] = "splitLeft" /\ pc'[t] = "splitRight"
      /\ UNCHANGED <<nodes, call, temp, tempParent, made, nodesToCheck>>
  BY DEF SplitLeft, Goto, callVars, walkVars, queryVars, Ready, VarsOK
<1>2. LocalKept(t)
  BY <1>1 DEF Ready, LocalKept, LocalOK, PointersOK, InTree, Splits, Splitting
<1>3. NodesKept(t)
  BY <1>1, SameNodesKept DEF Failed, Made, Cut, Splits, Splitting
<1> QED BY <1>2, <1>3

LEMMA LookupKeeps ==
    ASSUME NEW t \in Threads, Ready(t), Lookup(t)
    PROVE  LocalKept(t) /\ NodesKept(t)
<1>1. pc[t] = "search" /\ pc'[t] = "unlock" /\ UNCHANGED <<nodes, call, temp, tempParent, nodesToCheck>>
  BY DEF Lookup, AtBase, Goto, callVars, walkVars, queryVars, Ready, VarsOK
<1>2. LocalKept(t)
  BY <1>1 DEF Ready, LocalKept, LocalOK, PointersOK, InTree, Splits, Splitting
<1>3. NodesKept(t)
  BY <1>1, SameNodesKept DEF Failed, Made, Cut, Splits, Splitting
<1> QED BY <1>2, <1>3

LEMMA QueryEndsKeeps ==
    ASSUME NEW t \in Threads, Ready(t), QueryEnds(t)
    PROVE  LocalKept(t) /\ NodesKept(t)
<1>1. /\ pc[t] = "query" /\ pc'[t] = "unlock" /\ nodesToCheck[t] = <<>>
      /\ UNCHANGED <<nodes, call, temp, tempParent, nodesToCheck>>
  BY DEF QueryEnds, Goto, callVars, walkVars, queryVars, Ready, VarsOK
<1>2. LocalKept(t)
  BY <1>1 DEF Ready, LocalKept, LocalOK, PointersOK, InTree, Splits, Splitting
<1>3. NodesKept(t)
  BY <1>1, SameNodesKept DEF Failed, Made, Cut, Splits, Splitting
<1> QED BY <1>2, <1>3

LEMMA CheckNodeKeeps ==
    ASSUME NEW t \in Threads, Ready(t), CheckNode(t)
    PROVE  LocalKept(t) /\ NodesKept(t)
<1> DEFINE n == Last(nodesToCheck[t])
           rest == Front(nodesToCheck[t])
           more == InRange(n, call[t].key, call[t].hi)
<1>1. /\ pc[t] = "query" /\ nodesToCheck[t] /= <<>> /\ nodesToCheck[t] \in Seq(Nat)
      /\ UNCHANGED <<nodes, pc, call, temp, tempParent, made>>
      /\ nodesToCheck'[t] = IF nodes[n].isRoute THEN rest \o more ELSE rest
  BY DEF CheckNode, callVars, walkVars, Ready, VarsOK
<1>2. n \in DOMAIN nodes /\ rest \in Seq(Nat) /\ ToSet(rest) \subseteq DOMAIN nodes
  BY <1>1, FrontFacts DEF Ready, PointersOK
<1>3. nodes[n].isRoute => more \in Seq(Nat) /\ ToSet(more) \subseteq DOMAIN nodes
  BY <1>2, NodeTypes, InRangeNodes DEF Ready
<1> HIDE DEF n, rest, more
<1>4. ToSet(nodesToCheck'[t]) \subseteq DOMAIN nodes
  BY <1>1, <1>2, <1>3, ConcatSet
<1>5. LocalKept(t)
  BY <1>1, <1>4 DEF Ready, LocalKept, LocalOK, PointersOK, InTree, Splits, Splitting
<1>6. NodesKept(t)
  BY <1>1, SameNodesKept DEF Failed, Made, Cut, Splits, Splitting
<1> QED BY <1>5, <1>6

-----------------------------------------------------------------------------
(* The actions that change the nodes                                       *)

(* A base gets one value more or less.                                     *)
LEMMA InsertKeeps ==
    ASSUME NEW t \in Threads, Ready(t), InsertValue(t)
    PROVE  LocalKept(t) /\ NodesKept(t)
<1> DEFINE n == temp[t]
           v == call[t].key
           d == nodes[n].treap
           e == immutableInsert(d, v)
           its2 == [nodes EXCEPT ![n].treap = e]
<1>1. /\ pc[t] = "search" /\ ~nodes[n].isRoute /\ UNCHANGED <<call, temp, tempParent, made, nodesToCheck>>
      /\ IF Len(d) = TREAP_NODES THEN pc'[t] = "unwind" /\ UNCHANGED nodes
         ELSE nodes' = [nodes EXCEPT ![n].treap = immutableInsert(@, v)]
              /\ pc'[t] = IF Len(d) + 1 >= TREAP_NODES THEN "split" ELSE "unlock"
  BY DEF InsertValue, AtBase, BaseTreap, TreapSplitThreshold, Goto, callVars, walkVars, queryVars, Ready, VarsOK
<1>2. n \in DOMAIN nodes /\ n \in Path(nodes, v) /\ v \in Int /\ nodesToCheck[t] = <<>>
  BY <1>1, CallTypes DEF Ready, PointersOK, LocalOK
<1>3. n \in Bases(nodes) /\ d \in Seq(Int) /\ Sorted(d) /\ Len(d) <= TREAP_NODES /\ Len(d) \in Nat
  BY <1>1, <1>2, NodeTypes DEF Ready
<1>4. CASE Len(d) = TREAP_NODES
  <2>1. pc'[t] = "unwind" /\ UNCHANGED nodes
    BY <1>1, <1>4
  <2>2. LocalKept(t)
    BY <1>1, <1>2, <2>1 DEF Ready, LocalKept, LocalOK, PointersOK, InTree, Splits, Splitting
  <2>3. NodesKept(t)
    BY <1>1, <2>1, SameNodesKept DEF Failed, InTree
  <2> QED BY <2>2, <2>3
<1>5. CASE Len(d) /= TREAP_NODES
  <2>1. e \in Seq(Int) /\ Len(e) = Len(d) + 1 /\ Sorted(e) /\ ToSet(e) = ToSet(d) \cup {v}
    BY <1>2, <1>3, InsertLength, InsertSorted
  <2>2. Len(e) <= TREAP_NODES
    BY <1>3, <1>5, <2>1, CapacityAssumption
  <2>3. nodes' = its2 /\ pc'[t] = IF Len(e) >= TREAP_NODES THEN "split" ELSE "unlock"
    BY <1>1, <1>5, <2>1
  <2>4. GoodNodes(nodes, TREAP_NODES) /\ Forest(nodes, {head}) /\ InPlace(nodes)
    BY DEF Ready
  <2> HIDE DEF e
  <2>5. HasTreap(nodes, its2, n, e)
    BY <1>3, <2>1, <2>4, TreapChanges
  <2>6. \A w \in ToSet(e) : n \in Path(nodes, w)
    BY <1>2, <1>3, <2>1, <2>4 DEF InPlace
  <2> HIDE DEF n, d, v, its2
  <2>7. GoodNodes(nodes', TREAP_NODES)
    BY <1>3, <2>1, <2>2, <2>3, <2>4, <2>5, HasTreapGood
  <2>8. Forest(nodes', {head}) /\ InPlace(nodes')
    BY <1>3, <2>3, <2>4, <2>5, <2>6, HasTreapForest, HasTreapInPlace
  <2>9. DOMAIN nodes' = DOMAIN nodes /\ Routes(nodes') = Routes(nodes) /\ nodes'[n].treap = e
    BY <2>3, <2>5 DEF HasTreap
  <2>10. Below(nodes, {head} \cup {}) = DOMAIN nodes => Below(nodes', {head} \cup {}) = DOMAIN nodes'
    BY ZenonT(40), <1>3, <2>3, <2>4, <2>5, HasTreapBelow DEF Forest
  <2>11. n \in Bases(nodes')
    BY <1>3, <2>9 DEF Bases
  <2>12. LocalKept(t)
    <3>1. pc'[t] = "split" => Len(nodes'[n].treap) = TREAP_NODES
      BY <2>1, <2>2, <2>3, <2>9, <1>3, CapacityAssumption
    <3>2. pc'[t] \in {"split", "unlock"}
      BY <2>3
    <3>3. LocalOK(t)'
      BY <1>1, <1>2, <2>11, <3>1, <3>2 DEF Ready, LocalOK, InTree, Splits, Splitting, n
    <3>4. PointersOK(t)'
      BY <1>1, <1>2, <2>9, <3>2 DEF Ready, PointersOK, n
    <3> QED BY <3>3, <3>4 DEF LocalKept
  <2>13. NodesKept(t)
    <3>1. Made(t) = {} /\ Made(t)' = {} /\ ~Failed(t) /\ InTree(t)
      BY <1>1, <2>3 DEF Made, Splitting, Failed, InTree
    <3>2. ASSUME Full(nodes, TREAP_NODES) \subseteq Cut(t) PROVE Full(nodes', TREAP_NODES) \subseteq Cut(t)'
      <4>1. Full(nodes, TREAP_NODES) = {}
        BY <1>1, <3>2 DEF Cut, Splits, Splitting
      <4>2. Full(nodes', TREAP_NODES) \subseteq {m \in {n} : Len(e) = TREAP_NODES}
        BY <1>3, <2>3, <2>5, <4>1, HasTreapFull DEF FullTreap
      <4>3. Len(e) = TREAP_NODES => Cut(t)' = {n}
        BY <1>1, <2>3, CapacityAssumption DEF Cut, Splits, n
      <4> QED BY <4>2, <4>3
    <3> QED BY <2>7, <2>8, <2>10, <3>1, <3>2 DEF NodesKept
  <2> QED BY <2>12, <2>13
<1> QED BY <1>4, <1>5

LEMMA RemoveKeeps ==
    ASSUME NEW t \in Threads, Ready(t), RemoveValue(t)
    PROVE  LocalKept(t) /\ NodesKept(t)
<1> DEFINE n == temp[t]
           v == call[t].key
           d == nodes[n].treap
           e == immutableRemove(d, v)
           its2 == [nodes EXCEPT ![n].treap = e]
           p == tempParent[t]
<1>1. /\ pc[t] = "search" /\ ~nodes[n].isRoute /\ UNCHANGED <<call, temp, tempParent, made, nodesToCheck>>
      /\ nodes' = [nodes EXCEPT ![n].treap = immutableRemove(@, v)]
      /\ pc'[t] = IF p /= null /\ SiblingsMerge(p, nodes') THEN "merge" ELSE "unlock"
  BY DEF RemoveValue, AtBase, Goto, callVars, walkVars, queryVars, Ready, VarsOK
<1>2. /\ n \in DOMAIN nodes /\ v \in Int /\ nodesToCheck[t] = <<>>
      /\ p /= null => p \in Routes(nodes)
  BY <1>1, CallTypes DEF Ready, PointersOK, LocalOK
<1>3. n \in Bases(nodes) /\ d \in Seq(Int) /\ Sorted(d) /\ Len(d) <= TREAP_NODES /\ Len(d) \in Nat
  BY <1>1, <1>2, NodeTypes DEF Ready
<1>4. e \in Seq(Int) /\ Len(e) <= Len(d) /\ Sorted(e) /\ ToSet(e) \subseteq ToSet(d)
  BY <1>2, <1>3, RemoveLength, RemoveSorted
<1>5. Len(e) <= TREAP_NODES
  BY <1>3, <1>4, LenProperties, CapacityAssumption
<1>6. nodes' = its2
  BY <1>1
<1>7. GoodNodes(nodes, TREAP_NODES) /\ Forest(nodes, {head}) /\ InPlace(nodes)
  BY DEF Ready
<1> HIDE DEF e
<1>8. HasTreap(nodes, its2, n, e)
  BY <1>3, <1>4, <1>7, TreapChanges
<1>9. \A w \in ToSet(e) : n \in Path(nodes, w)
  BY <1>3, <1>4, <1>7 DEF InPlace
<1> HIDE DEF n, d, v, its2, p
<1>10. GoodNodes(nodes', TREAP_NODES)
  BY <1>3, <1>4, <1>5, <1>6, <1>7, <1>8, HasTreapGood
<1>11. Forest(nodes', {head}) /\ InPlace(nodes')
  BY <1>3, <1>6, <1>7, <1>8, <1>9, HasTreapForest, HasTreapInPlace
<1>12. DOMAIN nodes' = DOMAIN nodes /\ Routes(nodes') = Routes(nodes)
  BY <1>6, <1>8 DEF HasTreap
<1>13. Below(nodes, {head} \cup {}) = DOMAIN nodes => Below(nodes', {head} \cup {}) = DOMAIN nodes'
  BY ZenonT(40), <1>3, <1>6, <1>7, <1>8, HasTreapBelow DEF Forest
<1>14. LocalKept(t)
  <2>1. pc'[t] \in {"merge", "unlock"}
    BY <1>1
  <2>2. pc'[t] = "merge" => p \in Routes(nodes') /\ SiblingsMerge(p, nodes')
    BY <1>1, <1>2, <1>12
  <2>3. LocalOK(t)'
    BY <1>1, <1>2, <2>1, <2>2 DEF Ready, LocalOK, InTree, Splits, Splitting, p
  <2>4. PointersOK(t)'
    BY <1>1, <1>2, <1>12, <2>1 DEF Ready, PointersOK, n
  <2> QED BY <2>3, <2>4 DEF LocalKept
<1>15. NodesKept(t)
  <2>1. Made(t) = {} /\ Made(t)' = {} /\ ~Failed(t) /\ InTree(t)
    BY <1>1 DEF Made, Splitting, Failed, InTree
  <2>2. ASSUME Full(nodes, TREAP_NODES) \subseteq Cut(t) PROVE Full(nodes', TREAP_NODES) \subseteq Cut(t)'
    <3>1. Full(nodes, TREAP_NODES) = {}
      BY <1>1, <2>2 DEF Cut, Splits, Splitting
    <3>2. ~FullTreap(d, TREAP_NODES)
      BY <1>3, <3>1 DEF Full, FullTreap, d
    <3>3. ~FullTreap(e, TREAP_NODES)
      <4>1. CASE contains(d, v)
        BY <1>2, <1>3, <4>1, RemovePlaces DEF e, v, FullTreap
      <4>2. CASE ~contains(d, v)
        BY <3>2, <4>2 DEF e, immutableRemove
      <4> QED BY <4>1, <4>2
    <3> QED BY <1>3, <1>6, <1>8, <3>1, <3>3, HasTreapFull
  <2> QED BY <1>10, <1>11, <1>13, <2>1, <2>2 DEF NodesKept
<1> QED BY <1>14, <1>15

LEMMA MakeNodesKeeps ==
    ASSUME NEW t \in Threads, Ready(t), MakeNodes(t)
    PROVE  LocalKept(t) /\ NodesKept(t)
<1> DEFINE n == temp[t]
           l == Fresh(DOMAIN nodes)
           r == Fresh(DOMAIN nodes \cup {l})
<1>1. /\ pc[t] = "split" /\ pc'[t] = "splitLeft" /\ made'[t] = <<l, r>>
      /\ UNCHANGED <<call, temp, tempParent, nodesToCheck>>
      /\ nodes' = [m \in DOMAIN nodes \cup {l, r} |-> IF m \in DOMAIN nodes THEN nodes[m] ELSE Base(<<>>)]
  BY DEF MakeNodes, Goto, callVars, queryVars, Ready, VarsOK
<1>2. n \in Bases(nodes) /\ Len(nodes[n].treap) = TREAP_NODES /\ nodesToCheck[t] = <<>>
  BY <1>1 DEF Ready, LocalOK, Splits
<1>3. /\ GoodNodes(nodes, TREAP_NODES) /\ Forest(nodes, {head}) /\ InPlace(nodes)
      /\ head \in DOMAIN nodes /\ TREAP_NODES \in Nat /\ head \in {head}
  BY CapacityAssumption DEF Ready, Forest
<1>4. HasNew(nodes, nodes', l, r)
  <2> HIDE DEF l
  <2>1. l = Fresh(DOMAIN nodes) /\ r = Fresh(DOMAIN nodes \cup {l})
    BY DEF l
  <2> HIDE DEF r
  <2> QED BY <1>1, <1>3, <2>1, NewNodesAreNew
<1> HIDE DEF l, r, n
<1>5. /\ GoodNodes(nodes', TREAP_NODES) /\ Forest(nodes', {head}) /\ InPlace(nodes')
      /\ Routes(nodes') = Routes(nodes) /\ Bases(nodes') = Bases(nodes) \cup {l, r}
      /\ \A q \in Routes(nodes) : Children(nodes', q) = Children(nodes, q)
  BY <1>3, <1>4, HasNewKeeps
<1>6. /\ l /= r /\ {l, r} \cap DOMAIN nodes = {} /\ DOMAIN nodes' = DOMAIN nodes \cup {l, r}
      /\ nodes'[l].treap = <<>> /\ nodes'[r].treap = <<>>
      /\ \A m \in DOMAIN nodes : nodes'[m] = nodes[m]
  BY <1>4 DEF HasNew, Base
<1>7. ToSet(<<l, r>>) = {l, r} /\ <<l, r>>[1] = l /\ <<l, r>>[2] = r
  BY DEF ToSet
<1>8. Bases(nodes) \subseteq DOMAIN nodes
  BY DEF Bases
<1>9. \A q \in Routes(nodes) : Children(nodes', q) \cap {l, r} = {}
  BY <1>3, <1>5, <1>6 DEF Forest
<1>10. LocalKept(t)
  <2>1. n \in Bases(nodes') /\ Len(nodes'[n].treap) = TREAP_NODES
    BY <1>2, <1>5, <1>6, <1>8
  <2>2. {l, r} \subseteq Bases(nodes') \ {head, n}
    BY <1>2, <1>3, <1>5, <1>6, <1>8
  <2>3. LocalOK(t)'
    BY <1>1, <1>2, <1>5, <1>6, <1>7, <1>9, <2>1, <2>2 DEF Ready, LocalOK, InTree, Splits, Splitting, n
  <2>4. PointersOK(t)'
    BY <1>1, <1>2, <1>6, <1>8 DEF Ready, PointersOK, n
  <2> QED BY <2>3, <2>4 DEF LocalKept
<1>11. NodesKept(t)
  <2>1. Made(t) = {} /\ Made(t)' = {l, r} /\ ~Failed(t) /\ InTree(t)
    BY <1>1, <1>7 DEF Made, Splitting, Failed, InTree
  <2>2. Below(nodes, {head}) = DOMAIN nodes => Below(nodes', {head} \cup {l, r}) = DOMAIN nodes'
    BY <1>3, <1>4, HasNewBelow
  <2>3. Cut(t)' = Cut(t) /\ Full(nodes', TREAP_NODES) \subseteq Full(nodes, TREAP_NODES)
    BY <1>1, <1>4, HasNewFull, CapacityAssumption DEF Cut, Splits, Splitting
  <2> QED BY <1>5, <2>1, <2>2, <2>3 DEF NodesKept
<1> QED BY <1>10, <1>11

LEMMA SplitRightKeeps ==
    ASSUME NEW t \in Threads, Ready(t), SplitRight(t)
    PROVE  LocalKept(t) /\ NodesKept(t)
<1> DEFINE n == temp[t]
           l == made[t][1]
           r == made[t][2]
           a == nodes[n].treap
           val == getMedianVal(a)
           d == splitLeft(a, val)
           e == splitRight(a, val)
           roots == {head}
<1>1. /\ pc[t] = "splitRight" /\ pc'[t] = "unlock" /\ UNCHANGED <<call, temp, tempParent, made, nodesToCheck>>
      /\ nodes' = [nodes EXCEPT ![l].treap = d, ![r].treap = e, ![n] = Route(val, l, r)]
  BY DEF SplitRight, BaseTreap, Goto, callVars, walkVars, queryVars, Ready, VarsOK
<1>2. made[t] \in Nat \X Nat
  BY DEF Ready, VarsOK
<1>3. ToSet(made[t]) = {l, r}
  BY <1>2 DEF ToSet
<1>4. GoodNodes(nodes, TREAP_NODES) /\ Forest(nodes, roots) /\ InPlace(nodes) /\ head \in roots
  BY DEF Ready
<1>5. n \in Bases(nodes) /\ Len(a) = TREAP_NODES /\ nodesToCheck[t] = <<>>
  BY <1>1 DEF Ready, LocalOK, Splits, Splitting
<1>6. Divisible(nodes, roots, n, l, r)
  BY <1>1, <1>3, <1>5 DEF Ready, LocalOK, Splits, Splitting, Divisible
<1>7. a \in Seq(Int) /\ Sorted(a) /\ Len(a) >= 1
  BY <1>4, <1>5, NodeTypes, CapacityAssumption DEF Bases
<1>8. val \in Int
  BY <1>7, MedianType
<1> HIDE DEF val
<1>9. /\ d \in Seq(Int) /\ Len(d) <= TREAP_NODES /\ e \in Seq(Int) /\ Len(e) <= TREAP_NODES
      /\ Sorted(d) /\ Sorted(e)
  BY <1>5, <1>7, <1>8, SplitLengths, SplitSorted
<1>10. \A v \in ToSet(d) : v \in ToSet(a) /\ v <= val
  <2>1. Len(d) \in Nat /\ DOMAIN d = 1 .. Len(d) /\ DOMAIN a = 1 .. Len(a) /\ Len(a) \in Nat
    BY <1>7, <1>9, LenProperties
  <2>2. \A i \in 1 .. Len(d) : d[i] = a[i] /\ d[i] <= val
    BY <1>7, <1>8, SplitSorted
  <2>3. Len(d) <= Len(a)
    BY <1>7, <1>8, SplitLengths
  <2> HIDE DEF a, d
  <2> QED BY <2>1, <2>2, <2>3 DEF ToSet
<1>11. \A v \in ToSet(e) : v \in ToSet(a) /\ ~(v <= val)
  <2>1. Len(e) \in Nat /\ DOMAIN e = 1 .. Len(e) /\ DOMAIN a = 1 .. Len(a) /\ Len(a) \in Nat
    BY <1>7, <1>9, LenProperties
  <2>2. /\ \A i \in 1 .. Len(e) : e[i] = a[Rank(a, val) + i] /\ e[i] > val
        /\ Len(e) = Len(a) - Rank(a, val)
    BY <1>7, <1>8, SplitSorted
  <2>3. Rank(a, val) \in 0 .. Len(a)
    BY <1>7, <1>8, RankBounds
  <2>4. \A i \in 1 .. Len(e) : a[Rank(a, val) + i] \in Int
    BY SMTT(30), <1>7, <2>1, <2>2, <2>3, ElementOfSeq
  <2> SUFFICES ASSUME NEW v \in ToSet(e) PROVE v \in ToSet(a) /\ ~(v <= val)
    OBVIOUS
  <2> HIDE DEF a, e
  <2>5. PICK i \in 1 .. Len(e) : v = e[i]
    BY <2>1 DEF ToSet
  <2>6. v = a[Rank(a, val) + i] /\ v > val /\ Rank(a, val) + i \in 1 .. Len(a) /\ v \in Int
    BY <2>1, <2>2, <2>3, <2>4, <2>5
  <2>7. v \in ToSet(a)
    BY <2>1, <2>6 DEF ToSet
  <2> QED BY <1>8, <2>6, <2>7
<1> HIDE DEF a, d, e, l, r, n, roots
<1>12. Divided(nodes, nodes', n, l, r, val, d, e)
  <2>1. Divided(nodes, [nodes EXCEPT ![l].treap = d, ![r].treap = e, ![n] = Route(val, l, r)],
                n, l, r, val, d, e)
    BY <1>4, <1>6, <1>8, <1>9, SplitDivides
  <2> QED BY <1>1, <2>1
<1>13. SplitBegins(nodes, nodes', n, l, r, val, d, e, roots, TREAP_NODES)
  BY <1>4, <1>6, <1>12 DEF SplitBegins
<1>14. SplitLinks(nodes, nodes', n, l, r, val, d, e, roots)
  BY <1>13, DividedLinks
<1>15. DOMAIN nodes' = DOMAIN nodes /\ Forest(nodes', roots)
  BY <1>14 DEF SplitLinks
<1>16. GoodNodes(nodes', TREAP_NODES) /\ InPlace(nodes')
  <2>1. \A v \in ToSet(d) : v \in ToSet(nodes[n].treap) /\ v <= val
    BY <1>10 DEF a
  <2>2. \A v \in ToSet(e) : v \in ToSet(nodes[n].treap) /\ ~(v <= val)
    BY <1>11 DEF a
  <2> QED BY <1>4, <1>8, <1>9, <1>13, <2>1, <2>2, DividedGood
<1>17. LocalKept(t)
  <2>1. LocalOK(t)'
    BY <1>1, <1>5 DEF Ready, LocalOK, InTree, Splits, Splitting
  <2>2. PointersOK(t)'
    BY <1>1, <1>15 DEF Ready, PointersOK
  <2> QED BY <2>1, <2>2 DEF LocalKept
<1>18. NodesKept(t)
  <2>1. Made(t) = {l, r} /\ Made(t)' = {} /\ ~Failed(t) /\ InTree(t)
    BY <1>1, <1>3 DEF Made, Splitting, Failed, InTree
  <2>2. Below(nodes, roots \cup {l, r}) = DOMAIN nodes => Below(nodes', roots) = DOMAIN nodes'
    BY <1>13, DividedBelow
  <2>3. {head} \cup {} = {head}
    OBVIOUS
  <2>4. ~FullTreap(d, TREAP_NODES) /\ ~FullTreap(e, TREAP_NODES)
    BY <1>5, <1>7, SplitIsSplit DEF d, e, val
  <2>5. Full(nodes', TREAP_NODES) \subseteq Full(nodes, TREAP_NODES) \ {n}
    BY <1>14, <2>4, SplitLinksFull
  <2>6. Cut(t) = {n}
    BY <1>1 DEF Cut, Splits, Splitting, n
  <2> QED BY <1>15, <1>16, <2>1, <2>2, <2>3, <2>5, <2>6 DEF NodesKept, roots
<1> QED BY <1>17, <1>18

LEMMA MergeKeeps ==
    ASSUME NEW t \in Threads, Ready(t), Merge(t)
    PROVE  LocalKept(t) /\ NodesKept(t)
<1> DEFINE p == tempParent[t]
           l == nodes[p].left
           r == nodes[p].right
           a == nodes[l].treap
           b == nodes[r].treap
           d == merge(a, b)
           roots == {head}
           merged == [nodes[p] EXCEPT !.treap = d, !.isRoute = FALSE, !.left = null, !.right = null]
<1>1. /\ pc[t] = "merge" /\ pc'[t] = "unlock" /\ UNCHANGED <<call, temp, tempParent, made, nodesToCheck>>
      /\ nodes' = [m \in DOMAIN nodes \ {l, r} |-> IF m = p THEN merged ELSE nodes[m]]
  BY DEF Merge, Goto, callVars, walkVars, queryVars, Ready, VarsOK
<1>2. GoodNodes(nodes, TREAP_NODES) /\ Forest(nodes, roots) /\ InPlace(nodes) /\ head \in roots
  BY DEF Ready
<1>3. p \in Routes(nodes) /\ SiblingsMerge(p, nodes) /\ nodesToCheck[t] = <<>>
  BY <1>1 DEF Ready, LocalOK
<1>4. Children(nodes, p) = {l, r} /\ {l, r} \subseteq DOMAIN nodes
  BY <1>2, <1>3 DEF Children, Forest
<1>5. ~nodes[l].isRoute /\ ~nodes[r].isRoute /\ Len(a) + Len(b) <= TREAP_NODES \div 2
  BY <1>3 DEF SiblingsMerge, TreapMergeThreshold
<1>6. /\ {l, r} \subseteq Bases(nodes) /\ a \in Seq(Int) /\ b \in Seq(Int) /\ Sorted(a) /\ Sorted(b)
      /\ nodes[p].val \in Int
  <2>1. /\ l \in Bases(nodes) /\ a \in Seq(Int) /\ Sorted(a)
    BY <1>2, <1>4, <1>5, NodeTypes
  <2>2. /\ r \in Bases(nodes) /\ b \in Seq(Int) /\ Sorted(b)
    BY <1>2, <1>4, <1>5, NodeTypes
  <2>3. nodes[p].val \in Int
    BY <1>2, <1>3, NodeTypes DEF Routes
  <2> QED BY <2>1, <2>2, <2>3
<1>7. d \in Seq(Int) /\ Len(d) <= TREAP_NODES /\ Len(d) /= TREAP_NODES
  <2> HIDE DEF a, b
  <2>1. d \in Seq(Int) /\ Len(d) = Len(a) + Len(b)
    BY <1>6, MergeLength
  <2>2. Len(a) \in Nat /\ Len(b) \in Nat
    BY <1>6, LenProperties
  <2>3. Len(a) + Len(b) < TREAP_NODES
    BY <1>5, <2>2, CapacityAssumption
  <2> QED BY <2>1, <2>2, <2>3, CapacityAssumption
<1>8. /\ \A v \in ToSet(a) : v <= nodes[p].val
      /\ \A v \in ToSet(b) : ~(v <= nodes[p].val)
  BY SMTT(30), <1>2, <1>3, <1>4, <1>6, SidesInPlace
<1>9. \A i \in 1 .. Len(a), j \in 1 .. Len(b) : a[i] <= b[j]
  <2> SUFFICES ASSUME NEW i \in 1 .. Len(a), NEW j \in 1 .. Len(b) PROVE a[i] <= b[j]
    OBVIOUS
  <2> HIDE DEF a, b
  <2>1. a[i] \in ToSet(a) /\ b[j] \in ToSet(b) /\ a[i] \in Int /\ b[j] \in Int
    BY <1>6, LenProperties, ElementOfSeq DEF ToSet
  <2> QED BY <1>6, <1>8, <2>1
<1>10. Sorted(d) /\ ToSet(d) = ToSet(a) \cup ToSet(b)
  <2> HIDE DEF a, b
  <2> QED BY <1>6, <1>9, MergeSorted
<1> HIDE DEF d, p
<1>11. Merged(nodes, nodes', p, d)
  <2>1. Merged(nodes, [m \in DOMAIN nodes \ Children(nodes, p) |-> IF m = p THEN merged ELSE nodes[m]], p, d)
    BY <1>2, <1>3, <1>4, <1>6, <1>7, MergeMerges
  <2> QED BY <1>1, <1>4, <2>1
<1> HIDE DEF roots
<1>12. Children(nodes, p) \subseteq Bases(nodes)
  BY <1>4, <1>6
<1>13. GoodNodes(nodes', TREAP_NODES) /\ InPlace(nodes')
  BY <1>2, <1>3, <1>7, <1>10, <1>11, <1>12, MergedGood
<1>14. Forest(nodes', roots)
  BY <1>2, <1>3, <1>11, <1>12, MergedLinks
<1>15. p \in DOMAIN nodes'
  BY <1>3, <1>11, <1>12 DEF Merged, Routes, Bases
<1> HIDE DEF l, r, a, b, merged
<1>16. LocalKept(t)
  <2>1. LocalOK(t)'
    BY <1>1, <1>3 DEF Ready, LocalOK, InTree, Splits, Splitting
  <2>2. PointersOK(t)'
    <3>1. ToSet(<<>>) = {}
      BY ShortSets
    <3> QED BY <1>1, <1>3, <1>15, <3>1 DEF PointersOK, p
  <2> QED BY <2>1, <2>2 DEF LocalKept
<1>17. NodesKept(t)
  <2>1. Made(t) = {} /\ Made(t)' = {} /\ ~Failed(t) /\ InTree(t)
    BY <1>1 DEF Made, Splitting, Failed, InTree
  <2>2. Below(nodes, roots) = DOMAIN nodes => Below(nodes', roots) = DOMAIN nodes'
    BY <1>2, <1>3, <1>11, <1>12, MergedBelow
  <2>3. {head} \cup {} = roots
    BY DEF roots
  <2>4. Full(nodes', TREAP_NODES) \subseteq Full(nodes, TREAP_NODES)
    BY <1>2, <1>3, <1>7, <1>11, <1>12, MergedFull
  <2>5. Cut(t) = {}
    BY <1>1 DEF Cut, Splits, Splitting
  <2> QED BY <1>13, <1>14, <2>1, <2>2, <2>3, <2>4, <2>5 DEF NodesKept, roots
<1> QED BY <1>16, <1>17

-----------------------------------------------------------------------------
(* The invariant                                                           *)

LEMMA ActionKeeps ==
    ASSUME NEW t \in Threads, Ready(t), Thread(t)
    PROVE  LocalKept(t) /\ NodesKept(t)
BY CallKeeps, RequestKeeps, AcquireKeeps, SearchKeeps, UnlockKeeps, ReturnKeeps, OutOfTreapsKeeps,
   InsertKeeps, MakeNodesKeeps, SplitLeftKeeps, SplitRightKeeps, RemoveKeeps, MergeKeeps,
   LookupKeeps, CheckNodeKeeps, QueryEndsKeeps DEF Thread

Inv == TypeOK /\ TreeInv /\ ValuesInPlace /\ NodesAreReachable

(* No thread acts once the destructor runs.                                *)
LEMMA ThreadsWereAlive ==
    ASSUME NEW t \in Threads, TreeInv, TypeOK, Thread(t)
    PROVE  isPreallocated
<1> SUFFICES ASSUME ~isPreallocated PROVE FALSE
  OBVIOUS
<1>1. pc[t] = "idle" /\ todo[t] = <<>>
  BY DEF TreeInv, AliveOrEnded, AllEnded
<1> QED BY <1>1 DEF Thread, Call, Request, Acquire, Search, Unlock, Return, OutOfTreaps, InsertValue,
            MakeNodes, SplitLeft, SplitRight, RemoveValue, Merge, Lookup, CheckNode, QueryEnds, AtBase

(* The other threads do not see what t does, or do not look.               *)
LEMMA OthersKept ==
    ASSUME NEW t \in Threads, NEW u \in Threads, LocalOK(u), PointersOK(u), SameThread(u),
           ~InTree(u) \/ UNCHANGED nodes
    PROVE  LocalOK(u)' /\ PointersOK(u)'
<1> USE DEF SameThread
<1>1. CASE UNCHANGED nodes
  <2>1. LocalOK(u)'
    BY <1>1 DEF LocalOK, InTree, Splits, Splitting
  <2>2. PointersOK(u)'
    BY <1>1 DEF PointersOK
  <2> QED BY <2>1, <2>2
<1>2. CASE ~InTree(u)
  <2>1. LocalOK(u)'
    BY <1>2 DEF LocalOK, InTree, Splits, Splitting
  <2>2. nodesToCheck[u] = <<>> /\ tempParent[u] = null
    BY <1>2 DEF LocalOK, InTree
  <2>3. PointersOK(u)'
    <3>1. ToSet(<<>>) = {}
      BY ShortSets
    <3> QED BY <1>2, <2>2, <3>1 DEF PointersOK, InTree
  <2> QED BY <2>1, <2>3
<1> QED BY <1>1, <1>2

LEMMA ThreadStep ==
    ASSUME NEW t \in Threads, Inv, LInv, Thread(t)
    PROVE  Inv'
<1>1. isPreallocated /\ Heads = {head}
  BY ThreadsWereAlive DEF Inv, Heads
<1>2. Ready(t)
  BY <1>1 DEF Inv, TypeOK, TreeInv, ValuesInPlace, Ready
<1>3. UNCHANGED <<isPreallocated, nodeStack>> /\ \A u \in Threads \ {t} : SameThread(u)
  BY OthersStay DEF Inv, TypeOK
<1>4. VarsOK'
  BY <1>2, TypesStay
<1>5. LocalKept(t) /\ NodesKept(t)
  BY <1>2, ActionKeeps
<1>6. InTree(t) => \A u \in Threads \ {t} : ~InTree(u)
  BY RunsAlone DEF CallsRunAlone
<1>7. ASSUME NEW u \in Threads PROVE LocalOK(u)' /\ PointersOK(u)'
  <2>1. CASE u = t
    BY <1>5, <2>1 DEF LocalKept
  <2>2. CASE u /= t
    <3>1. LocalOK(u) /\ PointersOK(u)
      BY DEF Inv, TypeOK, TreeInv
    <3>2. ~InTree(u) \/ UNCHANGED nodes
      BY <1>5, <1>6, <2>2 DEF NodesKept
    <3> QED BY <1>3, <2>2, <3>1, <3>2, OthersKept
  <2> QED BY <2>1, <2>2
<1>8. GoodNodes(nodes', TREAP_NODES) /\ Forest(nodes', {head}) /\ InPlace(nodes')
  BY <1>5 DEF NodesKept
<1>9. Heads' = {head}
  BY <1>1, <1>3 DEF Heads
<1>10. TypeOK'
  BY <1>4, <1>7, <1>8 DEF TypeOK
<1>11. TreeInv'
  <2>1. AliveOrEnded'
    BY <1>1, <1>3 DEF Inv, TreeInv, AliveOrEnded
  <2> QED BY <1>7, <1>8, <1>9, <2>1 DEF TreeInv
<1>12. ValuesInPlace'
  BY <1>8 DEF ValuesInPlace
<1>13. NodesAreReachable'
  <2> SUFFICES ASSUME \A u \in Threads : ~Failed(u)'
               PROVE  Below(nodes', Heads' \cup NewNodes') = DOMAIN nodes'
    BY DEF NodesAreReachable
  <2>1. ~Failed(t)
    BY <1>5 DEF NodesKept
  <2>2. \A u \in Threads : ~Failed(u)
    BY <1>3, <2>1 DEF SameThread, Failed
  <2>3. Below(nodes, {head} \cup NewNodes) = DOMAIN nodes
    BY <1>1, <2>2 DEF Inv, NodesAreReachable
  <2>4. CASE InTree(t)
    <3>1. NewNodes = Made(t) /\ NewNodes' = Made(t)'
      <4>1. \A u \in Threads \ {t} : ~InTree(u)
        BY <1>6, <2>4
      <4>2. \A u \in Threads \ {t} : Made(u) = {} /\ Made(u)' = {}
        BY <1>3, <4>1 DEF SameThread, Made, Splitting, InTree
      <4>3. NewNodes = UNION {Made(u) : u \in Threads} /\ NewNodes' = UNION {Made(u)' : u \in Threads}
        BY DEF NewNodes, Made
      <4> QED BY <4>2, <4>3
    <3> QED BY <1>5, <1>9, <2>3, <3>1 DEF NodesKept
  <2>5. CASE ~InTree(t)
    <3>1. nodes' = nodes /\ Made(t)' = Made(t)
      BY <1>5, <2>5 DEF NodesKept
    <3>2. \A u \in Threads : Made(u)' = Made(u)
      BY <1>3, <3>1 DEF SameThread, Made, Splitting
    <3>3. NewNodes = UNION {Made(u) : u \in Threads} /\ NewNodes' = UNION {Made(u)' : u \in Threads}
      BY DEF NewNodes, Made
    <3>4. NewNodes' = NewNodes
      BY <3>2, <3>3
    <3> QED BY <1>9, <2>3, <3>1, <3>4
  <2> QED BY <2>4, <2>5
<1> QED BY <1>10, <1>11, <1>12, <1>13 DEF Inv

(* The destructor                                                          *)
LEMMA DeallocateStep ==
    ASSUME Inv, Deallocate
    PROVE  Inv'
<1>1. /\ AllEnded /\ isPreallocated /\ isPreallocated' = FALSE /\ nodeStack' = <<head>>
      /\ UNCHANGED <<nodes, numPreallocated, currentElementIndex, pc, call, todo, temp, tempParent, made,
                     nodesToCheck, result, success, reply>>
  BY DEF Deallocate, Treaps!Deallocate, callVars, walkVars, queryVars
<1>2. <<head>> \in Seq(Nat) /\ ToSet(<<head>>) = {head} /\ IsInjective(<<head>>)
  <2>1. head \in Nat
    BY DEF head
  <2>2. IsInjective(<<head>>)
    BY DEF IsInjective
  <2> QED BY <2>1, <2>2, ShortSets
<1>3. Heads = {head} /\ Heads' = {head}
  BY <1>1, <1>2 DEF Heads
<1>4. \A u \in Threads : LocalOK(u)' /\ PointersOK(u)'
  <2> SUFFICES ASSUME NEW u \in Threads PROVE LocalOK(u)' /\ PointersOK(u)'
    OBVIOUS
  <2> QED BY <1>1, OthersKept DEF Inv, TypeOK, TreeInv, SameThread
<1>5. VarsOK'
  BY <1>1, <1>2 DEF Inv, TypeOK, VarsOK
<1>6. TypeOK'
  BY <1>1, <1>4, <1>5 DEF Inv, TypeOK
<1>7. AllEnded'
  BY <1>1 DEF AllEnded
<1>8. TreeInv'
  BY <1>1, <1>2, <1>3, <1>4, <1>7 DEF Inv, TreeInv, AliveOrEnded
<1>9. NodesAreReachable'
  <2>1. NewNodes' = NewNodes /\ \A u \in Threads : Failed(u)' <=> Failed(u)
    BY <1>1 DEF NewNodes, Splitting, Failed
  <2> QED BY <1>1, <1>3, <2>1 DEF Inv, NodesAreReachable
<1> QED BY <1>1, <1>6, <1>8, <1>9 DEF Inv, ValuesInPlace

LEMMA InjectiveFront ==
    ASSUME NEW S, NEW s \in Seq(S), s /= <<>>, IsInjective(s)
    PROVE  IsInjective(Front(s)) /\ ToSet(Front(s)) = ToSet(s) \ {Last(s)}
<1>1. /\ Len(s) \in Nat \ {0} /\ DOMAIN s = 1 .. Len(s) /\ Last(s) = s[Len(s)]
  BY LenProperties, EmptySeq DEF Last
<1>2. /\ Front(s) \in Seq(S) /\ Len(Front(s)) = Len(s) - 1 /\ \A i \in 1 .. Len(s) - 1 : Front(s)[i] = s[i]
      /\ ToSet(s) = ToSet(Front(s)) \cup {Last(s)}
  BY FrontFacts
<1>3. DOMAIN Front(s) = 1 .. Len(s) - 1
  BY <1>2, LenProperties
<1>4. IsInjective(Front(s))
  BY <1>1, <1>2, <1>3 DEF IsInjective
<1>5. Last(s) \notin ToSet(Front(s))
  BY <1>1, <1>2, <1>3 DEF IsInjective, ToSet
<1> QED BY <1>2, <1>4, <1>5

LEMMA InjectiveAppend ==
    ASSUME NEW S, NEW s \in Seq(S), NEW x \in S, IsInjective(s), x \notin ToSet(s)
    PROVE  /\ s \o <<x>> \in Seq(S) /\ IsInjective(s \o <<x>>)
           /\ ToSet(s \o <<x>>) = ToSet(s) \cup {x}
<1> DEFINE e == s \o <<x>>
<1>1. <<x>> \in Seq(S) /\ ToSet(<<x>>) = {x} /\ Len(<<x>>) = 1 /\ <<x>>[1] = x
  BY ShortSets
<1>2. e \in Seq(S) /\ ToSet(e) = ToSet(s) \cup {x}
  <2> DEFINE f == <<x>>
  <2>1. f \in Seq(S) /\ ToSet(f) = {x}
    BY <1>1
  <2>2. e = s \o f
    OBVIOUS
  <2> HIDE DEF f, e
  <2> QED BY <2>1, <2>2, ConcatSet
<1>3. /\ Len(s) \in Nat /\ DOMAIN s = 1 .. Len(s) /\ Len(e) = Len(s) + 1 /\ DOMAIN e = 1 .. Len(e)
      /\ \A i \in 1 .. Len(s) : e[i] = s[i]
      /\ e[Len(s) + 1] = x
  <2>1. Len(s) \in Nat /\ DOMAIN s = 1 .. Len(s) /\ DOMAIN e = 1 .. Len(e)
    BY <1>2, LenProperties
  <2>2. Len(e) = Len(s) + 1 /\ \A i \in 1 .. Len(s) + 1 : e[i] = IF i <= Len(s) THEN s[i] ELSE <<x>>[i - Len(s)]
    BY <1>1, ConcatProperties
  <2> HIDE DEF e
  <2> QED BY <1>1, <2>1, <2>2
<1>4. \A i \in 1 .. Len(s) : s[i] /= x
  BY <1>3 DEF ToSet
<1> HIDE DEF e
<1>5. IsInjective(e)
  BY <1>3, <1>4 DEF IsInjective
<1> QED BY <1>2, <1>5 DEF e

(* The children of a deleted route are deleted later, and each only once.  *)
Pushed(its, n, rest, stack) ==
    LET Child(c) == IF c = null THEN <<>> ELSE <<c>>
    IN  stack = rest \o Child(its[n].left) \o Child(its[n].right)

LEMMA StackAfter ==
    ASSUME NEW n, NEW its, NEW rest \in Seq(Nat), NEW stack, NEW capacity,
           GoodNodes(its, capacity), Forest(its, ToSet(rest) \cup {n}), n \notin ToSet(rest), IsInjective(rest),
           Pushed(its, n, rest, stack)
    PROVE  /\ stack \in Seq(Nat) /\ IsInjective(stack)
           /\ ToSet(stack) = ToSet(rest) \cup (Children(its, n) \ {null})
<1> DEFINE l == its[n].left
           r == its[n].right
<1>1. n \in DOMAIN its
  BY DEF Forest
<1>2. CASE n \in Bases(its)
  <2>1. l = null /\ r = null
    BY <1>2 DEF GoodNodes
  <2>2. stack = rest \o <<>> \o <<>>
    BY <2>1 DEF Pushed
  <2>3. stack = rest
    BY <2>2, ConcatEmptySeq
  <2>4. Children(its, n) \ {null} = {}
    BY <2>1 DEF Children
  <2> QED BY <2>3, <2>4
<1>3. CASE n \in Routes(its)
  <2>1. /\ l /= r /\ {l, r} \subseteq DOMAIN its \ ToSet(rest) /\ Children(its, n) = {l, r}
    BY <1>3 DEF Forest, Children
  <2>2. l /= null /\ r /= null /\ l \in Nat /\ r \in Nat
    BY <2>1 DEF GoodNodes
  <2>3. stack = (rest \o <<l>>) \o <<r>>
    BY <2>2 DEF Pushed
  <2> HIDE DEF l, r
  <2>4. /\ rest \o <<l>> \in Seq(Nat) /\ IsInjective(rest \o <<l>>)
        /\ ToSet(rest \o <<l>>) = ToSet(rest) \cup {l}
    BY <2>1, <2>2, InjectiveAppend
  <2>5. r \notin ToSet(rest \o <<l>>)
    BY <2>1, <2>4
  <2>6. /\ stack \in Seq(Nat) /\ IsInjective(stack)
        /\ ToSet(stack) = ToSet(rest \o <<l>>) \cup {r}
    <3> DEFINE front == rest \o <<l>>
    <3>1. front \in Seq(Nat) /\ IsInjective(front) /\ r \notin ToSet(front) /\ stack = front \o <<r>>
      BY <2>3, <2>4, <2>5
    <3> HIDE DEF front
    <3>2. stack \in Seq(Nat) /\ IsInjective(stack) /\ ToSet(stack) = ToSet(front) \cup {r}
      BY <2>2, <3>1, InjectiveAppend
    <3> QED BY <3>2 DEF front
  <2> QED BY <2>1, <2>2, <2>4, <2>6
<1> QED BY <1>1, <1>2, <1>3 DEF Bases

LEMMA DeleteStep ==
    ASSUME Inv, DeleteNode
    PROVE  Inv'
<1> DEFINE n == Last(nodeStack)
           rest == Front(nodeStack)
<1>1. /\ nodeStack /= <<>> /\ nodeStack \in Seq(Nat)
      /\ nodes' = [m \in DOMAIN nodes \ {n} |-> nodes[m]]
      /\ Pushed(nodes, n, rest, nodeStack')
      /\ UNCHANGED <<isPreallocated, numPreallocated, currentElementIndex, pc, call, todo, temp, tempParent,
                     made, nodesToCheck, result, success, reply>>
  BY DEF DeleteNode, Pushed, Inv, TypeOK, VarsOK, poolVars, callVars, walkVars, queryVars
<1>2. ~isPreallocated /\ AllEnded /\ IsInjective(nodeStack)
  BY <1>1 DEF Inv, TreeInv, AliveOrEnded
<1>3. rest \in Seq(Nat) /\ IsInjective(rest) /\ ToSet(rest) = ToSet(nodeStack) \ {n} /\ n \in ToSet(nodeStack)
  BY <1>1, <1>2, FrontFacts, InjectiveFront
<1>4. Heads = ToSet(nodeStack) /\ Heads' = ToSet(nodeStack')
  BY <1>1, <1>2 DEF Heads
<1>5. GoodNodes(nodes, TREAP_NODES) /\ Forest(nodes, ToSet(nodeStack))
  BY <1>4 DEF Inv, TypeOK, TreeInv
<1> HIDE DEF n, rest
<1>6. ToSet(nodeStack) = ToSet(rest) \cup {n}
  BY <1>3
<1>7. /\ nodeStack' \in Seq(Nat) /\ IsInjective(nodeStack')
      /\ ToSet(nodeStack') = (ToSet(nodeStack) \ {n}) \cup (Children(nodes, n) \ {null})
  <2>1. Forest(nodes, ToSet(rest) \cup {n}) /\ n \notin ToSet(rest)
    BY <1>3, <1>5, <1>6
  <2>2. /\ nodeStack' \in Seq(Nat) /\ IsInjective(nodeStack')
        /\ ToSet(nodeStack') = ToSet(rest) \cup (Children(nodes, n) \ {null})
    BY <1>1, <1>3, <1>5, <2>1, StackAfter
  <2> QED BY <1>3, <2>2
<1>8. /\ GoodNodes(nodes', TREAP_NODES) /\ Forest(nodes', ToSet(nodeStack'))
      /\ Below(nodes, ToSet(nodeStack)) = DOMAIN nodes => Below(nodes', ToSet(nodeStack')) = DOMAIN nodes'
  <2>1. DeleteBegins(nodes, nodes', n, ToSet(nodeStack), ToSet(nodeStack'), TREAP_NODES)
    BY <1>1, <1>3, <1>5, <1>7 DEF DeleteBegins
  <2> QED BY <2>1, DeletedKeeps
<1>9. \A u \in Threads : LocalOK(u)' /\ PointersOK(u)'
  <2> SUFFICES ASSUME NEW u \in Threads PROVE LocalOK(u)' /\ PointersOK(u)'
    OBVIOUS
  <2>1. ~InTree(u)
    BY <1>2 DEF AllEnded, InTree
  <2>2. SameThread(u)
    BY <1>1 DEF SameThread
  <2>3. LocalOK(u) /\ PointersOK(u)
    BY DEF Inv, TypeOK, TreeInv
  <2> QED BY <2>1, <2>2, <2>3, OthersKept
<1>10. VarsOK'
  BY <1>1, <1>7 DEF Inv, TypeOK, VarsOK
<1>11. TypeOK'
  BY <1>8, <1>9, <1>10 DEF TypeOK
<1>12. AllEnded'
  BY <1>1, <1>2 DEF AllEnded
<1>13. TreeInv'
  BY <1>1, <1>2, <1>4, <1>7, <1>8, <1>9, <1>12 DEF TreeInv, AliveOrEnded
<1>14. NodesAreReachable'
  <2>1. NewNodes = {} /\ NewNodes' = {}
    BY <1>2, <1>12 DEF NewNodes, Splitting, AllEnded
  <2>2. \A u \in Threads : Failed(u)' <=> Failed(u)
    BY <1>1 DEF Failed
  <2>3. /\ ToSet(nodeStack) \cup {} = ToSet(nodeStack) /\ ToSet(nodeStack') \cup {} = ToSet(nodeStack')
    OBVIOUS
  <2> QED BY <1>4, <1>8, <2>1, <2>2, <2>3 DEF Inv, NodesAreReachable
<1> QED BY <1>1, <1>2, <1>11, <1>13, <1>14 DEF Inv, ValuesInPlace

LEMMA StutterStep ==
    ASSUME Inv, UNCHANGED vars
    PROVE  Inv'
<1> USE DEF vars, poolVars, callVars, walkVars, queryVars
<1>1. UNCHANGED Heads /\ UNCHANGED NewNodes
  BY DEF Heads, NewNodes, Splitting
<1>2. \A u \in Threads : LocalOK(u)' /\ PointersOK(u)'
  <2> SUFFICES ASSUME NEW u \in Threads PROVE LocalOK(u)' /\ PointersOK(u)'
    OBVIOUS
  <2> QED BY OthersKept DEF Inv, TypeOK, TreeInv, SameThread
<1>3. TypeOK'
  BY <1>2 DEF Inv, TypeOK, VarsOK
<1>4. TreeInv'
  BY <1>1, <1>2 DEF Inv, TreeInv, AliveOrEnded, AllEnded
<1>5. ValuesInPlace' /\ NodesAreReachable'
  BY <1>1 DEF Inv, ValuesInPlace, NodesAreReachable, Failed
<1> QED BY <1>3, <1>4, <1>5 DEF Inv

LEMMA InitInv ==
    ASSUME Init
    PROVE  Inv /\ Full(nodes, TREAP_NODES) = {}
<1>1. IsTree(nodes, TREAP_NODES)
  BY TreesAssumption DEF Init
<1>2. /\ isPreallocated = TRUE /\ numPreallocated \in 1 .. INT_MAX /\ currentElementIndex = 1
      /\ pc = [t \in Threads |-> "idle"] /\ call = [t \in Threads |-> NoCall]
      /\ todo \in [Threads -> Seq(Calls)]
      /\ temp = [t \in Threads |-> null] /\ tempParent = [t \in Threads |-> null]
      /\ made = [t \in Threads |-> <<null, null>>]
      /\ nodesToCheck = [t \in Threads |-> <<>>] /\ result = [t \in Threads |-> <<>>]
      /\ success = [t \in Threads |-> TRUE] /\ reply = [t \in Threads |-> TRUE]
      /\ nodeStack = <<>>
  BY ProgramsAssumption, PreallocationAssumption DEF Init
<1>3. <<>> \in Seq(Nat) /\ <<>> \in Seq(Int) /\ ToSet(<<>>) = {} /\ null \in Nat
  <2>1. null \in Nat
    BY DEF null
  <2> QED BY <2>1, EmptySeq, ShortSets
<1>4. VarsOK
  <2>1. currentElementIndex \in -INT_MAX - 1 .. INT_MAX
    BY <1>2, PreallocationAssumption
  <2> QED BY <1>2, <1>3, <2>1 DEF VarsOK, Labels
<1>5. \A t \in Threads : LocalOK(t) /\ PointersOK(t)
  BY <1>2, <1>3 DEF LocalOK, PointersOK, InTree, Splits, Splitting
<1>6. Heads = {head}
  BY <1>2 DEF Heads
<1>7. NewNodes = {}
  BY <1>2 DEF NewNodes, Splitting
<1>8. {head} \cup {} = {head}
  OBVIOUS
<1> QED BY <1>1, <1>2, <1>4, <1>5, <1>6, <1>7, <1>8
    DEF Inv, TypeOK, TreeInv, AliveOrEnded, ValuesInPlace, NodesAreReachable, IsTree

-----------------------------------------------------------------------------
(* The lock and the tree, together.                                        *)
LEMMA WholeInductive ==
    /\ Init => LInv /\ Inv
    /\ LInv /\ Inv /\ [Next]_vars => LInv' /\ Inv'
<1>1. Init => LInv /\ Inv
  BY InitInv, LockBegins
<1>2. ASSUME LInv, Inv, [Next]_vars PROVE LInv' /\ Inv'
  <2>1. LInv'
    BY <1>2, LockStays
  <2>2. CASE Deallocate
    BY <1>2, <2>1, <2>2, DeallocateStep
  <2>3. CASE DeleteNode
    BY <1>2, <2>1, <2>3, DeleteStep
  <2>4. ASSUME NEW t \in Threads, Thread(t) PROVE Inv'
    BY <1>2, <2>4, ThreadStep
  <2>5. ASSUME NEW t \in Threads, Spin(t) PROVE Inv'
    BY <1>2, <2>5, StutterStep DEF Spin
  <2>6. CASE Stopped \/ UNCHANGED vars
    <3>1. UNCHANGED vars
      BY <2>6 DEF Stopped
    <3> QED BY <1>2, <2>1, <3>1, StutterStep
  <2> QED BY <1>2, <2>1, <2>2, <2>3, <2>4, <2>5, <2>6 DEF Next
<1> QED BY <1>1, <1>2

(* The walks of mrlocktree.cpp only follow pointers to nodes that are not  *)
(* deleted (mrlocktree.cpp:49-181), no treap outgrows its array,   *)
(* and every treap stays sorted through inserts, removes, splits and       *)
(* merges: whatever trees the calls begin with.                            *)
THEOREM TreeTyped == Spec => []TypeOK
<1>1. LInv /\ Inv => TypeOK
  BY DEF Inv
<1> QED BY <1>1, WholeInductive, PTL DEF Spec

(* No split at a median, rounded as the code rounds it, and no merge ever  *)
(* leaves a value where a search for it does not come by                   *)
(* (mrlocktree.cpp:75-84, 110-125).                                       *)
THEOREM NothingOutOfReach == Spec => []ValuesInPlace
<1>1. LInv /\ Inv => ValuesInPlace
  BY DEF Inv
<1> QED BY <1>1, WholeInductive, PTL DEF Spec

(* As long as no call throws, the nodes in memory are those of the tree:   *)
(* a merge deletes what it cuts off, and the destructor, which deletes     *)
(* every node once, leaves none behind (mrlocktree.cpp:25-47).             *)
THEOREM NothingLeaks == Spec => []NodesAreReachable
<1>1. LInv /\ Inv => NodesAreReachable
  BY DEF Inv
<1> QED BY <1>1, WholeInductive, PTL DEF Spec

-----------------------------------------------------------------------------
(* Why calls throw                                                         *)

(* The index stays, or moves on: past the end only for a call that throws. *)
IndexMoves(t) ==
    /\ UNCHANGED numPreallocated
    /\ Failed(t) => Failed(t)'
    /\ \/ UNCHANGED currentElementIndex
       \/ currentElementIndex < numPreallocated /\ currentElementIndex' = currentElementIndex + 1
       \/ /\ currentElementIndex >= numPreallocated
          /\ currentElementIndex' = Treaps!Successor(currentElementIndex)
          /\ ~Failed(t) /\ Failed(t)'

(* A full base is what an insert finds that throws for want of space.      *)
FindsFull(t) ==
    /\ AtBase(t, "insert") /\ Len(BaseTreap(t)) = TREAP_NODES
    /\ currentElementIndex < numPreallocated
    /\ UNCHANGED <<nodes, call, temp>>

LEMMA NewMoves ==
    ASSUME VarsOK, Treaps!New
    PROVE  /\ UNCHANGED numPreallocated
           /\ currentElementIndex < numPreallocated /\ currentElementIndex' = currentElementIndex + 1
BY DEF VarsOK, Treaps!New, Treaps!HasNext, Treaps!Successor

LEMMA IndexSteps ==
    ASSUME NEW t \in Threads, VarsOK, Thread(t)
    PROVE  /\ IndexMoves(t)
           /\ pc'[t] = "unwind" => OutOfTreaps(t) \/ FindsFull(t)
           /\ pc'[t] = "failed" => pc[t] = "unwind" /\ UNCHANGED nodes
<1>0. pc \in [Threads -> Labels] /\ currentElementIndex \in Int /\ numPreallocated \in Int
  BY DEF VarsOK
<1>1. CASE Call(t)
  BY <1>0, <1>1 DEF Call, IndexMoves, Failed, Goto, poolVars
<1>2. CASE Request(t)
  BY <1>0, <1>2 DEF Request, IndexMoves, Failed, Goto, poolVars
<1>3. CASE Acquire(t)
  <2>1. UNCHANGED poolVars /\ pc[t] = "wait" /\ \E label \in {"query", "search"} : pc' = [pc EXCEPT ![t] = label]
    BY <1>3 DEF Acquire, Goto
  <2> QED BY <1>0, <2>1 DEF IndexMoves, Failed, poolVars
<1>4. CASE Search(t)
  BY <1>0, <1>4 DEF Search, IndexMoves, Failed, poolVars
<1>5. CASE Unlock(t)
  BY <1>0, <1>5 DEF Unlock, IndexMoves, Failed, Goto, poolVars
<1>6. CASE Return(t)
  BY <1>0, <1>6 DEF Return, IndexMoves, Failed, Goto, poolVars
<1>7. CASE OutOfTreaps(t)
  BY <1>0, <1>7 DEF OutOfTreaps, AtBase, Treaps!NewThrows, Treaps!HasNext, IndexMoves, Failed, Goto
<1>8. CASE InsertValue(t)
  <2>1. UNCHANGED numPreallocated /\ currentElementIndex < numPreallocated /\ currentElementIndex' = currentElementIndex + 1
    BY <1>8, NewMoves DEF InsertValue
  <2>2. AtBase(t, "insert") /\ UNCHANGED <<call, temp>> /\ pc[t] = "search"
    BY <1>8 DEF InsertValue, AtBase, callVars, walkVars
  <2>3. pc'[t] = "unwind" => Len(BaseTreap(t)) = TREAP_NODES /\ UNCHANGED nodes
    BY <1>0, <1>8 DEF InsertValue, Goto
  <2>4. pc'[t] \in {"unwind", "split", "unlock"}
    BY <1>0, <1>8 DEF InsertValue, Goto
  <2>5. IndexMoves(t)
    BY <2>1, <2>2 DEF IndexMoves, Failed
  <2>6. pc'[t] = "unwind" => FindsFull(t)
    BY <2>1, <2>2, <2>3 DEF FindsFull
  <2> QED BY <2>4, <2>5, <2>6
<1>9. CASE MakeNodes(t)
  BY <1>0, <1>9 DEF MakeNodes, IndexMoves, Failed, Goto, poolVars
<1>10. CASE SplitLeft(t)
  <2>1. UNCHANGED numPreallocated /\ currentElementIndex < numPreallocated /\ currentElementIndex' = currentElementIndex + 1
    BY <1>10, NewMoves DEF SplitLeft
  <2> QED BY <1>0, <1>10, <2>1 DEF SplitLeft, IndexMoves, Failed, Goto
<1>11. CASE SplitRight(t)
  <2>1. UNCHANGED numPreallocated /\ currentElementIndex < numPreallocated /\ currentElementIndex' = currentElementIndex + 1
    BY <1>11, NewMoves DEF SplitRight
  <2>2. pc[t] = "splitRight" /\ pc'[t] = "unlock"
    BY <1>0, <1>11 DEF SplitRight, Goto
  <2> QED BY <2>1, <2>2 DEF IndexMoves, Failed
<1>12. CASE RemoveValue(t)
  <2>1. UNCHANGED numPreallocated /\ currentElementIndex < numPreallocated /\ currentElementIndex' = currentElementIndex + 1
    BY <1>12, NewMoves DEF RemoveValue
  <2>2. pc[t] = "search" /\ pc'[t] \in {"merge", "unlock"}
    BY <1>0, <1>12 DEF RemoveValue, AtBase, Goto
  <2> QED BY <2>1, <2>2 DEF IndexMoves, Failed
<1>13. CASE Merge(t)
  <2>1. UNCHANGED numPreallocated /\ currentElementIndex < numPreallocated /\ currentElementIndex' = currentElementIndex + 1
    BY <1>13, NewMoves DEF Merge
  <2>2. pc[t] = "merge" /\ pc'[t] = "unlock"
    BY <1>0, <1>13 DEF Merge, Goto
  <2> QED BY <2>1, <2>2 DEF IndexMoves, Failed
<1>14. CASE Lookup(t)
  BY <1>0, <1>14 DEF Lookup, AtBase, IndexMoves, Failed, Goto, poolVars
<1>15. CASE CheckNode(t)
  BY <1>0, <1>15 DEF CheckNode, IndexMoves, Failed, poolVars
<1>16. CASE QueryEnds(t)
  BY <1>0, <1>16 DEF QueryEnds, IndexMoves, Failed, Goto, poolVars
<1> QED BY <1>1, <1>2, <1>3, <1>4, <1>5, <1>6, <1>7, <1>8, <1>9, <1>10, <1>11, <1>12,
           <1>13, <1>14, <1>15, <1>16 DEF Thread

(* The index may wrap around only once all threads have failed.            *)
RoomInIndex ==
    IsFiniteSet(Threads) /\ \A n \in Preallocations : n + Cardinality(Threads) <= INT_MAX

FailedThreads == {u \in Threads : Failed(u)}

LEMMA IndexGrows ==
    ASSUME NEW t \in Threads, VarsOK, IndexBounded, IndexMoves(t), RoomInIndex,
           \A u \in Threads \ {t} : SameThread(u)
    PROVE  /\ IndexBounded'
           /\ currentElementIndex > numPreallocated => currentElementIndex' > numPreallocated'
           /\ Failed(t)' /\ ~Failed(t) /\ currentElementIndex >= numPreallocated
                => currentElementIndex' > numPreallocated' \/ UNCHANGED currentElementIndex
<1>1. /\ currentElementIndex \in Int /\ numPreallocated \in Int /\ numPreallocated \in Preallocations
      /\ currentElementIndex <= numPreallocated + Cardinality(FailedThreads)
      /\ numPreallocated' = numPreallocated
  BY DEF VarsOK, IndexBounded, IndexMoves, FailedThreads
<1>2. IsFiniteSet(Threads) /\ numPreallocated + Cardinality(Threads) <= INT_MAX
  BY <1>1 DEF RoomInIndex
<1>3. \A u \in Threads \ {t} : Failed(u)' <=> Failed(u)
  BY DEF SameThread, Failed
<1>4. FailedThreads' = FailedThreads \/ (t \notin FailedThreads /\ FailedThreads' = FailedThreads \cup {t} /\ Failed(t)')
  BY <1>3 DEF FailedThreads, IndexMoves
<1>5. FailedThreads \in SUBSET Threads /\ IsFiniteSet(FailedThreads) /\ Cardinality(FailedThreads) \in Nat
  BY <1>2, FS_Subset, FS_CardinalityType DEF FailedThreads
<1>6. Cardinality(FailedThreads') >= Cardinality(FailedThreads) /\ Cardinality(FailedThreads') \in Nat
  BY <1>4, <1>5, FS_AddElement
<1>7. CASE UNCHANGED currentElementIndex
  BY <1>1, <1>5, <1>6, <1>7 DEF IndexBounded, FailedThreads
<1>8. CASE currentElementIndex < numPreallocated /\ currentElementIndex' = currentElementIndex + 1
  BY <1>1, <1>5, <1>6, <1>8 DEF IndexBounded, FailedThreads
<1>9. CASE /\ currentElementIndex >= numPreallocated
           /\ currentElementIndex' = Treaps!Successor(currentElementIndex)
           /\ ~Failed(t) /\ Failed(t)'
  <2>1. t \notin FailedThreads /\ FailedThreads' = FailedThreads \cup {t}
    BY <1>3, <1>9 DEF FailedThreads
  <2>2. Cardinality(FailedThreads') = Cardinality(FailedThreads) + 1
    BY <1>5, <2>1, FS_AddElement
  <2>3. Cardinality(FailedThreads') <= Cardinality(Threads) /\ Cardinality(Threads) \in Nat
    <3>1. FailedThreads' \in SUBSET Threads
      BY DEF FailedThreads
    <3> QED BY <1>2, <3>1, FS_Subset, FS_CardinalityType
  <2>4. currentElementIndex /= INT_MAX
    BY <1>1, <1>2, <1>5, <2>2, <2>3, PreallocationAssumption
  <2>5. currentElementIndex' = currentElementIndex + 1
    BY <1>9, <2>4 DEF Treaps!Successor
  <2> QED BY <1>1, <1>5, <1>9, <2>2, <2>5 DEF IndexBounded, FailedThreads
<1> QED BY <1>7, <1>8, <1>9 DEF IndexMoves

FullOrOut == currentElementIndex > numPreallocated \/ Full(nodes, TREAP_NODES) \subseteq UNION {Cut(u) : u \in Threads}

LEMMA FullAsCuts == FullIsSplit <=> FullOrOut
<1>1. {temp[u] : u \in {w \in Threads : Splits(w)}} = UNION {Cut(u) : u \in Threads}
  BY DEF Cut
<1> QED BY <1>1 DEF FullIsSplit, FullOrOut

LEMMA ThrowStep ==
    ASSUME NEW t \in Threads, Inv, LInv, ThrowInv, RoomInIndex, Thread(t)
    PROVE  ThrowInv'
<1>1. isPreallocated /\ VarsOK /\ Ready(t)
  BY ThreadsWereAlive DEF Inv, TypeOK, TreeInv, ValuesInPlace, Ready, Heads
<1>2. \A u \in Threads \ {t} : SameThread(u)
  BY <1>1, OthersStay
<1>3. NodesKept(t)
  BY <1>1, ActionKeeps
<1>4. InTree(t) => \A u \in Threads \ {t} : ~InTree(u)
  BY RunsAlone DEF CallsRunAlone
<1>5. /\ IndexMoves(t)
      /\ pc'[t] = "unwind" => OutOfTreaps(t) \/ FindsFull(t)
      /\ pc'[t] = "failed" => pc[t] = "unwind" /\ UNCHANGED nodes
  BY <1>1, IndexSteps
<1>6. /\ IndexBounded'
      /\ currentElementIndex > numPreallocated => currentElementIndex' > numPreallocated'
      /\ Failed(t)' /\ ~Failed(t) /\ currentElementIndex >= numPreallocated
           => currentElementIndex' > numPreallocated' \/ UNCHANGED currentElementIndex
  BY <1>1, <1>2, <1>5, IndexGrows DEF ThrowInv
<1>7. OutOfTreaps(t) => currentElementIndex' > numPreallocated'
  <2> SUFFICES ASSUME OutOfTreaps(t) PROVE currentElementIndex' > numPreallocated'
    OBVIOUS
  <2>1. Failed(t)' /\ ~Failed(t)
    BY <1>1 DEF OutOfTreaps, AtBase, Failed, Goto, VarsOK
  <2>2. currentElementIndex >= numPreallocated /\ currentElementIndex' /= currentElementIndex
    BY <1>1, PreallocationAssumption DEF OutOfTreaps, Treaps!NewThrows, Treaps!HasNext, Treaps!Successor, VarsOK
  <2> QED BY <1>6, <2>1, <2>2
<1>8. currentElementIndex > numPreallocated \/ Full(nodes, TREAP_NODES) \subseteq UNION {Cut(u) : u \in Threads}
  BY FullAsCuts DEF ThrowInv, FullOrOut
<1>9. InTree(t) => UNION {Cut(u) : u \in Threads} = Cut(t) /\ UNION {Cut(u)' : u \in Threads} = Cut(t)'
  BY <1>2, <1>4 DEF SameThread, Cut, Splits, Splitting, InTree
<1>10. FindsFull(t) => InTree(t) /\ Cut(t) = {} /\ (Cut(t)' = {} \/ pc'[t] /= "unwind")
  BY DEF FindsFull, AtBase, InTree, Cut, Splits, Splitting
<1>11. FullOrOut'
  <2> SUFFICES ASSUME ~(currentElementIndex' > numPreallocated')
               PROVE  Full(nodes', TREAP_NODES) \subseteq UNION {Cut(u)' : u \in Threads}
    BY DEF FullOrOut
  <2>1. ~OutOfTreaps(t) /\ Full(nodes, TREAP_NODES) \subseteq UNION {Cut(u) : u \in Threads}
    BY <1>6, <1>7, <1>8
  <2>2. CASE ~InTree(t)
    <3>1. nodes' = nodes
      BY <1>3, <2>2 DEF NodesKept
    <3>2. Cut(t) = {}
      BY <2>2 DEF Cut, Splits, Splitting, InTree
    <3>3. \A u \in Threads \ {t} : Cut(u)' = Cut(u)
      BY <1>2 DEF SameThread, Cut, Splits, Splitting
    <3> QED BY <2>1, <3>1, <3>2, <3>3
  <2>3. CASE InTree(t) /\ pc'[t] = "unwind"
    <3>1. FindsFull(t)
      BY <1>5, <2>1, <2>3
    <3>2. nodes' = nodes /\ Cut(t) = {}
      BY <1>10, <2>3, <3>1 DEF FindsFull
    <3> QED BY <1>9, <2>1, <2>3, <3>2
  <2>4. CASE InTree(t) /\ pc'[t] = "failed"
    <3>1. nodes' = nodes /\ pc[t] = "unwind"
      BY <1>5, <2>4
    <3>2. Cut(t) = {}
      BY <3>1 DEF Cut, Splits, Splitting
    <3> QED BY <1>9, <2>1, <2>4, <3>1, <3>2
  <2>5. CASE InTree(t) /\ pc'[t] \notin {"unwind", "failed"}
    <3>1. Full(nodes, TREAP_NODES) \subseteq Cut(t)
      BY <1>9, <2>1, <2>5
    <3>2. Full(nodes', TREAP_NODES) \subseteq Cut(t)'
      BY <1>3, <2>5, <3>1 DEF NodesKept, Failed
    <3> QED BY <1>9, <2>5, <3>2
  <2> QED BY <2>2, <2>3, <2>4, <2>5
<1>12. FullIsSplit'
  BY <1>11, FullAsCuts, PTL
<1>13. ThrowsForAReason'
  <2> SUFFICES ASSUME NEW u \in Threads, pc'[u] = "unwind", ~(currentElementIndex' > numPreallocated')
               PROVE  call'[u].op = "insert" /\ Unsplittable(nodes'[temp'[u]].treap)
    BY DEF ThrowsForAReason, BaseTreap
  <2>1. CASE u /= t
    <3>1. pc[u] = "unwind" /\ call'[u] = call[u] /\ temp'[u] = temp[u]
      BY <1>2, <2>1 DEF SameThread
    <3>2. ~InTree(t)
      BY <1>4, <2>1, <3>1 DEF InTree
    <3>3. nodes' = nodes
      BY <1>3, <3>2 DEF NodesKept
    <3> QED BY <1>6, <3>1, <3>3 DEF ThrowInv, ThrowsForAReason, BaseTreap
  <2>2. CASE u = t
    <3>1. FindsFull(t)
      BY <1>5, <1>7, <2>2
    <3>2. Full(nodes, TREAP_NODES) = {}
      BY <1>6, <1>8, <1>9, <1>10, <2>2, <3>1
    <3>3. temp[t] \in DOMAIN nodes /\ ~nodes[temp[t]].isRoute
      BY <1>1, <3>1 DEF Ready, PointersOK, FindsFull, AtBase
    <3>4. temp[t] \in Bases(nodes)
      BY <3>3 DEF Bases, Routes
    <3>5. Unsplittable(nodes[temp[t]].treap)
      BY <3>1, <3>2, <3>4 DEF Full, FindsFull, BaseTreap
    <3> QED BY <2>2, <3>1, <3>5 DEF FindsFull, AtBase
  <2> QED BY <2>1, <2>2
<1> QED BY <1>6, <1>12, <1>13 DEF ThrowInv

LEMMA ThrowInductive ==
    ASSUME RoomInIndex
    PROVE  /\ Init => ThrowInv
           /\ LInv /\ Inv /\ ThrowInv /\ [Next]_vars => ThrowInv'
<1>1. ASSUME Init PROVE ThrowInv
  <2>1. numPreallocated \in Preallocations /\ currentElementIndex = 1 /\ numPreallocated \in 1 .. INT_MAX
    BY <1>1, PreallocationAssumption DEF Init
  <2>2. \A t \in Threads : pc[t] = "idle"
    BY <1>1 DEF Init
  <2>3. Full(nodes, TREAP_NODES) = {}
    BY <1>1, InitInv
  <2>4. {t \in Threads : Failed(t)} = {} /\ Cardinality({}) = 0
    BY <2>2, FS_EmptySet DEF Failed
  <2>5. IndexBounded
    BY <2>1, <2>4 DEF IndexBounded
  <2> QED BY <2>2, <2>3, <2>5 DEF ThrowInv, FullIsSplit, ThrowsForAReason
<1>2. ASSUME LInv, Inv, ThrowInv, [Next]_vars PROVE ThrowInv'
  <2>1. ASSUME NEW t \in Threads, Thread(t) PROVE ThrowInv'
    BY <1>2, <2>1, ThrowStep
  <2>2. ASSUME UNCHANGED <<isPreallocated, numPreallocated, currentElementIndex, pc, call, temp, nodes>>
        PROVE  ThrowInv'
    BY <1>2, <2>2 DEF ThrowInv, IndexBounded, FullIsSplit, ThrowsForAReason, Failed, Splits, Splitting, BaseTreap
  <2>3. CASE Deallocate
    <3>1. UNCHANGED <<numPreallocated, currentElementIndex, pc, call, temp, nodes>>
      BY <2>3 DEF Deallocate, Treaps!Deallocate, callVars, walkVars
    <3> QED BY <1>2, <3>1 DEF ThrowInv, IndexBounded, FullIsSplit, ThrowsForAReason, Failed, Splits, Splitting, BaseTreap
  <2>4. CASE DeleteNode
    <3>1. /\ UNCHANGED <<isPreallocated, numPreallocated, currentElementIndex, pc, call, temp>>
          /\ \E n : nodes' = [m \in DOMAIN nodes \ {n} |-> nodes[m]]
      BY <2>4 DEF DeleteNode, poolVars, callVars, walkVars
    <3>2. AllEnded
      BY <1>2, <2>4 DEF DeleteNode, Inv, TreeInv, AliveOrEnded
    <3>3. Full(nodes', TREAP_NODES) \subseteq Full(nodes, TREAP_NODES)
      BY <3>1 DEF Full, Bases, Routes
    <3>4. \A u \in Threads : pc[u] = "idle"
      BY <3>2 DEF AllEnded
    <3>5. IndexBounded'
      BY <1>2, <3>1 DEF ThrowInv, IndexBounded, Failed
    <3>6. FullIsSplit'
      BY <1>2, <3>1, <3>3 DEF ThrowInv, FullIsSplit, Splits, Splitting
    <3>7. ThrowsForAReason'
      BY <3>1, <3>4 DEF ThrowsForAReason
    <3> QED BY <3>5, <3>6, <3>7 DEF ThrowInv
  <2>5. ASSUME NEW t \in Threads, Spin(t) PROVE ThrowInv'
    BY <2>2, <2>5 DEF Spin, vars, poolVars, callVars, walkVars
  <2>6. CASE Stopped \/ UNCHANGED vars
    BY <2>2, <2>6 DEF Stopped, vars, poolVars, callVars, walkVars
  <2> QED BY <1>2, <2>1, <2>3, <2>4, <2>5, <2>6 DEF Next
<1> QED BY <1>1, <1>2

(* An insert or remove that throws had no treap left, or met a full base   *)
(* whose values its median does not divide: every other full base was      *)
(* split by the insert that filled it (mrlocktree.cpp:69).  The number of  *)
(* treaps is one that the index can pass once for each thread without      *)
(* wrapping around (preallocatable.h:78): else new would hand out treaps from *)
(* before the array.                                                       *)
THEOREM ThrowsExplained == RoomInIndex => (Spec => []ThrowsForAReason)
<1> SUFFICES ASSUME RoomInIndex PROVE Spec => []ThrowsForAReason
  OBVIOUS
<1>1. /\ Init => ThrowInv
      /\ LInv /\ Inv /\ ThrowInv /\ [Next]_vars => ThrowInv'
  BY ThrowInductive
<1>2. ThrowInv => ThrowsForAReason
  BY DEF ThrowInv
<1> QED BY <1>1, <1>2, WholeInductive, PTL DEF Spec

-----------------------------------------------------------------------------
(* Copies in bases are counted by finite sets of places.                   *)
LEMMA PlacesFinite ==
    ASSUME NEW its, NEW capacity \in Nat, GoodNodes(its, capacity), NEW B \in SUBSET Bases(its), NEW v
    PROVE  /\ IsFiniteSet(B) /\ IsFiniteSet(Places(its, B, v))
           /\ Cardinality(Places(its, B, v)) \in Nat
           /\ Cardinality(Places(its, B, v)) = 0 <=> \A b \in B : Copies(its[b].treap, v) = 0
<1>1. IsFiniteSet(B)
  <2>1. B \in SUBSET DOMAIN its /\ IsFiniteSet(DOMAIN its)
    BY DEF Bases, GoodNodes
  <2> QED BY <2>1, FS_Subset
<1>2. \A b \in B : its[b].treap \in Seq(Int) /\ Len(its[b].treap) <= capacity
  BY NodeTypes DEF Bases
<1>3. Places(its, B, v) \in SUBSET (B \X (1 .. capacity))
  <2>1. ASSUME NEW b \in B, NEW i \in Positions(its[b].treap, v) PROVE i \in 1 .. capacity
    <3>1. i \in 1 .. Len(its[b].treap) /\ Len(its[b].treap) \in Nat
      BY <1>2, LenProperties DEF Positions
    <3> QED BY <1>2, <3>1
  <2> QED BY <2>1 DEF Places
<1>4. IsFiniteSet(B \X (1 .. capacity))
  <2>1. IsFiniteSet(1 .. capacity)
    BY FS_Interval
  <2> QED BY <1>1, <2>1, FS_Product
<1>5. IsFiniteSet(Places(its, B, v))
  BY <1>3, <1>4, FS_Subset
<1>6. Cardinality(Places(its, B, v)) \in Nat /\ (Cardinality(Places(its, B, v)) = 0 <=> Places(its, B, v) = {})
  BY <1>5, FS_CardinalityType, FS_EmptySet
<1>7. Places(its, B, v) = {} <=> \A b \in B : Copies(its[b].treap, v) = 0
  <2>1. \A b \in B : Copies(its[b].treap, v) = 0 <=> Positions(its[b].treap, v) = {}
    <3> SUFFICES ASSUME NEW b \in B PROVE Copies(its[b].treap, v) = 0 <=> Positions(its[b].treap, v) = {}
      OBVIOUS
    <3>1. IsFiniteSet(Positions(its[b].treap, v))
      BY <1>2, CopiesCount
    <3> QED BY <3>1, FS_EmptySet DEF Copies
  <2>2. Places(its, B, v) = {} <=> \A b \in B : Positions(its[b].treap, v) = {}
    <3>1. \A b \in B : \A i \in Positions(its[b].treap, v) : <<b, i>> \in Places(its, B, v)
      BY DEF Places
    <3>2. \A p \in Places(its, B, v) : \E b \in B : \E i \in Positions(its[b].treap, v) : p = <<b, i>>
      BY DEF Places
    <3> QED BY <3>1, <3>2
  <2> QED BY <2>1, <2>2
<1> QED BY <1>1, <1>5, <1>6, <1>7

(* One more base adds its copies.                                          *)
LEMMA PlacesAdd ==
    ASSUME NEW its, NEW capacity \in Nat, GoodNodes(its, capacity), NEW B \in SUBSET Bases(its),
           NEW b \in Bases(its) \ B, NEW v
    PROVE  Cardinality(Places(its, B \cup {b}, v)) = Cardinality(Places(its, B, v)) + Copies(its[b].treap, v)
<1> DEFINE P == Places(its, B, v)
           here == Positions(its[b].treap, v)
           Q == {b} \X here
<1>1. Places(its, B \cup {b}, v) = P \cup Q
  BY DEF Places
<1>2. P \cap Q = {}
  BY DEF Places
<1>3. IsFiniteSet(P) /\ Cardinality(P) \in Nat
  BY PlacesFinite
<1>4. IsFiniteSet(here) /\ Cardinality(here) = Copies(its[b].treap, v) /\ Cardinality(here) \in Nat
  <2>1. its[b].treap \in Seq(Int)
    BY NodeTypes DEF Bases
  <2> QED BY <2>1, CopiesCount DEF Copies
<1> HIDE DEF P, here
<1>5. IsFiniteSet(Q) /\ Cardinality(Q) = Cardinality(here)
  <2>1. IsFiniteSet({b}) /\ Cardinality({b}) = 1
    BY FS_Singleton
  <2>2. IsFiniteSet(Q) /\ Cardinality(Q) = Cardinality({b}) * Cardinality(here)
    BY <1>4, <2>1, FS_Product
  <2> HIDE DEF Q
  <2> QED BY <1>4, <2>1, <2>2
<1> HIDE DEF Q
<1>6. Cardinality(P \cup Q) = Cardinality(P) + Cardinality(Q) - Cardinality(P \cap Q)
  BY <1>3, <1>5, FS_Union
<1>7. Cardinality(P \cap Q) = 0
  BY <1>2, FS_EmptySet
<1>8. Cardinality(P \cup Q) = Cardinality(P) + Copies(its[b].treap, v)
  BY <1>3, <1>4, <1>5, <1>6, <1>7
<1> QED BY <1>1, <1>8 DEF P

(* One base less takes its copies away.                                    *)
LEMMA PlacesWithout ==
    ASSUME NEW its, NEW capacity \in Nat, GoodNodes(its, capacity), NEW B \in SUBSET Bases(its),
           NEW b \in B, NEW v
    PROVE  Cardinality(Places(its, B, v)) = Cardinality(Places(its, B \ {b}, v)) + Copies(its[b].treap, v)
<1>1. B \ {b} \in SUBSET Bases(its) /\ b \in Bases(its) \ (B \ {b}) /\ (B \ {b}) \cup {b} = B
  OBVIOUS
<1> QED BY <1>1, PlacesAdd

LEMMA PlacesSame ==
    ASSUME NEW its, NEW its2, NEW B, \A b \in B : its2[b] = its[b], NEW v
    PROVE  Places(its2, B, v) = Places(its, B, v)
BY DEF Places

-----------------------------------------------------------------------------
(* A search ends at one base.                                              *)
LEMMA OneBase ==
    ASSUME NEW its, NEW v, NEW roots, Forest(its, roots), head \in roots,
           NEW b \in Bases(its) \cap Path(its, v), NEW c \in Bases(its) \cap Path(its, v)
    PROVE  b = c
<1> DEFINE Closed(S) == \A r \in S \cap Routes(its) : Toward(its, r, v) \in S
           From(n) == {m \in DOMAIN its : \A S \in SUBSET DOMAIN its : n \in S /\ Closed(S) => m \in S}
           T == {n \in Path(its, v) : b \in From(n)}
<1>1. /\ head \in Path(its, v) /\ Path(its, v) \subseteq DOMAIN its
      /\ \A r \in Path(its, v) \cap Routes(its) : Toward(its, r, v) \in Path(its, v)
      /\ \A S \in SUBSET DOMAIN its : ClosedToward(its, v, S) => Path(its, v) \subseteq S
  BY PathFacts
<1>2. \A r \in Routes(its) : Toward(its, r, v) \in DOMAIN its
  BY DEF Forest, Toward, Children
<1>3. Path(its, v) = From(head)
  BY DEF Path, ClosedToward
<1>4. head \in T
  BY <1>1, <1>3
<1>5. ASSUME NEW n \in T \cap Routes(its) PROVE Toward(its, n, v) \in T
  <2> DEFINE m == Toward(its, n, v)
  <2>1. m \in Path(its, v) /\ n \in DOMAIN its /\ b \in DOMAIN its /\ b /= n
    BY <1>1, <1>5 DEF Bases, Routes
  <2> SUFFICES ASSUME NEW S \in SUBSET DOMAIN its, m \in S, Closed(S) PROVE b \in S
    BY <2>1
  <2>2. S \cup {n} \in SUBSET DOMAIN its /\ n \in S \cup {n}
    BY <2>1
  <2>3. Closed(S \cup {n})
    OBVIOUS
  <2>4. b \in S \cup {n}
    BY <1>5, <2>2, <2>3
  <2> QED BY <2>1, <2>4
<1>6. ClosedToward(its, v, T)
  BY <1>4, <1>5 DEF ClosedToward
<1>7. T \in SUBSET DOMAIN its
  BY <1>1
<1>8. c \in T
  <2> HIDE DEF T
  <2> QED BY <1>1, <1>6, <1>7
<1>9. Closed({c}) /\ {c} \in SUBSET DOMAIN its
  BY DEF Bases
<1> QED BY <1>8, <1>9

(* All the copies of a value are in the base that a search for it ends at. *)
LEMMA AllInOne ==
    ASSUME NEW its, NEW capacity \in Nat, GoodNodes(its, capacity), NEW roots, Forest(its, roots), head \in roots,
           InPlace(its), NEW v, NEW b \in Bases(its) \cap Path(its, v)
    PROVE  /\ Cardinality(Places(its, Bases(its), v)) = Copies(its[b].treap, v)
           /\ contains(its[b].treap, v) <=> Cardinality(Places(its, Bases(its), v)) > 0
<1>1. \A c \in Bases(its) : its[c].treap \in Seq(Int)
  BY NodeTypes DEF Bases
<1>2. ASSUME NEW c \in Bases(its) \ {b} PROVE Copies(its[c].treap, v) = 0
  <2> SUFFICES ASSUME Copies(its[c].treap, v) /= 0 PROVE FALSE
    OBVIOUS
  <2>1. \E i \in 1 .. Len(its[c].treap) : its[c].treap[i] = v
    BY <1>1, CopiesCount
  <2>2. v \in ToSet(its[c].treap)
    <3>1. DOMAIN its[c].treap = 1 .. Len(its[c].treap)
      BY <1>1, LenProperties
    <3> QED BY <2>1, <3>1 DEF ToSet
  <2>3. c \in Bases(its) \cap Path(its, v)
    BY <2>2 DEF InPlace
  <2> QED BY <2>3, OneBase
<1>3. Cardinality(Places(its, Bases(its) \ {b}, v)) = 0
  BY <1>2, PlacesFinite
<1>4. Cardinality(Places(its, Bases(its), v)) = Cardinality(Places(its, Bases(its) \ {b}, v)) + Copies(its[b].treap, v)
  BY PlacesWithout
<1>5. Copies(its[b].treap, v) \in Nat /\ (Copies(its[b].treap, v) = 0 <=> ~contains(its[b].treap, v))
  BY <1>1, CopiesCount DEF contains
<1> QED BY <1>3, <1>4, <1>5

-----------------------------------------------------------------------------
(* What the edits do to the copies of a value in the tree.                 *)
Held(its, v) == Cardinality(Places(its, Bases(its), v))

LEMMA HasTreapHeld ==
    ASSUME NEW its, NEW its2, NEW capacity \in Nat, GoodNodes(its, capacity), GoodNodes(its2, capacity),
           NEW n \in Bases(its), NEW d, HasTreap(its, its2, n, d), NEW v
    PROVE  Held(its2, v) + Copies(its[n].treap, v) = Held(its, v) + Copies(d, v)
<1> DEFINE B == Bases(its) \ {n}
<1>1. Bases(its2) = Bases(its) /\ its2[n].treap = d /\ \A b \in B : its2[b] = its[b]
  BY DEF HasTreap, Bases
<1>2. Held(its, v) = Cardinality(Places(its, B, v)) + Copies(its[n].treap, v)
  BY PlacesWithout DEF Held
<1>3. Held(its2, v) = Cardinality(Places(its2, B, v)) + Copies(d, v)
  BY <1>1, PlacesWithout DEF Held
<1>4. Places(its2, B, v) = Places(its, B, v)
  BY <1>1, PlacesSame
<1>5. Cardinality(Places(its, B, v)) \in Nat
  <2>1. B \in SUBSET Bases(its)
    OBVIOUS
  <2> QED BY <2>1, PlacesFinite
<1>6. Copies(d, v) \in Nat /\ Copies(its[n].treap, v) \in Nat
  <2>1. its[n].treap \in Seq(Int) /\ its2[n].treap \in Seq(Int)
    BY <1>1, NodeTypes DEF Bases
  <2> QED BY <1>1, <2>1, CopiesCount
<1> QED BY <1>2, <1>3, <1>4, <1>5, <1>6

LEMMA HasNewHeld ==
    ASSUME NEW its, NEW its2, NEW l, NEW r, NEW roots, NEW capacity, HasNew(its, its2, l, r),
           GoodNodes(its, capacity), capacity \in Nat, Forest(its, roots), head \in roots, InPlace(its), NEW v
    PROVE  Held(its2, v) = Held(its, v)
<1>1. GoodNodes(its2, capacity) /\ Bases(its2) = Bases(its) \cup {l, r}
  BY HasNewKeeps
<1>2. /\ its2[l].treap = <<>> /\ its2[r].treap = <<>> /\ \A b \in Bases(its) : its2[b] = its[b]
      /\ l \notin Bases(its) /\ r \notin Bases(its) /\ l /= r
  BY DEF HasNew, Bases, Base
<1>3. Copies(<<>>, v) = 0
  BY CopiesOfNone
<1>4. Cardinality(Places(its2, Bases(its), v)) = Held(its, v) /\ Held(its, v) \in Nat
  BY <1>2, PlacesSame, PlacesFinite DEF Held
<1>5. Cardinality(Places(its2, Bases(its) \cup {l}, v)) = Held(its, v)
  <2>1. Bases(its) \in SUBSET Bases(its2) /\ l \in Bases(its2) \ Bases(its)
    BY <1>1, <1>2
  <2>2. Cardinality(Places(its2, Bases(its) \cup {l}, v)) = Cardinality(Places(its2, Bases(its), v)) + Copies(its2[l].treap, v)
    BY <1>1, <2>1, PlacesAdd
  <2> QED BY <1>2, <1>3, <1>4, <2>2
<1>6. Cardinality(Places(its2, (Bases(its) \cup {l}) \cup {r}, v)) = Held(its, v)
  <2> DEFINE B == Bases(its) \cup {l}
  <2>1. B \in SUBSET Bases(its2) /\ r \in Bases(its2) \ B
    BY <1>1, <1>2
  <2> HIDE DEF B
  <2>2. Cardinality(Places(its2, B \cup {r}, v)) = Cardinality(Places(its2, B, v)) + Copies(its2[r].treap, v)
    BY <1>1, <2>1, PlacesAdd
  <2> USE DEF B
  <2> QED BY <1>2, <1>3, <1>4, <1>5, <2>2
<1>7. (Bases(its) \cup {l}) \cup {r} = Bases(its2)
  BY <1>1
<1> QED BY <1>6, <1>7 DEF Held

LEMMA DividedHeld ==
    ASSUME NEW its, NEW its2, NEW n, NEW l, NEW r, NEW val, NEW d, NEW e, NEW roots, NEW capacity \in Nat,
           SplitBegins(its, its2, n, l, r, val, d, e, roots, capacity), GoodNodes(its2, capacity), NEW v,
           Copies(its[n].treap, v) = Copies(d, v) + Copies(e, v)
    PROVE  Held(its2, v) = Held(its, v)
<1> DEFINE B == ((Bases(its) \ {n}) \ {l}) \ {r}
<1>1. /\ Bases(its2) = Bases(its) \ {n} /\ its2[l].treap = d /\ its2[r].treap = e
      /\ \A m \in Bases(its) \ {n, l, r} : its2[m] = its[m]
  <2>1. SplitLinks(its, its2, n, l, r, val, d, e, roots)
    BY DividedLinks
  <2> QED BY <2>1 DEF SplitLinks
<1>2. /\ GoodNodes(its, capacity) /\ {n, l, r} \subseteq Bases(its) /\ l /= r /\ n \notin {l, r}
      /\ its[l].treap = <<>> /\ its[r].treap = <<>>
  BY DEF SplitBegins, Divisible
<1>3. Copies(<<>>, v) = 0
  <2>1. <<>> \in Seq(Int) /\ Len(<<>>) = 0
    OBVIOUS
  <2>2. \A i \in 1 .. Len(<<>>) : <<>>[i] /= v
    BY <2>1
  <2> QED BY <2>1, <2>2, CopiesCount
<1>4. Held(its, v) = ((Cardinality(Places(its, B, v)) + 0) + 0) + Copies(its[n].treap, v)
  <2>1. Held(its, v) = Cardinality(Places(its, Bases(its) \ {n}, v)) + Copies(its[n].treap, v)
    BY <1>2, PlacesWithout DEF Held
  <2>2. Cardinality(Places(its, Bases(its) \ {n}, v)) = Cardinality(Places(its, (Bases(its) \ {n}) \ {l}, v)) + 0
    <3> DEFINE C == Bases(its) \ {n}
    <3>1. C \in SUBSET Bases(its) /\ l \in C
      BY <1>2
    <3> HIDE DEF C
    <3>2. Cardinality(Places(its, C, v)) = Cardinality(Places(its, C \ {l}, v)) + Copies(its[l].treap, v)
      BY <1>2, <3>1, PlacesWithout
    <3> QED BY <1>2, <1>3, <3>2 DEF C
  <2>3. Cardinality(Places(its, (Bases(its) \ {n}) \ {l}, v)) = Cardinality(Places(its, B, v)) + 0
    <3> DEFINE C == (Bases(its) \ {n}) \ {l}
    <3>1. C \in SUBSET Bases(its) /\ r \in C
      BY <1>2
    <3> HIDE DEF C
    <3>2. Cardinality(Places(its, C, v)) = Cardinality(Places(its, C \ {r}, v)) + Copies(its[r].treap, v)
      BY <1>2, <3>1, PlacesWithout
    <3> QED BY <1>2, <1>3, <3>2 DEF C
  <2> QED BY <2>1, <2>2, <2>3
<1>5. Held(its2, v) = (Cardinality(Places(its2, B, v)) + Copies(e, v)) + Copies(d, v)
  <2>1. Held(its2, v) = Cardinality(Places(its2, (Bases(its) \ {n}) \ {l}, v)) + Copies(d, v)
    <3>1. l \in Bases(its2)
      BY <1>1, <1>2
    <3> QED BY <1>1, <3>1, PlacesWithout DEF Held
  <2>2. Cardinality(Places(its2, (Bases(its) \ {n}) \ {l}, v)) = Cardinality(Places(its2, B, v)) + Copies(e, v)
    <3>1. (Bases(its) \ {n}) \ {l} \in SUBSET Bases(its2) /\ r \in (Bases(its) \ {n}) \ {l}
      BY <1>1, <1>2
    <3> QED BY <1>1, <3>1, PlacesWithout
  <2> QED BY <2>1, <2>2
<1>6. Places(its2, B, v) = Places(its, B, v)
  BY <1>1, PlacesSame
<1>7. Cardinality(Places(its, B, v)) \in Nat
  <2>1. B \in SUBSET Bases(its)
    OBVIOUS
  <2> QED BY <1>2, <2>1, PlacesFinite
<1>8. Copies(d, v) \in Nat /\ Copies(e, v) \in Nat
  <2>1. l \in Bases(its2) /\ r \in Bases(its2) /\ Bases(its2) \subseteq DOMAIN its2
    BY <1>1, <1>2 DEF Bases
  <2>2. its2[l].treap \in Seq(Int) /\ its2[r].treap \in Seq(Int)
    BY <2>1, NodeTypes
  <2> QED BY <1>1, <2>2, CopiesCount
<1> QED BY <1>4, <1>5, <1>6, <1>7, <1>8

LEMMA MergedHeld ==
    ASSUME NEW its, NEW its2, NEW p \in Routes(its), NEW d, NEW roots, NEW capacity \in Nat,
           GoodNodes(its, capacity), Children(its, p) \subseteq Bases(its), Forest(its, roots),
           Merged(its, its2, p, d), GoodNodes(its2, capacity), NEW v,
           Copies(d, v) = Copies(its[its[p].left].treap, v) + Copies(its[its[p].right].treap, v)
    PROVE  Held(its2, v) = Held(its, v)
<1> DEFINE l == its[p].left
           r == its[p].right
           B == (Bases(its) \ {l}) \ {r}
<1> HIDE DEF l, r, B
<1>1. /\ Bases(its2) = (Bases(its) \ Children(its, p)) \cup {p} /\ its2[p].treap = d
      /\ \A m \in Bases(its2) \ {p} : its2[m] = its[m]
  <2>1. /\ Routes(its2) = Routes(its) \ {p}
        /\ Bases(its2) = (Bases(its) \ Children(its, p)) \cup {p}
        /\ Forest(its2, roots) /\ Edit(its, its2, Children(its, p))
        /\ its2[p].treap = d /\ its2[p].left = null /\ its2[p].right = null
        /\ \A m \in Bases(its2) \ {p} : its2[m] = its[m]
    BY MergedLinks
  <2> QED BY <2>1
<1>2. l \in Bases(its) /\ r \in Bases(its) /\ l /= r /\ Children(its, p) = {l, r} /\ p \notin Bases(its)
  BY DEF Children, Forest, Bases, l, r
<1> USE DEF B
<1>3. Held(its, v) = (Cardinality(Places(its, B, v)) + Copies(its[r].treap, v)) + Copies(its[l].treap, v)
  <2>1. Held(its, v) = Cardinality(Places(its, Bases(its) \ {l}, v)) + Copies(its[l].treap, v)
    BY <1>2, PlacesWithout DEF Held
  <2>2. Cardinality(Places(its, Bases(its) \ {l}, v)) = Cardinality(Places(its, B, v)) + Copies(its[r].treap, v)
    <3>1. Bases(its) \ {l} \in SUBSET Bases(its) /\ r \in Bases(its) \ {l}
      BY <1>2
    <3> QED BY <3>1, PlacesWithout
  <2> QED BY <2>1, <2>2
<1>4. Held(its2, v) = Cardinality(Places(its2, B, v)) + Copies(d, v)
  <2>1. p \in Bases(its2) /\ Bases(its2) \ {p} = B
    BY <1>1, <1>2
  <2>2. Cardinality(Places(its2, Bases(its2), v)) = Cardinality(Places(its2, Bases(its2) \ {p}, v)) + Copies(its2[p].treap, v)
    BY <2>1, PlacesWithout
  <2> QED BY <1>1, <2>1, <2>2 DEF Held
<1>5. Places(its2, B, v) = Places(its, B, v)
  <2>1. \A b \in B : its2[b] = its[b]
    BY <1>1, <1>2
  <2> QED BY <2>1, PlacesSame
<1>6. Cardinality(Places(its, B, v)) \in Nat
  <2>1. B \in SUBSET Bases(its)
    OBVIOUS
  <2> QED BY <2>1, PlacesFinite
<1>7. Copies(its[r].treap, v) \in Nat /\ Copies(its[l].treap, v) \in Nat
  <2>1. its[r].treap \in Seq(Int) /\ its[l].treap \in Seq(Int)
    BY <1>2, NodeTypes DEF Bases
  <2> QED BY <2>1, CopiesCount
<1>8. Copies(d, v) = Copies(its[l].treap, v) + Copies(its[r].treap, v)
  BY DEF l, r
<1> QED BY <1>3, <1>4, <1>5, <1>6, <1>7, <1>8

-----------------------------------------------------------------------------
(* What lies below different nodes                                         *)

LEMMA BelowLeast ==
    ASSUME NEW its, NEW roots, NEW S \in SUBSET DOMAIN its, ClosedBelow(its, roots, S)
    PROVE  Below(its, roots) \subseteq S
BY DEF Below

LEMMA BelowUnion ==
    ASSUME NEW its, NEW its_roots, Forest(its, its_roots), NEW P \in SUBSET DOMAIN its, NEW Q \in SUBSET DOMAIN its
    PROVE  Below(its, P \cup Q) = Below(its, P) \cup Below(its, Q)
<1>1. /\ P \subseteq Below(its, P) /\ Below(its, P) \subseteq DOMAIN its
      /\ \A r \in Below(its, P) \cap Routes(its) : Children(its, r) \subseteq Below(its, P)
  BY BelowFacts
<1>2. /\ Q \subseteq Below(its, Q) /\ Below(its, Q) \subseteq DOMAIN its
      /\ \A r \in Below(its, Q) \cap Routes(its) : Children(its, r) \subseteq Below(its, Q)
  BY BelowFacts
<1>3. P \cup Q \in SUBSET DOMAIN its
  OBVIOUS
<1>4. /\ P \cup Q \subseteq Below(its, P \cup Q) /\ Below(its, P \cup Q) \subseteq DOMAIN its
      /\ \A r \in Below(its, P \cup Q) \cap Routes(its) : Children(its, r) \subseteq Below(its, P \cup Q)
  BY <1>3, BelowFacts
<1>5. Below(its, P) \subseteq Below(its, P \cup Q)
  BY <1>4, BelowLeast DEF ClosedBelow
<1>6. Below(its, Q) \subseteq Below(its, P \cup Q)
  BY <1>4, BelowLeast DEF ClosedBelow
<1>7. Below(its, P \cup Q) \subseteq Below(its, P) \cup Below(its, Q)
  <2>1. Below(its, P) \cup Below(its, Q) \in SUBSET DOMAIN its
    BY <1>1, <1>2
  <2>2. ClosedBelow(its, P \cup Q, Below(its, P) \cup Below(its, Q))
    BY <1>1, <1>2 DEF ClosedBelow
  <2> QED BY <2>1, <2>2, BelowLeast
<1> QED BY <1>5, <1>6, <1>7

(* Below a route are the nodes below its children.                         *)
LEMMA BelowRoute ==
    ASSUME NEW its, NEW roots, Forest(its, roots), NEW n \in Routes(its)
    PROVE  Below(its, {n}) = {n} \cup (Below(its, {its[n].left}) \cup Below(its, {its[n].right}))
<1> DEFINE l == its[n].left
           r == its[n].right
<1>1. n \in DOMAIN its /\ l \in DOMAIN its /\ r \in DOMAIN its /\ Children(its, n) = {l, r}
  BY DEF Routes, Forest, Children
<1> HIDE DEF l, r
<1>2. /\ {l} \cup {r} \subseteq Below(its, {l} \cup {r}) /\ Below(its, {l} \cup {r}) \subseteq DOMAIN its
      /\ \A q \in Below(its, {l} \cup {r}) \cap Routes(its) : Children(its, q) \subseteq Below(its, {l} \cup {r})
  <2>1. {l} \cup {r} \subseteq DOMAIN its
    BY <1>1
  <2> QED BY <2>1, BelowFacts
<1>3. /\ {n} \subseteq Below(its, {n}) /\ Below(its, {n}) \subseteq DOMAIN its
      /\ \A q \in Below(its, {n}) \cap Routes(its) : Children(its, q) \subseteq Below(its, {n})
  BY <1>1, BelowFacts
<1>4. Below(its, {l} \cup {r}) = Below(its, {l}) \cup Below(its, {r})
  <2>1. {l} \in SUBSET DOMAIN its /\ {r} \in SUBSET DOMAIN its
    BY <1>1
  <2> QED BY <2>1, BelowUnion
<1>5. Below(its, {n}) \subseteq {n} \cup Below(its, {l} \cup {r})
  <2>1. ClosedBelow(its, {n}, {n} \cup Below(its, {l} \cup {r}))
    BY <1>1, <1>2 DEF ClosedBelow
  <2>2. {n} \cup Below(its, {l} \cup {r}) \in SUBSET DOMAIN its
    BY <1>1, <1>2
  <2> QED BY <2>1, <2>2, BelowLeast
<1>6. Below(its, {l} \cup {r}) \subseteq Below(its, {n})
  <2>1. ClosedBelow(its, {l} \cup {r}, Below(its, {n}))
    BY <1>1, <1>3 DEF ClosedBelow
  <2> QED BY <1>3, <2>1, BelowLeast
<1>7. Below(its, {n}) = {n} \cup (Below(its, {l}) \cup Below(its, {r}))
  BY <1>3, <1>4, <1>5, <1>6
<1> QED BY <1>7 DEF l, r

LEMMA BelowBase ==
    ASSUME NEW its, NEW n \in Bases(its)
    PROVE  Below(its, {n}) = {n}
<1>1. ClosedBelow(its, {n}, {n}) /\ {n} \in SUBSET DOMAIN its
  BY DEF ClosedBelow, Bases
<1>2. n \in Below(its, {n})
  BY DEF Below, ClosedBelow, Bases
<1> QED BY <1>1, <1>2, BelowLeast

(* A node below c is c itself, or its parent is also below c.              *)
LEMMA ParentBelow ==
    ASSUME NEW its, NEW roots, Forest(its, roots), NEW c \in DOMAIN its, NEW q \in Routes(its),
           NEW m \in Children(its, q) \cap Below(its, {c}), m /= c
    PROVE  q \in Below(its, {c})
<1> SUFFICES ASSUME q \notin Below(its, {c}) PROVE FALSE
  OBVIOUS
<1> DEFINE S == Below(its, {c}) \ {m}
<1>1. /\ {c} \subseteq Below(its, {c}) /\ Below(its, {c}) \subseteq DOMAIN its
      /\ \A r \in Below(its, {c}) \cap Routes(its) : Children(its, r) \subseteq Below(its, {c})
  BY BelowFacts
<1>2. ASSUME NEW r \in S \cap Routes(its) PROVE Children(its, r) \subseteq S
  BY <1>1, <1>2 DEF Forest
<1>3. ClosedBelow(its, {c}, S) /\ S \in SUBSET DOMAIN its
  BY <1>1, <1>2 DEF ClosedBelow
<1>4. Below(its, {c}) \subseteq S
  <2> HIDE DEF S
  <2> QED BY <1>3, BelowLeast
<1> QED BY <1>4

LEMMA RootNotBelow ==
    ASSUME NEW its, NEW roots, Forest(its, roots), NEW root \in roots, NEW q \in Routes(its), NEW c \in Children(its, q)
    PROVE  root \notin Below(its, {c})
<1> DEFINE S == DOMAIN its \ {root}
<1>1. ClosedBelow(its, {c}, S) /\ S \in SUBSET DOMAIN its
  BY DEF ClosedBelow, Forest
<1>2. Below(its, {c}) \subseteq S
  <2> HIDE DEF S
  <2> QED BY <1>1, BelowLeast
<1> QED BY <1>2

(* The routes that are reached from a root are not below their children.   *)
LEMMA NoCycles ==
    ASSUME NEW its, NEW roots, Forest(its, roots), NEW root \in roots,
           NEW n \in Routes(its) \cap Below(its, {root}), NEW c \in Children(its, n)
    PROVE  n \notin Below(its, {c})
<1> SUFFICES ASSUME n \in Below(its, {c}) PROVE FALSE
  OBVIOUS
<1> DEFINE S == Below(its, {root}) \ Below(its, {c})
<1>1. c \in DOMAIN its /\ root \in DOMAIN its
  BY DEF Forest
<1>2. /\ {root} \subseteq Below(its, {root}) /\ Below(its, {root}) \subseteq DOMAIN its
      /\ \A r \in Below(its, {root}) \cap Routes(its) : Children(its, r) \subseteq Below(its, {root})
  BY <1>1, BelowFacts
<1>3. root \in S
  BY <1>2, RootNotBelow
<1>4. ASSUME NEW q \in S \cap Routes(its), NEW m \in Children(its, q) PROVE m \in S
  <2> SUFFICES ASSUME m \in Below(its, {c}) PROVE FALSE
    BY <1>2, <1>4
  <2>1. CASE m = c
    <3>1. q = n
      BY <1>4, <2>1 DEF Forest
    <3> QED BY <1>4, <3>1
  <2>2. CASE m /= c
    BY <1>1, <1>4, <2>2, ParentBelow
  <2> QED BY <2>1, <2>2
<1>5. ClosedBelow(its, {root}, S) /\ S \in SUBSET DOMAIN its
  BY <1>2, <1>3, <1>4 DEF ClosedBelow
<1>6. Below(its, {root}) \subseteq S
  <2> HIDE DEF S
  <2> QED BY <1>5, BelowLeast
<1> QED BY <1>6

(* No node is below both children of a route.                              *)
LEMMA ChildrenApart ==
    ASSUME NEW its, NEW roots, Forest(its, roots), NEW root \in roots, NEW n \in Routes(its) \cap Below(its, {root})
    PROVE  Below(its, {its[n].left}) \cap Below(its, {its[n].right}) = {}
<1> DEFINE l == its[n].left
           r == its[n].right
           S == Below(its, {l}) \ Below(its, {r})
<1>1. l \in DOMAIN its /\ r \in DOMAIN its /\ l /= r /\ Children(its, n) = {l, r}
  BY DEF Forest, Children
<1>2. n \notin Below(its, {l}) /\ n \notin Below(its, {r})
  BY <1>1, NoCycles
<1> HIDE DEF l, r
<1>3. /\ {l} \subseteq Below(its, {l}) /\ Below(its, {l}) \subseteq DOMAIN its
      /\ \A q \in Below(its, {l}) \cap Routes(its) : Children(its, q) \subseteq Below(its, {l})
  BY <1>1, BelowFacts
<1>4. l \in S
  <2> SUFFICES ASSUME l \in Below(its, {r}) PROVE FALSE
    BY <1>3
  <2>1. l \in Children(its, n) \cap Below(its, {r})
    BY <1>1
  <2> QED BY <1>1, <1>2, <2>1, ParentBelow
<1>5. ASSUME NEW q \in S \cap Routes(its), NEW m \in Children(its, q) PROVE m \in S
  <2> SUFFICES ASSUME m \in Below(its, {r}) PROVE FALSE
    BY <1>3, <1>5
  <2>1. CASE m = r
    <3>1. q = n
      BY <1>1, <1>5, <2>1 DEF Forest
    <3> QED BY <1>2, <1>5, <3>1
  <2>2. CASE m /= r
    BY <1>1, <1>5, <2>2, ParentBelow
  <2> QED BY <2>1, <2>2
<1>6. ClosedBelow(its, {l}, S) /\ S \in SUBSET DOMAIN its
  BY <1>3, <1>4, <1>5 DEF ClosedBelow
<1>7. Below(its, {l}) \subseteq S
  <2> HIDE DEF S
  <2> QED BY <1>6, BelowLeast
<1> QED BY <1>7 DEF l, r

(* A search that turns away from a child comes to nothing below it.        *)
LEMMA OffPath ==
    ASSUME NEW its, NEW roots, Forest(its, roots), head \in roots, NEW v,
           NEW n \in Routes(its), NEW c \in Children(its, n), c /= Toward(its, n, v)
    PROVE  Path(its, v) \cap Below(its, {c}) = {}
<1> DEFINE S == Path(its, v) \ Below(its, {c})
<1>1. c \in DOMAIN its
  BY DEF Forest
<1>2. /\ head \in Path(its, v) /\ Path(its, v) \subseteq DOMAIN its
      /\ \A r \in Path(its, v) \cap Routes(its) : Toward(its, r, v) \in Path(its, v)
      /\ \A T \in SUBSET DOMAIN its : ClosedToward(its, v, T) => Path(its, v) \subseteq T
  BY PathFacts
<1>3. head \in S
  BY <1>2, RootNotBelow
<1>4. ASSUME NEW q \in S \cap Routes(its) PROVE Toward(its, q, v) \in S
  <2> DEFINE m == Toward(its, q, v)
  <2>1. m \in Path(its, v) /\ m \in Children(its, q)
    BY <1>2, <1>4 DEF Toward, Children
  <2> SUFFICES ASSUME m \in Below(its, {c}) PROVE FALSE
    BY <2>1
  <2>2. CASE m = c
    <3>1. q = n
      BY <1>4, <2>1, <2>2 DEF Forest
    <3> QED BY <2>2, <3>1
  <2>3. CASE m /= c
    BY <1>1, <1>4, <2>1, <2>3, ParentBelow
  <2> QED BY <2>2, <2>3
<1>5. ClosedToward(its, v, S) /\ S \in SUBSET DOMAIN its
  BY <1>2, <1>3, <1>4 DEF ClosedToward
<1>6. Path(its, v) \subseteq S
  <2> HIDE DEF S
  <2> QED BY <1>2, <1>5
<1> QED BY <1>6

-----------------------------------------------------------------------------
(* What a query has before it                                              *)

(* Bases without copies do not count.                                      *)
LEMMA SameCopies ==
    ASSUME NEW its, NEW capacity \in Nat, GoodNodes(its, capacity), NEW C \in SUBSET Bases(its),
           NEW B \in SUBSET C, NEW v, \A b \in C \ B : v \notin ToSet(its[b].treap)
    PROVE  Places(its, B, v) = Places(its, C, v)
<1>1. ASSUME NEW b \in C \ B PROVE Positions(its[b].treap, v) = {}
  <2>1. its[b].treap \in Seq(Int)
    BY NodeTypes DEF Bases
  <2>2. DOMAIN its[b].treap = 1 .. Len(its[b].treap)
    BY <2>1, LenProperties
  <2> QED BY <2>2 DEF Positions, ToSet
<1> QED BY <1>1 DEF Places

(* A search comes only to nodes that are reached from the head.            *)
LEMMA PathBelow ==
    ASSUME NEW its, NEW v, NEW roots, Forest(its, roots), head \in roots
    PROVE  Path(its, v) \subseteq Below(its, {head})
<1>1. head \in DOMAIN its
  BY DEF Forest
<1>2. /\ {head} \subseteq Below(its, {head}) /\ Below(its, {head}) \subseteq DOMAIN its
      /\ \A r \in Below(its, {head}) \cap Routes(its) : Children(its, r) \subseteq Below(its, {head})
  BY <1>1, BelowFacts
<1>3. \A S \in SUBSET DOMAIN its : ClosedToward(its, v, S) => Path(its, v) \subseteq S
  BY PathFacts
<1>4. ClosedToward(its, v, Below(its, {head}))
  BY <1>2 DEF ClosedToward, Toward, Children
<1> QED BY <1>2, <1>3, <1>4

(* What is below some nodes is below one of them.                          *)
LEMMA BelowSome ==
    ASSUME NEW its, NEW roots, Forest(its, roots), NEW P \in SUBSET DOMAIN its
    PROVE  \A m \in Below(its, P) : \E x \in P : m \in Below(its, {x})
<1> DEFINE S == UNION {Below(its, {x}) : x \in P}
<1>1. ASSUME NEW x \in P
      PROVE  /\ {x} \subseteq Below(its, {x}) /\ Below(its, {x}) \subseteq DOMAIN its
             /\ \A r \in Below(its, {x}) \cap Routes(its) : Children(its, r) \subseteq Below(its, {x})
  BY BelowFacts
<1>2. S \in SUBSET DOMAIN its /\ P \subseteq S
  BY <1>1
<1>3. ASSUME NEW r \in S \cap Routes(its) PROVE Children(its, r) \subseteq S
  <2>1. PICK x \in P : r \in Below(its, {x})
    BY <1>3
  <2> QED BY <1>1, <1>3, <2>1
<1>4. ClosedBelow(its, P, S)
  BY <1>2, <1>3 DEF ClosedBelow
<1>5. Below(its, P) \subseteq S
  <2> HIDE DEF S
  <2> QED BY <1>2, <1>4, BelowLeast
<1> QED BY <1>5

LEMMA ApartFront ==
    ASSUME NEW its, NEW s \in Seq(Nat), s /= <<>>, Apart(its, s)
    PROVE  /\ Apart(its, Front(s))
           /\ \A x \in ToSet(Front(s)) : Below(its, {x}) \cap Below(its, {Last(s)}) = {}
<1>1. Len(s) \in Nat \ {0} /\ DOMAIN s = 1 .. Len(s)
  BY LenProperties, EmptySeq
<1>2. Len(Front(s)) = Len(s) - 1 /\ Front(s) \in Seq(Nat) /\ \A i \in 1 .. Len(s) - 1 : Front(s)[i] = s[i]
  BY FrontFacts
<1>3. DOMAIN Front(s) = 1 .. Len(s) - 1
  BY <1>2, LenProperties
<1>4. Last(s) = s[Len(s)]
  BY SMTT(30) DEF Last
<1>5. \A i \in 1 .. Len(s) - 1 : i \in DOMAIN s /\ i /= Len(s)
  <2> DEFINE n == Len(s)
  <2>1. n \in Nat \ {0} /\ DOMAIN s = 1 .. n
    BY <1>1
  <2> HIDE DEF n
  <2>2. \A i \in 1 .. n - 1 : i \in 1 .. n /\ i /= n
    BY <2>1
  <2> QED BY <2>1, <2>2 DEF n
<1>6. Len(s) \in DOMAIN s
  BY <1>1
<1>7. Apart(its, Front(s))
  BY <1>2, <1>3, <1>5 DEF Apart
<1>8. ASSUME NEW x \in ToSet(Front(s)) PROVE Below(its, {x}) \cap Below(its, {Last(s)}) = {}
  <2>1. PICK i \in 1 .. Len(s) - 1 : x = s[i]
    BY <1>2, <1>3 DEF ToSet
  <2> QED BY <1>4, <1>5, <1>6, <2>1 DEF Apart
<1> QED BY <1>7, <1>8

LEMMA ApartConcat ==
    ASSUME NEW its, NEW s \in Seq(Nat), NEW x \in Nat, NEW e \in {<<>>, <<x>>}, Apart(its, s),
           \A y \in ToSet(s) : Below(its, {y}) \cap Below(its, {x}) = {}
    PROVE  s \o e \in Seq(Nat) /\ Apart(its, s \o e)
<1>1. CASE e = <<>>
  <2>1. s \o e = s
    BY <1>1, ConcatEmptySeq
  <2> QED BY <2>1
<1>2. CASE e = <<x>>
  <2> DEFINE one == <<x>>
  <2>1. one \in Seq(Nat) /\ Len(one) = 1 /\ one[1] = x
    OBVIOUS
  <2> HIDE DEF one
  <2>2. /\ s \o one \in Seq(Nat) /\ Len(s \o one) = Len(s) + Len(one)
        /\ \A i \in 1 .. Len(s) + Len(one) : (s \o one)[i] = IF i <= Len(s) THEN s[i] ELSE one[i - Len(s)]
    BY ZenonT(40), <2>1, ConcatProperties
  <2>3. Len(s) \in Nat /\ DOMAIN s = 1 .. Len(s) /\ DOMAIN (s \o one) = 1 .. Len(s) + 1
    BY <2>1, <2>2, LenProperties
  <2>4. ASSUME NEW i \in DOMAIN (s \o one)
        PROVE  \/ i \in DOMAIN s /\ (s \o one)[i] = s[i] /\ s[i] \in ToSet(s)
               \/ i = Len(s) + 1 /\ (s \o one)[i] = x
    <3>1. CASE i <= Len(s)
      BY <2>1, <2>2, <2>3, <3>1 DEF ToSet
    <3>2. CASE ~(i <= Len(s))
      <4>1. i = Len(s) + 1 /\ i - Len(s) = 1
        BY <2>3, <3>2
      <4> QED BY <2>1, <2>2, <2>3, <3>2, <4>1
    <3> QED BY <3>1, <3>2
  <2>5. Apart(its, s \o one)
    <3> SUFFICES ASSUME NEW i \in DOMAIN (s \o one), NEW j \in DOMAIN (s \o one), i /= j
                 PROVE  Below(its, {(s \o one)[i]}) \cap Below(its, {(s \o one)[j]}) = {}
      BY DEF Apart
    <3>1. CASE i \in DOMAIN s /\ (s \o one)[i] = s[i] /\ s[i] \in ToSet(s)
      <4>1. CASE j \in DOMAIN s /\ (s \o one)[j] = s[j]
        BY <3>1, <4>1 DEF Apart
      <4>2. CASE (s \o one)[j] = x
        BY <3>1, <4>2
      <4> QED BY <2>4, <4>1, <4>2
    <3>2. CASE i = Len(s) + 1 /\ (s \o one)[i] = x
      <4>1. (s \o one)[j] = s[j] /\ s[j] \in ToSet(s)
        BY <2>4, <3>2
      <4> QED BY <3>2, <4>1
    <3> QED BY <2>4, <3>1, <3>2
  <2> QED BY <1>2, <2>2, <2>5 DEF one
<1> QED BY <1>1, <1>2

-----------------------------------------------------------------------------
(* What the actions do to the copies of a value in the tree.               *)
LEMMA InsertHeld ==
    ASSUME NEW t \in Threads, Ready(t), InsertValue(t), Len(BaseTreap(t)) /= TREAP_NODES, NEW w
    PROVE  Held(nodes', w) = IF w = call[t].key THEN Held(nodes, w) + 1 ELSE Held(nodes, w)
<1> DEFINE n == temp[t]
           v == call[t].key
           d == nodes[n].treap
           e == immutableInsert(d, v)
           its2 == [nodes EXCEPT ![n].treap = e]
<1>1. pc[t] = "search" /\ ~nodes[n].isRoute /\ nodes' = its2
  BY DEF InsertValue, AtBase, BaseTreap
<1>2. n \in DOMAIN nodes /\ v \in Int
  BY <1>1, CallTypes DEF Ready, PointersOK, LocalOK
<1>3. GoodNodes(nodes, TREAP_NODES) /\ TREAP_NODES \in Nat
  BY CapacityAssumption DEF Ready
<1>4. n \in Bases(nodes) /\ d \in Seq(Int)
  BY <1>1, <1>2, <1>3, NodeTypes
<1>5. e \in Seq(Int) /\ Copies(e, w) = IF w = v THEN Copies(d, w) + 1 ELSE Copies(d, w)
  BY <1>2, <1>4, InsertLength, InsertCopies
<1>6. GoodNodes(nodes', TREAP_NODES)
  BY InsertKeeps DEF NodesKept
<1> HIDE DEF e
<1>7. HasTreap(nodes, its2, n, e)
  BY <1>3, <1>4, <1>5, TreapChanges
<1>8. Copies(d, w) \in Nat /\ Held(nodes, w) \in Nat /\ Held(nodes', w) \in Nat
  <2>1. Bases(nodes) \in SUBSET Bases(nodes) /\ Bases(nodes') \in SUBSET Bases(nodes')
    OBVIOUS
  <2> QED BY <1>3, <1>4, <1>6, <2>1, CopiesCount, PlacesFinite DEF Held
<1> HIDE DEF n, v, d, its2
<1>9. Held(nodes', w) + Copies(nodes[n].treap, w) = Held(nodes, w) + Copies(e, w)
  BY <1>1, <1>3, <1>4, <1>6, <1>7, HasTreapHeld
<1>10. nodes[n].treap = d
  BY DEF d
<1> QED BY <1>5, <1>8, <1>9, <1>10 DEF v

LEMMA RemoveHeld ==
    ASSUME NEW t \in Threads, Ready(t), RemoveValue(t), NEW w
    PROVE  /\ contains(BaseTreap(t), call[t].key) <=> Held(nodes, call[t].key) > 0
           /\ Held(nodes', w) =
                IF w = call[t].key /\ Held(nodes, w) > 0 THEN Held(nodes, w) - 1 ELSE Held(nodes, w)
<1> DEFINE n == temp[t]
           v == call[t].key
           d == nodes[n].treap
           e == immutableRemove(d, v)
           its2 == [nodes EXCEPT ![n].treap = e]
<1>1. pc[t] = "search" /\ ~nodes[n].isRoute /\ nodes' = its2
  BY DEF RemoveValue, AtBase, BaseTreap
<1>2. n \in DOMAIN nodes /\ v \in Int /\ n \in Path(nodes, v)
  BY <1>1, CallTypes DEF Ready, PointersOK, LocalOK
<1>3. GoodNodes(nodes, TREAP_NODES) /\ TREAP_NODES \in Nat /\ Forest(nodes, {head}) /\ InPlace(nodes)
  BY CapacityAssumption DEF Ready
<1>4. n \in Bases(nodes) /\ d \in Seq(Int) /\ Sorted(d)
  BY <1>1, <1>2, <1>3, NodeTypes
<1>5. /\ e \in Seq(Int)
      /\ Copies(e, w) = IF contains(d, v) /\ w = v THEN Copies(d, w) - 1 ELSE Copies(d, w)
  BY <1>2, <1>4, RemoveLength, RemoveCopies
<1>6. GoodNodes(nodes', TREAP_NODES)
  BY RemoveKeeps DEF NodesKept
<1> HIDE DEF e
<1>7. HasTreap(nodes, its2, n, e)
  BY <1>3, <1>4, <1>5, TreapChanges
<1>8. Copies(d, w) \in Nat /\ Held(nodes, w) \in Nat /\ Held(nodes', w) \in Nat
  <2>1. Bases(nodes) \in SUBSET Bases(nodes) /\ Bases(nodes') \in SUBSET Bases(nodes')
    OBVIOUS
  <2> QED BY <1>3, <1>4, <1>6, <2>1, CopiesCount, PlacesFinite DEF Held
<1> HIDE DEF n, v, d, its2
<1>9. contains(nodes[n].treap, v) <=> Held(nodes, v) > 0
  <2>1. n \in Bases(nodes) \cap Path(nodes, v) /\ head \in {head}
    BY <1>2, <1>4
  <2> QED BY <1>3, <2>1, AllInOne DEF Held
<1>10. Held(nodes', w) + Copies(nodes[n].treap, w) = Held(nodes, w) + Copies(e, w)
  BY <1>1, <1>3, <1>4, <1>6, <1>7, HasTreapHeld
<1>11. nodes[n].treap = d
  BY DEF d
<1>12. contains(d, v) <=> Held(nodes, v) > 0
  BY <1>9, <1>11
<1>13. Held(nodes', w) = IF w = v /\ Held(nodes, w) > 0 THEN Held(nodes, w) - 1 ELSE Held(nodes, w)
  <2>1. CASE w = v /\ contains(d, v)
    <3>1. Held(nodes, w) > 0
      BY <1>12, <2>1
    <3>2. Copies(e, w) = Copies(d, w) - 1
      BY <1>5, <2>1
    <3>3. Held(nodes', w) = Held(nodes, w) - 1
      BY <1>8, <1>10, <1>11, <3>2
    <3> QED BY <2>1, <3>1, <3>3
  <2>2. CASE ~(w = v /\ contains(d, v))
    BY <1>5, <1>8, <1>10, <1>11, <1>12, <2>2
  <2> QED BY <2>1, <2>2
<1> QED BY <1>12, <1>13 DEF d, v, n, BaseTreap

LEMMA LookupHeld ==
    ASSUME NEW t \in Threads, Ready(t), Lookup(t)
    PROVE  contains(BaseTreap(t), call[t].key) <=> Held(nodes, call[t].key) > 0
<1> DEFINE n == temp[t]
           v == call[t].key
<1>1. pc[t] = "search" /\ ~nodes[n].isRoute
  BY DEF Lookup, AtBase
<1>2. n \in DOMAIN nodes /\ n \in Path(nodes, v)
  BY <1>1 DEF Ready, PointersOK, LocalOK
<1>3. GoodNodes(nodes, TREAP_NODES) /\ TREAP_NODES \in Nat /\ Forest(nodes, {head}) /\ InPlace(nodes)
  BY CapacityAssumption DEF Ready
<1>4. n \in Bases(nodes) \cap Path(nodes, v) /\ head \in {head}
  BY <1>1, <1>2, <1>3, NodeTypes
<1> HIDE DEF n, v
<1>5. contains(nodes[n].treap, v) <=> Held(nodes, v) > 0
  BY <1>3, <1>4, AllInOne DEF Held
<1> QED BY <1>5 DEF n, v, BaseTreap

(* Splits and merges lose and double nothing.                              *)
LEMMA MakeNodesHeld ==
    ASSUME NEW t \in Threads, Ready(t), MakeNodes(t), NEW w
    PROVE  Held(nodes', w) = Held(nodes, w)
<1> DEFINE l == Fresh(DOMAIN nodes)
           r == Fresh(DOMAIN nodes \cup {l})
<1>1. nodes' = [m \in DOMAIN nodes \cup {l, r} |-> IF m \in DOMAIN nodes THEN nodes[m] ELSE Base(<<>>)]
  BY DEF MakeNodes
<1>2. /\ GoodNodes(nodes, TREAP_NODES) /\ Forest(nodes, {head}) /\ InPlace(nodes)
      /\ TREAP_NODES \in Nat /\ head \in {head}
  BY CapacityAssumption DEF Ready
<1>3. HasNew(nodes, nodes', l, r)
  <2> HIDE DEF l
  <2>1. l = Fresh(DOMAIN nodes) /\ r = Fresh(DOMAIN nodes \cup {l})
    BY DEF l
  <2> HIDE DEF r
  <2> QED BY <1>1, <1>2, <2>1, NewNodesAreNew
<1> HIDE DEF l, r
<1> QED BY <1>2, <1>3, HasNewHeld

LEMMA SplitRightHeld ==
    ASSUME NEW t \in Threads, Ready(t), SplitRight(t), NEW w
    PROVE  Held(nodes', w) = Held(nodes, w)
<1> DEFINE n == temp[t]
           l == made[t][1]
           r == made[t][2]
           a == nodes[n].treap
           val == getMedianVal(a)
           d == splitLeft(a, val)
           e == splitRight(a, val)
           roots == {head}
<1>1. /\ pc[t] = "splitRight"
      /\ nodes' = [nodes EXCEPT ![l].treap = d, ![r].treap = e, ![n] = Route(val, l, r)]
  BY DEF SplitRight, BaseTreap
<1>2. made[t] \in Nat \X Nat
  BY DEF Ready, VarsOK
<1>3. ToSet(made[t]) = {l, r}
  BY <1>2 DEF ToSet
<1>4. GoodNodes(nodes, TREAP_NODES) /\ Forest(nodes, roots) /\ TREAP_NODES \in Nat
  BY CapacityAssumption DEF Ready
<1>5. n \in Bases(nodes) /\ Len(a) = TREAP_NODES
  BY <1>1 DEF Ready, LocalOK, Splits, Splitting
<1>6. Divisible(nodes, roots, n, l, r)
  BY <1>1, <1>3, <1>5 DEF Ready, LocalOK, Splits, Splitting, Divisible
<1>7. a \in Seq(Int) /\ Len(a) >= 1
  BY <1>4, <1>5, NodeTypes, CapacityAssumption DEF Bases
<1>8. val \in Int
  BY <1>7, MedianType
<1> HIDE DEF val
<1>9. d \in Seq(Int) /\ e \in Seq(Int)
  BY <1>7, <1>8, SplitLengths
<1>10. Copies(a, w) = Copies(d, w) + Copies(e, w)
  BY <1>7, <1>8, SplitCopies
<1>11. GoodNodes(nodes', TREAP_NODES)
  BY SplitRightKeeps DEF NodesKept
<1> HIDE DEF a, d, e, l, r, n, roots
<1>12. Divided(nodes, nodes', n, l, r, val, d, e)
  <2>1. Divided(nodes, [nodes EXCEPT ![l].treap = d, ![r].treap = e, ![n] = Route(val, l, r)],
                n, l, r, val, d, e)
    BY <1>4, <1>6, <1>8, <1>9, SplitDivides
  <2> QED BY <1>1, <2>1
<1>13. SplitBegins(nodes, nodes', n, l, r, val, d, e, roots, TREAP_NODES)
  BY <1>4, <1>6, <1>12 DEF SplitBegins
<1>14. Copies(nodes[n].treap, w) = Copies(d, w) + Copies(e, w)
  BY <1>10 DEF a
<1> QED BY <1>4, <1>11, <1>13, <1>14, DividedHeld

LEMMA MergeHeld ==
    ASSUME NEW t \in Threads, Ready(t), Merge(t), NEW w
    PROVE  Held(nodes', w) = Held(nodes, w)
<1> DEFINE p == tempParent[t]
           l == nodes[p].left
           r == nodes[p].right
           a == nodes[l].treap
           b == nodes[r].treap
           d == merge(a, b)
           merged == [nodes[p] EXCEPT !.treap = d, !.isRoute = FALSE, !.left = null, !.right = null]
           roots == {head}
<1>1. /\ pc[t] = "merge"
      /\ nodes' = [m \in DOMAIN nodes \ {l, r} |-> IF m = p THEN merged ELSE nodes[m]]
  BY DEF Merge
<1>2. GoodNodes(nodes, TREAP_NODES) /\ Forest(nodes, roots) /\ TREAP_NODES \in Nat
  BY CapacityAssumption DEF Ready
<1>3. p \in Routes(nodes) /\ SiblingsMerge(p, nodes)
  BY <1>1 DEF Ready, LocalOK
<1>4. Children(nodes, p) = {l, r} /\ {l, r} \subseteq DOMAIN nodes
  BY <1>2, <1>3 DEF Children, Forest
<1>5. ~nodes[l].isRoute /\ ~nodes[r].isRoute
  BY <1>3 DEF SiblingsMerge
<1>6. {l, r} \subseteq Bases(nodes) /\ a \in Seq(Int) /\ b \in Seq(Int)
  <2>1. l \in Bases(nodes) /\ a \in Seq(Int)
    BY <1>2, <1>4, <1>5, NodeTypes
  <2>2. r \in Bases(nodes) /\ b \in Seq(Int)
    BY <1>2, <1>4, <1>5, NodeTypes
  <2> QED BY <2>1, <2>2
<1>7. d \in Seq(Int) /\ Copies(d, w) = Copies(a, w) + Copies(b, w)
  <2> HIDE DEF a, b
  <2> QED BY <1>6, MergeLength, MergeCopies
<1>8. GoodNodes(nodes', TREAP_NODES)
  BY MergeKeeps DEF NodesKept
<1> HIDE DEF d, p
<1>9. Merged(nodes, nodes', p, d)
  <2>1. Merged(nodes, [m \in DOMAIN nodes \ Children(nodes, p) |-> IF m = p THEN merged ELSE nodes[m]], p, d)
    BY ZenonT(40), <1>2, <1>3, <1>4, <1>6, <1>7, MergeMerges
  <2> QED BY <1>1, <1>4, <2>1
<1>10. Children(nodes, p) \subseteq Bases(nodes)
  BY <1>4, <1>6
<1>11. Copies(d, w) = Copies(nodes[nodes[p].left].treap, w) + Copies(nodes[nodes[p].right].treap, w)
  BY <1>7
<1> HIDE DEF roots, l, r, a, b, merged
<1> QED BY <1>2, <1>3, <1>8, <1>9, <1>10, <1>11, MergedHeld

(* What lies below a route and out of the range holds nothing wanted.      *)
LEMMA CheckRoute ==
    ASSUME NEW t \in Threads, Ready(t), CheckNode(t), QueryOK(t), nodes[Last(nodesToCheck[t])].isRoute
    PROVE  LET s2 == nodesToCheck'[t]
           IN  /\ ToSet(s2) \subseteq Below(nodes, {head}) /\ Apart(nodes, s2)
               /\ \A v \in Wanted(call[t]) :
                    Places(nodes, Bases(nodes) \cap Below(nodes, ToSet(s2)), v) = Places(nodes, Waiting(t), v)
<1> DEFINE s == nodesToCheck[t]
           s2 == nodesToCheck'[t]
           n == Last(s)
           rest == Front(s)
           low == call[t].key
           high == call[t].hi
           val == nodes[n].val
           l == nodes[n].left
           r == nodes[n].right
           a == IF val >= low THEN <<l>> ELSE <<>>
           b == IF val <= high THEN <<r>> ELSE <<>>
           roots == {head}
           Q == ToSet(a) \cup ToSet(b)
<1>1. /\ pc[t] = "query" /\ s /= <<>> /\ s \in Seq(Nat) /\ s2 = rest \o (a \o b)
  <2>1. nodesToCheck'[t] = Front(nodesToCheck[t]) \o InRange(n, low, high)
    BY DEF CheckNode, Ready, VarsOK
  <2> QED BY <2>1 DEF CheckNode, Ready, VarsOK, InRange
<1>2. /\ GoodNodes(nodes, TREAP_NODES) /\ Forest(nodes, roots) /\ head \in roots /\ head \in DOMAIN nodes
      /\ InPlace(nodes) /\ TREAP_NODES \in Nat
  BY CapacityAssumption DEF Ready, Forest
<1>3. ToSet(s) \subseteq Below(nodes, {head}) /\ Apart(nodes, s)
  BY DEF QueryOK
<1>4. /\ n \in ToSet(s) /\ rest \in Seq(Nat) /\ ToSet(s) = ToSet(rest) \cup {n}
  BY <1>1, FrontFacts
<1>5. low \in Int /\ high \in Int
  BY <1>1, CallTypes
<1>6. /\ {head} \subseteq Below(nodes, {head}) /\ Below(nodes, {head}) \subseteq DOMAIN nodes
      /\ \A q \in Below(nodes, {head}) \cap Routes(nodes) : Children(nodes, q) \subseteq Below(nodes, {head})
  BY <1>2, BelowFacts
<1>7. n \in DOMAIN nodes /\ n \in Routes(nodes) /\ val \in Int /\ n \in Below(nodes, {head})
  BY <1>2, <1>3, <1>4, <1>6, NodeTypes
<1>8. /\ l \in Below(nodes, {head}) /\ r \in Below(nodes, {head}) /\ l /= r /\ Children(nodes, n) = {l, r}
      /\ l \in DOMAIN nodes /\ r \in DOMAIN nodes /\ l \in Nat /\ r \in Nat
  <2>1. l /= r /\ Children(nodes, n) = {l, r}
    BY <1>2, <1>7 DEF Forest, Children
  <2>2. l \in Below(nodes, {head}) /\ r \in Below(nodes, {head})
    BY <1>6, <1>7, <2>1
  <2> QED BY <1>2, <1>6, <2>1, <2>2 DEF GoodNodes
<1>9. Below(nodes, {n}) = {n} \cup (Below(nodes, {l}) \cup Below(nodes, {r}))
  BY <1>2, <1>7, BelowRoute
<1>10. Below(nodes, {l}) \cap Below(nodes, {r}) = {}
  BY <1>2, <1>7, ChildrenApart
<1>11. Apart(nodes, rest) /\ \A y \in ToSet(rest) : Below(nodes, {y}) \cap Below(nodes, {n}) = {}
  BY <1>1, <1>3, ApartFront
<1>12. \A v \in Int : (~(val >= low) /\ low <= v => Toward(nodes, n, v) = r) /\ (~(val <= high) /\ v <= high => Toward(nodes, n, v) = l)
  BY <1>5, <1>7 DEF Toward
<1> HIDE DEF s, s2, n, rest, low, high, val, l, r, roots
<1>13. /\ a \in {<<>>, <<l>>} /\ b \in {<<>>, <<r>>} /\ a \in Seq(Nat) /\ b \in Seq(Nat)
       /\ ToSet(a) \subseteq {l} /\ ToSet(b) \subseteq {r}
       /\ (val >= low => l \in ToSet(a)) /\ (val <= high => r \in ToSet(b))
  BY <1>8, ShortSets
<1> HIDE DEF a, b
<1>14. s2 = (rest \o a) \o b
  <2>1. (rest \o a) \o b = rest \o (a \o b)
    BY SMTT(30), <1>4, <1>13, ConcatAssociative
  <2>2. s2 = rest \o (a \o b)
    BY <1>1
  <2> QED BY <2>1, <2>2
<1>15. rest \o a \in Seq(Nat) /\ Apart(nodes, rest \o a)
  <2>1. \A y \in ToSet(rest) : Below(nodes, {y}) \cap Below(nodes, {l}) = {}
    BY <1>9, <1>11
  <2> QED BY <1>4, <1>8, <1>11, <1>13, <2>1, ApartConcat
<1>16. ToSet(rest \o a) = ToSet(rest) \cup ToSet(a)
  BY <1>4, <1>13, ConcatSet
<1>17. s2 \in Seq(Nat) /\ Apart(nodes, s2)
  <2>1. \A y \in ToSet(rest \o a) : Below(nodes, {y}) \cap Below(nodes, {r}) = {}
    BY <1>9, <1>10, <1>11, <1>13, <1>16
  <2> DEFINE ra == rest \o a
  <2> HIDE DEF ra
  <2>2. ra \in Seq(Nat) /\ Apart(nodes, ra) /\ \A y \in ToSet(ra) : Below(nodes, {y}) \cap Below(nodes, {r}) = {}
    BY <1>15, <2>1 DEF ra
  <2>3. ra \o b \in Seq(Nat) /\ Apart(nodes, ra \o b)
    BY <1>8, <1>13, <2>2, ApartConcat
  <2> QED BY <1>14, <2>3 DEF ra
<1>18. ToSet(s2) = ToSet(rest) \cup Q
  <2> DEFINE ra == rest \o a
  <2>1. ra \in Seq(Nat) /\ ToSet(ra) = ToSet(rest) \cup ToSet(a) /\ s2 = ra \o b
    BY <1>14, <1>15, <1>16
  <2> HIDE DEF ra
  <2>2. ToSet(ra \o b) = ToSet(ra) \cup ToSet(b)
    BY <1>13, <2>1, ConcatSet
  <2> QED BY <2>1, <2>2
<1>19. Q \subseteq {l, r} /\ (val >= low => l \in Q) /\ (val <= high => r \in Q)
  BY <1>13
<1> HIDE DEF Q
<1>20. ToSet(s2) \subseteq Below(nodes, {head})
  BY <1>3, <1>4, <1>8, <1>18, <1>19
<1>21. ToSet(rest) \in SUBSET DOMAIN nodes /\ Q \in SUBSET DOMAIN nodes
  BY <1>3, <1>4, <1>6, <1>8, <1>19
<1>22. /\ Below(nodes, ToSet(s)) = Below(nodes, ToSet(rest)) \cup Below(nodes, {n})
       /\ Below(nodes, ToSet(s2)) = Below(nodes, ToSet(rest)) \cup Below(nodes, Q)
  BY <1>2, <1>4, <1>7, <1>18, <1>21, BelowUnion
<1>23. \A x \in Q : Below(nodes, {x}) \subseteq Below(nodes, Q)
  <2> SUFFICES ASSUME NEW x \in Q PROVE Below(nodes, {x}) \subseteq Below(nodes, Q)
    OBVIOUS
  <2>1. Below(nodes, {x} \cup Q) = Below(nodes, {x}) \cup Below(nodes, Q)
    BY <1>2, <1>21, BelowUnion
  <2>2. {x} \cup Q = Q
    OBVIOUS
  <2> QED BY <2>1, <2>2
<1>24. Below(nodes, Q) \subseteq Below(nodes, {n})
  <2>1. \A m \in Below(nodes, Q) : \E x \in Q : m \in Below(nodes, {x})
    BY <1>2, <1>21, BelowSome
  <2> QED BY <1>9, <1>19, <2>1
<1>25. ASSUME NEW v \in Wanted(call[t])
       PROVE  Places(nodes, Bases(nodes) \cap Below(nodes, ToSet(s2)), v) = Places(nodes, Waiting(t), v)
  <2>1. v \in Int /\ low <= v /\ v <= high
    BY ValuesAssumption DEF Wanted, low, high
  <2> DEFINE B == Bases(nodes) \cap Below(nodes, ToSet(s2))
             C == Bases(nodes) \cap Below(nodes, ToSet(s))
  <2>2. B \in SUBSET C /\ C \in SUBSET Bases(nodes)
    BY <1>22, <1>24
  <2>3. ASSUME NEW c \in C \ B PROVE v \notin ToSet(nodes[c].treap)
    <3> SUFFICES ASSUME v \in ToSet(nodes[c].treap) PROVE FALSE
      OBVIOUS
    <3>1. c \in Path(nodes, v) /\ c \in Bases(nodes)
      BY DEF InPlace, Ready
    <3>2. c \in Below(nodes, {n}) /\ c \notin Below(nodes, Q)
      BY <1>22
    <3>3. c /= n
      BY <1>7, <3>1 DEF Bases
    <3>4. CASE c \in Below(nodes, {l})
      <4>1. ~(val >= low)
        BY <1>19, <1>23, <3>2, <3>4
      <4>2. l /= Toward(nodes, n, v) /\ l \in Children(nodes, n)
        BY <1>8, <1>12, <2>1, <4>1
      <4>3. Path(nodes, v) \cap Below(nodes, {l}) = {}
        BY <1>2, <1>7, <4>2, OffPath
      <4> QED BY <3>1, <3>4, <4>3
    <3>5. CASE c \in Below(nodes, {r})
      <4>1. ~(val <= high)
        BY <1>19, <1>23, <3>2, <3>5
      <4>2. r /= Toward(nodes, n, v) /\ r \in Children(nodes, n)
        BY <1>8, <1>12, <2>1, <4>1
      <4>3. Path(nodes, v) \cap Below(nodes, {r}) = {}
        BY <1>2, <1>7, <4>2, OffPath
      <4> QED BY <3>1, <3>5, <4>3
    <3> QED BY <1>9, <3>2, <3>3, <3>4, <3>5
  <2> HIDE DEF B, C
  <2>4. Places(nodes, B, v) = Places(nodes, C, v)
    BY <1>2, <2>2, <2>3, SameCopies
  <2> QED BY <2>4 DEF B, C, Waiting, s
<1> QED BY <1>17, <1>20, <1>25 DEF s2

(* A base adds the wanted copies that it holds.                            *)
LEMMA CheckBase ==
    ASSUME NEW t \in Threads, Ready(t), CheckNode(t), QueryOK(t), ~nodes[Last(nodesToCheck[t])].isRoute
    PROVE  LET s2 == nodesToCheck'[t]
           IN  /\ ToSet(s2) \subseteq Below(nodes, {head}) /\ Apart(nodes, s2)
               /\ \A v \in Wanted(call[t]) :
                    Copies(result'[t], v) + Cardinality(Places(nodes, Bases(nodes) \cap Below(nodes, ToSet(s2)), v))
                        = Copies(result[t], v) + Cardinality(Places(nodes, Waiting(t), v))
<1> DEFINE s == nodesToCheck[t]
           s2 == nodesToCheck'[t]
           n == Last(s)
           low == call[t].key
           high == call[t].hi
           d == nodes[n].treap
           e == rangeQuery(d, low, high)
           roots == {head}
<1>1. /\ pc[t] = "query" /\ s /= <<>> /\ s \in Seq(Nat) /\ s2 = Front(s)
      /\ result'[t] = result[t] \o e /\ result[t] \in Seq(Int)
  BY DEF CheckNode, Ready, VarsOK
<1>2. /\ GoodNodes(nodes, TREAP_NODES) /\ Forest(nodes, roots) /\ head \in roots /\ head \in DOMAIN nodes
      /\ TREAP_NODES \in Nat
  BY CapacityAssumption DEF Ready, Forest
<1>3. ToSet(s) \subseteq Below(nodes, {head}) /\ Apart(nodes, s)
  BY DEF QueryOK
<1>4. n \in ToSet(s) /\ s2 \in Seq(Nat) /\ ToSet(s) = ToSet(s2) \cup {n}
  BY <1>1, FrontFacts
<1>5. low \in Int /\ high \in Int
  BY <1>1, CallTypes
<1>6. Below(nodes, {head}) \subseteq DOMAIN nodes
  BY DEF Below
<1>7. n \in Bases(nodes) /\ d \in Seq(Int) /\ Sorted(d)
  BY <1>2, <1>3, <1>4, <1>6, NodeTypes
<1>8. Apart(nodes, s2) /\ \A y \in ToSet(s2) : Below(nodes, {y}) \cap Below(nodes, {n}) = {}
  BY <1>1, <1>3, ApartFront
<1>9. Below(nodes, {n}) = {n}
  BY <1>7, BelowBase
<1> HIDE DEF s, s2, n, low, high, roots
<1>10. ToSet(s2) \in SUBSET DOMAIN nodes /\ {n} \in SUBSET DOMAIN nodes /\ ToSet(s2) \subseteq Below(nodes, {head})
  BY <1>3, <1>4, <1>6
<1>11. Below(nodes, ToSet(s)) = Below(nodes, ToSet(s2)) \cup {n}
  BY <1>2, <1>4, <1>9, <1>10, BelowUnion
<1>12. n \notin Below(nodes, ToSet(s2))
  <2> SUFFICES ASSUME n \in Below(nodes, ToSet(s2)) PROVE FALSE
    OBVIOUS
  <2>1. \E y \in ToSet(s2) : n \in Below(nodes, {y})
    BY <1>2, <1>10, BelowSome
  <2> QED BY <1>8, <1>9, <2>1
<1>13. ASSUME NEW v \in Wanted(call[t])
       PROVE  Copies(result'[t], v) + Cardinality(Places(nodes, Bases(nodes) \cap Below(nodes, ToSet(s2)), v))
                  = Copies(result[t], v) + Cardinality(Places(nodes, Waiting(t), v))
  <2> DEFINE B == Bases(nodes) \cap Below(nodes, ToSet(s2))
  <2>1. v \in Int /\ low <= v /\ v <= high
    BY ValuesAssumption DEF Wanted, low, high
  <2>2. e \in Seq(Int) /\ Copies(e, v) = Copies(d, v)
    BY <1>5, <1>7, <2>1, RangeQueryType, RangeCopies
  <2>3. Waiting(t) = B \cup {n} /\ B \in SUBSET Bases(nodes) /\ n \in Bases(nodes) \ B
    BY <1>7, <1>11, <1>12 DEF Waiting, s
  <2> HIDE DEF B, e
  <2>4. Copies(result'[t], v) = Copies(result[t], v) + Copies(e, v)
    BY <1>1, <2>2, CopiesConcat
  <2> HIDE DEF d
  <2>5. Cardinality(Places(nodes, B \cup {n}, v)) = Cardinality(Places(nodes, B, v)) + Copies(nodes[n].treap, v)
    BY <1>2, <2>3, PlacesAdd
  <2>6. Cardinality(Places(nodes, B, v)) \in Nat
    BY <1>2, <2>3, PlacesFinite
  <2>7. Copies(result[t], v) \in Nat /\ Copies(d, v) \in Nat
    BY <1>1, <1>7, CopiesCount
  <2>8. Copies(nodes[n].treap, v) = Copies(d, v)
    BY DEF d
  <2>9. Copies(result'[t], v) + Cardinality(Places(nodes, B, v))
            = Copies(result[t], v) + Cardinality(Places(nodes, Waiting(t), v))
    BY <2>2, <2>3, <2>4, <2>5, <2>6, <2>7, <2>8
  <2> QED BY <2>9 DEF B
<1> QED BY <1>8, <1>10, <1>13 DEF s2

-----------------------------------------------------------------------------
(* The answers                                                             *)

(* What the range query of t returns was right at one moment.              *)
RangeOK(t) ==
    pc[t] = "unlock" /\ call[t].op = "rangeQuery" =>
        [v \in Wanted(call[t]) |-> Copies(result[t], v)] \in answers[t]

SameCall(u) ==
    /\ SameThread(u) /\ success'[u] = success[u] /\ result'[u] = result[u] /\ todo'[u] = todo[u]

(* The answers that a call has gained by a step that is not its own.       *)
Gained(u) == IF Promise!IsRead(call[u]) THEN answers[u] \cup {Promise!Answer(Items', call[u])} ELSE answers[u]

LEMMA OthersSame ==
    ASSUME NEW t \in Threads, VarsOK, Thread(t)
    PROVE  \A u \in Threads \ {t} : SameCall(u)
<1>1. \A u \in Threads \ {t} : SameThread(u)
  BY OthersStay
<1>2. \A u \in Threads \ {t} : success'[u] = success[u] /\ result'[u] = result[u] /\ todo'[u] = todo[u]
  <2> USE DEF VarsOK, Goto, callVars, queryVars
  <2>1. CASE Call(t)
    BY <2>1 DEF Call
  <2>2. CASE Request(t) \/ Acquire(t) \/ Search(t) \/ Unlock(t) \/ OutOfTreaps(t) \/ InsertValue(t)
             \/ MakeNodes(t) \/ SplitLeft(t) \/ SplitRight(t) \/ Merge(t) \/ QueryEnds(t)
    BY <2>2 DEF Request, Acquire, Search, Unlock, OutOfTreaps, InsertValue, MakeNodes, SplitLeft,
                SplitRight, Merge, QueryEnds
  <2>3. CASE Return(t)
    BY <2>3 DEF Return
  <2>4. CASE RemoveValue(t)
    BY <2>4 DEF RemoveValue
  <2>5. CASE Lookup(t)
    BY <2>5 DEF Lookup
  <2>6. CASE CheckNode(t)
    BY <2>6 DEF CheckNode
  <2> QED BY <2>1, <2>2, <2>3, <2>4, <2>5, <2>6 DEF Thread
<1> QED BY <1>1, <1>2 DEF SameCall

(* How many copies of each value there are, as the edits change it.        *)
LEMMA ItemsHeld ==
    ASSUME GoodNodes(nodes, TREAP_NODES)
    PROVE  Items \in [Values -> Nat] /\ \A v \in Values : Items[v] = Held(nodes, v)
<1>1. TREAP_NODES \in Nat /\ Bases(nodes) \in SUBSET Bases(nodes)
  BY CapacityAssumption
<1>2. \A v \in Values : Cardinality(Places(nodes, Bases(nodes), v)) \in Nat
  BY <1>1, PlacesFinite
<1> QED BY <1>2 DEF Items, Held

LEMMA ItemsHeldNext == Items' = [v \in Values |-> Held(nodes', v)]
BY DEF Items, Held

(* A call that t does not touch keeps its answers, and may gain one.       *)
LEMMA StillAnswers ==
    ASSUME NEW u \in Threads, AnswersOK(u), RangeOK(u), LocalOK(u), SameCall(u), answers'[u] = Allowed(u),
           pc[u] = "query" => UNCHANGED nodes
    PROVE  AnswersOK(u)' /\ RangeOK(u)' /\ answers'[u] = Gained(u)
<1> USE DEF SameCall, SameThread
<1>1. answers'[u] = Gained(u)
  BY DEF Allowed, Gained, AnswersOK, Promise!IsRead
<1>2. answers[u] \subseteq answers'[u] /\ (Promise!IsRead(call[u]) => Promise!Answer(Items', call[u]) \in answers'[u])
  BY <1>1 DEF Gained
<1>3. ~Promise!IsRead(call[u]) => answers'[u] = answers[u]
  BY <1>1 DEF Gained
<1>4. RangeOK(u)'
  BY <1>2 DEF RangeOK, Wanted
<1>5. pc[u] = "query" => QueryOK(u)'
  <2> SUFFICES ASSUME pc[u] = "query" PROVE QueryOK(u)'
    OBVIOUS
  <2>1. QueryOK(u) /\ UNCHANGED nodes
    BY DEF AnswersOK
  <2>2. Items' = Items
    BY <2>1 DEF Items
  <2> QED BY <2>1, <2>2 DEF QueryOK, Waiting, Wanted
<1>6. Promise!IsRead(call[u]) => ReadOK(u)'
  BY <1>2 DEF AnswersOK, ReadOK
<1>7. Promise!IsUpdate(call[u]) => UpdateOK(u)'
  BY <1>3 DEF AnswersOK, UpdateOK, Promise!IsRead, Promise!IsUpdate
<1>8. call[u] = NoCall => answers'[u] = {}
  BY <1>3 DEF AnswersOK, Promise!IsRead
<1>9. AnswersOK(u)'
  <2>1. Promise!IsRead(call[u])' = Promise!IsRead(call[u]) /\ Promise!IsUpdate(call[u])' = Promise!IsUpdate(call[u])
    BY DEF Promise!IsRead, Promise!IsUpdate
  <2> QED BY <1>5, <1>6, <1>7, <1>8, <2>1 DEF AnswersOK
<1> QED BY <1>1, <1>4, <1>9

-----------------------------------------------------------------------------
(* The steps of a call that decide nothing about its answer.               *)
QuietMove(t) ==
    \/ pc[t] = "lock" /\ pc'[t] = "wait"
    \/ pc[t] \in {"wait", "search"} /\ pc'[t] = "search"
    \/ pc[t] = "split" /\ pc'[t] = "splitLeft"
    \/ pc[t] = "splitLeft" /\ pc'[t] = "splitRight"
    \/ pc[t] \in {"splitRight", "merge"} /\ pc'[t] = "unlock"
    \/ pc[t] = "unlock" /\ pc'[t] = "return"
    \/ pc'[t] \in {"unwind", "failed"}

LEMMA QuietAnswers ==
    ASSUME NEW t \in Threads, AnswersOK(t), answers'[t] = Allowed(t), QuietMove(t), Items' = Items,
           call'[t] = call[t], success'[t] = success[t], result'[t] = result[t], todo'[t] = todo[t]
    PROVE  AnswersOK(t)' /\ RangeOK(t)' /\ answers'[t] = answers[t]
<1>1. ~(Promise!IsRead(call[t]) /\ Promise!IsUpdate(call[t]))
  BY DEF Promise!IsRead, Promise!IsUpdate
<1>2. /\ Promise!IsRead(call[t])' <=> Promise!IsRead(call[t])
      /\ Promise!IsUpdate(call[t])' <=> Promise!IsUpdate(call[t])
  BY DEF Promise!IsRead, Promise!IsUpdate
<1>3. ~(pc[t] = "search" /\ pc'[t] \in {"split", "merge", "unlock"})
  BY DEF QuietMove
<1>4. Promise!IsRead(call[t]) => ReadOK(t)
  BY DEF AnswersOK
<1>5. answers'[t] = answers[t]
  BY <1>3, <1>4 DEF Allowed, AnswersOK, ReadOK, Promise!IsRead
<1>6. pc'[t] = "unlock" => Promise!IsUpdate(call[t])
  BY DEF QuietMove, AnswersOK
<1>7. RangeOK(t)'
  BY <1>6 DEF RangeOK, Promise!IsUpdate
<1>8. Promise!IsRead(call[t]) => ReadOK(t)'
  BY <1>1, <1>4, <1>5, <1>6 DEF ReadOK, QuietMove
<1>9. Promise!IsUpdate(call[t]) => UpdateOK(t)'
  <2> SUFFICES ASSUME Promise!IsUpdate(call[t]) PROVE UpdateOK(t)'
    OBVIOUS
  <2>1. UpdateOK(t)
    BY DEF AnswersOK
  <2> QED BY <1>5, <2>1 DEF UpdateOK, QuietMove
<1>10. AnswersOK(t)'
  BY <1>2, <1>5, <1>8, <1>9 DEF AnswersOK, QuietMove
<1> QED BY <1>5, <1>7, <1>10

LEMMA HeadAndTail ==
    ASSUME NEW S, NEW s \in Seq(S), s /= <<>>
    PROVE  Head(s) \in S /\ Head(s) \in ToSet(s) /\ ToSet(Tail(s)) \subseteq ToSet(s)
<1> DEFINE n == Len(s)
           tail == Tail(s)
<1>1. n \in Nat \ {0} /\ DOMAIN s = 1 .. n /\ Head(s) = s[1]
  BY LenProperties, EmptySeq
<1>2. Head(s) \in S /\ tail \in Seq(S) /\ Len(tail) = n - 1 /\ \A i \in 1 .. Len(tail) : tail[i] = s[i + 1]
  BY HeadTailProperties
<1>3. DOMAIN tail = 1 .. Len(tail)
  <2> HIDE DEF tail
  <2> QED BY <1>2, LenProperties
<1> HIDE DEF n, tail
<1>4. \A i \in 1 .. n - 1 : i + 1 \in 1 .. n
  BY <1>1
<1>5. \A i \in DOMAIN tail : tail[i] \in ToSet(s)
  BY <1>1, <1>2, <1>3, <1>4 DEF ToSet
<1>6. ToSet(tail) \subseteq ToSet(s)
  BY <1>5 DEF ToSet
<1>7. s[1] \in ToSet(s)
  BY <1>1 DEF ToSet
<1> QED BY <1>1, <1>2, <1>6, <1>7 DEF tail

(* A call begins.                                                          *)
LEMMA CallAnswers ==
    ASSUME NEW t \in Threads, Ready(t), AnswersOK(t), answers'[t] = Allowed(t), Call(t)
    PROVE  /\ AnswersOK(t)' /\ RangeOK(t)'
           /\ call[t] = NoCall /\ call'[t] \in CallsMade
           /\ answers'[t] = IF Promise!IsRead(call'[t]) THEN {Promise!Answer(Items, call'[t])} ELSE {}
<1> DEFINE c == Head(todo[t])
<1>1. /\ pc[t] = "idle" /\ pc'[t] = "lock" /\ todo[t] /= <<>> /\ todo[t] \in Seq(Calls)
      /\ call'[t] = c /\ todo'[t] = Tail(todo[t]) /\ success'[t] = success[t] /\ result'[t] = result[t]
      /\ nodes' = nodes
  BY DEF Call, Goto, queryVars, Ready, VarsOK
<1>2. call[t] = NoCall
  BY <1>1 DEF Ready, LocalOK
<1>3. c \in Calls /\ c \in ToSet(todo[t]) /\ ToSet(Tail(todo[t])) \subseteq ToSet(todo[t])
  BY <1>1, HeadAndTail
<1>4. c \in CallsMade /\ c /= NoCall
  BY <1>3, NoCallAssumption DEF AnswersOK
<1>5. Items' = Items
  BY <1>1 DEF Items
<1>6. answers[t] = {} /\ success[t] = TRUE /\ result[t] = <<>>
  BY <1>1, <1>2 DEF AnswersOK
<1> HIDE DEF c
<1>7. answers'[t] = IF Promise!IsRead(c) THEN {Promise!Answer(Items, c)} ELSE {}
  BY <1>1, <1>4, <1>5, <1>6 DEF Allowed, Promise!IsRead
<1>8. Promise!IsRead(c) => ReadOK(t)'
  BY <1>1, <1>5, <1>6, <1>7 DEF ReadOK
<1>9. Promise!IsUpdate(c) => UpdateOK(t)'
  BY <1>1, <1>7 DEF UpdateOK, Promise!IsUpdate, Promise!IsRead
<1>10. AnswersOK(t)'
  <2>1. ToSet(todo'[t]) \cup {call'[t]} \subseteq CallsMade \cup {NoCall}
    BY <1>1, <1>3, <1>4 DEF AnswersOK
  <2> QED BY <1>1, <1>4, <1>6, <1>8, <1>9, <2>1 DEF AnswersOK
<1>11. RangeOK(t)'
  BY <1>1 DEF RangeOK
<1> QED BY <1>1, <1>2, <1>4, <1>7, <1>10, <1>11

(* A call ends with an answer that it may give.                            *)
LEMMA ReturnAnswers ==
    ASSUME NEW t \in Threads, Ready(t), AnswersOK(t), answers'[t] = Allowed(t), Return(t)
    PROVE  /\ AnswersOK(t)' /\ RangeOK(t)'
           /\ call[t] /= NoCall /\ answers'[t] = {}
           /\ \E a \in answers[t] : success[t] = IF call[t].op = "rangeQuery" THEN TRUE ELSE a
<1>1. /\ pc[t] = "return" /\ pc'[t] = "idle" /\ call'[t] = NoCall
      /\ todo'[t] = todo[t] /\ success'[t] = TRUE /\ result'[t] = <<>>
  BY DEF Return, Goto, Ready, VarsOK
<1>2. call[t] /= NoCall /\ call[t] \in Calls
  BY <1>1, CallTypes DEF Ready, LocalOK
<1>3. answers'[t] = {}
  BY <1>1 DEF Allowed
<1>4. AnswersOK(t)' /\ RangeOK(t)'
  BY <1>1, <1>3 DEF AnswersOK, RangeOK, Promise!IsRead, Promise!IsUpdate
<1>5. \E a \in answers[t] : success[t] = IF call[t].op = "rangeQuery" THEN TRUE ELSE a
  <2>1. CASE call[t].op \in {"insert", "remove"}
    <3>1. answers[t] = {success[t]}
      BY <1>1, <1>2, <2>1 DEF AnswersOK, UpdateOK, Promise!IsUpdate
    <3> QED BY <2>1, <3>1
  <2>2. CASE call[t].op = "lookup"
    <3>1. success[t] \in answers[t]
      BY <1>1, <1>2, <2>2 DEF AnswersOK, ReadOK, Promise!IsRead
    <3> QED BY <2>2, <3>1
  <2>3. CASE call[t].op = "rangeQuery"
    <3>1. success[t] = TRUE /\ Promise!Answer(Items, call[t]) \in answers[t]
      BY <1>2, <2>3 DEF AnswersOK, ReadOK, Promise!IsRead
    <3> QED BY <2>3, <3>1
  <2> QED BY <1>2, <2>1, <2>2, <2>3 DEF Calls
<1> QED BY <1>2, <1>3, <1>4, <1>5

(* What a call asks for is among the values that are counted.              *)
LEMMA KeyCounted ==
    ASSUME NEW t \in Threads, Ready(t), AnswersOK(t), pc[t] /= "idle", call[t].op /= "rangeQuery"
    PROVE  call[t] /= NoCall /\ call[t] \in CallsMade /\ call[t].key \in Values
<1>1. call[t] /= NoCall
  BY CallTypes, NoCallAssumption
<1>2. call[t] \in CallsMade
  BY <1>1 DEF AnswersOK
<1> QED BY <1>1, <1>2, ValuesAssumption

(* An update takes effect.                                                 *)
LEMMA EffectAnswers ==
    ASSUME NEW t \in Threads, AnswersOK(t), answers'[t] = Allowed(t),
           Promise!IsUpdate(call[t]), pc[t] = "search", pc'[t] \in {"split", "merge", "unlock"},
           call'[t] = call[t], result'[t] = result[t], todo'[t] = todo[t]
    PROVE  AnswersOK(t)' /\ RangeOK(t)' /\ answers[t] = {} /\ answers'[t] = {success'[t]}
<1>1. answers'[t] = {success'[t]}
  BY DEF Allowed, Promise!IsUpdate
<1>2. answers[t] = {}
  BY DEF AnswersOK, UpdateOK
<1>3. UpdateOK(t)'
  BY <1>1 DEF UpdateOK
<1>4. call[t] /= NoCall /\ ~Promise!IsRead(call[t])' /\ Promise!IsUpdate(call[t])'
  BY DEF Promise!IsRead, Promise!IsUpdate
<1>5. AnswersOK(t)'
  BY <1>3, <1>4 DEF AnswersOK
<1>6. RangeOK(t)'
  BY DEF RangeOK, Promise!IsUpdate
<1> QED BY <1>1, <1>2, <1>5, <1>6

LEMMA InsertAnswers ==
    ASSUME NEW t \in Threads, Ready(t), AnswersOK(t), answers'[t] = Allowed(t), InsertValue(t),
           Len(BaseTreap(t)) /= TREAP_NODES
    PROVE  /\ AnswersOK(t)' /\ RangeOK(t)'
           /\ Promise!IsUpdate(call[t]) /\ answers[t] = {}
           /\ Items' = Promise!Effect(Items, call[t]) /\ answers'[t] = {Promise!Answer(Items, call[t])}
<1> DEFINE k == call[t].key
<1>1. /\ pc[t] = "search" /\ call[t].op = "insert" /\ pc'[t] \in {"split", "unlock"}
      /\ call'[t] = call[t] /\ todo'[t] = todo[t] /\ result'[t] = result[t] /\ success'[t] = success[t]
  BY DEF InsertValue, AtBase, Goto, callVars, queryVars, Ready, VarsOK
<1>2. k \in Values /\ Promise!IsUpdate(call[t])
  BY <1>1, KeyCounted DEF Promise!IsUpdate
<1>3. AnswersOK(t)' /\ RangeOK(t)' /\ answers[t] = {} /\ answers'[t] = {success'[t]}
  BY <1>1, <1>2, EffectAnswers
<1>4. answers'[t] = {Promise!Answer(Items, call[t])}
  <2>1. success'[t] = TRUE
    BY <1>1 DEF AnswersOK
  <2>2. Promise!Answer(Items, call[t]) = TRUE
    BY <1>1 DEF Promise!Answer
  <2> QED BY <1>3, <2>1, <2>2
<1>5. Items' = Promise!Effect(Items, call[t])
  <2>1. \A w \in Values : Held(nodes', w) = IF w = k THEN Held(nodes, w) + 1 ELSE Held(nodes, w)
    BY InsertHeld
  <2>2. Items \in [Values -> Nat] /\ \A w \in Values : Items[w] = Held(nodes, w)
    BY ItemsHeld DEF Ready
  <2>3. Items' = [v \in Values |-> Held(nodes', v)]
    BY ItemsHeldNext
  <2>4. Promise!Effect(Items, call[t]) = [Items EXCEPT ![k] = @ + 1]
    BY <1>1 DEF Promise!Effect
  <2> HIDE DEF k, Items
  <2>5. Items' = [Items EXCEPT ![k] = @ + 1]
    BY <1>2, <2>1, <2>2, <2>3
  <2> QED BY <2>4, <2>5
<1> QED BY <1>2, <1>3, <1>4, <1>5

LEMMA RemoveAnswers ==
    ASSUME NEW t \in Threads, Ready(t), AnswersOK(t), answers'[t] = Allowed(t), RemoveValue(t)
    PROVE  /\ AnswersOK(t)' /\ RangeOK(t)'
           /\ Promise!IsUpdate(call[t]) /\ answers[t] = {}
           /\ Items' = Promise!Effect(Items, call[t]) /\ answers'[t] = {Promise!Answer(Items, call[t])}
<1> DEFINE k == call[t].key
<1>1. /\ pc[t] = "search" /\ call[t].op = "remove" /\ pc'[t] \in {"merge", "unlock"}
      /\ call'[t] = call[t] /\ todo'[t] = todo[t] /\ result'[t] = result[t]
      /\ success'[t] = contains(BaseTreap(t), k)
  BY DEF RemoveValue, AtBase, Goto, callVars, queryVars, Ready, VarsOK
<1>2. k \in Values /\ Promise!IsUpdate(call[t])
  BY <1>1, KeyCounted DEF Promise!IsUpdate
<1>3. AnswersOK(t)' /\ RangeOK(t)' /\ answers[t] = {} /\ answers'[t] = {success'[t]}
  BY <1>1, <1>2, EffectAnswers
<1>4. Items \in [Values -> Nat] /\ \A w \in Values : Items[w] = Held(nodes, w)
  BY ItemsHeld DEF Ready
<1>5. contains(BaseTreap(t), k) <=> Held(nodes, k) > 0
  BY RemoveHeld
<1>6. answers'[t] = {Promise!Answer(Items, call[t])}
  <2>1. Promise!Answer(Items, call[t]) <=> Items[k] > 0
    BY <1>1 DEF Promise!Answer
  <2>2. contains(BaseTreap(t), k) <=> Promise!Answer(Items, call[t])
    BY <1>2, <1>4, <1>5, <2>1
  <2>3. contains(BaseTreap(t), k) \in BOOLEAN /\ Promise!Answer(Items, call[t]) \in BOOLEAN
    BY <1>1 DEF contains, Promise!Answer
  <2>4. contains(BaseTreap(t), k) = Promise!Answer(Items, call[t])
    BY <2>2, <2>3
  <2> QED BY <1>1, <1>3, <2>4
<1>7. Items' = Promise!Effect(Items, call[t])
  <2>1. \A w \in Values : Held(nodes', w) = IF w = k /\ Held(nodes, w) > 0 THEN Held(nodes, w) - 1 ELSE Held(nodes, w)
    BY RemoveHeld
  <2>2. Items' = [v \in Values |-> Held(nodes', v)]
    BY ItemsHeldNext
  <2>3. Promise!Effect(Items, call[t]) = IF Items[k] > 0 THEN [Items EXCEPT ![k] = @ - 1] ELSE Items
    BY <1>1 DEF Promise!Effect
  <2> HIDE DEF k, Items
  <2>4. Items' = IF Items[k] > 0 THEN [Items EXCEPT ![k] = @ - 1] ELSE Items
    BY <1>2, <1>4, <2>1, <2>2
  <2> QED BY <2>3, <2>4
<1> QED BY <1>2, <1>3, <1>6, <1>7

LEMMA LookupAnswers ==
    ASSUME NEW t \in Threads, Ready(t), AnswersOK(t), answers'[t] = Allowed(t), Lookup(t)
    PROVE  AnswersOK(t)' /\ RangeOK(t)' /\ Items' = Items /\ answers'[t] = answers[t]
<1> DEFINE k == call[t].key
<1>1. /\ pc[t] = "search" /\ call[t].op = "lookup" /\ pc'[t] = "unlock"
      /\ call'[t] = call[t] /\ todo'[t] = todo[t] /\ result'[t] = result[t] /\ nodes' = nodes
      /\ success'[t] = contains(BaseTreap(t), k)
  BY DEF Lookup, AtBase, Goto, callVars, queryVars, Ready, VarsOK
<1>2. k \in Values /\ Promise!IsRead(call[t]) /\ call[t] /= NoCall
  BY <1>1, KeyCounted DEF Promise!IsRead
<1>3. Items \in [Values -> Nat] /\ \A w \in Values : Items[w] = Held(nodes, w)
  BY ItemsHeld DEF Ready
<1>4. contains(BaseTreap(t), k) <=> Held(nodes, k) > 0
  BY LookupHeld
<1>5. Items' = Items
  BY <1>1 DEF Items
<1>6. Promise!Answer(Items, call[t]) \in answers[t]
  BY <1>2 DEF AnswersOK, ReadOK
<1>7. answers'[t] = answers[t]
  BY <1>1, <1>2, <1>5, <1>6 DEF Allowed
<1>8. success'[t] = Promise!Answer(Items, call[t])
  <2>1. Promise!Answer(Items, call[t]) <=> Items[k] > 0
    BY <1>1 DEF Promise!Answer
  <2>2. contains(BaseTreap(t), k) <=> Promise!Answer(Items, call[t])
    BY <1>2, <1>3, <1>4, <2>1
  <2>3. contains(BaseTreap(t), k) \in BOOLEAN /\ Promise!Answer(Items, call[t]) \in BOOLEAN
    BY <1>1 DEF contains, Promise!Answer
  <2>4. contains(BaseTreap(t), k) = Promise!Answer(Items, call[t])
    BY <2>2, <2>3
  <2> QED BY <1>1, <2>4
<1>9. ReadOK(t)'
  BY <1>1, <1>5, <1>6, <1>7, <1>8 DEF ReadOK
<1>10. AnswersOK(t)'
  <2>1. ~Promise!IsUpdate(call[t])'
    BY <1>1 DEF Promise!IsUpdate
  <2> QED BY <1>1, <1>2, <1>9, <2>1 DEF AnswersOK
<1>11. RangeOK(t)'
  BY <1>1 DEF RangeOK
<1> QED BY <1>5, <1>7, <1>10, <1>11

(* A query begins with all the bases before it.                            *)
LEMMA QueryBegins ==
    ASSUME NEW t \in Threads, Ready(t), AnswersOK(t), Acquire(t), call[t].op = "rangeQuery"
    PROVE  QueryOK(t)'
<1> DEFINE roots == {head}
           all == Bases(nodes) \cap Below(nodes, roots)
<1>1. /\ pc[t] = "wait" /\ nodesToCheck'[t] = <<head>>
      /\ call'[t] = call[t] /\ result'[t] = result[t] /\ nodes' = nodes
  BY DEF Acquire, callVars, Ready, VarsOK
<1>2. result'[t] = <<>>
  BY <1>1 DEF AnswersOK
<1>3. Items' = Items /\ Items \in [Values -> Nat] /\ \A w \in Values : Items[w] = Held(nodes, w)
  BY <1>1, ItemsHeld DEF Items, Ready
<1>4. ToSet(<<head>>) = roots
  BY DEF ToSet
<1>5. Forest(nodes, roots) /\ head \in roots /\ roots \in SUBSET DOMAIN nodes
  BY DEF Ready, Forest
<1>6. roots \subseteq Below(nodes, roots)
  BY <1>5, BelowFacts
<1>7. Apart(nodes, <<head>>)
  <2>1. DOMAIN <<head>> = {1}
    OBVIOUS
  <2> QED BY <2>1 DEF Apart
<1>8. GoodNodes(nodes, TREAP_NODES) /\ TREAP_NODES \in Nat /\ InPlace(nodes)
  BY CapacityAssumption DEF Ready
<1>9. ASSUME NEW v \in Wanted(call[t])
      PROVE  Copies(result'[t], v) + Cardinality(Places(nodes, all, v)) = Items[v]
  <2>1. v \in Values
    BY DEF Wanted
  <2>2. Path(nodes, v) \subseteq Below(nodes, roots)
    <3> HIDE DEF roots
    <3>1. Path(nodes, v) \subseteq Below(nodes, {head})
      BY <1>5, PathBelow
    <3> QED BY <3>1 DEF roots
  <2>3. \A b \in Bases(nodes) \ all : v \notin ToSet(nodes[b].treap)
    BY <1>8, <2>2 DEF InPlace
  <2>4. all \in SUBSET Bases(nodes) /\ Bases(nodes) \in SUBSET Bases(nodes)
    OBVIOUS
  <2> HIDE DEF all
  <2>5. Places(nodes, all, v) = Places(nodes, Bases(nodes), v)
    BY <1>8, <2>3, <2>4, SameCopies
  <2>6. Copies(<<>>, v) = 0
    BY CopiesOfNone
  <2>7. Items[v] \in Nat /\ Items[v] = Cardinality(Places(nodes, Bases(nodes), v))
    BY <1>3, <2>1 DEF Held
  <2> HIDE DEF Items
  <2> QED BY <1>2, <2>5, <2>6, <2>7
<1>10. QueryOK(t)' <=> (/\ call[t].op = "rangeQuery"
                       /\ roots \subseteq Below(nodes, roots)
                       /\ Apart(nodes, <<head>>)
                       /\ \A v \in Wanted(call[t]) :
                            Copies(result'[t], v) + Cardinality(Places(nodes, all, v)) = Items[v])
  <2> HIDE DEF Items
  <2> QED BY <1>1, <1>3, <1>4 DEF QueryOK, Waiting, Wanted
<1> QED BY <1>6, <1>7, <1>9, <1>10

LEMMA AcquireAnswers ==
    ASSUME NEW t \in Threads, Ready(t), AnswersOK(t), answers'[t] = Allowed(t), Acquire(t)
    PROVE  AnswersOK(t)' /\ RangeOK(t)' /\ Items' = Items /\ answers'[t] = answers[t]
<1>1. /\ pc[t] = "wait" /\ pc'[t] \in {"search", "query"}
      /\ pc'[t] = "query" <=> call[t].op = "rangeQuery"
      /\ call'[t] = call[t] /\ todo'[t] = todo[t] /\ nodes' = nodes
      /\ result'[t] = result[t] /\ success'[t] = success[t]
  BY DEF Acquire, Goto, callVars, Ready, VarsOK
<1>2. Items' = Items
  BY <1>1 DEF Items
<1>3. CASE pc'[t] = "search"
  BY <1>1, <1>2, <1>3, QuietAnswers DEF QuietMove
<1>4. CASE pc'[t] = "query"
  <2>1. QueryOK(t)'
    BY <1>1, <1>4, QueryBegins
  <2>2. call[t] /= NoCall /\ Promise!IsRead(call[t]) /\ ~Promise!IsUpdate(call[t])'
    BY <1>1, <1>4, CallTypes, NoCallAssumption DEF Promise!IsRead, Promise!IsUpdate
  <2>3. Promise!Answer(Items, call[t]) \in answers[t]
    BY <2>2 DEF AnswersOK, ReadOK
  <2>4. answers'[t] = answers[t]
    BY <1>1, <1>2, <2>2, <2>3 DEF Allowed, Promise!IsRead
  <2>5. ReadOK(t)'
    BY <1>1, <1>2, <1>4, <2>2, <2>3, <2>4 DEF ReadOK, AnswersOK
  <2>6. AnswersOK(t)'
    BY <1>1, <1>4, <2>1, <2>2, <2>5 DEF AnswersOK
  <2>7. RangeOK(t)'
    BY <1>4 DEF RangeOK
  <2> QED BY <1>2, <2>4, <2>6, <2>7
<1> QED BY <1>1, <1>3, <1>4

(* A query goes on.                                                        *)
LEMMA CheckAnswers ==
    ASSUME NEW t \in Threads, Ready(t), AnswersOK(t), answers'[t] = Allowed(t), CheckNode(t)
    PROVE  AnswersOK(t)' /\ RangeOK(t)' /\ Items' = Items /\ answers'[t] = answers[t]
<1>1. /\ pc[t] = "query" /\ pc'[t] = "query"
      /\ call'[t] = call[t] /\ todo'[t] = todo[t] /\ nodes' = nodes /\ success'[t] = success[t]
      /\ nodes[Last(nodesToCheck[t])].isRoute => result'[t] = result[t]
  BY DEF CheckNode, callVars
<1>2. Items' = Items /\ Items \in [Values -> Nat]
  BY <1>1, ItemsHeld DEF Items, Ready
<1>3. QueryOK(t)
  BY <1>1 DEF AnswersOK
<1> DEFINE s2 == nodesToCheck'[t]
           left == Bases(nodes) \cap Below(nodes, ToSet(s2))
<1>4. /\ ToSet(s2) \subseteq Below(nodes, {head}) /\ Apart(nodes, s2)
      /\ \A v \in Wanted(call[t]) : Copies(result'[t], v) + Cardinality(Places(nodes, left, v)) = Items[v]
  <2>1. CASE nodes[Last(nodesToCheck[t])].isRoute
    <3>1. /\ ToSet(s2) \subseteq Below(nodes, {head}) /\ Apart(nodes, s2)
          /\ \A v \in Wanted(call[t]) : Places(nodes, left, v) = Places(nodes, Waiting(t), v)
      BY <1>3, <2>1, CheckRoute
    <3> HIDE DEF s2, left, Items
    <3> QED BY <1>1, <1>3, <2>1, <3>1 DEF QueryOK
  <2>2. CASE ~nodes[Last(nodesToCheck[t])].isRoute
    <3>1. /\ ToSet(s2) \subseteq Below(nodes, {head}) /\ Apart(nodes, s2)
          /\ \A v \in Wanted(call[t]) : Copies(result'[t], v) + Cardinality(Places(nodes, left, v))
                = Copies(result[t], v) + Cardinality(Places(nodes, Waiting(t), v))
      BY <1>3, <2>2, CheckBase
    <3> HIDE DEF s2, left, Items
    <3> QED BY <1>3, <3>1 DEF QueryOK
  <2> QED BY <2>1, <2>2
<1>5. QueryOK(t)'
  <2> HIDE DEF Items
  <2> QED BY <1>1, <1>2, <1>3, <1>4 DEF QueryOK, Waiting, Wanted
<1>6. call[t] /= NoCall /\ Promise!IsRead(call[t]) /\ ~Promise!IsUpdate(call[t])' /\ call[t].op = "rangeQuery"
  BY <1>1, <1>3, CallTypes, NoCallAssumption DEF Promise!IsRead, Promise!IsUpdate, QueryOK
<1>7. Promise!Answer(Items, call[t]) \in answers[t]
  BY <1>6 DEF AnswersOK, ReadOK
<1>8. answers'[t] = answers[t]
  BY <1>1, <1>2, <1>6, <1>7 DEF Allowed, Promise!IsRead
<1>9. ReadOK(t)'
  BY <1>1, <1>2, <1>6, <1>7, <1>8 DEF ReadOK, AnswersOK
<1>10. AnswersOK(t)'
  BY <1>1, <1>5, <1>6, <1>9 DEF AnswersOK
<1>11. RangeOK(t)'
  BY <1>1 DEF RangeOK
<1> QED BY <1>2, <1>8, <1>10, <1>11

(* A query has found everything when it has no node left to check.         *)
LEMMA QueryEndsAnswers ==
    ASSUME NEW t \in Threads, Ready(t), AnswersOK(t), answers'[t] = Allowed(t), QueryEnds(t)
    PROVE  AnswersOK(t)' /\ RangeOK(t)' /\ Items' = Items /\ answers'[t] = answers[t]
<1>1. /\ pc[t] = "query" /\ pc'[t] = "unlock" /\ nodesToCheck[t] = <<>>
      /\ call'[t] = call[t] /\ todo'[t] = todo[t] /\ nodes' = nodes
      /\ success'[t] = success[t] /\ result'[t] = result[t] /\ result[t] \in Seq(Int)
  BY DEF QueryEnds, Goto, callVars, queryVars, Ready, VarsOK
<1>2. Items' = Items /\ Items \in [Values -> Nat]
  BY <1>1, ItemsHeld DEF Items, Ready
<1>3. QueryOK(t)
  BY <1>1 DEF AnswersOK
<1>4. call[t] /= NoCall /\ Promise!IsRead(call[t]) /\ ~Promise!IsUpdate(call[t])' /\ call[t].op = "rangeQuery"
  BY <1>1, <1>3, CallTypes, NoCallAssumption DEF Promise!IsRead, Promise!IsUpdate, QueryOK
<1>5. Promise!Answer(Items, call[t]) \in answers[t]
  BY <1>4 DEF AnswersOK, ReadOK
<1>6. answers'[t] = answers[t]
  BY <1>1, <1>2, <1>4, <1>5 DEF Allowed, Promise!IsRead
<1>7. Waiting(t) = {}
  <2>1. ToSet(nodesToCheck[t]) = {}
    BY <1>1 DEF ToSet
  <2>2. {} \in SUBSET DOMAIN nodes /\ Forest(nodes, {head})
    BY DEF Ready
  <2>3. Below(nodes, {}) = {}
    <3> DEFINE none == {}
    <3>1. none \in SUBSET DOMAIN nodes /\ \A x \in none : FALSE
      OBVIOUS
    <3> HIDE DEF none
    <3>2. \A m \in Below(nodes, none) : \E x \in none : m \in Below(nodes, {x})
      BY <2>2, <3>1, BelowSome
    <3> QED BY <3>1, <3>2 DEF none
  <2> QED BY <2>1, <2>3 DEF Waiting
<1>8. ASSUME NEW v \in Wanted(call[t]) PROVE Copies(result[t], v) = Items[v]
  <2>1. Copies(result[t], v) + Cardinality(Places(nodes, Waiting(t), v)) = Items[v]
    BY <1>3 DEF QueryOK
  <2>2. Places(nodes, Waiting(t), v) = {}
    BY <1>7 DEF Places
  <2>3. Cardinality({}) = 0
    BY FS_EmptySet
  <2>4. Copies(result[t], v) \in Nat
    BY <1>1, CopiesCount
  <2> HIDE DEF Items
  <2> QED BY <2>1, <2>2, <2>3, <2>4
<1>9. [v \in Wanted(call[t]) |-> Copies(result[t], v)] = Promise!Answer(Items, call[t])
  <2>1. Promise!Answer(Items, call[t]) = [v \in Wanted(call[t]) |-> Items[v]]
    BY <1>4 DEF Promise!Answer, Wanted
  <2> HIDE DEF Items
  <2> QED BY <1>8, <2>1
<1>10. RangeOK(t)'
  BY <1>1, <1>5, <1>6, <1>9 DEF RangeOK, Wanted
<1>11. ReadOK(t)'
  BY <1>1, <1>2, <1>4, <1>5, <1>6 DEF ReadOK, AnswersOK
<1>12. AnswersOK(t)'
  BY <1>1, <1>4, <1>11 DEF AnswersOK
<1> QED BY <1>2, <1>6, <1>10, <1>12

-----------------------------------------------------------------------------
(* The steps of the threads are steps of the search tree                   *)

(* A step that the search tree does not notice.                            *)
Unnoticed(t) == Items' = Items /\ answers'[t] = answers[t] /\ UNCHANGED <<call, reply>>

LEMMA OtherAnswers ==
    ASSUME NEW t \in Threads, Ready(t), AnswersOK(t), answers'[t] = Allowed(t),
           Request(t) \/ Search(t) \/ Unlock(t) \/ OutOfTreaps(t) \/ MakeNodes(t) \/ SplitLeft(t)
           \/ SplitRight(t) \/ Merge(t) \/ (InsertValue(t) /\ Len(BaseTreap(t)) = TREAP_NODES)
    PROVE  AnswersOK(t)' /\ RangeOK(t)' /\ Unnoticed(t)
<1>1. /\ call' = call /\ todo' = todo /\ success' = success /\ result' = result /\ reply' = reply
      /\ QuietMove(t)
  <2> USE DEF Goto, callVars, queryVars, QuietMove, Ready, VarsOK
  <2>1. CASE Request(t)
    BY <2>1 DEF Request
  <2>2. CASE Search(t)
    BY <2>2 DEF Search
  <2>3. CASE Unlock(t)
    BY <2>3 DEF Unlock
  <2>4. CASE OutOfTreaps(t)
    BY <2>4 DEF OutOfTreaps
  <2>5. CASE MakeNodes(t)
    BY <2>5 DEF MakeNodes
  <2>6. CASE SplitLeft(t)
    BY <2>6 DEF SplitLeft
  <2>7. CASE SplitRight(t)
    BY <2>7 DEF SplitRight
  <2>8. CASE Merge(t)
    BY <2>8 DEF Merge
  <2>9. CASE InsertValue(t) /\ Len(BaseTreap(t)) = TREAP_NODES
    BY <2>9 DEF InsertValue
  <2> QED BY <2>1, <2>2, <2>3, <2>4, <2>5, <2>6, <2>7, <2>8, <2>9
<1>2. Items' = Items
  <2>1. CASE UNCHANGED nodes
    BY <2>1 DEF Items
  <2>2. CASE MakeNodes(t) \/ SplitRight(t) \/ Merge(t)
    <3>1. \A v \in Values : Held(nodes', v) = Held(nodes, v)
      BY <2>2, MakeNodesHeld, SplitRightHeld, MergeHeld
    <3>2. Items' = [v \in Values |-> Held(nodes', v)] /\ Items = [v \in Values |-> Held(nodes, v)]
      BY ItemsHeldNext DEF Items, Held
    <3> QED BY <3>1, <3>2
  <2>3. UNCHANGED nodes \/ MakeNodes(t) \/ SplitRight(t) \/ Merge(t)
    BY DEF Request, Search, Unlock, OutOfTreaps, SplitLeft, InsertValue
  <2> QED BY <2>1, <2>2, <2>3
<1> QED BY <1>1, <1>2, QuietAnswers DEF Unnoticed

(* What the step of a thread is to the search tree.                        *)
Invokes(t) ==
    /\ call[t] = NoCall /\ call'[t] \in CallsMade
    /\ answers'[t] = IF Promise!IsRead(call'[t]) THEN {Promise!Answer(Items, call'[t])} ELSE {}
    /\ Items' = Items /\ UNCHANGED reply /\ call' = [call EXCEPT ![t] = call'[t]]

Acts(t) ==
    /\ Promise!IsUpdate(call[t]) /\ answers[t] = {}
    /\ Items' = Promise!Effect(Items, call[t]) /\ answers'[t] = {Promise!Answer(Items, call[t])}
    /\ UNCHANGED <<call, reply>>

Returns(t) ==
    /\ call[t] /= NoCall /\ answers'[t] = {}
    /\ \E a \in answers[t] : success[t] = IF call[t].op = "rangeQuery" THEN TRUE ELSE a
    /\ Items' = Items /\ reply' = [reply EXCEPT ![t] = success[t]] /\ call' = [call EXCEPT ![t] = NoCall]

LEMMA OwnStep ==
    ASSUME NEW t \in Threads, Ready(t), AnswersOK(t), answers'[t] = Allowed(t), Thread(t)
    PROVE  /\ AnswersOK(t)' /\ RangeOK(t)'
           /\ Unnoticed(t) \/ Invokes(t) \/ Acts(t) \/ Returns(t)
<1>1. CASE Call(t)
  <2>1. call' = [call EXCEPT ![t] = Head(todo[t])] /\ UNCHANGED <<nodes, reply>> /\ call \in [Threads -> Calls \cup {NoCall}]
    BY <1>1 DEF Call, Ready, VarsOK
  <2>2. call' = [call EXCEPT ![t] = call'[t]] /\ Items' = Items
    BY <2>1 DEF Items
  <2> QED BY <1>1, <2>1, <2>2, CallAnswers DEF Invokes
<1>2. CASE Return(t)
  <2>1. call' = [call EXCEPT ![t] = NoCall] /\ reply' = [reply EXCEPT ![t] = success[t]] /\ UNCHANGED nodes
    BY <1>2 DEF Return
  <2>2. Items' = Items
    BY <2>1 DEF Items
  <2> QED BY <1>2, <2>1, <2>2, ReturnAnswers DEF Returns
<1>3. CASE InsertValue(t) /\ Len(BaseTreap(t)) /= TREAP_NODES
  <2>1. UNCHANGED <<call, reply>>
    BY <1>3 DEF InsertValue, callVars
  <2> QED BY <1>3, <2>1, InsertAnswers DEF Acts
<1>4. CASE RemoveValue(t)
  <2>1. UNCHANGED <<call, reply>>
    BY <1>4 DEF RemoveValue, callVars
  <2> QED BY <1>4, <2>1, RemoveAnswers DEF Acts
<1>5. CASE Acquire(t) \/ Lookup(t) \/ CheckNode(t) \/ QueryEnds(t)
  <2>1. UNCHANGED <<call, reply>>
    BY <1>5 DEF Acquire, Lookup, CheckNode, QueryEnds, callVars
  <2> QED BY <1>5, <2>1, AcquireAnswers, LookupAnswers, CheckAnswers, QueryEndsAnswers DEF Unnoticed
<1>6. CASE Request(t) \/ Search(t) \/ Unlock(t) \/ OutOfTreaps(t) \/ MakeNodes(t) \/ SplitLeft(t)
           \/ SplitRight(t) \/ Merge(t) \/ (InsertValue(t) /\ Len(BaseTreap(t)) = TREAP_NODES)
  BY <1>6, OtherAnswers
<1> QED BY <1>1, <1>2, <1>3, <1>4, <1>5, <1>6 DEF Thread

(* Nobody gains an answer that it did not have if the values stay.         *)
LEMMA NothingGained ==
    ASSUME NEW u \in Threads, AnswersOK(u), Items' = Items
    PROVE  Gained(u) = answers[u]
BY DEF Gained, AnswersOK, ReadOK

LEMMA StepKeepsPromise ==
    ASSUME NEW t \in Threads, \A u \in Threads : AnswersOK(u),
           answers = [u \in Threads |-> answers[u]], answers' = [u \in Threads |-> answers'[u]],
           \A u \in Threads \ {t} : answers'[u] = Gained(u),
           Unnoticed(t) \/ Invokes(t) \/ Acts(t) \/ Returns(t)
    PROVE  Promise!Next \/ UNCHANGED Promise!vars
<1>1. ASSUME Items' = Items PROVE \A u \in Threads \ {t} : answers'[u] = answers[u]
  BY <1>1, NothingGained
<1>2. CASE Unnoticed(t)
  <2>1. answers' = answers
    BY <1>1, <1>2 DEF Unnoticed
  <2> QED BY <1>2, <2>1 DEF Unnoticed, Promise!vars
<1>3. CASE Invokes(t)
  <2> DEFINE c == call'[t]
  <2>1. answers' = [answers EXCEPT ![t] = answers'[t]]
    BY <1>1, <1>3 DEF Invokes
  <2>2. Promise!Invoke(t, c) /\ c \in CallsMade
    BY <1>3, <2>1 DEF Invokes, Promise!Invoke
  <2> QED BY <2>2 DEF Promise!Next
<1>4. CASE Acts(t)
  <2>1. answers' = [u \in Threads |->
                      IF u = t THEN {Promise!Answer(Items, call[t])}
                      ELSE IF Promise!IsRead(call[u]) THEN answers[u] \cup {Promise!Answer(Items', call[u])}
                      ELSE answers[u]]
    BY <1>4 DEF Acts, Gained
  <2>2. Promise!TakeEffect(t)
    BY <1>4, <2>1 DEF Acts, Promise!TakeEffect
  <2> QED BY <2>2 DEF Promise!Next
<1>5. CASE Returns(t)
  <2>1. answers' = [answers EXCEPT ![t] = {}]
    BY <1>1, <1>5 DEF Returns
  <2>2. \E a \in answers[t] : reply' = [reply EXCEPT ![t] = IF call[t].op = "rangeQuery" THEN TRUE ELSE a]
    BY <1>5 DEF Returns
  <2>3. Promise!Return(t)
    BY <1>5, <2>1, <2>2 DEF Returns, Promise!Return
  <2> QED BY <2>3 DEF Promise!Next
<1> QED BY <1>2, <1>3, <1>4, <1>5

(* The whole                                                               *)
HInv == LInv /\ Inv /\ HistoryInv /\ answers = [t \in Threads |-> answers[t]]

LEMMA RangesOK == RangeAtomic <=> \A t \in Threads : RangeOK(t)
BY DEF RangeAtomic, RangeOK

LEMMA ThreadKeepsPromise ==
    ASSUME NEW t \in Threads, HInv, Thread(t), answers' = [u \in Threads |-> Allowed(u)]
    PROVE  HistoryInv' /\ (Promise!Next \/ UNCHANGED Promise!vars)
<1>1. LInv /\ Inv /\ TypeOK /\ VarsOK /\ \A u \in Threads : AnswersOK(u) /\ RangeOK(u) /\ LocalOK(u)
  BY RangesOK DEF HInv, HistoryInv, Inv, TypeOK, TreeInv
<1>2. Ready(t)
  <2>1. isPreallocated /\ Heads = {head}
    BY <1>1, ThreadsWereAlive DEF Inv, Heads
  <2> QED BY <1>1, <2>1 DEF Inv, TypeOK, TreeInv, ValuesInPlace, Ready
<1>3. \A u \in Threads : answers'[u] = Allowed(u)
  OBVIOUS
<1>4. AnswersOK(t)' /\ RangeOK(t)' /\ (Unnoticed(t) \/ Invokes(t) \/ Acts(t) \/ Returns(t))
  BY <1>1, <1>2, <1>3, OwnStep
<1>5. ASSUME NEW u \in Threads \ {t} PROVE AnswersOK(u)' /\ RangeOK(u)' /\ answers'[u] = Gained(u)
  <2>1. SameCall(u)
    BY <1>1, OthersSame
  <2>2. pc[u] = "query" => UNCHANGED nodes
    <3>1. pc[u] = "query" => ~InTree(t)
      BY <1>1, RunsAlone DEF CallsRunAlone, InTree
    <3>2. NodesKept(t)
      BY <1>2, ActionKeeps
    <3> QED BY <3>1, <3>2 DEF NodesKept
  <2> QED BY <1>1, <1>3, <2>1, <2>2, StillAnswers
<1>6. HistoryInv'
  BY <1>4, <1>5, RangesOK DEF HistoryInv, RangeAtomic, RangeOK
<1>7. Promise!Next \/ UNCHANGED Promise!vars
  <2>1. answers' = [u \in Threads |-> answers'[u]]
    BY <1>3
  <2> QED BY <1>1, <1>4, <1>5, <2>1, StepKeepsPromise DEF HInv
<1> QED BY <1>6, <1>7

(* The steps in which no thread acts.                                      *)
LEMMA NoCallActs ==
    ASSUME HInv, answers' = [u \in Threads |-> Allowed(u)],
           UNCHANGED <<pc, call, todo, temp, tempParent, made, nodesToCheck, result, success, reply>>,
           UNCHANGED nodes \/ DeleteNode
    PROVE  HistoryInv' /\ ((isPreallocated => Promise!Next) \/ UNCHANGED Promise!vars)
<1>1. \A u \in Threads : AnswersOK(u) /\ RangeOK(u) /\ LocalOK(u) /\ SameCall(u) /\ answers'[u] = Allowed(u)
  BY RangesOK DEF HInv, HistoryInv, Inv, TreeInv, SameCall, SameThread
<1>2. UNCHANGED nodes \/ (~isPreallocated /\ \A u \in Threads : pc[u] = "idle")
  BY DEF DeleteNode, HInv, Inv, TreeInv, AliveOrEnded, AllEnded
<1>3. \A u \in Threads : AnswersOK(u)' /\ RangeOK(u)' /\ answers'[u] = Gained(u)
  BY <1>1, <1>2, StillAnswers
<1>4. HistoryInv'
  BY <1>3 DEF HistoryInv, RangeAtomic, RangeOK
<1>5. CASE UNCHANGED nodes
  <2>1. Items' = Items
    BY <1>5 DEF Items
  <2>2. \A u \in Threads : answers'[u] = answers[u]
    BY <1>1, <1>3, <2>1, NothingGained
  <2>3. answers' = answers
    BY <2>2 DEF HInv
  <2> QED BY <1>4, <2>1, <2>3 DEF Promise!vars
<1> QED BY <1>2, <1>4, <1>5

LEMMA PromiseKept ==
    /\ HInit => HInv /\ Promise!Init
    /\ HInv /\ [HNext]_hvars => HInv' /\ [isPreallocated => Promise!Next]_(Promise!vars)
<1>1. ASSUME HInit PROVE HInv /\ Promise!Init
  <2>1. LInv /\ Inv
    BY <1>1, WholeInductive DEF HInit
  <2>2. /\ answers = [t \in Threads |-> {}] /\ call = [t \in Threads |-> NoCall] /\ todo \in Programs
        /\ \A t \in Threads : pc[t] = "idle" /\ success[t] = TRUE /\ result[t] = <<>>
        /\ reply = [t \in Threads |-> TRUE]
    BY <1>1 DEF HInit, Init
  <2>3. \A t \in Threads : ToSet(todo[t]) \subseteq CallsMade
    BY <2>2 DEF CallsMade
  <2>4. HistoryInv
    BY <2>2, <2>3 DEF HistoryInv, AnswersOK, RangeAtomic, Promise!IsRead, Promise!IsUpdate
  <2>5. Promise!Init
    <3>1. Items \in [Values -> Nat]
      BY <2>1, ItemsHeld DEF Inv, TypeOK
    <3> QED BY <2>2, <3>1 DEF Promise!Init
  <2> QED BY <2>1, <2>2, <2>4, <2>5 DEF HInv
<1>2. ASSUME HInv, [HNext]_hvars PROVE HInv' /\ [isPreallocated => Promise!Next]_(Promise!vars)
  <2>1. [Next]_vars
    BY <1>2 DEF HNext, hvars
  <2>2. LInv' /\ Inv'
    BY <1>2, <2>1, WholeInductive DEF HInv
  <2>3. answers' = [t \in Threads |-> answers'[t]]
    BY <1>2 DEF HNext, hvars, HInv
  <2>4. HistoryInv' /\ ((isPreallocated => Promise!Next) \/ UNCHANGED Promise!vars)
    <3>1. CASE HNext
      <4>1. answers' = [t \in Threads |-> Allowed(t)] /\ Next
        BY <3>1 DEF HNext
      <4>2. ASSUME NEW t \in Threads, Thread(t) PROVE HistoryInv' /\ (Promise!Next \/ UNCHANGED Promise!vars)
        BY <1>2, <4>1, <4>2, ThreadKeepsPromise
      <4>3. CASE Deallocate \/ DeleteNode \/ UNCHANGED vars
        <5>1. /\ UNCHANGED <<pc, call, todo, temp, tempParent, made, nodesToCheck, result, success, reply>>
              /\ UNCHANGED nodes \/ DeleteNode
          BY <4>3 DEF Deallocate, DeleteNode, vars, callVars, walkVars, queryVars
        <5> QED BY <1>2, <4>1, <5>1, NoCallActs
      <4> QED BY <4>1, <4>2, <4>3 DEF Next, Spin, Stopped
    <3>2. CASE UNCHANGED hvars
      <4>1. /\ UNCHANGED <<nodes, pc, call, todo, temp, tempParent, made, nodesToCheck, result, success, reply>>
            /\ answers' = answers /\ Items' = Items
        BY <3>2 DEF hvars, vars, callVars, walkVars, queryVars, Items
      <4>2. ASSUME NEW u \in Threads PROVE Allowed(u) = answers[u]
        BY <1>2, <4>1 DEF HInv, HistoryInv, Allowed, AnswersOK, ReadOK, Promise!IsRead
      <4>3. answers' = [u \in Threads |-> Allowed(u)]
        BY <1>2, <4>1, <4>2 DEF HInv
      <4> QED BY <1>2, <4>1, <4>3, NoCallActs
    <3> QED BY <1>2, <3>1, <3>2
  <2> QED BY <2>2, <2>3, <2>4 DEF HInv
<1> QED BY <1>1, <1>2

(* rangeQuery of MrlockTree (mrlocktree.cpp:150-182) returns each value in *)
(* its range as often as the tree held it at one moment of the query, for  *)
(* any tree, bounds and other calls: the walk leaves out no base that has  *)
(* such values, and comes to none twice.                                   *)
THEOREM QueriesAreAtomic == HSpec => []RangeAtomic
<1>1. HInv => RangeAtomic
  BY DEF HInv, HistoryInv
<1> QED BY <1>1, PromiseKept, PTL DEF HSpec

(* MrlockTree implements SearchTree: each insert, remove and lookup        *)
(* (mrlocktree.cpp:49-148) acts in one step between its call and its       *)
(* return, and answers what was right in that step; splits, merges and     *)
(* calls that throw change nothing that a call could find.                 *)
THEOREM TreeKeepsPromise == HSpec => Linearizable
BY PromiseKept, PTL DEF HSpec, Linearizable
-----------------------------------------------------------------------------
(* The treaps                                                              *)
(*                                                                         *)
(* No two calls of New get the same element, for any number of threads and *)
(* elements: the reason why a tree may take a pointer for what it was when *)
(* it was read, and a treap for its contents.  This is about Preallocatable*)
(* alone, whatever calls it.                                               *)

VARIABLES
    given,      \* the indices handed out since the last Preallocate
    takes       \* how often New has been called since then

poolHVars == <<poolVars, given, takes>>

PoolInit == Treaps!Init /\ given = {} /\ takes = 0
PoolNext ==
    \/ /\ \E numElements \in 0 .. INT_MAX : Treaps!Preallocate(numElements)
       /\ given' = {} /\ takes' = 0
    \/ Treaps!Deallocate /\ UNCHANGED <<given, takes>>
    \/ Treaps!New /\ given' = given \cup {currentElementIndex} /\ takes' = takes + 1
    \/ Treaps!NewThrows /\ given' = given /\ takes' = takes + 1
PoolSpec == PoolInit /\ [][PoolNext]_poolHVars

(* What New takes is in the array, and nobody has got it before.           *)
IsNewElement ==
    currentElementIndex \in 0 .. numPreallocated - 1 /\ currentElementIndex \notin given

(* Until it wraps, the index counts the calls.                             *)
PoolInv ==
    /\ numPreallocated \in 0 .. INT_MAX
    /\ currentElementIndex \in Int /\ takes \in Nat
    /\ takes <= INT_MAX => currentElementIndex = takes /\ \A i \in given : i \in Int /\ i < takes

LEMMA StepKeepsPool == PoolInv /\ [PoolNext]_poolHVars => PoolInv'
<1> SUFFICES ASSUME PoolInv, [PoolNext]_poolHVars PROVE PoolInv'
  OBVIOUS
<1> USE PreallocationAssumption DEF PoolInv
<1>1. ASSUME NEW numElements \in 0 .. INT_MAX, Treaps!Preallocate(numElements), given' = {}, takes' = 0
      PROVE PoolInv'
  BY <1>1 DEF Treaps!Preallocate
<1>2. CASE Treaps!Deallocate /\ UNCHANGED <<given, takes>>
  BY <1>2 DEF Treaps!Deallocate
<1>3. CASE Treaps!New /\ given' = given \cup {currentElementIndex} /\ takes' = takes + 1
  BY <1>3 DEF Treaps!New, Treaps!Successor
<1>4. CASE Treaps!NewThrows /\ given' = given /\ takes' = takes + 1
  BY <1>4 DEF Treaps!NewThrows, Treaps!Successor
<1>5. CASE UNCHANGED poolHVars
  BY <1>5 DEF poolHVars, poolVars
<1> QED BY <1>1, <1>2, <1>3, <1>4, <1>5 DEF PoolNext

(* New (preallocatable.h:71-87) never hands out an element twice, nor one  *)
(* outside of the array, unless it has been called more than INT_MAX times *)
(* since Preallocate.                                                      *)
THEOREM ElementsAreDistinct ==
    PoolSpec => [][Treaps!New /\ takes <= INT_MAX => IsNewElement]_poolHVars
<1>1. PoolInit => PoolInv
  BY PreallocationAssumption DEF PoolInit, Treaps!Init, PoolInv
<1>2. PoolInv /\ [PoolNext]_poolHVars => [Treaps!New /\ takes <= INT_MAX => IsNewElement]_poolHVars
  BY PreallocationAssumption DEF PoolInv, Treaps!New, Treaps!HasNext, IsNewElement
<1>3. PoolInv /\ [PoolNext]_poolHVars => PoolInv'
  BY StepKeepsPool
<1> QED BY <1>1, <1>2, <1>3, PTL DEF PoolSpec
=============================================================================
