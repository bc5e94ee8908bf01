---------------------------- MODULE MRLock_proofs ----------------------------
(***************************************************************************)
(* As long as threads are timely, MRLock is a lock that grants conflicting *)
(* requests in their order, for any threads, resources, sizes of the       *)
(* buffer and numbers of requests.  The proof is about the positions       *)
(* behind the indices: a step of a thread changes its own positions, what  *)
(* is in the cell of one position, or the position of the tail or head.    *)
(***************************************************************************)
EXTENDS MRLockInvariant, TLAPS

-----------------------------------------------------------------------------
(* Indices and cells                                                       *)

LEMMA DivMod ==
    ASSUME NEW n \in Nat \ {0}, NEW i \in Int
    PROVE  i \div n \in Int /\ i % n \in 0 .. n - 1 /\ i = n * (i \div n) + (i % n)
OBVIOUS

LEMMA ModOfSum ==
    ASSUME NEW n \in Nat \ {0}, NEW q \in Int, NEW r \in 0 .. n - 1
    PROVE  (n * q + r) % n = r
OBVIOUS

LEMMA ModApart ==
    ASSUME NEW n \in Nat \ {0}, NEW i \in Int, NEW j \in Int, i % n = j % n, i - j < n, j - i < n
    PROVE  i = j
<1> DEFINE q == (i \div n) - (j \div n)
<1>1. i = n * (i \div n) + (i % n) /\ j = n * (j \div n) + (j % n)
      /\ i \div n \in Int /\ j \div n \in Int
  BY DivMod
<1>2. i - j = n * (i \div n) - n * (j \div n)
  BY <1>1
<1>3. q \in Int /\ i - j = n * q
  BY <1>1, <1>2
<1> HIDE DEF q
<1>4. q < 1 /\ q > -1
  BY <1>3
<1> QED BY <1>3, <1>4

LEMMA ModOfMultiple ==
    ASSUME NEW n \in Nat \ {0}, NEW i \in Int, NEW k \in Int
    PROVE  (i + n * k) % n = i % n
<1> DEFINE q == (i \div n) + k
           r == i % n
<1>1. q \in Int /\ r \in 0 .. n - 1 /\ i + n * k = n * q + r
  <2>1. i = n * (i \div n) + (i % n) /\ i \div n \in Int /\ i % n \in 0 .. n - 1
    BY DivMod
  <2> QED BY <2>1
<1> HIDE DEF q, r
<1>2. (i + n * k) % n = r
  BY <1>1, ModOfSum
<1> QED BY <1>2 DEF r

LEMMA Sizes ==
    /\ BUFFER_SIZE \in Nat /\ INDICES \in Nat /\ INDICES \div 2 \in Nat
    /\ BUFFER_SIZE >= 2 /\ INDICES >= 2 * BUFFER_SIZE
    /\ INDICES \div 2 >= BUFFER_SIZE /\ INDICES >= 2 * (INDICES \div 2)
<1>1. BUFFER_SIZE \in Nat \ {0, 1} /\ INDICES \in Nat /\ INDICES > BUFFER_SIZE
      /\ INDICES % BUFFER_SIZE = 0
  BY BufferAssumption, IndexAssumption
<1> DEFINE k == INDICES \div BUFFER_SIZE
<1>2. k \in Int /\ INDICES = BUFFER_SIZE * k
  BY <1>1, DivMod
<1> HIDE DEF k
<1>3. k > 1
  BY <1>1, <1>2
<1>4. INDICES >= 2 * BUFFER_SIZE
  BY <1>1, <1>2, <1>3
<1> QED BY <1>1, <1>4

LEMMA CellIs ==
    ASSUME NEW i \in Int
    PROVE  /\ Cell(i) \in 0 .. BUFFER_SIZE - 1
           /\ Cell(Index(i)) = Cell(i) /\ Cell(i + BUFFER_SIZE) = Cell(i)
<1>1. BUFFER_SIZE \in Nat \ {0} /\ INDICES \in Nat \ {0} /\ INDICES % BUFFER_SIZE = 0
  BY BufferAssumption, IndexAssumption
<1>2. Cell(i) \in 0 .. BUFFER_SIZE - 1
  BY <1>1, DivMod DEF Cell
<1>3. Cell(Index(i)) = Cell(i)
  <2> DEFINE m == INDICES \div BUFFER_SIZE
             d == i \div INDICES
             k == 0 - m * d
  <2>1. m \in Int /\ INDICES = BUFFER_SIZE * m
    BY <1>1, DivMod
  <2>2. d \in Int /\ i % INDICES \in Int /\ i = INDICES * d + (i % INDICES)
    BY <1>1, DivMod
  <2> HIDE DEF m, d
  <2>3. k \in Int /\ i % INDICES = i + BUFFER_SIZE * k
    BY <1>1, <2>1, <2>2
  <2> HIDE DEF k
  <2> QED BY <1>1, <2>3, ModOfMultiple DEF Cell, Index
<1>4. Cell(i + BUFFER_SIZE) = Cell(i)
  <2> DEFINE one == 1
  <2>1. one \in Int /\ i + BUFFER_SIZE = i + BUFFER_SIZE * one
    BY <1>1
  <2> HIDE DEF one
  <2>2. (i + BUFFER_SIZE * one) % BUFFER_SIZE = i % BUFFER_SIZE
    BY <1>1, <2>1, ModOfMultiple
  <2> QED BY <1>1, <2>1, <2>2 DEF Cell
<1> QED BY <1>2, <1>3, <1>4

LEMMA CellsApart ==
    ASSUME NEW i \in Int, NEW j \in Int, Cell(i) = Cell(j),
           i - j < BUFFER_SIZE, j - i < BUFFER_SIZE
    PROVE  i = j
BY BufferAssumption, ModApart DEF Cell

LEMMA IndexApart ==
    ASSUME NEW i \in Int, NEW j \in Int, Index(i) = Index(j), i - j < INDICES, j - i < INDICES
    PROVE  i = j
<1>1. INDICES \in Nat \ {0} /\ i % INDICES = j % INDICES
  BY BufferAssumption, IndexAssumption DEF Index
<1> QED BY <1>1, ModApart

LEMMA IndexIs ==
    ASSUME NEW i \in Int, NEW n \in Int
    PROVE  Index(i) \in 0 .. INDICES - 1 /\ Plus(Index(i), n) = Index(i + n)
<1>1. INDICES \in Nat \ {0}
  BY BufferAssumption, IndexAssumption
<1> DEFINE k == 0 - (i \div INDICES)
<1>2. i % INDICES \in 0 .. INDICES - 1 /\ k \in Int
      /\ (i % INDICES) + n = (i + n) + INDICES * k
  BY <1>1, DivMod
<1> DEFINE m == i + n
<1>3. m \in Int
  OBVIOUS
<1> HIDE DEF k, m
<1>4. (m + INDICES * k) % INDICES = m % INDICES
  BY <1>1, <1>2, <1>3, ModOfMultiple
<1> QED BY <1>2, <1>4 DEF Index, Plus, m

LEMMA MinusIs ==
    ASSUME NEW i \in Int, NEW j \in Int
    PROVE  /\ 0 <= i - j /\ i - j < INDICES => Minus(Index(i), Index(j)) = i - j
           /\ 0 < j - i /\ j - i <= INDICES => Minus(Index(i), Index(j)) = (i - j) + INDICES
<1>1. INDICES \in Nat \ {0}
  BY BufferAssumption, IndexAssumption
<1> DEFINE k == (j \div INDICES) - (i \div INDICES)
<1>2. k \in Int /\ (i % INDICES) - (j % INDICES) = (i - j) + INDICES * k
  <2>1. i = INDICES * (i \div INDICES) + (i % INDICES) /\ j = INDICES * (j \div INDICES) + (j % INDICES)
        /\ i \div INDICES \in Int /\ j \div INDICES \in Int
        /\ i % INDICES \in Int /\ j % INDICES \in Int
    BY <1>1, DivMod
  <2> QED BY <1>1, <2>1
<1> DEFINE d == i - j
<1>3. d \in Int
  OBVIOUS
<1> HIDE DEF k, d
<1>4. (d + INDICES * k) % INDICES = d % INDICES
  BY <1>1, <1>2, <1>3, ModOfMultiple
<1>5. Minus(Index(i), Index(j)) = (i - j) % INDICES
  BY <1>2, <1>4 DEF Index, Minus, d
<1>6. CASE 0 <= i - j /\ i - j < INDICES
  <2>1. (INDICES * 0 + (i - j)) % INDICES = i - j
    BY <1>1, <1>6, ModOfSum
  <2> QED BY <1>1, <1>5, <1>6, <2>1
<1>7. CASE 0 < j - i /\ j - i <= INDICES
  <2>1. (INDICES * (-1) + ((i - j) + INDICES)) % INDICES = (i - j) + INDICES
    BY <1>1, <1>7, ModOfSum
  <2>2. INDICES * (-1) + ((i - j) + INDICES) = i - j
    BY <1>1
  <2> QED BY <1>1, <1>5, <1>7, <2>1, <2>2
<1> QED BY <1>5, <1>6, <1>7

LEMMA WindowCells ==
    ASSUME NEW T \in Int, NEW p \in T - BUFFER_SIZE .. T - 1, NEW q \in T - BUFFER_SIZE .. T - 1,
           p /= q
    PROVE  Cell(p) /= Cell(q)
BY Sizes, CellsApart

-----------------------------------------------------------------------------
(* Types                                                                   *)

LEMMA TypedSteps == Typed /\ [Next]_vars => Typed'
<1> SUFFICES ASSUME Typed, [Next]_vars PROVE Typed'
  OBVIOUS
<1>1. /\ BUFFER_SIZE \in Int
      /\ \A i, n \in Int : Plus(i, n) \in Int
      /\ Resources \in SUBSET Resources /\ {} \in SUBSET Resources
  <2>1. \A i, n \in Int : (i + n) % INDICES \in Int
    BY BufferAssumption, IndexAssumption
  <2> QED BY <2>1, BufferAssumption DEF Plus
<1>2. \A t \in Threads : /\ pos[t] \in Int /\ cur[t] \in Int
                         /\ Plus(pos[t], 1) \in Int /\ Plus(cur[t], 1) \in Int
                         /\ Plus(cur[t], BUFFER_SIZE) \in Int
  BY <1>1 DEF Typed
(* What a call changes besides pc.                                         *)
<1> DEFINE Rest ==
        /\ sequence' \in [0 .. BUFFER_SIZE - 1 -> Int]
        /\ bits' \in [0 .. BUFFER_SIZE - 1 -> SUBSET Resources]
        /\ head' \in Int /\ tail' \in Int
        /\ pos' \in [Threads -> Int] /\ cur' \in [Threads -> Int]
<1> DEFINE Step(t) == (\E l \in Labels \ {"idle"} : pc' = [pc EXCEPT ![t] = l])
                      \/ pc' = [pc EXCEPT ![t] = "idle"] \/ pc' = pc
<1>3. ASSUME NEW t \in Threads, Rest, Step(t), pc[t] /= "idle" /\ UNCHANGED <<resources, todo>>
      PROVE  Typed'
  <2>1. pc' \in [Threads -> Labels] /\ \A u \in Threads : u /= t => pc'[u] = pc[u]
    BY SMTT(30), <1>3 DEF Typed, Labels
  <2>2. \A u \in Threads : pc'[u] /= "idle" => resources'[u] /= {}
    BY <1>3, <2>1 DEF Typed
  <2> QED BY <1>3, <2>1, <2>2 DEF Typed
<1>4. ASSUME NEW t \in Threads, Call(t) PROVE Typed'
  <2>1. todo[t] \in Seq((SUBSET Resources) \ {{}}) /\ todo[t] /= <<>>
    BY <1>4 DEF Call, Typed
  <2>2. Head(todo[t]) \in (SUBSET Resources) \ {{}} /\ Tail(todo[t]) \in Seq((SUBSET Resources) \ {{}})
    BY <2>1
  <2>3. UNCHANGED <<sequence, bits, head, tail, pos, cur>>
    BY <1>4 DEF Call, cells
  <2>4. resources' = [resources EXCEPT ![t] = Head(todo[t])] /\ todo' = [todo EXCEPT ![t] = Tail(todo[t])]
        /\ pc' = [pc EXCEPT ![t] = "loadTail"]
    BY <1>4 DEF Call, Goto
  <2>5. resources' \in [Threads -> SUBSET Resources] /\ todo' \in [Threads -> Seq((SUBSET Resources) \ {{}})]
    BY <2>2, <2>4 DEF Typed
  <2>6. \A u \in Threads : pc'[u] /= "idle" => resources'[u] /= {}
    BY <2>2, <2>4 DEF Typed
  <2>7. pc' \in [Threads -> Labels]
    BY <2>4 DEF Typed, Labels
  <2> QED BY <2>3, <2>5, <2>6, <2>7 DEF Typed
<1> USE DEF Goto, cells, Labels
<1>5. ASSUME NEW t \in Threads, LoadTail(t) \/ CheckFree(t) \/ Enqueue(t) \/ EnqueueFails(t) PROVE Typed'
  <2>1. Rest
    BY ZenonT(40), <1>1, <1>2, <1>5 DEF LoadTail, CheckFree, Enqueue, EnqueueFails, Typed
  <2>2. Step(t) /\ pc[t] /= "idle" /\ UNCHANGED <<resources, todo>>
    BY <1>5 DEF LoadTail, CheckFree, Enqueue, EnqueueFails
  <2> QED BY <1>3, <2>1, <2>2
<1>6. ASSUME NEW t \in Threads, SetBits(t) \/ SetSequence(t) \/ LoadHead(t) PROVE Typed'
  <2>1. Rest
    <3>1. CASE SetBits(t)
      BY <3>1 DEF SetBits, Typed
    <3>2. CASE SetSequence(t)
      BY <3>2, <1>2 DEF SetSequence, Typed
    <3> QED BY <1>6, <3>1, <3>2 DEF LoadHead, Typed
  <2>2. Step(t) /\ pc[t] /= "idle" /\ UNCHANGED <<resources, todo>>
    BY <1>6 DEF SetBits, SetSequence, LoadHead
  <2> QED BY <1>3, <2>1, <2>2
<1>7. ASSUME NEW t \in Threads, Acquire(t) \/ SpinSequence(t) \/ SpinBits(t) PROVE Typed'
  <2>1. Rest
    BY <1>1, <1>2, <1>7 DEF Acquire, SpinSequence, SpinBits, Typed
  <2>2. Step(t) /\ pc[t] /= "idle" /\ UNCHANGED <<resources, todo>>
    BY <1>7 DEF Acquire, SpinSequence, SpinBits
  <2> QED BY <1>3, <2>1, <2>2
<1>8. ASSUME NEW t \in Threads, Release(t) \/ ReloadHead(t) \/ CheckBits(t) \/ CheckSequence(t) PROVE Typed'
  <2>1. Rest
    BY ZenonT(40), <1>1, <1>2, <1>8 DEF Release, ReloadHead, CheckBits, CheckSequence, Typed
  <2>2. Step(t) /\ pc[t] /= "idle" /\ UNCHANGED <<resources, todo>>
    BY <1>8 DEF Release, ReloadHead, CheckBits, CheckSequence
  <2> QED BY <1>3, <2>1, <2>2
<1>9. ASSUME NEW t \in Threads, Dequeue(t) \/ DequeueFails(t) \/ ResetBits(t) \/ Free(t) PROVE Typed'
  <2>1. Rest
    <3>1. CASE Dequeue(t) \/ DequeueFails(t)
      BY <3>1, <1>2 DEF Dequeue, DequeueFails, Typed
    <3>2. CASE ResetBits(t)
      BY <3>2, <1>1 DEF ResetBits, AllOnes, Typed
    <3>3. CASE Free(t)
      BY <3>3, <1>2 DEF Free, Typed
    <3> QED BY <1>9, <3>1, <3>2, <3>3
  <2>2. Step(t) /\ pc[t] /= "idle" /\ UNCHANGED <<resources, todo>>
    BY <1>9 DEF Dequeue, DequeueFails, ResetBits, Free
  <2> QED BY <1>3, <2>1, <2>2
<1>10. CASE UNCHANGED vars
  BY <1>10 DEF vars, Typed
<1> QED BY <1>4, <1>5, <1>6, <1>7, <1>8, <1>9, <1>10 DEF Next, Thread, Finished

-----------------------------------------------------------------------------
(* Steps of one thread that change no shared memory                        *)

LEMMA QueuedIs ==
    ASSUME NEW t \in Threads
    PROVE  /\ t \in Queued <=> pc[t] \in {"setBits", "setSequence", "loadHead", "spin", "spinBits", "locked"}
           /\ t \in Dequeuing <=> pc[t] \in {"resetBits", "free"}
BY DEF Queued, Waiting, Holding, Dequeuing

LEMMA QueuedIsPrimed ==
    ASSUME NEW t \in Threads
    PROVE  /\ t \in Queued' <=> pc'[t] \in {"setBits", "setSequence", "loadHead", "spin", "spinBits", "locked"}
           /\ t \in Dequeuing' <=> pc'[t] \in {"resetBits", "free"}
BY DEF Queued, Waiting, Holding, Dequeuing

LEMMA QueuedAreThreads ==
    Queued \subseteq Threads /\ Queued' \subseteq Threads /\ Dequeuing \subseteq Threads /\ Dequeuing' \subseteq Threads
BY DEF Queued, Waiting, Holding, Dequeuing

(* Who is in the queue, or dequeues, stays there with its position and its *)
(* request.                                                                *)
LEMMA LocalStep ==
    ASSUME NEW H \in Int, NEW T \in Int,
           NEW P \in [Threads -> Int], NEW C \in [Threads -> Int],
           NEW P2 \in [Threads -> Int], NEW C2 \in [Threads -> Int],
           Places(H, T, P, C), NEW t \in Threads,
           UNCHANGED <<sequence, bits, head, tail>>,
           \A u \in Threads \ {t} :
               /\ pc'[u] = pc[u] /\ resources'[u] = resources[u]
               /\ pos'[u] = pos[u] /\ cur'[u] = cur[u]
               /\ P2[u] = P[u] /\ C2[u] = C[u],
           pos'[t] = Index(P2[t]) /\ cur'[t] = Index(C2[t]),
           \/ t \notin Queued /\ t \notin Queued'
           \/ /\ t \in Queued /\ t \in Queued'
              /\ pc[t] \notin {"setBits", "setSequence"} /\ pc'[t] \notin {"setBits", "setSequence"}
              /\ P2[t] = P[t] /\ resources'[t] = resources[t],
           t \notin Dequeuing /\ t \notin Dequeuing',
           TailSeen(t, T, P2)' /\ HeadSeen(t, H, T, C2)' /\ PassedBy(t, P2, C2)'
    PROVE  Places(H, T, P2, C2)'
<1>1. /\ \A u \in Threads : u \in Queued' <=> u \in Queued
      /\ \A u \in Threads : u \in Dequeuing' <=> u \in Dequeuing
      /\ \A u \in Queued : pc[u] \in {"setBits", "setSequence"} \/ pc'[u] \in {"setBits", "setSequence"} => pc'[u] = pc[u]
      /\ \A u \in Queued : P2[u] = P[u] /\ resources'[u] = resources[u]
      /\ \A u \in Dequeuing : C2[u] = C[u] /\ pc'[u] = pc[u]
  BY QueuedIs, QueuedIsPrimed, QueuedAreThreads
<1>2. Queued' = Queued /\ Dequeuing' = Dequeuing
  BY <1>1, QueuedAreThreads
<1>3. InWindow(H, T)' /\ HasPositions(P2, C2)'
  BY DEF Places, InWindow, HasPositions
<1>4. RequestsInCells(H, T, P2)'
  BY <1>1, <1>2 DEF Places, RequestsInCells, AllOnes
<1>5. RequestsApart(P2)' /\ DequeuersApart(C2)'
  BY <1>1, <1>2 DEF Places, RequestsApart, DequeuersApart
<1>6. DequeuedCells(H, T, C2)'
  BY <1>1, <1>2 DEF Places, DequeuedCells, AllOnes
<1>7. CellsAccounted(H, T, P2, C2)'
  BY <1>1, <1>2 DEF Places, CellsAccounted, AllOnes
<1>8. ASSUME NEW u \in Threads PROVE (TailSeen(u, T, P2) /\ HeadSeen(u, H, T, C2) /\ PassedBy(u, P2, C2))'
  <2>1. CASE u = t
    BY <2>1
  <2>2. CASE u /= t
    <3>1. TailSeen(u, T, P2)' /\ HeadSeen(u, H, T, C2)'
      BY <2>2 DEF Places, TailSeen, HeadSeen
    <3>2. PassedBy(u, P2, C2)'
      BY <2>2, <1>1, <1>2 DEF Places, PassedBy
    <3> QED BY <3>1, <3>2
  <2> QED BY <2>1, <2>2
<1> QED BY <1>3, <1>4, <1>5, <1>6, <1>7, <1>8 DEF Places

(* Calls, and loops that start again.                                      *)
LEMMA CallKeeps ==
    ASSUME Typed, NEW H \in Int, NEW T \in Int,
           NEW P \in [Threads -> Int], NEW C \in [Threads -> Int],
           Places(H, T, P, C), NEW t \in Threads, Call(t) \/ EnqueueFails(t) \/ DequeueFails(t)
    PROVE  Places(H, T, P, C)'
<1>1. /\ UNCHANGED <<sequence, bits, head, tail, pos, cur>>
      /\ \A u \in Threads \ {t} : pc'[u] = pc[u] /\ resources'[u] = resources[u]
      /\ pc[t] \in {"idle", "casTail", "casHead"} /\ pc'[t] \in {"loadTail", "reloadHead"}
  BY DEF Call, EnqueueFails, DequeueFails, Goto, cells, Typed
<1>2. TailSeen(t, T, P)' /\ HeadSeen(t, H, T, C)' /\ PassedBy(t, P, C)'
  BY <1>1 DEF TailSeen, HeadSeen, PassedBy
<1>3. pos'[t] = Index(P[t]) /\ cur'[t] = Index(C[t])
  BY <1>1 DEF Places, HasPositions
<1>4. t \notin Queued /\ t \notin Queued' /\ t \notin Dequeuing /\ t \notin Dequeuing'
  BY <1>1, QueuedIs, QueuedIsPrimed
<1> QED BY <1>1, <1>2, <1>3, <1>4, LocalStep

LEMMA LoadTailKeeps ==
    ASSUME Typed, NEW H \in Int, NEW T \in Int,
           NEW P \in [Threads -> Int], NEW C \in [Threads -> Int],
           Places(H, T, P, C), NEW t \in Threads, LoadTail(t)
    PROVE  Places(H, T, [P EXCEPT ![t] = T], C)'
<1> DEFINE P2 == [P EXCEPT ![t] = T]
<1>1. /\ UNCHANGED <<sequence, bits, head, tail, cur>>
      /\ \A u \in Threads \ {t} : pc'[u] = pc[u] /\ resources'[u] = resources[u] /\ pos'[u] = pos[u]
      /\ pc[t] = "loadTail" /\ pc'[t] = "checkFree" /\ pos'[t] = tail
  BY DEF LoadTail, Goto, cells, Typed
<1>2. P2 \in [Threads -> Int] /\ P2[t] = T /\ \A u \in Threads \ {t} : P2[u] = P[u]
  OBVIOUS
<1> HIDE DEF P2
<1>3. pos'[t] = Index(P2[t]) /\ cur'[t] = Index(C[t])
  BY <1>1, <1>2 DEF Places, HasPositions, InWindow
<1>4. TailSeen(t, T, P2)' /\ HeadSeen(t, H, T, C)' /\ PassedBy(t, P2, C)'
  BY <1>1, <1>2, Sizes DEF TailSeen, HeadSeen, PassedBy
<1>5. t \notin Queued /\ t \notin Queued' /\ t \notin Dequeuing /\ t \notin Dequeuing'
  BY <1>1, QueuedIs, QueuedIsPrimed
<1>6. \A u \in Threads \ {t} :
          /\ pc'[u] = pc[u] /\ resources'[u] = resources[u]
          /\ pos'[u] = pos[u] /\ cur'[u] = cur[u]
          /\ P2[u] = P[u] /\ C[u] = C[u]
  BY <1>1, <1>2
<1>7. Places(H, T, P2, C)'
  BY <1>1, <1>2, <1>3, <1>4, <1>5, <1>6, LocalStep
<1> QED BY <1>7 DEF P2

LEMMA CheckFreeKeeps ==
    ASSUME Typed, NEW H \in Int, NEW T \in Int,
           NEW P \in [Threads -> Int], NEW C \in [Threads -> Int],
           Places(H, T, P, C), NEW t \in Threads, CheckFree(t)
    PROVE  Places(H, T, P, C)'
<1>1. /\ UNCHANGED <<sequence, bits, head, tail, pos, cur>>
      /\ \A u \in Threads \ {t} : pc'[u] = pc[u] /\ resources'[u] = resources[u]
      /\ pc[t] = "checkFree" /\ pc'[t] \in {"casTail", "loadTail"}
      /\ pc'[t] = "casTail" => sequence[Cell(pos[t])] = pos[t]
  BY DEF CheckFree, Goto, cells, Typed
<1>2. pos'[t] = Index(P[t]) /\ cur'[t] = Index(C[t])
  BY <1>1 DEF Places, HasPositions
<1>3. Cell(pos[t]) = Cell(P[t]) /\ pos[t] = Index(P[t])
  BY <1>1, <1>2, CellIs
<1>4. TailSeen(t, T, P)'
  BY <1>1, <1>3 DEF Places, TailSeen
<1>5. HeadSeen(t, H, T, C)' /\ PassedBy(t, P, C)'
  BY <1>1 DEF HeadSeen, PassedBy
<1>6. t \notin Queued /\ t \notin Queued' /\ t \notin Dequeuing /\ t \notin Dequeuing'
  BY <1>1, QueuedIs, QueuedIsPrimed
<1> QED BY <1>1, <1>2, <1>4, <1>5, <1>6, LocalStep

LEMMA LoadHeadKeeps ==
    ASSUME Typed, NEW H \in Int, NEW T \in Int,
           NEW P \in [Threads -> Int], NEW C \in [Threads -> Int],
           Places(H, T, P, C), NEW t \in Threads, LoadHead(t) \/ ReloadHead(t)
    PROVE  Places(H, T, P, [C EXCEPT ![t] = H])'
<1> DEFINE C2 == [C EXCEPT ![t] = H]
<1>1. /\ UNCHANGED <<sequence, bits, head, tail, pos>>
      /\ \A u \in Threads \ {t} : pc'[u] = pc[u] /\ cur'[u] = cur[u]
      /\ UNCHANGED resources
      /\ \/ pc[t] = "loadHead" /\ pc'[t] = "spin"
         \/ pc[t] = "reloadHead" /\ pc'[t] = "checkBits"
      /\ cur'[t] = head
  BY DEF LoadHead, ReloadHead, Goto, cells, Typed
<1>2. C2 \in [Threads -> Int] /\ C2[t] = H /\ \A u \in Threads \ {t} : C2[u] = C[u]
  OBVIOUS
<1> HIDE DEF C2
<1>3. pos'[t] = Index(P[t]) /\ cur'[t] = Index(C2[t])
  BY <1>1, <1>2 DEF Places, HasPositions, InWindow
<1>4. TailSeen(t, T, P)' /\ HeadSeen(t, H, T, C2)'
  BY <1>1, <1>2, Sizes DEF TailSeen, HeadSeen
<1>5. PassedBy(t, P, C2)'
  <2>1. \A u \in Queued' : u \in Queued
    BY <1>1, QueuedIs, QueuedIsPrimed, QueuedAreThreads
  <2>2. pc[t] = "loadHead" => H <= P[t] /\ P[t] < H + BUFFER_SIZE
    BY QueuedIs, Sizes DEF Places, RequestsInCells, InWindow
  <2>3. \A u \in Queued' : ~ (P[u] < H)
    BY <2>1, QueuedAreThreads DEF Places, RequestsInCells
  <2> QED BY <1>1, <1>2, <2>2, <2>3 DEF PassedBy
<1>6. /\ t \notin Dequeuing /\ t \notin Dequeuing'
      /\ \/ t \notin Queued /\ t \notin Queued'
         \/ /\ t \in Queued /\ t \in Queued'
            /\ pc[t] \notin {"setBits", "setSequence"} /\ pc'[t] \notin {"setBits", "setSequence"}
  BY <1>1, QueuedIs, QueuedIsPrimed
<1>7. \A u \in Threads \ {t} :
          /\ pc'[u] = pc[u] /\ resources'[u] = resources[u]
          /\ pos'[u] = pos[u] /\ cur'[u] = cur[u]
          /\ P[u] = P[u] /\ C2[u] = C[u]
  BY <1>1, <1>2
<1>8. Places(H, T, P, C2)'
  BY <1>1, <1>2, <1>3, <1>4, <1>5, <1>6, <1>7, LocalStep
<1> QED BY <1>8 DEF C2

(* What holds of a request in the queue and of its cell.                   *)
LEMMA OfQueued ==
    ASSUME Typed, NEW H \in Int, NEW T \in Int,
           NEW P \in [Threads -> Int], NEW C \in [Threads -> Int],
           Places(H, T, P, C), NEW u \in Queued
    PROVE  /\ u \in Threads /\ resources[u] /= {} /\ resources[u] \subseteq Resources
           /\ H <= P[u] /\ P[u] < T /\ P[u] \in T - BUFFER_SIZE .. T - 1
           /\ sequence[Cell(P[u])] \in {Index(P[u]), Index(P[u] + 1)}
           /\ bits[Cell(P[u])] \in {Resources, resources[u]} /\ bits[Cell(P[u])] /= {}
           /\ resources[u] \subseteq bits[Cell(P[u])]
<1>1. u \in Threads /\ pc[u] /= "idle"
  BY QueuedIs, QueuedAreThreads
<1>2. resources[u] /= {} /\ resources[u] \subseteq Resources
  BY <1>1 DEF Typed
<1>3. H <= P[u] /\ P[u] < T /\ P[u] \in T - BUFFER_SIZE .. T - 1
  BY <1>1, Sizes DEF Places, RequestsInCells, InWindow
<1>4. sequence[Cell(P[u])] \in {Index(P[u]), Index(P[u] + 1)}
      /\ bits[Cell(P[u])] \in {Resources, resources[u]}
  BY <1>1 DEF Places, RequestsInCells, AllOnes
<1> QED BY <1>1, <1>2, <1>3, <1>4

LEMMA AcquireKeeps ==
    ASSUME Typed, NEW H \in Int, NEW T \in Int,
           NEW P \in [Threads -> Int], NEW C \in [Threads -> Int],
           Places(H, T, P, C), NEW t \in Threads, Acquire(t)
    PROVE  Places(H, T, P, C)'
<1>1. /\ UNCHANGED <<sequence, bits, head, tail, pos, cur, resources>>
      /\ \A u \in Threads \ {t} : pc'[u] = pc[u]
      /\ pc[t] = "spin" /\ pc'[t] = "locked" /\ cur[t] = pos[t]
  BY DEF Acquire, Goto, cells, Typed
<1>2. pos'[t] = Index(P[t]) /\ cur'[t] = Index(C[t])
  BY <1>1 DEF Places, HasPositions
<1>3. C[t] = P[t]
  <2>1. C[t] <= P[t] /\ P[t] < C[t] + BUFFER_SIZE /\ P[t] \in Int /\ C[t] \in Int
    BY <1>1 DEF Places, PassedBy
  <2>2. P[t] - C[t] < INDICES /\ C[t] - P[t] < INDICES
    BY <2>1, Sizes
  <2> QED BY <1>1, <1>2, <2>1, <2>2, IndexApart
<1>4. \A u \in Queued' : u \in Queued
  BY <1>1, QueuedIs, QueuedIsPrimed, QueuedAreThreads
<1>5. TailSeen(t, T, P)' /\ HeadSeen(t, H, T, C)' /\ PassedBy(t, P, C)'
  BY <1>1, <1>3, <1>4 DEF Places, TailSeen, HeadSeen, PassedBy
<1>6. /\ t \notin Dequeuing /\ t \notin Dequeuing'
      /\ t \in Queued /\ t \in Queued'
      /\ pc[t] \notin {"setBits", "setSequence"} /\ pc'[t] \notin {"setBits", "setSequence"}
  BY <1>1, QueuedIs, QueuedIsPrimed
<1> QED BY <1>1, <1>2, <1>5, <1>6, LocalStep

(* t goes on to the next position: no request at C[t] that conflicts with  *)
(* its own is in the queue any more.                                       *)
LEMMA PassBy ==
    ASSUME Typed, NEW H \in Int, NEW T \in Int,
           NEW P \in [Threads -> Int], NEW C \in [Threads -> Int],
           Places(H, T, P, C), NEW t \in Threads,
           UNCHANGED <<sequence, bits, head, tail, pos, resources>>,
           \A u \in Threads \ {t} : pc'[u] = pc[u] /\ cur'[u] = cur[u],
           pc[t] \in {"spin", "spinBits"}, pc'[t] = "spin", C[t] < P[t],
           cur'[t] = Plus(cur[t], 1),
           \A u \in Queued : P[u] = C[t] => resources[u] \cap resources[t] = {}
    PROVE  Places(H, T, P, [C EXCEPT ![t] = C[t] + 1])'
<1> DEFINE C2 == [C EXCEPT ![t] = C[t] + 1]
<1>1. C2 \in [Threads -> Int] /\ C2[t] = C[t] + 1 /\ C[t] \in Int /\ P[t] \in Int
      /\ \A u \in Threads \ {t} : C2[u] = C[u]
  OBVIOUS
<1> HIDE DEF C2
<1>2. pos'[t] = Index(P[t]) /\ cur'[t] = Index(C2[t])
  <2>1. pos[t] = Index(P[t]) /\ cur[t] = Index(C[t])
    BY DEF Places, HasPositions
  <2>2. Plus(Index(C[t]), 1) = Index(C[t] + 1)
    BY <1>1, IndexIs
  <2> QED BY <1>1, <2>1, <2>2
<1>3. \A u \in Queued' : u \in Queued /\ P[u] \in Int
  BY QueuedIs, QueuedIsPrimed, QueuedAreThreads
<1>4. PassedBy(t, P, C2)'
  <2>1. \A u \in Queued : P[u] < C[t] => resources[u] \cap resources[t] = {}
    BY DEF Places, PassedBy
  <2>2. \A u \in Queued' : P[u] < C2[t] => resources[u] \cap resources[t] = {}
    BY <1>1, <1>3, <2>1
  <2>3. C2[t] <= P[t] /\ P[t] < C2[t] + BUFFER_SIZE
    BY <1>1, Sizes DEF Places, PassedBy
  <2> QED BY <2>2, <2>3 DEF PassedBy
<1>5. TailSeen(t, T, P)' /\ HeadSeen(t, H, T, C2)'
  BY DEF TailSeen, HeadSeen
<1>6. /\ t \notin Dequeuing /\ t \notin Dequeuing'
      /\ t \in Queued /\ t \in Queued'
      /\ pc[t] \notin {"setBits", "setSequence"} /\ pc'[t] \notin {"setBits", "setSequence"}
  BY QueuedIs, QueuedIsPrimed
<1>7. \A u \in Threads \ {t} :
          /\ pc'[u] = pc[u] /\ resources'[u] = resources[u]
          /\ pos'[u] = pos[u] /\ cur'[u] = cur[u]
          /\ P[u] = P[u] /\ C2[u] = C[u]
  BY <1>1
<1>8. Places(H, T, P, C2)'
  BY <1>1, <1>2, <1>4, <1>5, <1>6, <1>7, LocalStep
<1> QED BY <1>8 DEF C2

(* The loop that waits stays where it is.                                  *)
LEMMA KeepSpinning ==
    ASSUME Typed, NEW H \in Int, NEW T \in Int,
           NEW P \in [Threads -> Int], NEW C \in [Threads -> Int],
           Places(H, T, P, C), NEW t \in Threads,
           UNCHANGED <<sequence, bits, head, tail, pos, cur, resources>>,
           \A u \in Threads \ {t} : pc'[u] = pc[u],
           pc[t] \in {"spin", "spinBits"}, pc'[t] \in {"spin", "spinBits"}, C[t] < P[t]
    PROVE  Places(H, T, P, C)'
<1>1. pos'[t] = Index(P[t]) /\ cur'[t] = Index(C[t])
  BY DEF Places, HasPositions
<1>2. \A u \in Queued' : u \in Queued
  BY QueuedIs, QueuedIsPrimed, QueuedAreThreads
<1>3. TailSeen(t, T, P)' /\ HeadSeen(t, H, T, C)' /\ PassedBy(t, P, C)'
  BY <1>2 DEF Places, TailSeen, HeadSeen, PassedBy
<1>4. /\ t \notin Dequeuing /\ t \notin Dequeuing'
      /\ t \in Queued /\ t \in Queued'
      /\ pc[t] \notin {"setBits", "setSequence"} /\ pc'[t] \notin {"setBits", "setSequence"}
  BY QueuedIs, QueuedIsPrimed
<1> QED BY <1>1, <1>3, <1>4, LocalStep

LEMMA SpinSequenceKeeps ==
    ASSUME Typed, NEW H \in Int, NEW T \in Int,
           NEW P \in [Threads -> Int], NEW C \in [Threads -> Int],
           Places(H, T, P, C), NEW t \in Threads, SpinSequence(t)
    PROVE  Places(H, T, P, C)' \/ Places(H, T, P, [C EXCEPT ![t] = C[t] + 1])'
<1>1. /\ UNCHANGED <<sequence, bits, head, tail, pos, resources>>
      /\ \A u \in Threads \ {t} : pc'[u] = pc[u] /\ cur'[u] = cur[u]
      /\ pc[t] = "spin" /\ cur[t] /= pos[t]
      /\ \/ /\ Minus(pos[t], sequence[Cell(cur[t])]) > BUFFER_SIZE - 1
            /\ pc'[t] = "spin" /\ cur'[t] = Plus(cur[t], 1)
         \/ pc'[t] = "spinBits" /\ UNCHANGED cur
  BY DEF SpinSequence, Goto, cells, Typed
<1>2. pos[t] = Index(P[t]) /\ cur[t] = Index(C[t]) /\ P[t] \in Int /\ C[t] \in Int
  BY DEF Places, HasPositions
<1>3. C[t] < P[t] /\ P[t] < C[t] + BUFFER_SIZE
  BY <1>1, <1>2 DEF Places, PassedBy
<1>4. CASE Minus(pos[t], sequence[Cell(cur[t])]) > BUFFER_SIZE - 1 /\ pc'[t] = "spin" /\ cur'[t] = Plus(cur[t], 1)
  <2>1. ASSUME NEW u \in Queued, P[u] = C[t] PROVE FALSE
    <3>1. sequence[Cell(cur[t])] \in {Index(C[t]), Index(C[t] + 1)}
      <4>1. sequence[Cell(P[u])] \in {Index(P[u]), Index(P[u] + 1)}
        BY OfQueued
      <4>2. Cell(Index(C[t])) = Cell(C[t])
        BY <1>2, CellIs
      <4> QED BY <1>2, <2>1, <4>1, <4>2
    <3>2. P[t] - C[t] < INDICES /\ P[t] - C[t] <= BUFFER_SIZE - 1 /\ 0 <= P[t] - (C[t] + 1)
      BY <1>2, <1>3, Sizes
    <3>3. Minus(pos[t], Index(C[t])) = P[t] - C[t] /\ Minus(pos[t], Index(C[t] + 1)) = P[t] - (C[t] + 1)
      BY SMTT(30), <1>2, <3>2, MinusIs, Sizes
    <3> QED BY <1>2, <1>4, <3>1, <3>2, <3>3, Sizes
  <2> QED BY <1>1, <1>3, <1>4, <2>1, PassBy
<1>5. CASE pc'[t] = "spinBits" /\ UNCHANGED cur
  BY <1>1, <1>3, <1>5, KeepSpinning
<1> QED BY <1>1, <1>4, <1>5

LEMMA SpinBitsKeeps ==
    ASSUME Typed, NEW H \in Int, NEW T \in Int,
           NEW P \in [Threads -> Int], NEW C \in [Threads -> Int],
           Places(H, T, P, C), NEW t \in Threads, SpinBits(t)
    PROVE  Places(H, T, P, C)' \/ Places(H, T, P, [C EXCEPT ![t] = C[t] + 1])'
<1>1. /\ UNCHANGED <<sequence, bits, head, tail, pos, resources>>
      /\ \A u \in Threads \ {t} : pc'[u] = pc[u] /\ cur'[u] = cur[u]
      /\ pc[t] = "spinBits" /\ pc'[t] = "spin"
      /\ \/ bits[Cell(cur[t])] \cap resources[t] = {} /\ cur'[t] = Plus(cur[t], 1)
         \/ UNCHANGED cur
  BY DEF SpinBits, Goto, cells, Typed
<1>2. cur[t] = Index(C[t]) /\ P[t] \in Int /\ C[t] \in Int /\ C[t] < P[t]
  BY <1>1 DEF Places, HasPositions, PassedBy
<1>3. CASE bits[Cell(cur[t])] \cap resources[t] = {} /\ cur'[t] = Plus(cur[t], 1)
  <2>1. ASSUME NEW u \in Queued, P[u] = C[t] PROVE resources[u] \cap resources[t] = {}
    <3>1. resources[u] \subseteq bits[Cell(cur[t])]
      BY SMTT(30), <1>2, <2>1, CellIs, OfQueued
    <3> QED BY <1>3, <3>1
  <2> QED BY <1>1, <1>2, <1>3, <2>1, PassBy
<1>4. CASE UNCHANGED cur
  BY <1>1, <1>2, <1>4, KeepSpinning
<1> QED BY <1>1, <1>3, <1>4

LEMMA CheckBitsKeeps ==
    ASSUME Typed, NEW H \in Int, NEW T \in Int,
           NEW P \in [Threads -> Int], NEW C \in [Threads -> Int],
           Places(H, T, P, C), NEW t \in Threads, CheckBits(t), NoLateReset
    PROVE  Places(H, T, P, C)'
<1>1. /\ UNCHANGED <<sequence, bits, head, tail, pos, cur, resources>>
      /\ \A u \in Threads \ {t} : pc'[u] = pc[u]
      /\ pc[t] = "checkBits" /\ pc'[t] \in {"checkSequence", "idle"}
      /\ pc'[t] = "checkSequence" => bits[Cell(cur[t])] = {}
  BY DEF CheckBits, Goto, cells, Typed
<1>2. pos'[t] = Index(P[t]) /\ cur'[t] = Index(C[t]) /\ cur[t] = Index(C[t]) /\ C[t] \in Int
  BY <1>1 DEF Places, HasPositions
<1>3. Cell(cur[t]) = Cell(C[t])
  BY <1>2, CellIs
<1>4. ASSUME C[t] = H, bits[Cell(H)] = {} PROVE H < T
  <2>1. SUFFICES ASSUME H = T PROVE FALSE
    BY DEF Places, InWindow
  <2> DEFINE p == T - BUFFER_SIZE
  <2>2. p \in Int /\ p + BUFFER_SIZE = T /\ p \in T - BUFFER_SIZE .. T - 1 /\ p < H
    BY <2>1, Sizes
  <2> HIDE DEF p
  <2>3. bits[Cell(p)] = {}
    BY <1>4, <2>1, <2>2, CellIs
  <2>4. Resources /= {}
    BY <1>1 DEF Typed
  <2>5. PICK u \in Dequeuing : C[u] = p
    BY <2>2, <2>3, <2>4 DEF Places, CellsAccounted, AllOnes
  <2>6. u \in Threads /\ pc[u] = "resetBits"
    BY <2>3, <2>4, <2>5, QueuedIs, QueuedAreThreads DEF Places, DequeuedCells, AllOnes
  <2>7. cur[u] = Index(p)
    BY <2>5, <2>6 DEF Places, HasPositions
  <2>8. Plus(cur[u], BUFFER_SIZE) = Index(T)
    <3>1. BUFFER_SIZE \in Int
      BY Sizes
    <3>2. Plus(Index(p), BUFFER_SIZE) = Index(p + BUFFER_SIZE)
      BY <2>2, <3>1, IndexIs
    <3> QED BY <2>2, <2>7, <3>2
  <2> QED BY <1>1, <1>2, <1>4, <2>1, <2>6, <2>8 DEF NoLateReset
<1>5. HeadSeen(t, H, T, C)'
  BY <1>1, <1>3, <1>4 DEF Places, HeadSeen
<1>6. TailSeen(t, T, P)' /\ PassedBy(t, P, C)'
  BY <1>1 DEF TailSeen, PassedBy
<1>7. t \notin Queued /\ t \notin Queued' /\ t \notin Dequeuing /\ t \notin Dequeuing'
  BY <1>1, QueuedIs, QueuedIsPrimed
<1> QED BY <1>1, <1>2, <1>5, <1>6, <1>7, LocalStep

LEMMA CheckSequenceKeeps ==
    ASSUME Typed, NEW H \in Int, NEW T \in Int,
           NEW P \in [Threads -> Int], NEW C \in [Threads -> Int],
           Places(H, T, P, C), NEW t \in Threads, CheckSequence(t)
    PROVE  Places(H, T, P, C)'
<1>1. /\ UNCHANGED <<sequence, bits, head, tail, pos, cur, resources>>
      /\ \A u \in Threads \ {t} : pc'[u] = pc[u]
      /\ pc[t] = "checkSequence" /\ pc'[t] \in {"casHead", "reloadHead"}
  BY DEF CheckSequence, Goto, cells, Typed
<1>2. pos'[t] = Index(P[t]) /\ cur'[t] = Index(C[t])
  BY <1>1 DEF Places, HasPositions
<1>3. TailSeen(t, T, P)' /\ HeadSeen(t, H, T, C)' /\ PassedBy(t, P, C)'
  BY <1>1 DEF Places, TailSeen, HeadSeen, PassedBy
<1>4. t \notin Queued /\ t \notin Queued' /\ t \notin Dequeuing /\ t \notin Dequeuing'
  BY <1>1, QueuedIs, QueuedIsPrimed
<1> QED BY <1>1, <1>2, <1>3, <1>4, LocalStep

-----------------------------------------------------------------------------
(* Steps that write to a cell                                              *)

LEMMA OfDequeuing ==
    ASSUME NEW H \in Int, NEW T \in Int,
           NEW P \in [Threads -> Int], NEW C \in [Threads -> Int],
           Places(H, T, P, C), NEW u \in Dequeuing
    PROVE  /\ u \in Threads /\ C[u] < H /\ C[u] \in T - BUFFER_SIZE .. T - 1
           /\ sequence[Cell(C[u])] = Index(C[u] + 1)
<1>1. u \in Threads
  BY QueuedAreThreads
<1> QED BY <1>1, Sizes DEF Places, DequeuedCells, InWindow

LEMMA OtherCells ==
    ASSUME NEW T \in Int, NEW q \in T - BUFFER_SIZE .. T - 1
    PROVE  \A p \in T - BUFFER_SIZE .. T - 1 :
               p /= q => Cell(p) /= Cell(q) /\ Cell(p) \in 0 .. BUFFER_SIZE - 1
BY WindowCells, CellIs, Sizes

LEMMA SetBitsKeeps ==
    ASSUME Typed, NEW H \in Int, NEW T \in Int,
           NEW P \in [Threads -> Int], NEW C \in [Threads -> Int],
           Places(H, T, P, C), NEW t \in Threads, SetBits(t)
    PROVE  Places(H, T, P, C)'
<1>1. /\ UNCHANGED <<sequence, head, tail, pos, cur, resources>>
      /\ bits' = [bits EXCEPT ![Cell(pos[t])] = resources[t]]
      /\ \A u \in Threads \ {t} : pc'[u] = pc[u]
      /\ pc[t] = "setBits" /\ pc'[t] = "setSequence"
  BY DEF SetBits, Goto, cells, Typed
<1>2. Queued' = Queued /\ Dequeuing' = Dequeuing /\ t \in Queued /\ t \notin Dequeuing
  BY <1>1, QueuedIs, QueuedIsPrimed, QueuedAreThreads
<1>3. /\ P[t] \in T - BUFFER_SIZE .. T - 1 /\ H <= P[t] /\ resources[t] /= {}
      /\ Cell(P[t]) \in 0 .. BUFFER_SIZE - 1 /\ Cell(pos[t]) = Cell(P[t])
  BY <1>2, OfQueued, CellIs DEF Places, HasPositions
<1>4. bits'[Cell(P[t])] = resources[t]
  BY <1>1, <1>3 DEF Typed
<1>5. \A p \in T - BUFFER_SIZE .. T - 1 : p /= P[t] => bits'[Cell(p)] = bits[Cell(p)]
  <2>1. \A p \in T - BUFFER_SIZE .. T - 1 :
            p /= P[t] => Cell(p) /= Cell(P[t]) /\ Cell(p) \in 0 .. BUFFER_SIZE - 1
    BY <1>3, OtherCells
  <2> QED BY <1>1, <1>3, <2>1 DEF Typed
<1>6. InWindow(H, T)' /\ HasPositions(P, C)' /\ RequestsApart(P)' /\ DequeuersApart(C)'
  BY <1>1, <1>2 DEF Places, InWindow, HasPositions, RequestsApart, DequeuersApart
<1>7. RequestsInCells(H, T, P)'
  <2>1. ASSUME NEW u \in Queued, u /= t
        PROVE  P[u] /= P[t] /\ P[u] \in T - BUFFER_SIZE .. T - 1 /\ u \in Threads
    BY <1>2, <2>1, OfQueued DEF Places, RequestsApart
  <2>2. ASSUME NEW u \in Queued, u /= t PROVE bits'[Cell(P[u])] = bits[Cell(P[u])] /\ pc'[u] = pc[u]
    BY <1>1, <1>5, <2>1, <2>2
  <2> QED BY <1>1, <1>2, <1>4, <2>2 DEF Places, RequestsInCells, AllOnes
<1>8. DequeuedCells(H, T, C)'
  <2>1. \A u \in Dequeuing : bits'[Cell(C[u])] = bits[Cell(C[u])] /\ pc'[u] = pc[u]
    BY <1>1, <1>2, <1>3, <1>5, OfDequeuing
  <2> QED BY <1>1, <1>2, <2>1 DEF Places, DequeuedCells, AllOnes
<1>9. CellsAccounted(H, T, P, C)'
  BY <1>1, <1>2, <1>3, <1>5 DEF Places, CellsAccounted, AllOnes
<1>10. ASSUME NEW u \in Threads PROVE TailSeen(u, T, P)' /\ HeadSeen(u, H, T, C)' /\ PassedBy(u, P, C)'
  <2>1. TailSeen(u, T, P)' /\ PassedBy(u, P, C)'
    BY <1>1, <1>2 DEF Places, TailSeen, PassedBy
  <2>2. pc[u] \in {"checkSequence", "casHead"} /\ C[u] = H => bits'[Cell(H)] = {}
    <3>1. bits[Cell(P[t])] /= {}
      BY <1>2, OfQueued
    <3>2. H < T => H \in T - BUFFER_SIZE .. T - 1
      BY Sizes DEF Places, InWindow
    <3> QED BY <1>5, <3>1, <3>2 DEF Places, HeadSeen
  <2>3. HeadSeen(u, H, T, C)'
    BY <1>1, <2>2 DEF Places, HeadSeen
  <2> QED BY <2>1, <2>3
<1> QED BY <1>6, <1>7, <1>8, <1>9, <1>10 DEF Places

LEMMA SetSequenceKeeps ==
    ASSUME Typed, NEW H \in Int, NEW T \in Int,
           NEW P \in [Threads -> Int], NEW C \in [Threads -> Int],
           Places(H, T, P, C), NEW t \in Threads, SetSequence(t)
    PROVE  Places(H, T, P, C)'
<1>1. /\ UNCHANGED <<bits, head, tail, pos, cur, resources>>
      /\ sequence' = [sequence EXCEPT ![Cell(pos[t])] = Plus(pos[t], 1)]
      /\ \A u \in Threads \ {t} : pc'[u] = pc[u]
      /\ pc[t] = "setSequence" /\ pc'[t] = "loadHead"
  BY DEF SetSequence, Goto, cells, Typed
<1>2. Queued' = Queued /\ Dequeuing' = Dequeuing /\ t \in Queued /\ t \notin Dequeuing
  BY <1>1, QueuedIs, QueuedIsPrimed, QueuedAreThreads
<1>3. /\ P[t] \in T - BUFFER_SIZE .. T - 1 /\ H <= P[t] /\ P[t] \in Int
      /\ Cell(P[t]) \in 0 .. BUFFER_SIZE - 1 /\ Cell(pos[t]) = Cell(P[t])
      /\ sequence[Cell(P[t])] = Index(P[t])
  BY <1>1, <1>2, OfQueued, CellIs DEF Places, HasPositions, RequestsInCells
<1>4. sequence'[Cell(P[t])] = Index(P[t] + 1)
  <2>1. Plus(pos[t], 1) = Index(P[t] + 1)
    <3>1. Plus(Index(P[t]), 1) = Index(P[t] + 1)
      BY <1>3, IndexIs
    <3> QED BY <3>1 DEF Places, HasPositions
  <2> QED BY <1>1, <1>3, <2>1 DEF Typed
<1>5. \A p \in T - BUFFER_SIZE .. T - 1 : p /= P[t] => sequence'[Cell(p)] = sequence[Cell(p)]
  <2>1. \A p \in T - BUFFER_SIZE .. T - 1 :
            p /= P[t] => Cell(p) /= Cell(P[t]) /\ Cell(p) \in 0 .. BUFFER_SIZE - 1
    BY <1>3, OtherCells
  <2> QED BY <1>1, <1>3, <2>1 DEF Typed
<1>6. InWindow(H, T)' /\ HasPositions(P, C)' /\ RequestsApart(P)' /\ DequeuersApart(C)'
  BY <1>1, <1>2 DEF Places, InWindow, HasPositions, RequestsApart, DequeuersApart
<1>7. RequestsInCells(H, T, P)'
  <2>1. ASSUME NEW u \in Queued, u /= t
        PROVE  P[u] /= P[t] /\ P[u] \in T - BUFFER_SIZE .. T - 1 /\ u \in Threads
    BY <1>2, <2>1, OfQueued DEF Places, RequestsApart
  <2>2. ASSUME NEW u \in Queued, u /= t PROVE sequence'[Cell(P[u])] = sequence[Cell(P[u])] /\ pc'[u] = pc[u]
    BY <1>1, <1>5, <2>1, <2>2
  <2> QED BY <1>1, <1>2, <1>4, <2>2 DEF Places, RequestsInCells, AllOnes
<1>8. DequeuedCells(H, T, C)'
  <2>1. \A u \in Dequeuing : sequence'[Cell(C[u])] = sequence[Cell(C[u])] /\ pc'[u] = pc[u]
    BY <1>1, <1>2, <1>3, <1>5, OfDequeuing
  <2> QED BY <1>1, <1>2, <2>1 DEF Places, DequeuedCells, AllOnes
<1>9. CellsAccounted(H, T, P, C)'
  BY <1>1, <1>2, <1>3, <1>5 DEF Places, CellsAccounted, AllOnes
<1>10. ASSUME NEW u \in Threads PROVE TailSeen(u, T, P)' /\ HeadSeen(u, H, T, C)' /\ PassedBy(u, P, C)'
  <2>1. HeadSeen(u, H, T, C)' /\ PassedBy(u, P, C)'
    BY <1>1, <1>2 DEF Places, HeadSeen, PassedBy
  <2>2. pc[u] = "casTail" /\ P[u] = T => sequence'[Cell(T)] = Index(T)
    <3> SUFFICES ASSUME sequence[Cell(T)] = Index(T) PROVE sequence'[Cell(T)] = sequence[Cell(T)]
      BY DEF Places, TailSeen
    <3> DEFINE p == T - BUFFER_SIZE
    <3>1. p \in Int /\ p + BUFFER_SIZE = T /\ p \in T - BUFFER_SIZE .. T - 1
          /\ p - T < INDICES /\ T - p < INDICES /\ p /= T
      BY Sizes
    <3> HIDE DEF p
    <3>2. Cell(T) = Cell(p)
      BY <3>1, CellIs
    <3>3. P[t] /= p
      <4>1. SUFFICES ASSUME P[t] = p PROVE FALSE
        OBVIOUS
      <4>2. Index(p) = Index(T)
        BY <1>3, <3>2, <4>1
      <4> QED BY <3>1, <4>2, IndexApart
    <3> QED BY <1>5, <3>1, <3>2, <3>3
  <2>3. TailSeen(u, T, P)'
    BY <1>1, <2>2 DEF Places, TailSeen
  <2> QED BY <2>1, <2>3
<1> QED BY <1>6, <1>7, <1>8, <1>9, <1>10 DEF Places

LEMMA ReleaseKeeps ==
    ASSUME Typed, NEW H \in Int, NEW T \in Int,
           NEW P \in [Threads -> Int], NEW C \in [Threads -> Int],
           Places(H, T, P, C), NEW t \in Threads, Release(t)
    PROVE  Places(H, T, P, C)'
<1>1. /\ UNCHANGED <<sequence, head, tail, pos, cur, resources>>
      /\ bits' = [bits EXCEPT ![Cell(pos[t])] = {}]
      /\ \A u \in Threads \ {t} : pc'[u] = pc[u]
      /\ pc[t] = "locked" /\ pc'[t] = "reloadHead"
  BY DEF Release, Goto, cells, Typed
<1>2. Queued' = Queued \ {t} /\ Dequeuing' = Dequeuing /\ t \in Queued /\ t \notin Dequeuing
  BY <1>1, QueuedIs, QueuedIsPrimed, QueuedAreThreads
<1>3. /\ P[t] \in T - BUFFER_SIZE .. T - 1 /\ H <= P[t]
      /\ Cell(P[t]) \in 0 .. BUFFER_SIZE - 1 /\ Cell(pos[t]) = Cell(P[t])
      /\ sequence[Cell(P[t])] = Index(P[t] + 1)
  BY <1>1, <1>2, OfQueued, CellIs DEF Places, HasPositions, RequestsInCells
<1>4. bits'[Cell(P[t])] = {}
  BY <1>1, <1>3 DEF Typed
<1>5. \A p \in T - BUFFER_SIZE .. T - 1 : p /= P[t] => bits'[Cell(p)] = bits[Cell(p)]
  <2>1. \A p \in T - BUFFER_SIZE .. T - 1 :
            p /= P[t] => Cell(p) /= Cell(P[t]) /\ Cell(p) \in 0 .. BUFFER_SIZE - 1
    BY <1>3, OtherCells
  <2> QED BY <1>1, <1>3, <2>1 DEF Typed
<1>6. InWindow(H, T)' /\ HasPositions(P, C)' /\ RequestsApart(P)' /\ DequeuersApart(C)'
  BY <1>1, <1>2 DEF Places, InWindow, HasPositions, RequestsApart, DequeuersApart
<1>7. RequestsInCells(H, T, P)'
  <2>1. ASSUME NEW u \in Queued, u /= t
        PROVE  P[u] /= P[t] /\ P[u] \in T - BUFFER_SIZE .. T - 1 /\ u \in Threads
    BY <1>2, <2>1, OfQueued DEF Places, RequestsApart
  <2>2. ASSUME NEW u \in Queued, u /= t PROVE bits'[Cell(P[u])] = bits[Cell(P[u])] /\ pc'[u] = pc[u]
    BY <1>1, <1>5, <2>1, <2>2
  <2> QED BY <1>1, <1>2, <2>2 DEF Places, RequestsInCells, AllOnes
<1>8. DequeuedCells(H, T, C)'
  <2>1. \A u \in Dequeuing : bits'[Cell(C[u])] = bits[Cell(C[u])] /\ pc'[u] = pc[u]
    BY SMTT(30), <1>1, <1>2, <1>3, <1>5, OfDequeuing
  <2> QED BY <1>1, <1>2, <2>1 DEF Places, DequeuedCells, AllOnes
<1>9. CellsAccounted(H, T, P, C)'
  <2> SUFFICES ASSUME NEW p \in T - BUFFER_SIZE .. T - 1
      PROVE  /\ p >= H => \/ \E u \in Queued' : P[u] = p
                          \/ sequence'[Cell(p)] = Index(p + 1) /\ bits'[Cell(p)] = {}
             /\ p < H => \/ \E u \in Dequeuing' : C[u] = p
                         \/ sequence'[Cell(p)] = Index(p + BUFFER_SIZE) /\ bits'[Cell(p)] = AllOnes
    BY DEF CellsAccounted, AllOnes
  <2>1. CASE p = P[t]
    BY <1>1, <1>3, <1>4, <2>1
  <2>2. CASE p /= P[t]
    BY <1>1, <1>2, <1>5, <2>2 DEF Places, CellsAccounted
  <2> QED BY <2>1, <2>2
<1>10. ASSUME NEW u \in Threads PROVE TailSeen(u, T, P)' /\ HeadSeen(u, H, T, C)' /\ PassedBy(u, P, C)'
  <2>1. TailSeen(u, T, P)' /\ PassedBy(u, P, C)'
    BY <1>1, <1>2 DEF Places, TailSeen, PassedBy
  <2>2. pc[u] \in {"checkSequence", "casHead"} /\ C[u] = H => bits'[Cell(H)] = {}
    <3>1. H < T => H \in T - BUFFER_SIZE .. T - 1
      BY Sizes DEF Places, InWindow
    <3> QED BY <1>4, <1>5, <3>1 DEF Places, HeadSeen
  <2>3. HeadSeen(u, H, T, C)'
    BY <1>1, <2>2 DEF Places, HeadSeen
  <2> QED BY <2>1, <2>3
<1> QED BY <1>6, <1>7, <1>8, <1>9, <1>10 DEF Places

LEMMA ResetBitsKeeps ==
    ASSUME Typed, NEW H \in Int, NEW T \in Int,
           NEW P \in [Threads -> Int], NEW C \in [Threads -> Int],
           Places(H, T, P, C), NEW t \in Threads, ResetBits(t)
    PROVE  Places(H, T, P, C)'
<1>1. /\ UNCHANGED <<sequence, head, tail, pos, cur, resources>>
      /\ bits' = [bits EXCEPT ![Cell(cur[t])] = AllOnes]
      /\ \A u \in Threads \ {t} : pc'[u] = pc[u]
      /\ pc[t] = "resetBits" /\ pc'[t] = "free"
  BY DEF ResetBits, Goto, cells, Typed
<1>2. Queued' = Queued /\ Dequeuing' = Dequeuing /\ t \in Dequeuing /\ t \notin Queued
  BY <1>1, QueuedIs, QueuedIsPrimed, QueuedAreThreads
<1>3. /\ C[t] \in T - BUFFER_SIZE .. T - 1 /\ C[t] < H
      /\ Cell(C[t]) \in 0 .. BUFFER_SIZE - 1 /\ Cell(cur[t]) = Cell(C[t])
  BY <1>2, OfDequeuing, CellIs DEF Places, HasPositions
<1>4. bits'[Cell(C[t])] = AllOnes
  BY <1>1, <1>3 DEF Typed
<1>5. \A p \in T - BUFFER_SIZE .. T - 1 : p /= C[t] => bits'[Cell(p)] = bits[Cell(p)]
  <2>1. \A p \in T - BUFFER_SIZE .. T - 1 :
            p /= C[t] => Cell(p) /= Cell(C[t]) /\ Cell(p) \in 0 .. BUFFER_SIZE - 1
    BY <1>3, OtherCells
  <2> QED BY <1>1, <1>3, <2>1 DEF Typed
<1>6. InWindow(H, T)' /\ HasPositions(P, C)' /\ RequestsApart(P)' /\ DequeuersApart(C)'
  BY <1>1, <1>2 DEF Places, InWindow, HasPositions, RequestsApart, DequeuersApart
<1>7. RequestsInCells(H, T, P)'
  <2>1. ASSUME NEW u \in Queued
        PROVE  bits'[Cell(P[u])] = bits[Cell(P[u])] /\ pc'[u] = pc[u]
    <3>1. u \in Threads /\ P[u] \in T - BUFFER_SIZE .. T - 1 /\ H <= P[u]
      BY OfQueued
    <3> QED BY <1>1, <1>2, <1>3, <1>5, <3>1
  <2> QED BY <1>1, <1>2, <2>1 DEF Places, RequestsInCells, AllOnes
<1>8. DequeuedCells(H, T, C)'
  <2>1. ASSUME NEW u \in Dequeuing, u /= t
        PROVE  C[u] /= C[t] /\ C[u] \in T - BUFFER_SIZE .. T - 1 /\ u \in Threads
    BY <1>2, <2>1, OfDequeuing DEF Places, DequeuersApart
  <2>2. ASSUME NEW u \in Dequeuing, u /= t PROVE bits'[Cell(C[u])] = bits[Cell(C[u])] /\ pc'[u] = pc[u]
    BY <1>1, <1>5, <2>1, <2>2
  <2> QED BY <1>1, <1>2, <1>4, <2>2 DEF Places, DequeuedCells, AllOnes
<1>9. CellsAccounted(H, T, P, C)'
  <2> SUFFICES ASSUME NEW p \in T - BUFFER_SIZE .. T - 1
      PROVE  /\ p >= H => \/ \E u \in Queued : P[u] = p
                          \/ sequence[Cell(p)] = Index(p + 1) /\ bits'[Cell(p)] = {}
             /\ p < H => \/ \E u \in Dequeuing : C[u] = p
                         \/ sequence[Cell(p)] = Index(p + BUFFER_SIZE) /\ bits'[Cell(p)] = AllOnes
    BY <1>1, <1>2 DEF CellsAccounted, AllOnes
  <2>1. CASE p = C[t]
    BY <1>2, <1>3, <2>1
  <2>2. CASE p /= C[t]
    BY <1>5, <2>2 DEF Places, CellsAccounted
  <2> QED BY <2>1, <2>2
<1>10. ASSUME NEW u \in Threads PROVE TailSeen(u, T, P)' /\ HeadSeen(u, H, T, C)' /\ PassedBy(u, P, C)'
  <2>1. TailSeen(u, T, P)' /\ PassedBy(u, P, C)'
    BY <1>1, <1>2 DEF Places, TailSeen, PassedBy
  <2>2. pc[u] \in {"checkSequence", "casHead"} /\ C[u] = H => bits'[Cell(H)] = {}
    <3>1. H < T => H \in T - BUFFER_SIZE .. T - 1
      BY Sizes DEF Places, InWindow
    <3> QED BY <1>3, <1>5, <3>1 DEF Places, HeadSeen
  <2>3. HeadSeen(u, H, T, C)'
    BY <1>1, <2>2 DEF Places, HeadSeen
  <2> QED BY <2>1, <2>3
<1> QED BY <1>6, <1>7, <1>8, <1>9, <1>10 DEF Places

LEMMA FreeKeeps ==
    ASSUME Typed, NEW H \in Int, NEW T \in Int,
           NEW P \in [Threads -> Int], NEW C \in [Threads -> Int],
           Places(H, T, P, C), NEW t \in Threads, Free(t)
    PROVE  Places(H, T, P, C)'
<1>1. /\ UNCHANGED <<bits, head, tail, pos, cur, resources>>
      /\ sequence' = [sequence EXCEPT ![Cell(cur[t])] = Plus(cur[t], BUFFER_SIZE)]
      /\ \A u \in Threads \ {t} : pc'[u] = pc[u]
      /\ pc[t] = "free" /\ pc'[t] = "reloadHead"
  BY DEF Free, Goto, cells, Typed
<1>2. Queued' = Queued /\ Dequeuing' = Dequeuing \ {t} /\ t \in Dequeuing /\ t \notin Queued
  BY <1>1, QueuedIs, QueuedIsPrimed, QueuedAreThreads
<1>3. /\ C[t] \in T - BUFFER_SIZE .. T - 1 /\ C[t] < H /\ C[t] \in Int
      /\ Cell(C[t]) \in 0 .. BUFFER_SIZE - 1 /\ Cell(cur[t]) = Cell(C[t])
      /\ bits[Cell(C[t])] = AllOnes
  BY <1>1, <1>2, OfDequeuing, CellIs DEF Places, HasPositions, DequeuedCells
<1>4. sequence'[Cell(C[t])] = Index(C[t] + BUFFER_SIZE)
  <2>1. Plus(cur[t], BUFFER_SIZE) = Index(C[t] + BUFFER_SIZE)
    <3>1. BUFFER_SIZE \in Int
      BY Sizes
    <3>2. Plus(Index(C[t]), BUFFER_SIZE) = Index(C[t] + BUFFER_SIZE)
      BY <1>3, <3>1, IndexIs
    <3> QED BY <3>2 DEF Places, HasPositions
  <2> QED BY <1>1, <1>3, <2>1 DEF Typed
<1>5. \A p \in T - BUFFER_SIZE .. T - 1 : p /= C[t] => sequence'[Cell(p)] = sequence[Cell(p)]
  <2>1. \A p \in T - BUFFER_SIZE .. T - 1 :
            p /= C[t] => Cell(p) /= Cell(C[t]) /\ Cell(p) \in 0 .. BUFFER_SIZE - 1
    BY <1>3, OtherCells
  <2> QED BY <1>1, <1>3, <2>1 DEF Typed
<1>6. InWindow(H, T)' /\ HasPositions(P, C)' /\ RequestsApart(P)' /\ DequeuersApart(C)'
  BY <1>1, <1>2 DEF Places, InWindow, HasPositions, RequestsApart, DequeuersApart
<1>7. RequestsInCells(H, T, P)'
  <2>1. ASSUME NEW u \in Queued
        PROVE  sequence'[Cell(P[u])] = sequence[Cell(P[u])] /\ pc'[u] = pc[u]
    <3>1. u \in Threads /\ P[u] \in T - BUFFER_SIZE .. T - 1 /\ H <= P[u]
      BY OfQueued
    <3> QED BY <1>1, <1>2, <1>3, <1>5, <3>1
  <2> QED BY <1>1, <1>2, <2>1 DEF Places, RequestsInCells, AllOnes
<1>8. DequeuedCells(H, T, C)'
  <2>1. ASSUME NEW u \in Dequeuing, u /= t
        PROVE  C[u] /= C[t] /\ C[u] \in T - BUFFER_SIZE .. T - 1 /\ u \in Threads
    BY <1>2, <2>1, OfDequeuing DEF Places, DequeuersApart
  <2>2. ASSUME NEW u \in Dequeuing, u /= t PROVE sequence'[Cell(C[u])] = sequence[Cell(C[u])] /\ pc'[u] = pc[u]
    BY <1>1, <1>5, <2>1, <2>2
  <2> QED BY <1>1, <1>2, <2>2 DEF Places, DequeuedCells, AllOnes
<1>9. CellsAccounted(H, T, P, C)'
  <2> SUFFICES ASSUME NEW p \in T - BUFFER_SIZE .. T - 1
      PROVE  /\ p >= H => \/ \E u \in Queued' : P[u] = p
                          \/ sequence'[Cell(p)] = Index(p + 1) /\ bits'[Cell(p)] = {}
             /\ p < H => \/ \E u \in Dequeuing' : C[u] = p
                         \/ sequence'[Cell(p)] = Index(p + BUFFER_SIZE) /\ bits'[Cell(p)] = AllOnes
    BY DEF CellsAccounted, AllOnes
  <2>1. CASE p = C[t]
    BY <1>1, <1>3, <1>4, <2>1
  <2>2. CASE p /= C[t]
    BY <1>1, <1>2, <1>5, <2>2 DEF Places, CellsAccounted
  <2> QED BY <2>1, <2>2
<1>10. ASSUME NEW u \in Threads PROVE TailSeen(u, T, P)' /\ HeadSeen(u, H, T, C)' /\ PassedBy(u, P, C)'
  <2>1. HeadSeen(u, H, T, C)' /\ PassedBy(u, P, C)'
    BY <1>1, <1>2 DEF Places, HeadSeen, PassedBy
  <2>2. pc[u] = "casTail" /\ P[u] = T => sequence'[Cell(T)] = Index(T)
    <3> SUFFICES ASSUME sequence[Cell(T)] = Index(T) PROVE sequence'[Cell(T)] = Index(T)
      BY DEF Places, TailSeen
    <3> DEFINE p == T - BUFFER_SIZE
    <3>1. p \in Int /\ p + BUFFER_SIZE = T /\ p \in T - BUFFER_SIZE .. T - 1
      BY Sizes
    <3> HIDE DEF p
    <3>2. Cell(T) = Cell(p)
      BY <3>1, CellIs
    <3> QED BY <1>4, <1>5, <3>1, <3>2
  <2>3. TailSeen(u, T, P)'
    BY <1>1, <2>2 DEF Places, TailSeen
  <2> QED BY <2>1, <2>3
<1> QED BY <1>6, <1>7, <1>8, <1>9, <1>10 DEF Places

-----------------------------------------------------------------------------
(* Steps that move the tail or the head                                    *)

(* A cell with the number of the tail has no request and no dequeuer.      *)
LEMMA FreeCell ==
    ASSUME Typed, NEW H \in Int, NEW T \in Int,
           NEW P \in [Threads -> Int], NEW C \in [Threads -> Int],
           Places(H, T, P, C), sequence[Cell(T)] = Index(T)
    PROVE  /\ T - BUFFER_SIZE < H /\ bits[Cell(T)] = AllOnes
           /\ \A u \in Dequeuing : C[u] /= T - BUFFER_SIZE
<1> DEFINE p == T - BUFFER_SIZE
<1>1. p \in Int /\ p + BUFFER_SIZE = T /\ p \in T - BUFFER_SIZE .. T - 1 /\ p + 1 \in Int
      /\ p - T < INDICES /\ T - p < INDICES /\ p /= T
      /\ (p + 1) - T < INDICES /\ T - (p + 1) < INDICES /\ p + 1 /= T
  BY Sizes
<1> HIDE DEF p
<1>2. Cell(T) = Cell(p)
  BY <1>1, CellIs
<1>3. Index(T) /= Index(p) /\ Index(T) /= Index(p + 1)
  BY <1>1, IndexApart
<1>4. \A u \in Queued : P[u] /= p
  BY <1>2, <1>3, OfQueued
<1>5. \A u \in Dequeuing : C[u] /= p
  BY <1>2, <1>3, OfDequeuing
<1>6. p < H
  BY <1>1, <1>2, <1>3, <1>4 DEF Places, CellsAccounted
<1>7. bits[Cell(p)] = AllOnes
  BY <1>1, <1>5, <1>6 DEF Places, CellsAccounted
<1> QED BY <1>2, <1>5, <1>6, <1>7 DEF p

LEMMA EnqueueAtTail ==
    ASSUME Typed, NEW H \in Int, NEW T \in Int,
           NEW P \in [Threads -> Int], NEW C \in [Threads -> Int],
           Places(H, T, P, C), NEW t \in Threads, Enqueue(t)
    PROVE  P[t] = T /\ sequence[Cell(T)] = Index(T) /\ tail' = Index(T + 1)
<1>1. pc[t] = "casTail" /\ tail = pos[t] /\ tail' = Plus(pos[t], 1) /\ pos[t] = Index(P[t])
      /\ tail = Index(T) /\ P[t] \in Int
  BY DEF Enqueue, Places, HasPositions, InWindow
<1>2. P[t] <= T /\ T - P[t] <= INDICES \div 2
  BY <1>1 DEF Places, TailSeen
<1>3. P[t] - T < INDICES /\ T - P[t] < INDICES
  BY <1>1, <1>2, Sizes
<1>4. P[t] = T
  BY <1>1, <1>3, IndexApart
<1>5. Plus(Index(T), 1) = Index(T + 1)
  BY IndexIs
<1> QED BY <1>1, <1>4, <1>5 DEF Places, TailSeen

LEMMA EnqueueKeeps ==
    ASSUME Typed, NEW H \in Int, NEW T \in Int,
           NEW P \in [Threads -> Int], NEW C \in [Threads -> Int],
           Places(H, T, P, C), NEW t \in Threads, Enqueue(t), NoLongDelay'
    PROVE  Places(H, T + 1, P, C)'
<1>1. /\ UNCHANGED <<sequence, bits, head, pos, cur, resources>>
      /\ \A u \in Threads \ {t} : pc'[u] = pc[u]
      /\ pc[t] = "casTail" /\ pc'[t] = "setBits"
  BY DEF Enqueue, Goto, cells, Typed
<1>2. Queued' = Queued \cup {t} /\ Dequeuing' = Dequeuing /\ t \notin Queued /\ t \notin Dequeuing
  BY <1>1, QueuedIs, QueuedIsPrimed, QueuedAreThreads
<1>3. P[t] = T /\ sequence[Cell(T)] = Index(T) /\ tail' = Index(T + 1)
  BY EnqueueAtTail
<1>4. /\ T - BUFFER_SIZE < H /\ bits[Cell(T)] = AllOnes
      /\ \A u \in Dequeuing : C[u] /= T - BUFFER_SIZE
  BY <1>3, FreeCell
<1>5. \A u \in Queued : u \in Threads /\ P[u] < T
  BY OfQueued
<1>6. InWindow(H, T + 1)' /\ HasPositions(P, C)'
  BY <1>1, <1>3, <1>4, Sizes DEF Places, InWindow, HasPositions
<1>7. RequestsInCells(H, T + 1, P)'
  <2>1. RequestsInCells(H, T, P) /\ H <= T
    BY DEF Places, InWindow
  <2>2. \A u \in Queued : pc'[u] = pc[u]
    BY <1>1, <1>2, <1>5
  <2> QED BY <1>1, <1>2, <1>3, <1>4, <1>5, <2>1, <2>2 DEF RequestsInCells, AllOnes
<1>8. RequestsApart(P)' /\ DequeuersApart(C)'
  BY <1>1, <1>2, <1>3, <1>5 DEF Places, RequestsApart, DequeuersApart
<1>9. DequeuedCells(H, T + 1, C)'
  <2>1. ASSUME NEW u \in Dequeuing PROVE T + 1 <= C[u] + BUFFER_SIZE /\ pc'[u] = pc[u]
    <3>1. u \in Threads /\ C[u] \in T - BUFFER_SIZE .. T - 1
      BY OfDequeuing
    <3> QED BY <1>1, <1>2, <1>4, <3>1, Sizes
  <2> QED BY <1>1, <1>2, <2>1 DEF Places, DequeuedCells, AllOnes
<1>10. CellsAccounted(H, T + 1, P, C)'
  <2> SUFFICES ASSUME NEW p \in (T + 1) - BUFFER_SIZE .. (T + 1) - 1
      PROVE  /\ p >= H => \/ \E u \in Queued' : P[u] = p
                          \/ sequence[Cell(p)] = Index(p + 1) /\ bits[Cell(p)] = {}
             /\ p < H => \/ \E u \in Dequeuing : C[u] = p
                         \/ sequence[Cell(p)] = Index(p + BUFFER_SIZE) /\ bits[Cell(p)] = AllOnes
    BY <1>1, <1>2 DEF CellsAccounted, AllOnes
  <2>1. CASE p = T
    BY <1>2, <1>3, <2>1 DEF Places, InWindow
  <2>2. CASE p /= T
    <3>1. p \in T - BUFFER_SIZE .. T - 1
      BY <2>2, Sizes
    <3> QED BY <1>2, <3>1 DEF Places, CellsAccounted
  <2> QED BY <2>1, <2>2
<1>11. ASSUME NEW u \in Threads PROVE TailSeen(u, T + 1, P)' /\ HeadSeen(u, H, T + 1, C)' /\ PassedBy(u, P, C)'
  <2>1. HeadSeen(u, H, T + 1, C)'
    BY <1>1 DEF Places, HeadSeen
  <2>2. PassedBy(u, P, C)'
    <3> SUFFICES ASSUME pc'[u] \in {"spin", "spinBits", "locked"}, u /= t PROVE PassedBy(u, P, C)'
      BY <1>1 DEF PassedBy
    <3>1. pc[u] = pc'[u] /\ PassedBy(u, P, C) /\ u \in Queued
      BY <1>1, QueuedIs DEF Places
    <3>2. C[u] <= P[u] /\ P[u] < T /\ P[u] \in Int /\ C[u] \in Int
      BY <1>5, <3>1 DEF PassedBy
    <3>3. \A v \in Queued' : P[v] < C[u] => resources[v] \cap resources[u] = {}
      BY <1>2, <1>3, <3>1, <3>2 DEF PassedBy
    <3> QED BY <1>1, <3>1, <3>3 DEF PassedBy
  <2>3. TailSeen(u, T + 1, P)'
    <3> SUFFICES ASSUME pc'[u] \in {"checkFree", "casTail"}, u /= t PROVE TailSeen(u, T + 1, P)'
      BY <1>1 DEF TailSeen
    <3>1. P[u] <= T /\ T - P[u] <= INDICES \div 2 /\ P[u] \in Int
      BY <1>1 DEF Places, TailSeen
    <3>2. Minus(tail', pos'[u]) <= INDICES \div 2
      BY DEF NoLongDelay
    <3>3. tail' = Index(T + 1) /\ pos'[u] = Index(P[u])
      BY <1>1, <1>3 DEF Places, HasPositions
    <3>4. T + 1 \in Int /\ 0 <= (T + 1) - P[u] /\ (T + 1) - P[u] < INDICES
      BY <3>1, Sizes
    <3>5. (T + 1) - P[u] <= INDICES \div 2
      BY <3>1, <3>2, <3>3, <3>4, MinusIs
    <3> QED BY <3>1, <3>5 DEF TailSeen
  <2> QED BY <2>1, <2>2, <2>3
<1> QED BY <1>6, <1>7, <1>8, <1>9, <1>10, <1>11 DEF Places

LEMMA DequeueAtHead ==
    ASSUME Typed, NEW H \in Int, NEW T \in Int,
           NEW P \in [Threads -> Int], NEW C \in [Threads -> Int],
           Places(H, T, P, C), NEW t \in Threads, Dequeue(t)
    PROVE  /\ C[t] = H /\ H < T /\ bits[Cell(H)] = {} /\ head' = Index(H + 1)
           /\ sequence[Cell(H)] = Index(H + 1) /\ \A u \in Queued : P[u] /= H
<1>1. pc[t] = "casHead" /\ head = cur[t] /\ head' = Plus(cur[t], 1) /\ cur[t] = Index(C[t])
      /\ head = Index(H) /\ C[t] \in Int
  BY DEF Dequeue, Places, HasPositions, InWindow
<1>2. C[t] <= H /\ H - C[t] <= INDICES \div 2
  BY <1>1 DEF Places, HeadSeen
<1>3. C[t] - H < INDICES /\ H - C[t] < INDICES
  BY <1>1, <1>2, Sizes
<1>4. C[t] = H
  BY <1>1, <1>3, IndexApart
<1>5. Plus(Index(H), 1) = Index(H + 1)
  BY IndexIs
<1>6. H < T /\ bits[Cell(H)] = {}
  BY <1>1, <1>4 DEF Places, HeadSeen
<1>7. ASSUME NEW u \in Queued PROVE P[u] /= H
  <2>1. bits[Cell(P[u])] /= {}
    BY OfQueued
  <2> QED BY <1>6, <2>1
<1>8. H \in T - BUFFER_SIZE .. T - 1
  BY <1>6, Sizes DEF Places, InWindow
<1>9. sequence[Cell(H)] = Index(H + 1)
  BY <1>7, <1>8 DEF Places, CellsAccounted
<1> QED BY <1>1, <1>4, <1>5, <1>6, <1>7, <1>9

LEMMA DequeueKeeps ==
    ASSUME Typed, NEW H \in Int, NEW T \in Int,
           NEW P \in [Threads -> Int], NEW C \in [Threads -> Int],
           Places(H, T, P, C), NEW t \in Threads, Dequeue(t), NoLongDelay'
    PROVE  Places(H + 1, T, P, C)'
<1>1. /\ UNCHANGED <<sequence, bits, tail, pos, cur, resources>>
      /\ \A u \in Threads \ {t} : pc'[u] = pc[u]
      /\ pc[t] = "casHead" /\ pc'[t] = "resetBits"
  BY DEF Dequeue, Goto, cells, Typed
<1>2. Queued' = Queued /\ Dequeuing' = Dequeuing \cup {t} /\ t \notin Queued /\ t \notin Dequeuing
  BY <1>1, QueuedIs, QueuedIsPrimed, QueuedAreThreads
<1>3. /\ C[t] = H /\ H < T /\ bits[Cell(H)] = {} /\ head' = Index(H + 1)
      /\ sequence[Cell(H)] = Index(H + 1) /\ \A u \in Queued : P[u] /= H
  BY DequeueAtHead
<1>4. \A u \in Dequeuing : u \in Threads /\ C[u] < H
  BY OfDequeuing
<1>5. \A u \in Queued : u \in Threads /\ P[u] \in Int /\ H <= P[u] /\ pc'[u] = pc[u]
  BY <1>1, <1>2, OfQueued
<1>6. InWindow(H + 1, T)' /\ HasPositions(P, C)'
  BY <1>1, <1>3, Sizes DEF Places, InWindow, HasPositions
<1>7. RequestsInCells(H + 1, T, P)'
  <2>1. \A u \in Queued : H + 1 <= P[u]
    BY <1>3, <1>5
  <2> QED BY <1>1, <1>2, <1>5, <2>1 DEF Places, RequestsInCells, AllOnes
<1>8. RequestsApart(P)' /\ DequeuersApart(C)'
  BY <1>1, <1>2, <1>3, <1>4 DEF Places, RequestsApart, DequeuersApart
<1>9. DequeuedCells(H + 1, T, C)'
  <2>1. T <= H + BUFFER_SIZE /\ \A u \in Dequeuing : pc'[u] = pc[u]
    BY <1>1, <1>2, <1>4 DEF Places, InWindow
  <2> QED BY <1>1, <1>2, <1>3, <1>4, <2>1 DEF Places, DequeuedCells, AllOnes
<1>10. CellsAccounted(H + 1, T, P, C)'
  <2> SUFFICES ASSUME NEW p \in T - BUFFER_SIZE .. T - 1
      PROVE  /\ p >= H + 1 => \/ \E u \in Queued : P[u] = p
                              \/ sequence[Cell(p)] = Index(p + 1) /\ bits[Cell(p)] = {}
             /\ p < H + 1 => \/ \E u \in Dequeuing' : C[u] = p
                             \/ sequence[Cell(p)] = Index(p + BUFFER_SIZE) /\ bits[Cell(p)] = AllOnes
    BY <1>1, <1>2 DEF CellsAccounted, AllOnes
  <2>1. CASE p = H
    BY <1>2, <1>3, <2>1
  <2>2. CASE p /= H
    <3>1. p \in Int /\ (p >= H + 1 => p >= H) /\ (p < H + 1 => p < H)
      BY <2>2, Sizes
    <3> QED BY <1>2, <3>1 DEF Places, CellsAccounted
  <2> QED BY <2>1, <2>2
<1>11. ASSUME NEW u \in Threads PROVE TailSeen(u, T, P)' /\ HeadSeen(u, H + 1, T, C)' /\ PassedBy(u, P, C)'
  <2>1. TailSeen(u, T, P)' /\ PassedBy(u, P, C)'
    BY <1>1, <1>2 DEF Places, TailSeen, PassedBy
  <2>2. HeadSeen(u, H + 1, T, C)'
    <3> SUFFICES ASSUME pc'[u] \in {"checkBits", "checkSequence", "casHead"}, u /= t
                 PROVE  HeadSeen(u, H + 1, T, C)'
      BY <1>1 DEF HeadSeen
    <3>1. C[u] <= H /\ H - C[u] <= INDICES \div 2 /\ C[u] \in Int
      BY <1>1 DEF Places, HeadSeen
    <3>2. Minus(head', cur'[u]) <= INDICES \div 2
      BY DEF NoLongDelay
    <3>3. head' = Index(H + 1) /\ cur'[u] = Index(C[u])
      BY <1>1, <1>3 DEF Places, HasPositions
    <3>4. H + 1 \in Int /\ 0 <= (H + 1) - C[u] /\ (H + 1) - C[u] < INDICES
      BY <3>1, Sizes
    <3>5. (H + 1) - C[u] <= INDICES \div 2
      BY <3>1, <3>2, <3>3, <3>4, MinusIs
    <3> QED BY <3>1, <3>5 DEF HeadSeen
  <2> QED BY <2>1, <2>2
<1> QED BY <1>6, <1>7, <1>8, <1>9, <1>10, <1>11 DEF Places

-----------------------------------------------------------------------------
(* The invariant                                                           *)

LEMMA InitPlaces ==
    ASSUME Init
    PROVE  LockInv
<1>1. PICK start \in Starts : InitBuffer(start)
  BY DEF Init
<1>2. start \in Int /\ 0 <= start /\ start < INDICES
  BY StartsAssumption, Sizes
<1>3. Index(start) = start
  <2>1. INDICES \in Nat \ {0} /\ start \in 0 .. INDICES - 1
    BY <1>2, Sizes
  <2>2. (INDICES * 0 + start) % INDICES = start
    BY <2>1, ModOfSum
  <2> QED BY <2>1, <2>2 DEF Index
<1> DEFINE Z == [t \in Threads |-> 0]
<1>4. Z \in [Threads -> Int] /\ \A t \in Threads : pos[t] = Index(Z[t]) /\ cur[t] = Index(Z[t])
  <2>1. 0 % INDICES = 0
    <3>1. INDICES \in Nat \ {0} /\ 0 \in 0 .. INDICES - 1
      BY Sizes
    <3>2. (INDICES * 0 + 0) % INDICES = 0
      BY <3>1, ModOfSum
    <3> QED BY <3>1, <3>2
  <2> QED BY <2>1 DEF Init, Index
<1> HIDE DEF Z
<1>5. pc = [t \in Threads |-> "idle"] /\ Queued = {} /\ Dequeuing = {}
  BY DEF Init, Queued, Waiting, Holding, Dequeuing
<1>6. Typed
  <2>1. \A i, n \in Int : Plus(i, n) \in Int
    <3>1. \A i, n \in Int : (i + n) % INDICES \in Int
      BY BufferAssumption, IndexAssumption
    <3> QED BY <3>1 DEF Plus
  <2>2. \A c \in 0 .. BUFFER_SIZE - 1 : (c - start) % BUFFER_SIZE \in Int
    BY <1>2, BufferAssumption
  <2>3. sequence \in [0 .. BUFFER_SIZE - 1 -> Int]
    BY <1>1, <1>2, <2>1, <2>2 DEF InitBuffer
  <2>4. bits \in [0 .. BUFFER_SIZE - 1 -> SUBSET Resources] /\ head \in Int /\ tail \in Int
    BY <1>1, <1>2 DEF InitBuffer, AllOnes
  <2>5. pc \in [Threads -> Labels] /\ \A t \in Threads : pc[t] = "idle"
    BY <1>5 DEF Labels
  <2>6. /\ pos \in [Threads -> Int] /\ cur \in [Threads -> Int]
        /\ resources \in [Threads -> SUBSET Resources]
        /\ todo \in [Threads -> Seq((SUBSET Resources) \ {{}})]
    BY ProgramsAssumption DEF Init
  <2> QED BY <2>3, <2>4, <2>5, <2>6 DEF Typed
<1>7. InWindow(start, start) /\ HasPositions(Z, Z)
  BY <1>1, <1>2, <1>3, <1>4, Sizes DEF InWindow, HasPositions, InitBuffer
<1>8. /\ RequestsInCells(start, start, Z) /\ RequestsApart(Z)
      /\ DequeuedCells(start, start, Z) /\ DequeuersApart(Z)
  BY <1>5 DEF RequestsInCells, RequestsApart, DequeuedCells, DequeuersApart
<1>9. CellsAccounted(start, start, Z, Z)
  <2> SUFFICES ASSUME NEW p \in start - BUFFER_SIZE .. start - 1
      PROVE  p < start /\ sequence[Cell(p)] = Index(p + BUFFER_SIZE) /\ bits[Cell(p)] = AllOnes
    BY <1>2, Sizes DEF CellsAccounted
  <2> DEFINE d == (p + BUFFER_SIZE) - start
             c == Cell(p)
  <2>1. p \in Int /\ p < start /\ d \in 0 .. BUFFER_SIZE - 1 /\ start + d = p + BUFFER_SIZE
    BY <1>2, Sizes
  <2>2. c \in 0 .. BUFFER_SIZE - 1
    BY <2>1, CellIs
  <2>3. (c - start) % BUFFER_SIZE = d
    <3>1. BUFFER_SIZE \in Nat \ {0}
      BY Sizes
    <3> DEFINE k == (0 - (p \div BUFFER_SIZE)) - 1
               i == c - start
    <3>2. k \in Int /\ i \in Int /\ i = BUFFER_SIZE * k + d
      <4>1. p = BUFFER_SIZE * (p \div BUFFER_SIZE) + (p % BUFFER_SIZE) /\ p \div BUFFER_SIZE \in Int
            /\ p % BUFFER_SIZE \in Int
        BY <2>1, <3>1, DivMod
      <4> QED BY <1>2, <3>1, <4>1 DEF Cell
    <3> HIDE DEF k, d, c, i
    <3>3. (BUFFER_SIZE * k + d) % BUFFER_SIZE = d
      BY <2>1, <3>1, <3>2, ModOfSum
    <3> QED BY <3>2, <3>3 DEF i
  <2> HIDE DEF d, c
  <2>4. sequence[c] = Plus(start, d) /\ bits[c] = AllOnes
    BY <1>1, <2>2, <2>3 DEF InitBuffer
  <2>5. Plus(Index(start), d) = Index(start + d)
    BY <1>2, <2>1, IndexIs
  <2> QED BY <1>3, <2>1, <2>4, <2>5 DEF c
<1>10. \A t \in Threads : TailSeen(t, start, Z) /\ HeadSeen(t, start, start, Z) /\ PassedBy(t, Z, Z)
  BY <1>5 DEF TailSeen, HeadSeen, PassedBy
<1>11. Places(start, start, Z, Z)
  BY <1>7, <1>8, <1>9, <1>10 DEF Places
<1> QED BY <1>2, <1>4, <1>6, <1>11 DEF LockInv

LEMMA StutterKeeps ==
    ASSUME NEW H \in Int, NEW T \in Int,
           NEW P \in [Threads -> Int], NEW C \in [Threads -> Int],
           Places(H, T, P, C), UNCHANGED vars
    PROVE  Places(H, T, P, C)'
<1>1. UNCHANGED <<sequence, bits, head, tail, pos, cur, pc, resources>>
  BY DEF vars, cells
<1>2. Queued' = Queued /\ Dequeuing' = Dequeuing
  BY <1>1 DEF Queued, Waiting, Holding, Dequeuing
<1> QED BY <1>1, <1>2 DEF Places, InWindow, HasPositions, RequestsInCells, RequestsApart, AllOnes,
        DequeuedCells, DequeuersApart, CellsAccounted, TailSeen, HeadSeen, PassedBy

(* Every step of Lock and Unlock keeps the invariant, if threads are       *)
(* timely before and after it.                                             *)
LEMMA LockInvStep == LockInv /\ Timely /\ Timely' /\ [Next]_vars => LockInv'
<1> SUFFICES ASSUME LockInv, Timely, Timely', [Next]_vars PROVE LockInv'
  OBVIOUS
<1>1. Typed /\ Typed' /\ NoLateReset /\ NoLongDelay'
  BY TypedSteps DEF LockInv, Timely
<1>2. PICK H \in Int, T \in Int, P \in [Threads -> Int], C \in [Threads -> Int] : Places(H, T, P, C)
  BY DEF LockInv
<1>3. SUFFICES \E H2, T2 \in Int, P2, C2 \in [Threads -> Int] : Places(H2, T2, P2, C2)'
  BY <1>1 DEF LockInv
<1>4. ASSUME Places(H, T, P, C)' PROVE \E H2, T2 \in Int, P2, C2 \in [Threads -> Int] : Places(H2, T2, P2, C2)'
  BY <1>4
<1>5. ASSUME NEW t \in Threads, Places(H, T, [P EXCEPT ![t] = T], C)'
      PROVE  \E H2, T2 \in Int, P2, C2 \in [Threads -> Int] : Places(H2, T2, P2, C2)'
  <2>1. [P EXCEPT ![t] = T] \in [Threads -> Int]
    OBVIOUS
  <2> QED BY <1>5, <2>1
<1>6. ASSUME NEW t \in Threads, NEW c \in Int, Places(H, T, P, [C EXCEPT ![t] = c])'
      PROVE  \E H2, T2 \in Int, P2, C2 \in [Threads -> Int] : Places(H2, T2, P2, C2)'
  <2>1. [C EXCEPT ![t] = c] \in [Threads -> Int]
    OBVIOUS
  <2> QED BY <1>6, <2>1
<1>7. ASSUME NEW t \in Threads, Thread(t)
      PROVE  \E H2, T2 \in Int, P2, C2 \in [Threads -> Int] : Places(H2, T2, P2, C2)'
  <2>1. CASE Call(t) \/ EnqueueFails(t) \/ DequeueFails(t)
    BY <1>1, <1>2, <1>4, <2>1, CallKeeps
  <2>2. CASE LoadTail(t)
    BY <1>1, <1>2, <1>5, <2>2, LoadTailKeeps
  <2>3. CASE CheckFree(t) \/ Acquire(t) \/ CheckSequence(t)
    BY <1>1, <1>2, <1>4, <2>3, CheckFreeKeeps, AcquireKeeps, CheckSequenceKeeps
  <2>4. CASE CheckBits(t)
    BY <1>1, <1>2, <1>4, <2>4, CheckBitsKeeps
  <2>5. CASE LoadHead(t) \/ ReloadHead(t)
    BY <1>1, <1>2, <1>6, <2>5, LoadHeadKeeps
  <2>6. CASE SpinSequence(t) \/ SpinBits(t)
    <3>1. C[t] + 1 \in Int
      OBVIOUS
    <3>2. Places(H, T, P, C)' \/ Places(H, T, P, [C EXCEPT ![t] = C[t] + 1])'
      BY <1>1, <1>2, <2>6, SpinSequenceKeeps, SpinBitsKeeps
    <3> QED BY <1>4, <1>6, <3>1, <3>2
  <2>7. CASE SetBits(t) \/ SetSequence(t) \/ Release(t)
    BY <1>1, <1>2, <1>4, <2>7, SetBitsKeeps, SetSequenceKeeps, ReleaseKeeps
  <2>8. CASE ResetBits(t) \/ Free(t)
    BY <1>1, <1>2, <1>4, <2>8, ResetBitsKeeps, FreeKeeps
  <2>9. CASE Enqueue(t)
    <3>1. Places(H, T + 1, P, C)' /\ T + 1 \in Int
      BY <1>1, <1>2, <2>9, EnqueueKeeps
    <3> QED BY <3>1
  <2>10. CASE Dequeue(t)
    <3>1. Places(H + 1, T, P, C)' /\ H + 1 \in Int
      BY <1>1, <1>2, <2>10, DequeueKeeps
    <3> QED BY <3>1
  <2> QED BY <1>7, <2>1, <2>2, <2>3, <2>4, <2>5, <2>6, <2>7, <2>8, <2>9, <2>10 DEF Thread
<1>8. ASSUME UNCHANGED vars
      PROVE  \E H2, T2 \in Int, P2, C2 \in [Threads -> Int] : Places(H2, T2, P2, C2)'
  BY <1>2, <1>4, <1>8, StutterKeeps
<1> QED BY <1>7, <1>8 DEF Next, Finished

-----------------------------------------------------------------------------
(* What follows                                                            *)

LEMMA WindowHoldsRequests == LockInv => QueueHoldsRequests
<1> SUFFICES ASSUME LockInv PROVE QueueHoldsRequests
  OBVIOUS
<1>1. Typed
  BY DEF LockInv
<1>2. PICK H \in Int, T \in Int, P \in [Threads -> Int], C \in [Threads -> Int] : Places(H, T, P, C)
  BY DEF LockInv
<1>3. head = Index(H) /\ tail = Index(T) /\ H <= T /\ T <= H + BUFFER_SIZE
  BY <1>2 DEF Places, InWindow
<1>4. Minus(tail, head) = T - H
  <2>1. 0 <= T - H /\ T - H < INDICES
    BY <1>3, Sizes
  <2> QED BY <1>3, <2>1, MinusIs
<1>5. Minus(tail, head) <= BUFFER_SIZE
  BY <1>3, <1>4, Sizes
<1>6. ASSUME NEW t \in Queued PROVE Minus(pos[t], head) < Minus(tail, head)
  <2>1. t \in Threads /\ H <= P[t] /\ P[t] < T /\ P[t] \in Int
    BY <1>1, <1>2, OfQueued
  <2>2. 0 <= P[t] - H /\ P[t] - H < INDICES
    BY <1>3, <2>1, Sizes
  <2>3. pos[t] = Index(P[t])
    BY <1>2, <2>1 DEF Places, HasPositions
  <2>4. Minus(pos[t], head) = P[t] - H
    BY <1>3, <2>1, <2>2, <2>3, MinusIs
  <2> QED BY <1>4, <2>1, <2>4
<1> QED BY <1>5, <1>6 DEF QueueHoldsRequests

(* The order of the indices in the queue is that of the positions.         *)
LEMMA BeforeIs ==
    ASSUME NEW H \in Int, NEW T \in Int,
           NEW P \in [Threads -> Int], NEW C \in [Threads -> Int],
           Places(H, T, P, C), NEW t \in Threads, NEW u \in Threads,
           H <= P[t], P[t] <= T, H <= P[u], P[u] <= T, P[t] < T \/ P[u] < T,
           T < H + BUFFER_SIZE \/ (P[t] < T /\ P[u] < T)
    PROVE  Before(u, t) <=> P[u] < P[t]
<1>1. /\ T <= H + BUFFER_SIZE /\ P[t] \in Int /\ P[u] \in Int
      /\ pos[t] = Index(P[t]) /\ pos[u] = Index(P[u])
  BY DEF Places, InWindow, HasPositions
<1>2. P[t] - P[u] < BUFFER_SIZE /\ P[u] - P[t] < BUFFER_SIZE
  BY <1>1, Sizes
<1>3. CASE P[u] < P[t]
  <2>1. Minus(pos[t], pos[u]) = P[t] - P[u]
    <3>1. 0 <= P[t] - P[u] /\ P[t] - P[u] < INDICES
      BY <1>1, <1>2, <1>3, Sizes
    <3> QED BY <1>1, <3>1, MinusIs
  <2> QED BY <1>1, <1>2, <1>3, <2>1, Sizes DEF Before
<1>4. CASE P[u] = P[t]
  <2>1. Minus(pos[t], pos[u]) = 0
    <3>1. 0 <= P[t] - P[u] /\ P[t] - P[u] < INDICES
      BY <1>1, <1>4, Sizes
    <3>2. Minus(pos[t], pos[u]) = P[t] - P[u]
      BY <1>1, <3>1, MinusIs
    <3> QED BY <1>1, <1>4, <3>2
  <2> QED BY <1>4, <1>1, <2>1, Sizes DEF Before
<1>5. CASE P[t] < P[u]
  <2>1. Minus(pos[t], pos[u]) = (P[t] - P[u]) + INDICES
    <3>1. 0 < P[u] - P[t] /\ P[u] - P[t] <= INDICES
      BY <1>1, <1>2, <1>5, Sizes
    <3> QED BY <1>1, <3>1, MinusIs
  <2>2. (P[t] - P[u]) + INDICES > INDICES \div 2
    BY <1>1, <1>2, Sizes
  <2> QED BY <1>1, <1>5, <2>1, <2>2, Sizes DEF Before
<1> QED BY <1>1, <1>3, <1>4, <1>5

LEMMA HoldersApart == LockInv => Exclusive
<1> SUFFICES ASSUME LockInv, NEW t \in Holding, NEW u \in Holding, t /= u
             PROVE  resources[t] \cap resources[u] = {}
  BY DEF Exclusive, Promise!Exclusive, Promise!Conflict, Requests, Queued, Holding
<1>1. Typed
  BY DEF LockInv
<1>2. PICK H \in Int, T \in Int, P \in [Threads -> Int], C \in [Threads -> Int] : Places(H, T, P, C)
  BY DEF LockInv
<1>3. /\ t \in Threads /\ u \in Threads /\ pc[t] = "locked" /\ pc[u] = "locked"
      /\ t \in Queued /\ u \in Queued
  BY DEF Holding, Queued
<1>4. /\ C[t] = P[t] /\ C[u] = P[u] /\ P[t] \in Int /\ P[u] \in Int
      /\ \A v \in Queued : P[v] < C[t] => resources[v] \cap resources[t] = {}
      /\ \A v \in Queued : P[v] < C[u] => resources[v] \cap resources[u] = {}
  BY <1>2, <1>3 DEF Places, PassedBy
<1>5. P[t] /= P[u]
  BY <1>2, <1>3 DEF Places, RequestsApart
<1>6. CASE P[t] < P[u]
  BY <1>3, <1>4, <1>6
<1>7. CASE P[u] < P[t]
  BY <1>3, <1>4, <1>7
<1> QED BY <1>4, <1>5, <1>6, <1>7

-----------------------------------------------------------------------------
(* The abstract lock                                                       *)

AheadOf == [t \in Threads |-> Ahead(t)]

LEMMA PromiseStutters ==
    ASSUME Queued' = Queued, Holding' = Holding,
           \A u \in Queued : pos'[u] = pos[u] /\ resources'[u] = resources[u]
    PROVE  UNCHANGED <<Requests, Holding, AheadOf>>
<1>1. Requests' = Requests
  BY DEF Requests
<1>2. ASSUME NEW t \in Threads PROVE Ahead(t)' = Ahead(t)
  <2>1. CASE t \in Queued
    <3>1. \A u \in Queued : Before(u, t)' <=> Before(u, t)
      BY <2>1 DEF Before
    <3> QED BY <1>1, <3>1 DEF Ahead
  <2>2. CASE t \notin Queued
    <3>1. Requests[t] = {} /\ Requests'[t] = {}
      BY <1>1, <2>2 DEF Requests
    <3> QED BY <3>1 DEF Ahead
  <2> QED BY <2>1, <2>2
<1>3. AheadOf' = AheadOf
  BY <1>2 DEF AheadOf
<1> QED BY <1>1, <1>3

LEMMA EnqueueRequests ==
    ASSUME LockInv, NEW t \in Threads, Enqueue(t)
    PROVE  Promise!Request(t, resources[t]) /\ resources[t] \in (SUBSET Resources) \ {{}}
<1>1. Typed
  BY DEF LockInv
<1>2. PICK H \in Int, T \in Int, P \in [Threads -> Int], C \in [Threads -> Int] : Places(H, T, P, C)
  BY DEF LockInv
<1>3. /\ UNCHANGED <<pos, resources>>
      /\ \A u \in Threads \ {t} : pc'[u] = pc[u]
      /\ pc[t] = "casTail" /\ pc'[t] = "setBits"
  BY <1>1 DEF Enqueue, Goto, cells, Typed
<1>4. Queued' = Queued \cup {t} /\ Holding' = Holding /\ t \notin Queued
  <2>1. Queued' = Queued \cup {t} /\ t \notin Queued
    BY <1>3, QueuedIs, QueuedIsPrimed, QueuedAreThreads
  <2> QED BY <1>3, <2>1 DEF Holding
<1>5. resources[t] \in (SUBSET Resources) \ {{}}
  BY <1>1, <1>3 DEF Typed
<1>6. Requests[t] = {} /\ Requests' = [Requests EXCEPT ![t] = resources[t]]
  BY <1>3, <1>4 DEF Requests
<1>7. P[t] = T /\ T < H + BUFFER_SIZE /\ H <= T
  <2>1. P[t] = T /\ sequence[Cell(T)] = Index(T)
    BY <1>1, <1>2, EnqueueAtTail
  <2>2. T - BUFFER_SIZE < H
    BY <1>1, <1>2, <2>1, FreeCell
  <2> QED BY <1>2, <2>1, <2>2, Sizes DEF Places, InWindow
<1>8. ASSUME NEW u \in Queued PROVE u \in Threads /\ Before(u, t) /\ ~Before(t, u)
  <2>1. u \in Threads /\ H <= P[u] /\ P[u] < T /\ P[u] <= T /\ P[u] \in Int
    BY <1>1, <1>2, OfQueued
  <2>2. Before(u, t) <=> P[u] < P[t]
    BY <1>2, <1>7, <2>1, BeforeIs
  <2>3. Before(t, u) <=> P[t] < P[u]
    BY <1>2, <1>7, <2>1, BeforeIs
  <2> QED BY <1>7, <2>1, <2>2, <2>3
<1>9. \A u, v \in Threads : Before(u, v)' <=> Before(u, v)
  BY <1>3 DEF Before
<1>10. Ahead(t)' = {u \in Threads \ {t} : Requests[u] \cap resources[t] /= {}}
  <2>1. \A u \in Threads : u \notin Queued => Requests[u] = {}
    BY DEF Requests
  <2>2. \A u \in Queued : u /= t /\ Requests'[u] = Requests[u]
    BY <1>4, <1>6, QueuedAreThreads
  <2>3. Requests'[t] = resources[t]
    BY <1>6 DEF Requests
  <2>4. ~ Before(t, t)
    <3>1. P[t] \in Int /\ P[t] <= T
      BY <1>7
    <3>2. Before(t, t) <=> P[t] < P[t]
      <4>1. pos[t] = Index(P[t]) /\ Minus(Index(P[t]), Index(P[t])) = 0
        BY <1>2, <3>1, MinusIs, Sizes DEF Places, HasPositions
      <4> QED BY <3>1, <4>1, Sizes DEF Before
    <3> QED BY <3>1, <3>2
  <2>5. \A u \in Threads : u \in Ahead(t)' <=> u /= t /\ Requests[u] \cap resources[t] /= {}
    BY <1>4, <1>8, <1>9, <2>1, <2>2, <2>3, <2>4 DEF Ahead
  <2> QED BY <2>5, QueuedAreThreads DEF Ahead
<1>11. ASSUME NEW v \in Threads, v /= t PROVE Ahead(v)' = Ahead(v)
  <2>1. Requests'[v] = Requests[v] /\ \A u \in Queued : Requests'[u] = Requests[u]
    BY <1>4, <1>6, <1>11, QueuedAreThreads
  <2>2. v \notin Queued => Requests[v] = {}
    BY DEF Requests
  <2>3. v \in Queued => ~ Before(t, v)
    BY <1>8
  <2> QED BY <1>4, <1>9, <2>1, <2>2, <2>3, QueuedAreThreads DEF Ahead
<1>12. AheadOf' = [AheadOf EXCEPT ![t] = {u \in Threads \ {t} : Requests[u] \cap resources[t] /= {}}]
  BY <1>10, <1>11 DEF AheadOf
<1> QED BY <1>4, <1>5, <1>6, <1>12 DEF Promise!Request, AheadOf

(* A thread whose search has come to its own position waits for nobody.    *)
LEMMA NobodyAhead ==
    ASSUME Typed, NEW H \in Int, NEW T \in Int,
           NEW P \in [Threads -> Int], NEW C \in [Threads -> Int],
           Places(H, T, P, C), NEW t \in Threads, pc[t] \in {"spin", "locked"}, C[t] = P[t]
    PROVE  Ahead(t) = {}
<1> SUFFICES ASSUME NEW u \in Queued, Before(u, t) PROVE Requests[u] \cap Requests[t] = {}
  BY DEF Ahead
<1>1. t \in Queued
  BY QueuedIs
<1>2. /\ u \in Threads /\ H <= P[u] /\ P[u] < T /\ P[u] <= T
      /\ H <= P[t] /\ P[t] < T /\ P[t] <= T
  BY <1>1, OfQueued
<1>3. Before(u, t) <=> P[u] < P[t]
  BY <1>2, BeforeIs
<1>4. resources[u] \cap resources[t] = {}
  BY <1>3 DEF Places, PassedBy
<1> QED BY <1>1, <1>2, <1>4 DEF Requests

LEMMA AcquireGrants ==
    ASSUME LockInv, NEW t \in Threads, Acquire(t)
    PROVE  Promise!Grant(t)
<1>1. Typed
  BY DEF LockInv
<1>2. PICK H \in Int, T \in Int, P \in [Threads -> Int], C \in [Threads -> Int] : Places(H, T, P, C)
  BY DEF LockInv
<1>3. /\ UNCHANGED <<pos, resources>>
      /\ \A u \in Threads \ {t} : pc'[u] = pc[u]
      /\ pc[t] = "spin" /\ pc'[t] = "locked" /\ cur[t] = pos[t]
  BY <1>1 DEF Acquire, Goto, Typed
<1>4. Queued' = Queued /\ t \in Queued /\ Holding' = Holding \cup {t} /\ t \notin Holding
  <2>1. Queued' = Queued /\ t \in Queued
    BY <1>3, QueuedIs, QueuedIsPrimed, QueuedAreThreads
  <2> QED BY <1>3, <2>1 DEF Holding
<1>5. Requests[t] = resources[t] /\ resources[t] /= {}
  BY <1>1, <1>3, <1>4 DEF Requests, Typed
<1>6. C[t] = P[t]
  <2>1. C[t] <= P[t] /\ P[t] < C[t] + BUFFER_SIZE /\ P[t] \in Int /\ C[t] \in Int
    BY <1>2, <1>3 DEF Places, PassedBy
  <2>2. P[t] - C[t] < INDICES /\ C[t] - P[t] < INDICES
    BY <2>1, Sizes
  <2>3. Index(C[t]) = Index(P[t])
    BY <1>2, <1>3 DEF Places, HasPositions
  <2> QED BY <2>1, <2>2, <2>3, IndexApart
<1>7. Ahead(t) = {}
  BY <1>1, <1>2, <1>3, <1>6, NobodyAhead
<1>8. UNCHANGED <<Requests, AheadOf>>
  <2>1. Requests' = Requests
    BY <1>3, <1>4 DEF Requests
  <2>2. \A v \in Threads : Ahead(v)' = Ahead(v)
    BY <1>3, <1>4, <2>1 DEF Ahead, Before
  <2> QED BY <2>1, <2>2 DEF AheadOf
<1> QED BY <1>4, <1>5, <1>7, <1>8 DEF Promise!Grant, AheadOf

LEMMA ReleaseReleases ==
    ASSUME LockInv, NEW t \in Threads, Release(t)
    PROVE  Promise!Release(t)
<1>1. Typed
  BY DEF LockInv
<1>2. /\ UNCHANGED <<pos, resources>>
      /\ \A u \in Threads \ {t} : pc'[u] = pc[u]
      /\ pc[t] = "locked" /\ pc'[t] = "reloadHead"
  BY <1>1 DEF Release, Goto, Typed
<1>3. Queued' = Queued \ {t} /\ t \in Queued /\ Holding' = Holding \ {t} /\ t \in Holding
  <2>1. Queued' = Queued \ {t} /\ t \in Queued
    BY <1>2, QueuedIs, QueuedIsPrimed, QueuedAreThreads
  <2> QED BY <1>2, <2>1 DEF Holding
<1>4. Requests' = [Requests EXCEPT ![t] = {}]
  BY <1>2, <1>3 DEF Requests
<1>5. ASSUME NEW v \in Threads PROVE Ahead(v)' = Ahead(v) \ {t}
  <2>1. \A u \in Threads \ {t} : Requests'[u] = Requests[u]
    BY <1>4
  <2>2. Requests'[t] = {}
    BY <1>4 DEF Requests
  <2>3. \A u \in Threads : Before(u, v)' <=> Before(u, v)
    BY <1>2 DEF Before
  <2>4. CASE v = t
    <3>1. Ahead(v)' = {}
      BY <2>2, <2>4 DEF Ahead
    <3>2. PICK H \in Int, T \in Int, P \in [Threads -> Int], C \in [Threads -> Int] : Places(H, T, P, C)
      BY DEF LockInv
    <3>3. C[t] = P[t]
      BY <1>2, <3>2 DEF Places, PassedBy
    <3>4. Ahead(v) = {}
      BY <1>1, <1>2, <2>4, <3>2, <3>3, NobodyAhead
    <3> QED BY <3>1, <3>4
  <2>5. CASE v /= t
    BY <1>3, <2>1, <2>3, <2>5, QueuedAreThreads DEF Ahead
  <2> QED BY <2>4, <2>5
<1>6. AheadOf' = [u \in Threads |-> AheadOf[u] \ {t}]
  BY <1>5 DEF AheadOf
<1> QED BY <1>3, <1>4, <1>6 DEF Promise!Release, AheadOf

(* Every step of Lock and Unlock is a step of the abstract lock or changes *)
(* nothing that it sees.                                                   *)
LEMMA PromiseStep == LockInv /\ [Next]_vars => [Promise!Next]_(Promise!vars)
<1> SUFFICES ASSUME LockInv, [Next]_vars PROVE Promise!Next \/ UNCHANGED Promise!vars
  OBVIOUS
<1>1. Typed
  BY DEF LockInv
<1>2. UNCHANGED <<Requests, Holding, AheadOf>> => UNCHANGED Promise!vars
  BY DEF Promise!vars, AheadOf
<1>3. ASSUME NEW t \in Threads, Enqueue(t) PROVE Promise!Next
  BY <1>3, EnqueueRequests DEF Promise!Next
<1>4. ASSUME NEW t \in Threads, Acquire(t) PROVE Promise!Next
  BY <1>4, AcquireGrants DEF Promise!Next
<1>5. ASSUME NEW t \in Threads, Release(t) PROVE Promise!Next
  BY <1>5, ReleaseReleases DEF Promise!Next
<1>6. ASSUME NEW t \in Threads,
             \A u \in Threads \ {t} : pc'[u] = pc[u] /\ pos'[u] = pos[u] /\ resources'[u] = resources[u],
             \/ t \notin Queued /\ t \notin Queued'
             \/ t \in Queued /\ t \in Queued' /\ pos'[t] = pos[t] /\ resources'[t] = resources[t],
             pc[t] /= "locked" /\ pc'[t] /= "locked"
      PROVE  UNCHANGED Promise!vars
  <2>1. Queued' = Queued
    BY <1>6, QueuedIs, QueuedIsPrimed, QueuedAreThreads
  <2>2. Holding' = Holding
    BY <1>6 DEF Holding
  <2> QED BY <1>2, <1>6, <2>1, <2>2, QueuedAreThreads, PromiseStutters
<1>7. ASSUME NEW t \in Threads, Call(t) \/ LoadTail(t) \/ CheckFree(t) \/ EnqueueFails(t)
      PROVE  UNCHANGED Promise!vars
  <2>1. /\ \A u \in Threads \ {t} : pc'[u] = pc[u] /\ pos'[u] = pos[u] /\ resources'[u] = resources[u]
        /\ pc[t] \in {"idle", "loadTail", "checkFree", "casTail"}
        /\ pc'[t] \in {"loadTail", "checkFree", "casTail"}
    BY <1>1, <1>7 DEF Call, LoadTail, CheckFree, EnqueueFails, Goto, Typed
  <2>2. t \notin Queued /\ t \notin Queued'
    BY <2>1, QueuedIs, QueuedIsPrimed
  <2> QED BY <1>6, <2>1, <2>2
<1>8. ASSUME NEW t \in Threads,
             SetBits(t) \/ SetSequence(t) \/ LoadHead(t) \/ SpinSequence(t) \/ SpinBits(t)
      PROVE  UNCHANGED Promise!vars
  <2>1. /\ UNCHANGED <<pos, resources>> /\ \A u \in Threads \ {t} : pc'[u] = pc[u]
        /\ pc[t] \in {"setBits", "setSequence", "loadHead", "spin", "spinBits"}
        /\ pc'[t] \in {"setSequence", "loadHead", "spin", "spinBits"}
    BY <1>1, <1>8 DEF SetBits, SetSequence, LoadHead, SpinSequence, SpinBits, Goto, Typed
  <2>2. t \in Queued /\ t \in Queued'
    BY <2>1, QueuedIs, QueuedIsPrimed
  <2> QED BY <1>6, <2>1, <2>2
<1>9. ASSUME NEW t \in Threads,
             \/ ReloadHead(t) \/ CheckBits(t) \/ CheckSequence(t)
             \/ Dequeue(t) \/ DequeueFails(t) \/ ResetBits(t) \/ Free(t)
      PROVE  UNCHANGED Promise!vars
  <2>1. /\ UNCHANGED <<pos, resources>> /\ \A u \in Threads \ {t} : pc'[u] = pc[u]
        /\ pc[t] \in {"reloadHead", "checkBits", "checkSequence", "casHead", "resetBits", "free"}
        /\ pc'[t] \in {"idle", "reloadHead", "checkBits", "checkSequence", "casHead", "resetBits", "free"}
    BY <1>1, <1>9 DEF ReloadHead, CheckBits, CheckSequence, Dequeue, DequeueFails, ResetBits, Free, Goto, Typed
  <2>2. t \notin Queued /\ t \notin Queued'
    BY <2>1, QueuedIs, QueuedIsPrimed
  <2> QED BY <1>6, <2>1, <2>2
<1>10. CASE UNCHANGED vars
  <2>1. UNCHANGED <<pc, pos, resources>>
    BY <1>10 DEF vars
  <2>2. Queued' = Queued /\ Holding' = Holding
    BY <2>1 DEF Queued, Waiting, Holding
  <2> QED BY <1>2, <2>1, <2>2, PromiseStutters
<1> QED BY <1>3, <1>4, <1>5, <1>7, <1>8, <1>9, <1>10 DEF Next, Finished, Thread

LEMMA PromiseInit == Init => Promise!Init
<1> SUFFICES ASSUME Init PROVE Promise!Init
  OBVIOUS
<1>1. Queued = {} /\ Holding = {}
  BY DEF Init, Queued, Waiting, Holding
<1> QED BY <1>1 DEF Promise!Init, Requests, Ahead

(* The queue keeps what is in it: however often the indices wrap around    *)
(* and cells are used again, it never has more requests than cells, and no *)
(* request is dequeued before it is released (mrlock.h:68-141).            *)
THEOREM QueueIsKept == Spec /\ []Timely => []QueueHoldsRequests
<1>1. Init => LockInv
  BY InitPlaces
<1> QED BY <1>1, LockInvStep, WindowHoldsRequests, PTL DEF Spec

(* Of the threads between Lock (mrlock.h:68) and Unlock (mrlock.h:114), no *)
(* two have a resource in common.                                          *)
THEOREM LockExcludes == Spec /\ []Timely => []Exclusive
<1>1. Init => LockInv
  BY InitPlaces
<1> QED BY <1>1, LockInvStep, HoldersApart, PTL DEF Spec

(* Lock and Unlock implement the lock of module ResourceLock: conflicting  *)
(* requests are granted in the order of their places in the queue.         *)
THEOREM LockGrantsInOrder == Spec /\ []Timely => GrantsInOrder
<1>1. Init => LockInv
  BY InitPlaces
<1>2. Spec /\ []Timely => []LockInv
  BY <1>1, LockInvStep, PTL DEF Spec
<1> QED BY <1>2, PromiseInit, PromiseStep, PTL DEF Spec, GrantsInOrder, Promise!Spec
=============================================================================
