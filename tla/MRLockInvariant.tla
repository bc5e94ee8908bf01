--------------------------- MODULE MRLockInvariant ---------------------------
(***************************************************************************)
(* Why MRLock grants requests in their order.  The indices wrap around,    *)
(* and the invariant is about the positions behind them, which do not: H   *)
(* and T are the positions of the head and the tail, P[t] and C[t] those   *)
(* behind pos[t] and cur[t].                                               *)
(***************************************************************************)
EXTENDS MRLockSafety

Labels ==
    {"idle", "loadTail", "checkFree", "casTail", "setBits", "setSequence", "loadHead",
     "spin", "spinBits", "locked", "reloadHead", "checkBits", "checkSequence",
     "casHead", "resetBits", "free"}

Typed ==
    /\ sequence \in [0 .. BUFFER_SIZE - 1 -> Int]
    /\ bits \in [0 .. BUFFER_SIZE - 1 -> SUBSET Resources]
    /\ head \in Int /\ tail \in Int
    /\ pc \in [Threads -> Labels]
    /\ pos \in [Threads -> Int]
    /\ cur \in [Threads -> Int]
    /\ resources \in [Threads -> SUBSET Resources]
    /\ todo \in [Threads -> Seq((SUBSET Resources) \ {{}})]
    /\ \A t \in Threads : pc[t] /= "idle" => resources[t] /= {}

Index(i) == i % INDICES

(* Between the compare-and-swap at the head and the store that frees the   *)
(* cell.                                                                   *)
Dequeuing == {t \in Threads : pc[t] \in {"resetBits", "free"}}

(* The positions from head to tail are in use, and no cell has two.        *)
InWindow(H, T) ==
    /\ head = Index(H) /\ tail = Index(T)
    /\ H <= T /\ T <= H + BUFFER_SIZE

HasPositions(P, C) == \A t \in Threads : pos[t] = Index(P[t]) /\ cur[t] = Index(C[t])

(* Each request in the queue has a position of its own, and its cell.      *)
RequestsInCells(H, T, P) ==
    \A t \in Queued :
        /\ H <= P[t] /\ P[t] < T
        /\ pc[t] \in {"setBits", "setSequence"} => sequence[Cell(P[t])] = Index(P[t])
        /\ pc[t] \notin {"setBits", "setSequence"} => sequence[Cell(P[t])] = Index(P[t] + 1)
        /\ pc[t] = "setBits" => bits[Cell(P[t])] = AllOnes
        /\ pc[t] /= "setBits" => bits[Cell(P[t])] = resources[t]

RequestsApart(P) == \A t, u \in Queued : P[t] = P[u] => t = u

(* Who dequeues a cell has it until it is free, and nobody enqueues there. *)
DequeuedCells(H, T, C) ==
    \A t \in Dequeuing :
        /\ C[t] < H /\ T <= C[t] + BUFFER_SIZE
        /\ sequence[Cell(C[t])] = Index(C[t] + 1)
        /\ pc[t] = "free" => bits[Cell(C[t])] = AllOnes

DequeuersApart(C) == \A t, u \in Dequeuing : C[t] = C[u] => t = u

(* A cell of the queue has a request or has been released; another one is  *)
(* free or about to be.                                                    *)
CellsAccounted(H, T, P, C) ==
    \A p \in T - BUFFER_SIZE .. T - 1 :
        /\ p >= H => \/ \E t \in Queued : P[t] = p
                     \/ sequence[Cell(p)] = Index(p + 1) /\ bits[Cell(p)] = {}
        /\ p < H => \/ \E t \in Dequeuing : C[t] = p
                    \/ sequence[Cell(p)] = Index(p + BUFFER_SIZE) /\ bits[Cell(p)] = AllOnes

(* The cell that t found free is free as long as the tail is there.        *)
TailSeen(t, T, P) ==
    /\ pc[t] \in {"checkFree", "casTail"} => P[t] <= T /\ T - P[t] <= INDICES \div 2
    /\ pc[t] = "casTail" /\ P[t] = T => sequence[Cell(T)] = Index(T)

(* The request that t found released is in the queue as long as the head   *)
(* is there.                                                               *)
HeadSeen(t, H, T, C) ==
    /\ pc[t] \in {"checkBits", "checkSequence", "casHead"} =>
           C[t] <= H /\ H - C[t] <= INDICES \div 2
    /\ pc[t] \in {"checkSequence", "casHead"} /\ C[t] = H => H < T /\ bits[Cell(H)] = {}

(* No request that t has passed by conflicts with its own.                 *)
PassedBy(t, P, C) ==
    /\ pc[t] \in {"spin", "spinBits", "locked"} =>
           /\ C[t] <= P[t] /\ P[t] < C[t] + BUFFER_SIZE
           /\ \A u \in Queued : P[u] < C[t] => resources[u] \cap resources[t] = {}
    /\ pc[t] = "spinBits" => C[t] < P[t]
    /\ pc[t] = "locked" => C[t] = P[t]

Places(H, T, P, C) ==
    /\ InWindow(H, T) /\ HasPositions(P, C)
    /\ RequestsInCells(H, T, P) /\ RequestsApart(P)
    /\ DequeuedCells(H, T, C) /\ DequeuersApart(C)
    /\ CellsAccounted(H, T, P, C)
    /\ \A t \in Threads : TailSeen(t, T, P) /\ HeadSeen(t, H, T, C) /\ PassedBy(t, P, C)

LockInv ==
    /\ Typed
    /\ \E H, T \in Int, P, C \in [Threads -> Int] : Places(H, T, P, C)
=============================================================================
