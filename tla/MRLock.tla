------------------------------- MODULE MRLock -------------------------------
(***************************************************************************)
(* Class MRLock (lib/mrlock/src/mrlock.h): a multi-resource lock, which is *)
(* a bounded queue of requests in a circular buffer.  A thread enqueues    *)
(* its request at the tail, and waits for each earlier request that it     *)
(* conflicts with.  It unlocks by clearing the bits of its request, and    *)
(* dequeues the cleared requests at the head.                              *)
(*                                                                         *)
(* Every action performs at most one access to shared memory.  The bits of *)
(* a cell are plain memory; a bitset of up to 32 resources is one word,    *)
(* which is loaded and stored as a whole.                                  *)
(***************************************************************************)
EXTENDS Integers, Sequences

CONSTANTS
    Threads,
    Resources,
    BUFFER_SIZE,    \* a power of two greater than the number of threads
    INDICES,        \* the number of values of a uint32_t: 2^32
    Programs,       \* functions from Threads to sequences of requests
    Starts          \* how many requests have come and gone before

ASSUME BufferAssumption == BUFFER_SIZE \in Nat \ {0, 1}
ASSUME IndexAssumption == INDICES \in Nat /\ INDICES > BUFFER_SIZE /\ INDICES % BUFFER_SIZE = 0
ASSUME ProgramsAssumption == Programs \subseteq [Threads -> Seq((SUBSET Resources) \ {{}})]
ASSUME StartsAssumption == Starts \subseteq 0 .. INDICES - 1

VARIABLES
    sequence, bits,     \* the cells: m_sequence and m_bits
    head, tail,
    pc,
    pos,                \* pos[t]: pos in Lock, then the handle
    cur,                \* cur[t]: spinPos in Lock, pos in Unlock
    resources,          \* resources[t]: the argument of Lock
    todo                \* todo[t]: the requests t has not made yet

cells == <<sequence, bits>>
vars == <<cells, head, tail, pc, pos, cur, resources, todo>>

Cell(i) == i % BUFFER_SIZE
Plus(i, n) == (i + n) % INDICES
Minus(i, j) == (i - j) % INDICES

(* Cells hold all 1s unless a request is in them, so that a request which  *)
(* is enqueued but not yet written lets no later one pass.                 *)
AllOnes == Resources

(* Faulty: the cells are cleared at first.                                 *)
InitBufferZero(start) ==
    /\ head = start
    /\ tail = start
    /\ sequence = [c \in 0 .. BUFFER_SIZE - 1 |-> Plus(start, (c - start) % BUFFER_SIZE)]
    /\ bits = [c \in 0 .. BUFFER_SIZE - 1 |-> {}]

(* The buffer after start requests, all dequeued: start = 0 is what the    *)
(* constructor makes.                                                      *)
InitBuffer(start) ==
    /\ head = start
    /\ tail = start
    /\ sequence = [c \in 0 .. BUFFER_SIZE - 1 |-> Plus(start, (c - start) % BUFFER_SIZE)]
    /\ bits = [c \in 0 .. BUFFER_SIZE - 1 |-> AllOnes]

Init ==
    /\ \E start \in Starts : InitBuffer(start)
    /\ pc = [t \in Threads |-> "idle"]
    /\ pos = [t \in Threads |-> 0]
    /\ cur = [t \in Threads |-> 0]
    /\ resources = [t \in Threads |-> {}]
    /\ todo \in Programs

Goto(t, label) == pc' = [pc EXCEPT ![t] = label]

-----------------------------------------------------------------------------
(* Lock                                                                    *)

Call(t) ==
    /\ pc[t] = "idle" /\ todo[t] /= <<>>
    /\ resources' = [resources EXCEPT ![t] = Head(todo[t])]
    /\ todo' = [todo EXCEPT ![t] = Tail(@)]
    /\ Goto(t, "loadTail")
    /\ UNCHANGED <<cells, head, tail, pos, cur>>

LoadTail(t) ==
    /\ pc[t] = "loadTail"
    /\ pos' = [pos EXCEPT ![t] = tail]
    /\ Goto(t, "checkFree")
    /\ UNCHANGED <<cells, head, tail, cur, resources, todo>>

(* The cell at the tail is free, unless the queue is full.                 *)
CheckFree(t) ==
    /\ pc[t] = "checkFree"
    /\ Goto(t, IF sequence[Cell(pos[t])] = pos[t] THEN "casTail" ELSE "loadTail")
    /\ UNCHANGED <<cells, head, tail, pos, cur, resources, todo>>

Enqueue(t) ==
    /\ pc[t] = "casTail"
    /\ tail = pos[t]
    /\ tail' = Plus(pos[t], 1)
    /\ Goto(t, "setBits")
    /\ UNCHANGED <<cells, head, pos, cur, resources, todo>>

(* compare_exchange_weak may also fail for no reason.                      *)
EnqueueFails(t) ==
    /\ pc[t] = "casTail"
    /\ Goto(t, "loadTail")
    /\ UNCHANGED <<cells, head, tail, pos, cur, resources, todo>>

SetBits(t) ==
    /\ pc[t] = "setBits"
    /\ bits' = [bits EXCEPT ![Cell(pos[t])] = resources[t]]
    /\ Goto(t, "setSequence")
    /\ UNCHANGED <<sequence, head, tail, pos, cur, resources, todo>>

SetSequence(t) ==
    /\ pc[t] = "setSequence"
    /\ sequence' = [sequence EXCEPT ![Cell(pos[t])] = Plus(pos[t], 1)]
    /\ Goto(t, "loadHead")
    /\ UNCHANGED <<bits, head, tail, pos, cur, resources, todo>>

LoadHead(t) ==
    /\ pc[t] = "loadHead"
    /\ cur' = [cur EXCEPT ![t] = head]
    /\ Goto(t, "spin")
    /\ UNCHANGED <<cells, head, tail, pos, resources, todo>>

Acquire(t) ==
    /\ pc[t] = "spin"
    /\ cur[t] = pos[t]
    /\ Goto(t, "locked")
    /\ UNCHANGED <<cells, head, tail, pos, cur, resources, todo>>

(* A cell whose sequence is far off has been dequeued since: move on.      *)
SpinSequence(t) ==
    /\ pc[t] = "spin"
    /\ cur[t] /= pos[t]
    /\ IF Minus(pos[t], sequence[Cell(cur[t])]) > BUFFER_SIZE - 1
       THEN cur' = [cur EXCEPT ![t] = Plus(@, 1)] /\ UNCHANGED pc
       ELSE Goto(t, "spinBits") /\ UNCHANGED cur
    /\ UNCHANGED <<cells, head, tail, pos, resources, todo>>

(* A request without a common resource is passed by.                       *)
SpinBits(t) ==
    /\ pc[t] = "spinBits"
    /\ cur' = IF bits[Cell(cur[t])] \cap resources[t] = {}
              THEN [cur EXCEPT ![t] = Plus(@, 1)] ELSE cur
    /\ Goto(t, "spin")
    /\ UNCHANGED <<cells, head, tail, pos, resources, todo>>

-----------------------------------------------------------------------------
(* Unlock                                                                  *)

Release(t) ==
    /\ pc[t] = "locked"
    /\ bits' = [bits EXCEPT ![Cell(pos[t])] = {}]
    /\ Goto(t, "reloadHead")
    /\ UNCHANGED <<sequence, head, tail, pos, cur, resources, todo>>

ReloadHead(t) ==
    /\ pc[t] = "reloadHead"
    /\ cur' = [cur EXCEPT ![t] = head]
    /\ Goto(t, "checkBits")
    /\ UNCHANGED <<cells, head, tail, pos, resources, todo>>

(* Faulty: dequeues what has not been released.                            *)
CheckBitsNot(t) ==
    /\ pc[t] = "checkBits"
    /\ Goto(t, "checkSequence")
    /\ UNCHANGED <<cells, head, tail, pos, cur, resources, todo>>

CheckBits(t) ==
    /\ pc[t] = "checkBits"
    /\ Goto(t, IF bits[Cell(cur[t])] = {} THEN "checkSequence" ELSE "idle")
    /\ UNCHANGED <<cells, head, tail, pos, cur, resources, todo>>

CheckSequence(t) ==
    /\ pc[t] = "checkSequence"
    /\ Goto(t, IF sequence[Cell(cur[t])] = Plus(cur[t], 1) THEN "casHead" ELSE "reloadHead")
    /\ UNCHANGED <<cells, head, tail, pos, cur, resources, todo>>

Dequeue(t) ==
    /\ pc[t] = "casHead"
    /\ head = cur[t]
    /\ head' = Plus(cur[t], 1)
    /\ Goto(t, "resetBits")
    /\ UNCHANGED <<cells, tail, pos, cur, resources, todo>>

DequeueFails(t) ==
    /\ pc[t] = "casHead"
    /\ Goto(t, "reloadHead")
    /\ UNCHANGED <<cells, head, tail, pos, cur, resources, todo>>

ResetBits(t) ==
    /\ pc[t] = "resetBits"
    /\ bits' = [bits EXCEPT ![Cell(cur[t])] = AllOnes]
    /\ Goto(t, "free")
    /\ UNCHANGED <<sequence, head, tail, pos, cur, resources, todo>>

(* Faulty: frees the cell for the position it had.                         *)
FreeSame(t) ==
    /\ pc[t] = "free"
    /\ sequence' = [sequence EXCEPT ![Cell(cur[t])] = cur[t]]
    /\ Goto(t, "reloadHead")
    /\ UNCHANGED <<bits, head, tail, pos, cur, resources, todo>>

Free(t) ==
    /\ pc[t] = "free"
    /\ sequence' = [sequence EXCEPT ![Cell(cur[t])] = Plus(cur[t], BUFFER_SIZE)]
    /\ Goto(t, "reloadHead")
    /\ UNCHANGED <<bits, head, tail, pos, cur, resources, todo>>

-----------------------------------------------------------------------------
Thread(t) ==
    \/ Call(t) \/ LoadTail(t) \/ CheckFree(t) \/ Enqueue(t) \/ EnqueueFails(t)
    \/ SetBits(t) \/ SetSequence(t) \/ LoadHead(t)
    \/ Acquire(t) \/ SpinSequence(t) \/ SpinBits(t)
    \/ Release(t) \/ ReloadHead(t) \/ CheckBits(t) \/ CheckSequence(t)
    \/ Dequeue(t) \/ DequeueFails(t) \/ ResetBits(t) \/ Free(t)

Finished ==
    /\ \A t \in Threads : pc[t] = "idle" /\ todo[t] = <<>>
    /\ UNCHANGED vars

Next == Finished \/ \E t \in Threads : Thread(t)

Spec == Init /\ [][Next]_vars

(* Threads are scheduled, and a compare_exchange_weak that could succeed   *)
(* again and again does not fail for ever.                                 *)
Fairness ==
    \A t \in Threads : WF_vars(Thread(t)) /\ SF_vars(Enqueue(t) \/ Dequeue(t))
FairSpec == Spec /\ Fairness
=============================================================================
