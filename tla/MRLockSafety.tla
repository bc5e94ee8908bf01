---------------------------- MODULE MRLockSafety ----------------------------
(***************************************************************************)
(* What MRLock promises, and the condition under which it does so for any  *)
(* number of requests.                                                     *)
(***************************************************************************)
EXTENDS MRLock

(* The requests in the queue: from the compare-and-swap at the tail to the *)
(* store that clears the bits.                                             *)

Waiting == {t \in Threads : pc[t] \in {"setBits", "setSequence", "loadHead", "spin", "spinBits"}}
Holding == {t \in Threads : pc[t] = "locked"}
Queued == Waiting \cup Holding

Requests == [t \in Threads |-> IF t \in Queued THEN resources[t] ELSE {}]

(* u's position is before t's.                                             *)
Before(u, t) == Minus(pos[t], pos[u]) \in 1 .. (INDICES \div 2)
Ahead(t) == {u \in Queued : Before(u, t) /\ Requests[u] \cap Requests[t] /= {}}

Promise == INSTANCE ResourceLock WITH
    request <- Requests, holds <- Holding, ahead <- [t \in Threads |-> Ahead(t)]

(* Lock and Unlock implement a lock that grants conflicting requests in    *)
(* the order of their positions, one at a time: a request is made when the *)
(* tail moves, before its bits are written, and granted when spinPos has   *)
(* reached it.                                                             *)
GrantsInOrder == Promise!Spec

Exclusive == Promise!Exclusive

(* The queue never holds more requests than it has cells, and whoever is   *)
(* in it has not been dequeued.                                            *)
QueueHoldsRequests ==
    /\ Minus(tail, head) <= BUFFER_SIZE
    /\ \A t \in Queued : Minus(pos[t], head) < Minus(tail, head)

(* Every thread that asks gets its resources, if those that have them give *)
(* them back: no wake-up is lost and the queue does not clog.              *)
LockReturns == \A t \in Threads : (pc[t] = "loadTail") ~> (pc[t] = "locked")

-----------------------------------------------------------------------------
(* When the promise is kept                                                *)

(* No thread looks at the bits of the cell at the head while another one,  *)
(* which has dequeued the cell's previous request, has still to reset      *)
(* them.  Unlock reads the bits before the sequence number, so that the    *)
(* bits may be the previous request's and the number the next one's.       *)
NoLateReset ==
    \A t, u \in Threads :
        pc[t] = "checkBits" /\ pc[u] = "resetBits" => cur[t] /= Plus(cur[u], BUFFER_SIZE)

(* No thread keeps a position, from its load of the tail or the head to    *)
(* its compare-and-swap, while half of all indices are used: the indices   *)
(* wrap around, and may come back to it.                                   *)
NoLongDelay ==
    \A t \in Threads :
        /\ pc[t] \in {"checkFree", "casTail"} => Minus(tail, pos[t]) <= INDICES \div 2
        /\ pc[t] \in {"checkBits", "checkSequence", "casHead"} =>
               Minus(head, cur[t]) <= INDICES \div 2

Timely == NoLateReset /\ NoLongDelay
=============================================================================
