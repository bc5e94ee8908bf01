----------------------------- MODULE MRSimpleLock -----------------------------
(***************************************************************************)
(* Class MRSimpleLock (mrsimplelock.h), a multi-resource lock without a    *)
(* queue: a word with one bit for each resource, which is read first and   *)
(* then changed by compare_exchange_weak.  The word is the only shared     *)
(* memory, so that memory_order_relaxed leaves its values in one order;    *)
(* what the resources' holders write elsewhere is not ordered by it.       *)
(***************************************************************************)
CONSTANTS Threads, Resources

VARIABLES
    m_bits,     \* the resources whose bits are set
    pc,
    resources,  \* resources[t]: the argument of t's Lock and Unlock
    bits        \* bits[t]: what t has last read from m_bits

vars == <<m_bits, pc, resources, bits>>

Init ==
    /\ m_bits = {}
    /\ pc = [t \in Threads |-> "idle"]
    /\ resources = [t \in Threads |-> {}]
    /\ bits = [t \in Threads |-> {}]

Goto(t, label) == pc' = [pc EXCEPT ![t] = label]

Lock(t, rs) ==
    /\ pc[t] = "idle"
    /\ resources' = [resources EXCEPT ![t] = rs]
    /\ Goto(t, "load")
    /\ UNCHANGED <<m_bits, bits>>

(* The load and the test of what was read; they are repeated until no bit  *)
(* of the request is set.                                                  *)
Load(t) ==
    /\ pc[t] = "load"
    /\ bits' = [bits EXCEPT ![t] = m_bits]
    /\ Goto(t, IF m_bits \cap resources[t] = {} THEN "set" ELSE "load")
    /\ UNCHANGED <<m_bits, resources>>

SetBits(t) ==
    /\ pc[t] = "set" /\ m_bits = bits[t]
    /\ m_bits' = bits[t] \cup resources[t]
    /\ Goto(t, "held")
    /\ UNCHANGED <<resources, bits>>

(* The weak compare_exchange may fail even if the values are equal.        *)
SetFails(t) ==
    /\ pc[t] = "set"
    /\ Goto(t, "load")
    /\ UNCHANGED <<m_bits, resources, bits>>

Unlock(t) ==
    /\ pc[t] = "held"
    /\ bits' = [bits EXCEPT ![t] = m_bits]
    /\ Goto(t, "clear")
    /\ UNCHANGED <<m_bits, resources>>

ClearBits(t) ==
    /\ pc[t] = "clear" /\ m_bits = bits[t]
    /\ m_bits' = bits[t] \ resources[t]
    /\ Goto(t, "idle")
    /\ UNCHANGED <<resources, bits>>

ClearFails(t) ==
    /\ pc[t] = "clear"
    /\ Goto(t, "held")
    /\ UNCHANGED <<m_bits, resources, bits>>

Step(t) ==
    \/ \E rs \in SUBSET Resources : Lock(t, rs)
    \/ Load(t) \/ SetBits(t) \/ SetFails(t)
    \/ Unlock(t) \/ ClearBits(t) \/ ClearFails(t)

Next == \E t \in Threads : Step(t)

Spec == Init /\ [][Next]_vars

Holders == {t \in Threads : pc[t] \in {"held", "clear"}}

(* Two threads that are between Lock (mrsimplelock.h:25-40) and the end of *)
(* Unlock have no resource in common, however often the word changes       *)
(* between their loads and their exchanges.                                *)
Exclusive == \A t, u \in Holders : t /= u => resources[t] \cap resources[u] = {}

(* The bits that are set are those of the holders: Unlock                  *)
(* (mrsimplelock.h:42-52) neither frees a resource of another thread nor   *)
(* leaves one locked for ever.                                             *)
BitsAreHeld == m_bits = UNION {resources[t] : t \in Holders}
=============================================================================
