----------------------------- MODULE SearchTree -----------------------------
(***************************************************************************)
(* What a search tree (searchtree.h) promises the threads that share it:   *)
(* a multiset of values on which every insert, remove and lookup acts as   *)
(* if in one instant between its call and its return.  An update acts      *)
(* once, in a step of its own.  A read may return any answer that was      *)
(* right at some moment since it was called, which is the same as choosing *)
(* that moment afterwards.  Of a range query only this is said here: that  *)
(* it changes nothing, and which answers would be right.                   *)
(***************************************************************************)
EXTENDS Integers

CONSTANTS
    Threads,
    Values,     \* the values the tree may hold
    Calls,      \* the calls a thread may make: [op, key, hi] records
    NoCall      \* the call of a thread that is outside the tree

VARIABLES
    items,      \* items[v]: how many copies of v the tree holds
    call,       \* call[t]: the call t is executing, or NoCall
    answers,    \* answers[t]: the answers that call may return so far
    reply       \* reply[t]: what the last call of t returned

vars == <<items, call, answers, reply>>

(* The answer of call c to a caller that finds the multiset its.  insert   *)
(* has no result (treap_insert's is always true); remove and lookup tell   *)
(* whether the value was there, a range query how often each value was.    *)
Answer(its, c) ==
    IF c.op = "rangeQuery" THEN [v \in {w \in Values : c.key <= w /\ w <= c.hi} |-> its[v]]
    ELSE c.op = "insert" \/ its[c.key] > 0

Effect(its, c) ==
    IF c.op = "insert" THEN [its EXCEPT ![c.key] = @ + 1]
    ELSE IF its[c.key] > 0 THEN [its EXCEPT ![c.key] = @ - 1]
    ELSE its

IsRead(c) == c /= NoCall /\ c.op \in {"lookup", "rangeQuery"}
IsUpdate(c) == c /= NoCall /\ c.op \in {"insert", "remove"}

(* The tree may hold any values when the first call is made.               *)
Init ==
    /\ items \in [Values -> Nat]
    /\ call = [t \in Threads |-> NoCall]
    /\ answers = [t \in Threads |-> {}]
    /\ reply \in [Threads -> BOOLEAN]

Invoke(t, c) ==
    /\ call[t] = NoCall
    /\ call' = [call EXCEPT ![t] = c]
    /\ answers' = [answers EXCEPT ![t] = IF IsRead(c) THEN {Answer(items, c)} ELSE {}]
    /\ UNCHANGED <<items, reply>>

TakeEffect(t) ==
    /\ IsUpdate(call[t])
    /\ answers[t] = {}
    /\ items' = Effect(items, call[t])
    /\ answers' = [u \in Threads |->
                     IF u = t THEN {Answer(items, call[t])}
                     ELSE IF IsRead(call[u]) THEN answers[u] \cup {Answer(items', call[u])}
                     ELSE answers[u]]
    /\ UNCHANGED <<call, reply>>

Return(t) ==
    /\ call[t] /= NoCall
    /\ \E a \in answers[t] :
            reply' = [reply EXCEPT ![t] = IF call[t].op = "rangeQuery" THEN TRUE ELSE a]
    /\ call' = [call EXCEPT ![t] = NoCall]
    /\ answers' = [answers EXCEPT ![t] = {}]
    /\ UNCHANGED items

Next == \E t \in Threads : TakeEffect(t) \/ Return(t) \/ \E c \in Calls : Invoke(t, c)

Spec == Init /\ [][Next]_vars
=============================================================================
