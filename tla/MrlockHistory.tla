----------------------------- MODULE MrlockHistory -----------------------------
(***************************************************************************)
(* MrlockTree keeps the promise of a search tree (SearchTree).  A history  *)
(* variable records, for every call in progress, the answers that it may   *)
(* return so far.                                                          *)
(***************************************************************************)
EXTENDS MrlockSafety

CONSTANT Values     \* the values that the properties count

VARIABLE answers

hvars == <<vars, answers>>

CallsMade == UNION { UNION {ToSet(p[t]) : t \in Threads} : p \in Programs }

ASSUME ValuesAssumption ==
    /\ Values \subseteq Int
    /\ \A c \in CallsMade : c.op /= "rangeQuery" => c.key \in Values

(* How many copies of v the bases hold together.                           *)
Items == [v \in Values |-> Cardinality(Places(nodes, Bases(nodes), v))]

Promise == INSTANCE SearchTree WITH items <- Items, Calls <- CallsMade

(* An update answers what it saw when it stored its treap.                 *)
Allowed(t) ==
    IF call'[t] = NoCall THEN {}
    ELSE IF call'[t].op \in {"lookup", "rangeQuery"} THEN answers[t] \cup {Promise!Answer(Items', call'[t])}
    ELSE IF pc[t] = "search" /\ pc'[t] \in {"split", "merge", "unlock"} THEN {success'[t]}
    ELSE answers[t]

HInit == Init /\ answers = [t \in Threads |-> {}]
HNext == Next /\ answers' = [t \in Threads |-> Allowed(t)]
HSpec == HInit /\ [][HNext]_hvars /\ \A t \in Threads : WF_hvars(Thread(t) /\ HNext)

-----------------------------------------------------------------------------
(* Each call acts in one step between its call and its return, as long as  *)
(* the tree lives: the lock keeps others away from what is not one step in *)
(* the code, a split or merge moves values without losing any, and a call  *)
(* that ends with an exception has either acted or not.                    *)
Linearizable == Promise!Init /\ [][isPreallocated => Promise!Next]_(Promise!vars)

Wanted(c) == {v \in Values : c.key <= v /\ v <= c.hi}

(* A query returns the values in its range as they were at one moment of   *)
(* the query, each as often as the tree held it: it leaves no base out     *)
(* and goes to none twice, also where its bounds are keys of routes.       *)
RangeAtomic ==
    \A t \in Threads : pc[t] = "unlock" /\ call[t].op = "rangeQuery" =>
        [v \in Wanted(call[t]) |-> Copies(result[t], v)] \in answers[t]

(* Every call returns or throws: a call that throws releases the lock too. *)
CallsEnd == \A t \in Threads : (call[t] /= NoCall) ~> (call[t] = NoCall \/ pc[t] = "failed")

-----------------------------------------------------------------------------
(* The invariant that makes the answers right.                             *)

(* The bases that the query of t has still to come to, each of them once.  *)
Waiting(t) == Bases(nodes) \cap Below(nodes, ToSet(nodesToCheck[t]))

QueryOK(t) ==
    /\ call[t].op = "rangeQuery"
    /\ ToSet(nodesToCheck[t]) \subseteq Below(nodes, {head})
    /\ Apart(nodes, nodesToCheck[t])
    /\ \A v \in Wanted(call[t]) :
        Copies(result[t], v) + Cardinality(Places(nodes, Waiting(t), v)) = Items[v]

(* What the call of t was right to answer up to now.                       *)
ReadOK(t) ==
    /\ Promise!Answer(Items, call[t]) \in answers[t]
    /\ call[t].op = "lookup" /\ pc[t] \in {"unlock", "return"} => success[t] \in answers[t]
    /\ call[t].op = "rangeQuery" => success[t] = TRUE

UpdateOK(t) ==
    /\ pc[t] \in {"lock", "wait", "search"} => answers[t] = {}
    /\ pc[t] \in {"split", "splitLeft", "splitRight", "merge", "unlock", "return"} =>
        answers[t] = {success[t]}

AnswersOK(t) ==
    /\ ToSet(todo[t]) \cup {call[t]} \subseteq CallsMade \cup {NoCall}
    /\ call[t] = NoCall => answers[t] = {}
    /\ pc[t] \in {"idle", "lock", "wait", "search", "query"} => success[t] = TRUE
    /\ pc[t] \in {"idle", "lock", "wait"} => result[t] = <<>>
    /\ pc[t] = "query" => QueryOK(t)
    /\ pc[t] \in {"split", "splitLeft", "splitRight", "merge"} => Promise!IsUpdate(call[t])
    /\ Promise!IsRead(call[t]) => ReadOK(t)
    /\ Promise!IsUpdate(call[t]) => UpdateOK(t)

HistoryInv == (\A t \in Threads : AnswersOK(t)) /\ RangeAtomic
=============================================================================
