---------------------------- MODULE LfcaHistory -----------------------------
(***************************************************************************)
(* The tree against what a search tree promises (module SearchTree).  A    *)
(* history variable records, for every call in progress, the answers that  *)
(* the promise allows it to return so far.                                 *)
(***************************************************************************)
EXTENDS LfcaPlaces

CONSTANT Values     \* the values the tree may hold

VARIABLE answers

hvars == <<vars, answers>>

CallsMade == UNION { {p[t][i] : i \in DOMAIN p[t]} : <<p, t>> \in Programs \X Threads }

(* How many copies of v the tree holds, for a thread that looks v up.      *)
Count(d, v) == Cardinality({i \in DOMAIN d : d[i] = v})
Items == [v \in Values |-> Count(heap[BaseOf(v)].data, v)]

Promise == INSTANCE SearchTree WITH
    items <- Items, Calls <- CallsMade, reply <- [t \in Threads |-> reply[t].result]

(* A read may answer what it sees in any state of its call; an update      *)
(* answers what its successful compare-and-swap saw.                       *)
Allowed(t) ==
    IF call'[t] = NoCall THEN {}
    ELSE IF call'[t].op \in {"lookup", "rangeQuery"} THEN answers[t] \cup {Promise!Answer(Items', call'[t])}
    ELSE IF pc[t] = "replace" /\ pc'[t] \notin {"replace", "help"} THEN {loc'[t].result}
    ELSE answers[t]

HistoryInit == answers = [t \in Threads |-> {}]
HInit == Init /\ HistoryInit
HNext == Next /\ answers' = [t \in Threads |-> Allowed(t)]
HSpec == HInit /\ [][HNext]_hvars

Fairness == \A t \in Running : WF_hvars(Thread(t) /\ HNext)
HFairSpec == HSpec /\ Fairness

(* insert, remove and lookup are linearizable: the updates act at their    *)
(* successful compare-and-swap, splits and joins never change the contents,*)
(* and a lookup, whose base node may long have been replaced when it reads *)
(* it, returns what was true at some moment of its call.                   *)
Linearizable == Promise!Spec

-----------------------------------------------------------------------------
(* Range queries                                                           *)

QueryEnds(t) == pc[t] = "return" /\ call[t].op = "rangeQuery"
Found(t) == {loc[t].found[i] : i \in DOMAIN loc[t].found}

(* A query only returns values of the range that the tree held at some     *)
(* moment of the query, although it reads its bases one after another.     *)
RangeSound ==
    \A t \in Threads : QueryEnds(t) =>
        \A v \in Found(t) : \E a \in answers[t] : v \in DOMAIN a /\ a[v] > 0

(* A query returns every value of the range that the tree held all along.  *)
RangeComplete ==
    \A t \in Threads : QueryEnds(t) =>
        \A v \in Values : (\A a \in answers[t] : v \in DOMAIN a /\ a[v] > 0) => v \in Found(t)
=============================================================================
