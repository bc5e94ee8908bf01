------------------------------ MODULE MrlockTree ------------------------------
(***************************************************************************)
(* Class MrlockTree (mrlocktree.h, mrlocktree.cpp): a tree of route nodes  *)
(* over treaps, like LfcaTree, whose calls run one at a time under one     *)
(* multi-resource lock (ResourceLock) and take their treaps from an array  *)
(* that may run out (Preallocatable).                                      *)
(*                                                                         *)
(* One action is one iteration of a loop, or what the code does with one   *)
(* new treap.  A treap is represented by its values in order (TreapSeq).   *)
(***************************************************************************)
EXTENDS TreeShape

CONSTANTS
    Threads,
    TREAP_NODES,
    Programs,       \* functions from Threads to sequences of calls
    Trees,          \* the nodes of the tree at first
    Preallocations, \* how many treaps the threads may take
    INT_MAX,
    NoCall

Calls == [op : {"insert", "remove", "lookup", "rangeQuery"}, key : Int, hi : Int]

ASSUME CapacityAssumption == TREAP_NODES \in Nat \ {0}
ASSUME ProgramsAssumption == \A p \in Programs : p \in [Threads -> Seq(Calls)]
ASSUME NoCallAssumption == NoCall \notin Calls
ASSUME TreesAssumption == \A its \in Trees : IsTree(its, TREAP_NODES)
ASSUME PreallocationAssumption == INT_MAX \in Nat /\ Preallocations \subseteq 1 .. INT_MAX

VARIABLES
    nodes,          \* the nodes that new has made and delete has not freed
    isPreallocated, numPreallocated, currentElementIndex,   \* of class Treap
    request, holds, ahead,                                  \* of mrlock
    pc, call, todo,
    temp, tempParent,
    made,           \* made[t]: the nodes that t has made for a split
    nodesToCheck, result,   \* of rangeQuery
    success,        \* success[t]: what the call of t will return
    reply,          \* reply[t]: what the last call of t returned
    nodeStack       \* of the destructor

lockVars == <<request, holds, ahead>>
poolVars == <<isPreallocated, numPreallocated, currentElementIndex>>
callVars == <<call, todo>>
walkVars == <<temp, tempParent, made>>
queryVars == <<nodesToCheck, result>>
vars == <<nodes, lockVars, poolVars, pc, callVars, walkVars, queryVars, success, reply, nodeStack>>

Lock == INSTANCE ResourceLock WITH Resources <- {1}
Treaps == INSTANCE Preallocatable

TreeLock == {1}
(* Faulty: a full treap is not split before the next insert.              *)
TreapSplitLate == TREAP_NODES + 1

TreapSplitThreshold == TREAP_NODES
TreapMergeThreshold == TREAP_NODES \div 2

(* A node; the treap of a route node is null in the code.                  *)
Base(treap) == [isRoute |-> FALSE, val |-> 0, treap |-> treap, left |-> null, right |-> null]
Route(val, left, right) ==
    [isRoute |-> TRUE, val |-> val, treap |-> <<>>, left |-> left, right |-> right]

(* What new Node may return when used are the addresses in use.            *)
Fresh(used) == CHOOSE n \in 1 .. Cardinality(used) + 1 : n \notin used

(* The constructor has taken a treap from the array for an empty head.     *)
Init ==
    /\ nodes \in Trees
    /\ isPreallocated = TRUE
    /\ numPreallocated \in Preallocations
    /\ currentElementIndex = 1
    /\ Lock!Init
    /\ pc = [t \in Threads |-> "idle"]
    /\ call = [t \in Threads |-> NoCall]
    /\ todo \in Programs
    /\ temp = [t \in Threads |-> null] /\ tempParent = [t \in Threads |-> null]
    /\ made = [t \in Threads |-> <<null, null>>]
    /\ nodesToCheck = [t \in Threads |-> <<>>] /\ result = [t \in Threads |-> <<>>]
    /\ success = [t \in Threads |-> TRUE] /\ reply = [t \in Threads |-> TRUE]
    /\ nodeStack = <<>>

Goto(t, label) == pc' = [pc EXCEPT ![t] = label]

-----------------------------------------------------------------------------
(* The lock, and the walk to a base node                                   *)

Call(t) ==
    /\ pc[t] = "idle" /\ todo[t] /= <<>>
    /\ call' = [call EXCEPT ![t] = Head(todo[t])]
    /\ todo' = [todo EXCEPT ![t] = Tail(@)]
    /\ Goto(t, "lock")
    /\ UNCHANGED <<nodes, lockVars, poolVars, walkVars, queryVars, success, reply, nodeStack>>

Request(t) ==
    /\ pc[t] = "lock"
    /\ Lock!Request(t, TreeLock)
    /\ Goto(t, "wait")
    /\ UNCHANGED <<nodes, poolVars, callVars, walkVars, queryVars, success, reply, nodeStack>>

Acquire(t) ==
    /\ pc[t] = "wait"
    /\ Lock!Grant(t)
    /\ IF call[t].op = "rangeQuery"
       THEN nodesToCheck' = [nodesToCheck EXCEPT ![t] = <<head>>] /\ Goto(t, "query") /\ UNCHANGED temp
       ELSE temp' = [temp EXCEPT ![t] = head] /\ Goto(t, "search") /\ UNCHANGED nodesToCheck
    /\ UNCHANGED <<nodes, poolVars, callVars, tempParent, made, result, success, reply, nodeStack>>

(* Faulty: equal values are looked for on the right.                       *)
NextNodeRight(n, val) == IF nodes[n].val > val THEN nodes[n].left ELSE nodes[n].right

NextNode(n, val) == IF nodes[n].val >= val THEN nodes[n].left ELSE nodes[n].right

Search(t) ==
    /\ pc[t] = "search" /\ nodes[temp[t]].isRoute
    /\ temp' = [temp EXCEPT ![t] = NextNode(@, call[t].key)]
    /\ tempParent' = [tempParent EXCEPT ![t] = temp[t]]
    /\ UNCHANGED <<nodes, lockVars, poolVars, pc, callVars, made, queryVars, success, reply, nodeStack>>

AtBase(t, op) == pc[t] = "search" /\ ~nodes[temp[t]].isRoute /\ call[t].op = op
BaseTreap(t) == nodes[temp[t]].treap

(* Faulty: an exception leaves the lock held.                              *)
UnlockReturn(t) ==
    /\ pc[t] \in {"unlock", "unwind"}
    /\ IF pc[t] = "unlock" THEN Lock!Release(t) /\ Goto(t, "return")
       ELSE Goto(t, "failed") /\ UNCHANGED lockVars
    /\ temp' = [temp EXCEPT ![t] = null] /\ tempParent' = [tempParent EXCEPT ![t] = null]
    /\ made' = [made EXCEPT ![t] = <<null, null>>]
    /\ UNCHANGED <<nodes, poolVars, callVars, queryVars, success, reply, nodeStack>>

(* The lock goes with its scope, whether the call returns or throws.       *)
Unlock(t) ==
    /\ pc[t] \in {"unlock", "unwind"}
    /\ Lock!Release(t)
    /\ Goto(t, IF pc[t] = "unlock" THEN "return" ELSE "failed")
    /\ temp' = [temp EXCEPT ![t] = null] /\ tempParent' = [tempParent EXCEPT ![t] = null]
    /\ made' = [made EXCEPT ![t] = <<null, null>>]
    /\ UNCHANGED <<nodes, poolVars, callVars, queryVars, success, reply, nodeStack>>

Return(t) ==
    /\ pc[t] = "return"
    /\ call' = [call EXCEPT ![t] = NoCall]
    /\ reply' = [reply EXCEPT ![t] = success[t]]
    /\ success' = [success EXCEPT ![t] = TRUE]
    /\ result' = [result EXCEPT ![t] = <<>>]
    /\ Goto(t, "idle")
    /\ UNCHANGED <<nodes, lockVars, poolVars, todo, walkVars, nodesToCheck, nodeStack>>

(* The array of treaps is used up; only its index changes.  A split that   *)
(* throws leaves its insert done, and the two nodes it has made lost.      *)
OutOfTreaps(t) ==
    /\ \/ AtBase(t, "insert") \/ AtBase(t, "remove")
       \/ pc[t] \in {"splitLeft", "splitRight", "merge"}
    /\ Treaps!NewThrows
    /\ Goto(t, "unwind")
    /\ UNCHANGED <<nodes, lockVars, callVars, walkVars, queryVars, success, reply, nodeStack>>

-----------------------------------------------------------------------------
(* insert                                                                  *)

(* A full treap is copied before the copy throws.                          *)
InsertValue(t) ==
    /\ AtBase(t, "insert")
    /\ Treaps!New
    /\ IF Len(BaseTreap(t)) = TREAP_NODES
       THEN Goto(t, "unwind") /\ UNCHANGED nodes
       ELSE /\ nodes' = [nodes EXCEPT ![temp[t]].treap = immutableInsert(@, call[t].key)]
            /\ Goto(t, IF Len(BaseTreap(t)) + 1 >= TreapSplitThreshold THEN "split" ELSE "unlock")
    /\ UNCHANGED <<lockVars, callVars, walkVars, queryVars, success, reply, nodeStack>>

MakeNodes(t) ==
    LET left == Fresh(DOMAIN nodes)
        right == Fresh(DOMAIN nodes \cup {left})
    IN  /\ pc[t] = "split"
        /\ nodes' = [n \in DOMAIN nodes \cup {left, right} |->
                        IF n \in DOMAIN nodes THEN nodes[n] ELSE Base(<<>>)]
        /\ made' = [made EXCEPT ![t] = <<left, right>>]
        /\ Goto(t, "splitLeft")
        /\ UNCHANGED <<lockVars, poolVars, callVars, temp, tempParent, queryVars, success, reply, nodeStack>>

SplitLeft(t) ==
    /\ pc[t] = "splitLeft"
    /\ Treaps!New
    /\ Goto(t, "splitRight")
    /\ UNCHANGED <<nodes, lockVars, callVars, walkVars, queryVars, success, reply, nodeStack>>

(* The base becomes a route at its median.                                 *)
SplitRight(t) ==
    LET splitVal == getMedianVal(BaseTreap(t))
        left == made[t][1]
        right == made[t][2]
    IN  /\ pc[t] = "splitRight"
        /\ Treaps!New
        /\ nodes' = [nodes EXCEPT
                ![left].treap = splitLeft(BaseTreap(t), splitVal),
                ![right].treap = splitRight(BaseTreap(t), splitVal),
                ![temp[t]] = Route(splitVal, left, right)]
        /\ Goto(t, "unlock")
        /\ UNCHANGED <<lockVars, callVars, walkVars, queryVars, success, reply, nodeStack>>

-----------------------------------------------------------------------------
(* remove                                                                  *)

(* Faulty: does not ask whether the sibling is a base.                     *)
SiblingsMergeAny(parent, its) ==
    Len(its[its[parent].left].treap) + Len(its[its[parent].right].treap) <= TreapMergeThreshold

SiblingsMerge(parent, its) ==
    LET left == its[its[parent].left]
        right == its[its[parent].right]
    IN  /\ ~left.isRoute /\ ~right.isRoute
        /\ Len(left.treap) + Len(right.treap) <= TreapMergeThreshold

(* A merge is tried even if the value was not there.                       *)
RemoveValue(t) ==
    /\ AtBase(t, "remove")
    /\ Treaps!New
    /\ nodes' = [nodes EXCEPT ![temp[t]].treap = immutableRemove(@, call[t].key)]
    /\ success' = [success EXCEPT ![t] = contains(BaseTreap(t), call[t].key)]
    /\ Goto(t, IF tempParent[t] /= null /\ SiblingsMerge(tempParent[t], nodes') THEN "merge" ELSE "unlock")
    /\ UNCHANGED <<lockVars, callVars, walkVars, queryVars, reply, nodeStack>>

(* Faulty: the new base still names the bases that it came from.           *)
MergeNaming(t) ==
    LET parent == nodes[tempParent[t]]
        merged == [parent EXCEPT
            !.treap = merge(nodes[parent.left].treap, nodes[parent.right].treap),
            !.isRoute = FALSE]
    IN  /\ pc[t] = "merge"
        /\ Treaps!New
        /\ nodes' = [n \in DOMAIN nodes \ {parent.left, parent.right} |->
                        IF n = tempParent[t] THEN merged ELSE nodes[n]]
        /\ Goto(t, "unlock")
        /\ UNCHANGED <<lockVars, callVars, walkVars, queryVars, success, reply, nodeStack>>

(* Faulty: the bases that a merge has emptied are not deleted.             *)
MergeLeaks(t) ==
    LET parent == nodes[tempParent[t]]
        merged == [parent EXCEPT
            !.treap = merge(nodes[parent.left].treap, nodes[parent.right].treap),
            !.isRoute = FALSE, !.left = null, !.right = null]
    IN  /\ pc[t] = "merge"
        /\ Treaps!New
        /\ nodes' = [nodes EXCEPT ![tempParent[t]] = merged]
        /\ Goto(t, "unlock")
        /\ UNCHANGED <<lockVars, callVars, walkVars, queryVars, success, reply, nodeStack>>

(* The route becomes a base, and the two bases below it are deleted.       *)
Merge(t) ==
    LET parent == nodes[tempParent[t]]
        merged == [parent EXCEPT
            !.treap = merge(nodes[parent.left].treap, nodes[parent.right].treap),
            !.isRoute = FALSE, !.left = null, !.right = null]
    IN  /\ pc[t] = "merge"
        /\ Treaps!New
        /\ nodes' = [n \in DOMAIN nodes \ {parent.left, parent.right} |->
                        IF n = tempParent[t] THEN merged ELSE nodes[n]]
        /\ Goto(t, "unlock")
        /\ UNCHANGED <<lockVars, callVars, walkVars, queryVars, success, reply, nodeStack>>

-----------------------------------------------------------------------------
(* lookup and rangeQuery                                                   *)

Lookup(t) ==
    /\ AtBase(t, "lookup")
    /\ success' = [success EXCEPT ![t] = contains(BaseTreap(t), call[t].key)]
    /\ Goto(t, "unlock")
    /\ UNCHANGED <<nodes, lockVars, poolVars, callVars, walkVars, queryVars, reply, nodeStack>>

(* Faulty: leaves out values that are equal to the low bound.              *)
InRangeStrict(n, low, high) ==
    (IF nodes[n].val > low THEN <<nodes[n].left>> ELSE <<>>)
    \o (IF nodes[n].val <= high THEN <<nodes[n].right>> ELSE <<>>)

(* The nodes below n that rangeQuery goes on to, in the order of pushing.  *)
InRange(n, low, high) ==
    (IF nodes[n].val >= low THEN <<nodes[n].left>> ELSE <<>>)
    \o (IF nodes[n].val <= high THEN <<nodes[n].right>> ELSE <<>>)

CheckNode(t) ==
    LET n == Last(nodesToCheck[t])
        low == call[t].key
        high == call[t].hi
    IN  /\ pc[t] = "query" /\ nodesToCheck[t] /= <<>>
        /\ IF nodes[n].isRoute
           THEN /\ nodesToCheck' = [nodesToCheck EXCEPT ![t] = Front(@) \o InRange(n, low, high)]
                /\ UNCHANGED result
           ELSE /\ nodesToCheck' = [nodesToCheck EXCEPT ![t] = Front(@)]
                /\ result' = [result EXCEPT ![t] = @ \o rangeQuery(nodes[n].treap, low, high)]
        /\ UNCHANGED <<nodes, lockVars, poolVars, pc, callVars, walkVars, success, reply, nodeStack>>

QueryEnds(t) ==
    /\ pc[t] = "query" /\ nodesToCheck[t] = <<>>
    /\ Goto(t, "unlock")
    /\ UNCHANGED <<nodes, lockVars, poolVars, callVars, walkVars, queryVars, success, reply, nodeStack>>

-----------------------------------------------------------------------------
(* What the program does when its threads have ended without an exception. *)

AllEnded == \A t \in Threads : pc[t] = "idle" /\ todo[t] = <<>>

Deallocate ==
    /\ AllEnded /\ isPreallocated
    /\ Treaps!Deallocate
    /\ nodeStack' = <<head>>
    /\ UNCHANGED <<nodes, lockVars, pc, callVars, walkVars, queryVars, success, reply>>

(* One iteration of the destructor's loop.                                 *)
DeleteNode ==
    LET n == Last(nodeStack)
        Child(c) == IF c = null THEN <<>> ELSE <<c>>
    IN  /\ nodeStack /= <<>>
        /\ nodes' = [m \in DOMAIN nodes \ {n} |-> nodes[m]]
        /\ nodeStack' = Front(nodeStack) \o Child(nodes[n].left) \o Child(nodes[n].right)
        /\ UNCHANGED <<lockVars, poolVars, pc, callVars, walkVars, queryVars, success, reply>>

-----------------------------------------------------------------------------
Thread(t) ==
    \/ Call(t) \/ Request(t) \/ Acquire(t) \/ Search(t) \/ Unlock(t) \/ Return(t)
    \/ OutOfTreaps(t)
    \/ InsertValue(t) \/ MakeNodes(t) \/ SplitLeft(t) \/ SplitRight(t)
    \/ RemoveValue(t) \/ Merge(t)
    \/ Lookup(t) \/ CheckNode(t) \/ QueryEnds(t)

(* A thread that waits for the lock spins.                                 *)
Spin(t) == pc[t] = "wait" /\ ahead[t] /= {} /\ UNCHANGED vars

(* A thread that gets an exception runs no further calls.                  *)
Stopped ==
    /\ \A t \in Threads : pc[t] = "failed" \/ (pc[t] = "idle" /\ todo[t] = <<>>)
    /\ AllEnded => nodeStack = <<>> /\ ~isPreallocated
    /\ UNCHANGED vars

Next == Deallocate \/ DeleteNode \/ Stopped \/ \E t \in Threads : Thread(t) \/ Spin(t)

Spec == Init /\ [][Next]_vars

(* The threads that walk or change the tree.                               *)
InTree(t) ==
    pc[t] \in {"search", "split", "splitLeft", "splitRight", "merge", "query", "unlock", "unwind"}

(* No two threads are in the tree at the same time, although a call may    *)
(* leave it by an exception in the middle of a split or a merge.           *)
CallsRunAlone == \A t, u \in Threads : InTree(t) /\ InTree(u) => t = u
=============================================================================
