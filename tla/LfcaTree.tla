------------------------------ MODULE LfcaTree ------------------------------
(***************************************************************************)
(* Class LfcaTree (lfca.h, lfca.cpp): a search tree whose route nodes      *)
(* direct a key to a base node, which holds an immutable treap.  Updates   *)
(* replace a base node with one compare-and-swap.  Base nodes are split    *)
(* when they are contended or full, and joined with a neighbour when they  *)
(* are not contended, in a protocol of several compare-and-swaps that      *)
(* other threads may abort or help to complete.                            *)
(*                                                                         *)
(* Every action performs at most one access to shared mutable memory:      *)
(* root, and the atomic fields left, right, valid, join_id and neigh2 of a *)
(* node.  All other fields are written before the node is published, so    *)
(* reading them is a local step, and so is everything done to a node that  *)
(* no other thread can reach yet: a node enters the heap in the step that  *)
(* publishes it.                                                           *)
(*                                                                         *)
(* new_range_base (lfca.cpp:241-251) copies the type of the node it copies *)
(* and nothing else assigns `range`, so no node ever has that type.  The   *)
(* branches that test for it, and the fields lo, hi and storage that only  *)
(* those branches read, are left out.                                      *)
(***************************************************************************)
EXTENDS TreapSeq

CONSTANTS
    Threads,
    Programs,           \* the programs: functions from Threads to sequences of calls
    TREAP_NODES,        \* the values a treap has room for
    CONT_CONTRIB, LOW_CONT_CONTRIB, HIGH_CONT, LOW_CONT,
    NoCall,             \* the call of a thread that is outside the tree
    Running             \* the threads that are never stopped for good

Ops == {"insert", "remove", "lookup", "rangeQuery"}

(* A call; hi is only used by a range query, whose low bound is key.       *)
Calls == [op : Ops, key : Int, hi : Int]

ASSUME ProgramsAssumption == Programs \subseteq [Threads -> Seq(Calls)]
ASSUME CapacityAssumption == TREAP_NODES \in Nat \ {0, 1}
ASSUME StatAssumption == {CONT_CONTRIB, LOW_CONT_CONTRIB, HIGH_CONT, LOW_CONT} \subseteq Int
ASSUME NoCallAssumption == NoCall \notin Calls

VARIABLES
    heap,       \* the published nodes; a pointer to one is its index, from 1
    root,       \* the pointer to the root node
    pc,         \* pc[t]: where in the code t is
    loc,        \* loc[t]: the local variables of t
    todo,       \* todo[t]: the calls t has not made yet
    call,       \* call[t]: the call t is executing, or NoCall
    reply       \* reply[t]: what the last call of t returned

client == <<todo, call, reply>>
vars == <<heap, root, pc, loc, client>>

-----------------------------------------------------------------------------
(* Nodes                                                                   *)

null == 0

(* The values of neigh2 that are not pointers (lfca.h:18-20).  The test    *)
(* neigh2 > ABORTED of the code is neigh2 > 0 here.                        *)
PREPARING == 0
DONE == -1
ABORTED == -2

NodeTypes == {"route", "normal", "join_main", "join_neighbor"}

Node == [ type      : NodeTypes,
          key       : Int,          \* route: the split key,
          left      : Nat,          \* the child for keys <= key,
          right     : Nat,          \* the child for keys > key,
          valid     : BOOLEAN,      \* FALSE once the route is spliced out,
          join_id   : Nat,          \* the join that has locked the route
          data      : Seq(Int),     \* base: the values, see TreapSeq,
          stat      : Int,          \* contention statistics,
          parent    : Nat,          \* and the route above, null at the root
          neigh1    : Nat,          \* join_main: the neighbour to replace,
          neigh2    : Nat \cup {DONE, ABORTED},     \* what replaces it,
          gparent   : Nat,          \* the route above parent,
          otherb    : Nat,          \* the other child of parent
          main_node : Nat ]         \* join_neighbor: its join_main

(* The default field values of struct node, for a normal base.             *)
NewNode ==
    [ type |-> "normal", key |-> 0, left |-> null, right |-> null,
      valid |-> TRUE, join_id |-> null, data |-> <<>>, stat |-> 0,
      parent |-> null, neigh1 |-> null, neigh2 |-> PREPARING,
      gparent |-> null, otherb |-> null, main_node |-> null ]

Base(parent, data, stat) ==
    [NewNode EXCEPT !.parent = parent, !.data = data, !.stat = stat]

IsRoute(n) == heap[n].type = "route"
(* Faulty: one value too late.                                             *)
IsFullLate(n) == Len(heap[n].data) > TREAP_NODES

IsFull(n) == Len(heap[n].data) >= TREAP_NODES

Child(n, side) == IF side = "left" THEN heap[n].left ELSE heap[n].right

SetChild(h, n, side, child) ==
    IF side = "left" THEN [h EXCEPT ![n].left = child] ELSE [h EXCEPT ![n].right = child]

Opposite(side) == IF side = "left" THEN "right" ELSE "left"

is_replaceable(n) ==
    \/ heap[n].type = "normal"
    \/ heap[n].type = "join_main" /\ heap[n].neigh2 = ABORTED
    \/ /\ heap[n].type = "join_neighbor"
       /\ heap[heap[n].main_node].neigh2 \in {ABORTED, DONE}

(* The compare-and-swap of try_replace succeeds: b is where its parent     *)
(* field says.  A base never has a second slot and never returns to a slot *)
(* it has left, so the loads before the compare-and-swap decide nothing    *)
(* that the compare-and-swap does not decide again.                        *)
InPlace(b) ==
    LET p == heap[b].parent
    IN  IF p = null THEN root = b ELSE b \in {heap[p].left, heap[p].right}

(* The effect of that compare-and-swap; h is heap with new_b added.        *)
Install(b, new_b, h) ==
    LET p == heap[b].parent
    IN  IF p = null
        THEN root' = new_b /\ heap' = h
        ELSE /\ heap' = SetChild(h, p, IF heap[p].left = b THEN "left" ELSE "right", new_b)
             /\ UNCHANGED root

new_stat(n, contended) ==
    LET stat == heap[n].stat
    IN  IF contended /\ stat <= HIGH_CONT THEN stat + CONT_CONTRIB
        ELSE IF ~contended /\ stat >= LOW_CONT THEN stat - LOW_CONT_CONTRIB
        ELSE stat

-----------------------------------------------------------------------------
(* Threads                                                                 *)

Labels == {"idle", "root", "find", "replace", "copy", "return", "help", "abort",
           "split", "join", "sibling", "outermost", "lockMain", "lockNeighbor",
           "lockParent", "parentOf", "search", "lockGparent", "readOther", "publish",
           "undoGparent", "undoParent", "undoMain",
           "load", "replaceNeighbor", "invalidate", "findSlot", "splice", "unlock", "done",
           "next", "climb", "goRight", "goLeft"}

(* The local variables, all calls' together.                               *)
NewLocals ==
    [ contended |-> FALSE,      \* cont_info = contended
      cur       |-> null,       \* the node a traversal has reached
      base      |-> null,       \* the base node to replace, split or join
      then      |-> "root",     \* where to go on after helping or joining
      side      |-> "left",     \* the side of the parent that is joined
      m         |-> null,       \* the join_main node of the join at hand
      n1        |-> null,       \* its locked neighbour
      n2        |-> null,       \* its neigh2, as loaded
      gparent   |-> null,       \* prev_node of parent_of, then its result
      slot      |-> "left",     \* the side of gparent that holds parent
      stack     |-> <<>>,       \* range query: the path to the last base,
      backup    |-> <<>>,       \* the path to go back to on a conflict,
      floor     |-> 0,          \* be_greater_than of find_next_base_stack
      found     |-> <<>>,       \*   and the values it has found so far
      result    |-> TRUE ]      \* any other call: what it returns

(* Thread t moves to label l with the local variables new, within a call,  *)
(* without or with a change of the shared memory.                          *)
Goto(t, l, new) == pc' = [pc EXCEPT ![t] = l] /\ loc' = [loc EXCEPT ![t] = new]
Local(t, l, new) == Goto(t, l, new) /\ UNCHANGED <<heap, root, client>>
Shared(t, l, new) == Goto(t, l, new) /\ UNCHANGED client

(* What a call that ends with the local variables l returns.              *)
Reply(l) == [result |-> l.result, found |-> l.found]

(* The constructor: a single, empty base node.                             *)
InitTree == heap = <<Base(null, <<>>, 0)>> /\ root = 1

InitThreads ==
    /\ pc = [t \in Threads |-> "idle"]
    /\ loc = [t \in Threads |-> NewLocals]
    /\ todo \in Programs
    /\ call = [t \in Threads |-> NoCall]
    /\ reply = [t \in Threads |-> Reply(NewLocals)]

Init == InitTree /\ InitThreads

(* The caller makes the next call of its program.                          *)
Begin(t) ==
    /\ pc[t] = "idle"
    /\ todo[t] /= <<>>
    /\ call' = [call EXCEPT ![t] = Head(todo[t])]
    /\ todo' = [todo EXCEPT ![t] = Tail(@)]
    /\ Goto(t, "root", NewLocals)
    /\ UNCHANGED <<heap, root, reply>>

Return(t) ==
    /\ pc[t] = "return"
    /\ reply' = [reply EXCEPT ![t] = Reply(loc[t])]
    /\ call' = [call EXCEPT ![t] = NoCall]
    /\ Goto(t, "idle", NewLocals)
    /\ UNCHANGED <<heap, root, todo>>

(* The current call loads root and starts over.                            *)
LoadRoot(t) ==
    /\ pc[t] = "root"
    /\ Local(t, "find", [loc[t] EXCEPT !.cur = root, !.stack = <<>>])

-----------------------------------------------------------------------------
(* insert, remove and lookup                                               *)

(* find_base_node goes left on equal keys.                                 *)
FindBase(t) ==
    /\ pc[t] = "find" /\ call[t].op /= "rangeQuery"
    /\ IsRoute(loc[t].cur)
    /\ LET n == loc[t].cur
       IN  Local(t, "find", [loc[t] EXCEPT
                !.cur = IF call[t].key <= heap[n].key THEN heap[n].left ELSE heap[n].right])

Lookup(t) ==
    /\ pc[t] = "find" /\ call[t].op = "lookup"
    /\ ~IsRoute(loc[t].cur)
    /\ Local(t, "return", [loc[t] EXCEPT
            !.result = contains(heap[loc[t].cur].data, call[t].key)])

IsUpdate(t) == call[t].op \in {"insert", "remove"}

(* A full treap is split before it is looked at any further.               *)
FindFull(t) ==
    /\ pc[t] = "find" /\ IsUpdate(t)
    /\ ~IsRoute(loc[t].cur)
    /\ IsFull(loc[t].cur)
    /\ Local(t, "split", [loc[t] EXCEPT !.base = loc[t].cur])

(* Faulty: does not ask whether the base may be replaced.                  *)
CheckBaseNot(t) ==
    /\ pc[t] = "find" /\ IsUpdate(t)
    /\ ~IsRoute(loc[t].cur) /\ ~IsFull(loc[t].cur)
    /\ Local(t, "replace", [loc[t] EXCEPT !.base = loc[t].cur])

CheckBase(t) ==
    /\ pc[t] = "find" /\ IsUpdate(t)
    /\ ~IsRoute(loc[t].cur)
    /\ ~IsFull(loc[t].cur)
    /\ LET b == loc[t].cur
       IN  IF is_replaceable(b)
           THEN Local(t, "replace", [loc[t] EXCEPT !.base = b])
           ELSE Local(t, "help", [loc[t] EXCEPT !.base = b, !.contended = TRUE])

(* treap_insert and treap_remove: the new treap and the result.            *)
NewData(c, d) == IF c.op = "insert" THEN immutableInsert(d, c.key) ELSE immutableRemove(d, c.key)
Result(c, d) == c.op = "insert" \/ contains(d, c.key)

(* The base is replaced by an updated copy, whose statistics then decide   *)
(* whether the thread goes on to split or join it before it returns.       *)
Replace(t) ==
    LET b == loc[t].base
        stat == new_stat(b, loc[t].contended)
        newb == Len(heap) + 1
    IN  /\ pc[t] = "replace"
        /\ InPlace(b)
        /\ Install(b, newb, Append(heap,
                Base(heap[b].parent, NewData(call[t], heap[b].data), stat)))
        /\ Shared(t, IF stat > HIGH_CONT THEN "split" ELSE IF stat < LOW_CONT THEN "join" ELSE "return",
                [loc[t] EXCEPT !.base = newb, !.then = "return",
                               !.result = Result(call[t], heap[b].data)])

ReplaceFails(t) ==
    /\ pc[t] = "replace"
    /\ ~InPlace(loc[t].base)
    /\ Local(t, "help", [loc[t] EXCEPT !.contended = TRUE])

(* Faulty: waits for the join to be completed by its owner.                *)
HelpNot(t) == pc[t] = "help" /\ Local(t, loc[t].then, loc[t])

(* help_if_needed.  Once neigh2 has left PREPARING it only moves on to     *)
(* DONE, so its second load tells nothing that the one here does not.      *)
Help(t) ==
    /\ pc[t] = "help"
    /\ LET b == loc[t].base
           n == IF heap[b].type = "join_neighbor" THEN heap[b].main_node ELSE b
       IN  IF heap[n].type = "join_main" /\ heap[n].neigh2 = PREPARING
           THEN Local(t, "abort", [loc[t] EXCEPT !.m = n])
           ELSE IF heap[n].type = "join_main" /\ heap[n].neigh2 > 0
           THEN Local(t, "load", [loc[t] EXCEPT !.m = n])
           ELSE Local(t, loc[t].then, loc[t])

(* Faulty: stores instead of comparing first.                              *)
AbortBlindly(t) ==
    /\ pc[t] = "abort"
    /\ heap' = [heap EXCEPT ![loc[t].m].neigh2 = ABORTED]
    /\ Shared(t, loc[t].then, loc[t])
    /\ UNCHANGED root

Abort(t) ==
    /\ pc[t] = "abort"
    /\ heap' = IF heap[loc[t].m].neigh2 = PREPARING
               THEN [heap EXCEPT ![loc[t].m].neigh2 = ABORTED] ELSE heap
    /\ Shared(t, loc[t].then, loc[t])
    /\ UNCHANGED root

-----------------------------------------------------------------------------
(* Splitting a base node                                                   *)

(* The heap with a route r and its two bases added, the halves of b.       *)
SplitNodes(b) ==
    LET r == Len(heap) + 1
        d == heap[b].data
        k == getMedianVal(d)
    IN  heap \o << [NewNode EXCEPT !.type = "route", !.key = k, !.left = r + 1, !.right = r + 2],
                   Base(r, splitLeft(d, k), 0),
                   Base(r, splitRight(d, k), 0) >>

(* A treap with a single value is left alone, and a full one is tried      *)
(* whether the base is replaceable or not.                                 *)
Split(t) ==
    LET b == loc[t].base
    IN  /\ pc[t] = "split"
        /\ IF Len(heap[b].data) >= 2 /\ InPlace(b)
           THEN Install(b, Len(heap) + 1, SplitNodes(b))
           ELSE UNCHANGED <<heap, root>>
        /\ Shared(t, loc[t].then, loc[t])

-----------------------------------------------------------------------------
(* Joining a base node with its neighbour: secure_join                     *)

Parent(t) == heap[loc[t].m].parent

(* low_contention_adaptation: which child of its parent is the base?       *)
ChooseSide(t) ==
    LET b == loc[t].base
        p == heap[b].parent
    IN  /\ pc[t] = "join"
        /\ IF p /= null /\ InPlace(b)
           THEN Local(t, "sibling", [loc[t] EXCEPT
                    !.side = IF heap[p].left = b THEN "left" ELSE "right"])
           ELSE Local(t, "return", loc[t])

LoadSibling(t) ==
    /\ pc[t] = "sibling"
    /\ Local(t, "outermost", [loc[t] EXCEPT
            !.cur = Child(heap[loc[t].base].parent, Opposite(loc[t].side))])

(* Faulty: goes to the far end of the sibling.                             *)
FindNeighborFar(t) ==
    /\ pc[t] = "outermost"
    /\ IsRoute(loc[t].cur)
    /\ Local(t, "outermost", [loc[t] EXCEPT !.cur = Child(loc[t].cur, Opposite(loc[t].side))])

(* leftmost and rightmost                                                  *)
FindNeighbor(t) ==
    /\ pc[t] = "outermost"
    /\ IsRoute(loc[t].cur)
    /\ Local(t, "outermost", [loc[t] EXCEPT !.cur = Child(loc[t].cur, loc[t].side)])

(* Faulty: does not ask whether the values of both fit into a treap.       *)
CheckNeighborAny(t) ==
    LET n0 == loc[t].cur
    IN  /\ pc[t] = "outermost"
        /\ ~IsRoute(n0)
        /\ Local(t, IF is_replaceable(n0) THEN "lockMain" ELSE "return", loc[t])

CheckNeighbor(t) ==
    LET n0 == loc[t].cur
    IN  /\ pc[t] = "outermost"
        /\ ~IsRoute(n0)
        /\ IF /\ is_replaceable(n0)
              /\ Len(heap[loc[t].base].data) + Len(heap[n0].data) <= TREAP_NODES
           THEN Local(t, "lockMain", loc[t])
           ELSE Local(t, "return", loc[t])

LockMain(t) ==
    LET b == loc[t].base
        p == heap[b].parent
        m == Len(heap) + 1
    IN  /\ pc[t] = "lockMain"
        /\ IF Child(p, loc[t].side) = b
           THEN /\ heap' = SetChild(Append(heap, [heap[b] EXCEPT !.type = "join_main"]),
                                    p, loc[t].side, m)
                /\ Shared(t, "lockNeighbor", [loc[t] EXCEPT !.m = m])
           ELSE UNCHANGED heap /\ Shared(t, "return", loc[t])
        /\ UNCHANGED root

LockNeighbor(t) ==
    LET n0 == loc[t].cur
        n1 == Len(heap) + 1
    IN  /\ pc[t] = "lockNeighbor"
        /\ IF InPlace(n0)
           THEN /\ Install(n0, n1, Append(heap,
                        [heap[n0] EXCEPT !.type = "join_neighbor", !.main_node = loc[t].m]))
                /\ Shared(t, "lockParent", [loc[t] EXCEPT !.n1 = n1])
           ELSE /\ UNCHANGED <<heap, root>>
                /\ Shared(t, "undoMain", loc[t])

LockParent(t) ==
    /\ pc[t] = "lockParent"
    /\ IF heap[Parent(t)].join_id = null
       THEN /\ heap' = [heap EXCEPT ![Parent(t)].join_id = loc[t].m]
            /\ Shared(t, "parentOf", loc[t])
       ELSE UNCHANGED heap /\ Shared(t, "undoMain", loc[t])
    /\ UNCHANGED root

(* parent_of, for the route m->parent                                      *)
ParentOf(t) ==
    /\ pc[t] = "parentOf"
    /\ Local(t, "search", [loc[t] EXCEPT !.cur = root, !.gparent = null])

SearchParent(t) ==
    LET n == loc[t].cur
    IN  /\ pc[t] = "search"
        /\ n /= Parent(t) /\ IsRoute(n)
        /\ Local(t, "search", [loc[t] EXCEPT
                !.gparent = n,
                !.cur = IF heap[Parent(t)].key < heap[n].key THEN heap[n].left ELSE heap[n].right])

(* Faulty: forgets that the root has no parent.                            *)
ParentFoundBelow(t) ==
    /\ pc[t] = "search"
    /\ loc[t].cur = Parent(t)
    /\ Local(t, "lockGparent", loc[t])

ParentFound(t) ==
    /\ pc[t] = "search"
    /\ loc[t].cur = Parent(t)
    /\ Local(t, IF loc[t].gparent = null THEN "readOther" ELSE "lockGparent", loc[t])

(* Faulty: keeps the route locked.                                         *)
ParentNotFoundLocked(t) ==
    /\ pc[t] = "search"
    /\ ~IsRoute(loc[t].cur)
    /\ Local(t, "undoMain", loc[t])

ParentNotFound(t) ==
    /\ pc[t] = "search"
    /\ ~IsRoute(loc[t].cur)
    /\ Local(t, "undoParent", loc[t])

(* Faulty: does not respect another join's lock.                           *)
LockGparentBlindly(t) ==
    /\ pc[t] = "lockGparent"
    /\ heap' = [heap EXCEPT ![loc[t].gparent].join_id = loc[t].m]
    /\ Shared(t, "readOther", loc[t])
    /\ UNCHANGED root

LockGparent(t) ==
    LET gparent == loc[t].gparent
    IN  /\ pc[t] = "lockGparent"
        /\ IF heap[gparent].join_id = null
           THEN /\ heap' = [heap EXCEPT ![gparent].join_id = loc[t].m]
                /\ Shared(t, "readOther", loc[t])
           ELSE UNCHANGED heap /\ Shared(t, "undoParent", loc[t])
        /\ UNCHANGED root

(* Nobody reads these fields of m until neigh2 is published.               *)
ReadOther(t) ==
    /\ pc[t] = "readOther"
    /\ heap' = [heap EXCEPT ![loc[t].m].gparent = loc[t].gparent,
                            ![loc[t].m].otherb = Child(Parent(t), Opposite(loc[t].side)),
                            ![loc[t].m].neigh1 = loc[t].n1]
    /\ Shared(t, "publish", loc[t])
    /\ UNCHANGED root

(* The node that holds the values of both bases.                           *)
Joined(t) ==
    LET m == loc[t].m
        n1 == loc[t].n1
    IN  [heap[n1] EXCEPT
            !.parent = IF heap[m].otherb = n1 THEN loc[t].gparent ELSE @,
            !.data = IF loc[t].side = "left" THEN merge(heap[m].data, @) ELSE merge(@, heap[m].data)]

(* From here on any thread that comes across m or n1 completes the join.   *)
Publish(t) ==
    /\ pc[t] = "publish"
    /\ IF heap[loc[t].m].neigh2 = PREPARING
       THEN /\ heap' = [Append(heap, Joined(t)) EXCEPT ![loc[t].m].neigh2 = Len(heap) + 1]
            /\ Shared(t, "load", loc[t])
       ELSE /\ UNCHANGED heap
            /\ Shared(t, IF loc[t].gparent = null THEN "undoParent" ELSE "undoGparent", loc[t])
    /\ UNCHANGED root

UndoGparent(t) ==
    /\ pc[t] = "undoGparent"
    /\ heap' = [heap EXCEPT ![loc[t].gparent].join_id = null]
    /\ Shared(t, "undoParent", loc[t])
    /\ UNCHANGED root

UndoParent(t) ==
    /\ pc[t] = "undoParent"
    /\ heap' = [heap EXCEPT ![Parent(t)].join_id = null]
    /\ Shared(t, "undoMain", loc[t])
    /\ UNCHANGED root

UndoMain(t) ==
    /\ pc[t] = "undoMain"
    /\ heap' = [heap EXCEPT ![loc[t].m].neigh2 = ABORTED]
    /\ Shared(t, loc[t].then, loc[t])
    /\ UNCHANGED root

-----------------------------------------------------------------------------
(* complete_join, by the thread that secured the join or by a helper       *)

(* Faulty: does not notice that the join is already completed.             *)
LoadJoinedOnly(t) ==
    /\ pc[t] = "load"
    /\ Local(t, "replaceNeighbor", [loc[t] EXCEPT !.n2 = heap[loc[t].m].neigh2])

LoadJoined(t) ==
    LET n2 == heap[loc[t].m].neigh2
    IN  /\ pc[t] = "load"
        /\ IF n2 = DONE
           THEN Local(t, loc[t].then, loc[t])
           ELSE Local(t, "replaceNeighbor", [loc[t] EXCEPT !.n2 = n2])

(* Faulty: stores instead of comparing first.                              *)
ReplaceNeighborBlindly(t) ==
    /\ pc[t] = "replaceNeighbor"
    /\ Install(heap[loc[t].m].neigh1, loc[t].n2, heap)
    /\ Shared(t, "invalidate", loc[t])

ReplaceNeighbor(t) ==
    LET n1 == heap[loc[t].m].neigh1
    IN  /\ pc[t] = "replaceNeighbor"
        /\ IF InPlace(n1) THEN Install(n1, loc[t].n2, heap) ELSE UNCHANGED <<heap, root>>
        /\ Shared(t, "invalidate", loc[t])

Invalidate(t) ==
    /\ pc[t] = "invalidate"
    /\ heap' = [heap EXCEPT ![Parent(t)].valid = FALSE]
    /\ Shared(t, IF heap[loc[t].m].gparent = null THEN "splice" ELSE "findSlot", loc[t])
    /\ UNCHANGED root

(* Faulty: takes every route for a left child.                             *)
FindSlotLeft(t) ==
    /\ pc[t] = "findSlot"
    /\ Local(t, IF heap[heap[loc[t].m].gparent].left = Parent(t) THEN "splice" ELSE "done",
             [loc[t] EXCEPT !.slot = "left"])

(* A route, like a base, is only ever in one slot.                         *)
FindSlot(t) ==
    LET g == heap[loc[t].m].gparent
    IN  /\ pc[t] = "findSlot"
        /\ IF Parent(t) \in {heap[g].left, heap[g].right}
           THEN Local(t, "splice", [loc[t] EXCEPT
                    !.slot = IF heap[g].left = Parent(t) THEN "left" ELSE "right"])
           ELSE Local(t, "done", loc[t])

(* Faulty: stores instead of comparing first.                              *)
SpliceBlindly(t) ==
    LET m == heap[loc[t].m]
        g == m.gparent
        replacement == IF m.otherb = m.neigh1 THEN loc[t].n2 ELSE m.otherb
    IN  /\ pc[t] = "splice"
        /\ IF g = null THEN root' = replacement /\ UNCHANGED heap
           ELSE heap' = SetChild(heap, g, loc[t].slot, replacement) /\ UNCHANGED root
        /\ Shared(t, IF g = null THEN "done" ELSE "unlock", loc[t])

(* The route m->parent is cut out of the tree, and m with it.              *)
Splice(t) ==
    LET m == heap[loc[t].m]
        g == m.gparent
        replacement == IF m.otherb = m.neigh1 THEN loc[t].n2 ELSE m.otherb
    IN  /\ pc[t] = "splice"
        /\ IF g = null
           THEN root' = (IF root = m.parent THEN replacement ELSE root) /\ UNCHANGED heap
           ELSE /\ heap' = IF Child(g, loc[t].slot) = m.parent
                           THEN SetChild(heap, g, loc[t].slot, replacement) ELSE heap
                /\ UNCHANGED root
        /\ Shared(t, IF g = null THEN "done" ELSE "unlock", loc[t])

Unlock(t) ==
    LET g == heap[loc[t].m].gparent
    IN  /\ pc[t] = "unlock"
        /\ heap' = IF heap[g].join_id = loc[t].m THEN [heap EXCEPT ![g].join_id = null] ELSE heap
        /\ Shared(t, "done", loc[t])
        /\ UNCHANGED root

Done(t) ==
    /\ pc[t] = "done"
    /\ heap' = [heap EXCEPT ![loc[t].m].neigh2 = DONE]
    /\ Shared(t, loc[t].then, loc[t])
    /\ UNCHANGED root

-----------------------------------------------------------------------------
(* rangeQuery: all_in_range, from call[t].key to call[t].hi                *)

(* find_base_stack goes right on equal keys.                               *)
FindBaseStack(t) ==
    /\ pc[t] = "find" /\ call[t].op = "rangeQuery"
    /\ IsRoute(loc[t].cur)
    /\ LET n == loc[t].cur
       IN  Local(t, "find", [loc[t] EXCEPT
                !.stack = Append(@, n),
                !.cur = IF call[t].key < heap[n].key THEN heap[n].left ELSE heap[n].right])

(* A base is found, the first one or a next one.                           *)
CheckRangeBase(t) ==
    LET b == loc[t].cur
    IN  /\ pc[t] \in {"find", "goLeft"} /\ call[t].op = "rangeQuery"
        /\ ~IsRoute(b)
        /\ IF is_replaceable(b)
           THEN Local(t, "copy", [loc[t] EXCEPT !.base = b, !.stack = Append(@, b)])
           ELSE Local(t, "help", [loc[t] EXCEPT !.base = b, !.stack = loc[t].backup])

(* new_range_base and try_replace.  The values of done's treaps that are   *)
(* in the range are collected at once, since treaps do not change; a       *)
(* treap's maximum then decides whether the query is over.                 *)
CopyBase(t) ==
    LET b == loc[t].base
        d == heap[b].data
        path == Append(Front(loc[t].stack), Len(heap) + 1)
    IN  /\ pc[t] = "copy"
        /\ InPlace(b)
        /\ Install(b, Len(heap) + 1, Append(heap, heap[b]))
        /\ Shared(t, IF d /= <<>> /\ getMaxValue(d) >= call[t].hi THEN "return" ELSE "next",
                [loc[t] EXCEPT !.stack = path, !.backup = path, !.then = "next",
                               !.found = @ \o rangeQuery(d, call[t].key, call[t].hi)])

CopyFails(t) ==
    /\ pc[t] = "copy"
    /\ ~InPlace(loc[t].base)
    /\ Local(t, loc[t].then, [loc[t] EXCEPT !.stack = loc[t].backup])

(* find_next_base_stack: with only the base on the path there is no next   *)
(* one.  The first time round its loop compares the key of t with itself,  *)
(* so a base that is not the left child makes it pop t.                    *)
FindNextBase(t) ==
    LET s == Front(loc[t].stack)
        b == Last(loc[t].stack)
    IN  /\ pc[t] = "next"
        /\ IF s = <<>> THEN Local(t, "return", loc[t])
           ELSE IF heap[Last(s)].left = b
           THEN Local(t, "goRight", [loc[t] EXCEPT !.stack = s])
           ELSE Local(t, "climb", [loc[t] EXCEPT !.stack = Front(s), !.floor = heap[Last(s)].key])

Climb(t) ==
    LET s == loc[t].stack
    IN  /\ pc[t] = "climb"
        /\ IF s = <<>> THEN Local(t, "return", loc[t])
           ELSE IF heap[Last(s)].valid /\ heap[Last(s)].key > loc[t].floor
           THEN Local(t, "goRight", loc[t])
           ELSE Local(t, "climb", [loc[t] EXCEPT !.stack = Front(s)])

GoRight(t) ==
    /\ pc[t] = "goRight"
    /\ Local(t, "goLeft", [loc[t] EXCEPT !.cur = heap[Last(loc[t].stack)].right])

(* leftmost_and_stack                                                      *)
GoLeft(t) ==
    /\ pc[t] = "goLeft"
    /\ IsRoute(loc[t].cur)
    /\ Local(t, "goLeft", [loc[t] EXCEPT !.stack = Append(@, loc[t].cur), !.cur = heap[loc[t].cur].left])

-----------------------------------------------------------------------------
Thread(t) ==
    \/ Begin(t) \/ LoadRoot(t) \/ Return(t)
    \/ FindBase(t) \/ Lookup(t) \/ FindFull(t) \/ CheckBase(t)
    \/ Replace(t) \/ ReplaceFails(t) \/ Help(t) \/ Abort(t) \/ Split(t)
    \/ ChooseSide(t) \/ LoadSibling(t) \/ FindNeighbor(t) \/ CheckNeighbor(t)
    \/ LockMain(t) \/ LockNeighbor(t) \/ LockParent(t)
    \/ ParentOf(t) \/ SearchParent(t) \/ ParentFound(t) \/ ParentNotFound(t)
    \/ LockGparent(t) \/ ReadOther(t) \/ Publish(t)
    \/ UndoGparent(t) \/ UndoParent(t) \/ UndoMain(t)
    \/ LoadJoined(t) \/ ReplaceNeighbor(t) \/ Invalidate(t)
    \/ FindSlot(t) \/ Splice(t) \/ Unlock(t) \/ Done(t)
    \/ FindBaseStack(t) \/ CheckRangeBase(t) \/ CopyBase(t) \/ CopyFails(t)
    \/ FindNextBase(t) \/ Climb(t) \/ GoRight(t) \/ GoLeft(t)

(* Every program has ended.                                                *)
Finished ==
    /\ \A t \in Threads : pc[t] = "idle" /\ todo[t] = <<>>
    /\ UNCHANGED vars

Next == Finished \/ \E t \in Threads : Thread(t)

Spec == Init /\ [][Next]_vars

(* The operating system keeps scheduling the threads in Running.  Nothing  *)
(* is assumed of the others, which may stop at any point of their code.    *)
FairSpec == Spec /\ \A t \in Running : WF_vars(Thread(t))
=============================================================================
