# Lock-free search trees in TLA+

This directory models the repository's search trees: the lock-free contention
adapting tree `LfcaTree` (`lfca.h`, `lfca.cpp`), the treaps it is built from
(`treap.h`, `treap.cpp`), the reference tree `MrlockTree` (`mrlocktree.h`,
`mrlocktree.cpp`) that runs its calls one at a time, the multi-resource lock
`MRLock` (`lib/mrlock/src/mrlock.h`) that it does this with, and the allocator
and the bitsets below them. TLC checks the models on small instances. TLAPS
proves, for every value of the constants, what the section on proofs lists.

Paths of source files are relative to `src/`.

## Inventory

| Component | State | Operations | What makes it correct |
|---|---|---|---|
| `LfcaTree` (`lfca.h`, `lfca.cpp`) | `root`, a graph of `node`s: route nodes (`key`, `left`, `right`, `valid`, `join_id`) and base nodes (`data`, `stat`, `parent`, and for a join `neigh1`, `neigh2`, `gparent`, `otherb`, `main_node`) | `insert`, `remove`, `lookup`, `rangeQuery`; inside them splits, joins, helping and aborting | the calls are linearizable; keys lead to their values; a join is completed or aborted, never both; treaps fit their arrays; no call waits for another |
| `Treap` (`treap.h`, `treap.cpp`) | an array of `TREAP_NODES + 1` nodes linked by indices, `size`, `root` | `immutableInsert`, `immutableRemove`, `contains`, `rangeQuery`, `getMaxValue`, `split`, `merge` | search-tree order and heap order; contents as a multiset; never more than `TREAP_NODES` values |
| `SearchTree` (`searchtree.h`) | none | the interface of both trees | atomic operations on a multiset |
| `MRLock` (`lib/mrlock/src/mrlock.h`) | a circular buffer of cells (`m_sequence`, `m_bits`), `m_head`, `m_tail` | `Lock`, `Unlock` | exclusion per resource, first come first served between conflicting requests, every request is granted |
| `MrlockTree` (`mrlocktree.h`, `.cpp`) | a tree of its own nodes, one `MRLock` | the four operations, each under the lock | routes lead to values, splits make room, merges fit |
| `Bitset` (`lib/mrlock/src/bitset.h`) | an array of words | `Set`, `Reset`, `&`, `bool`, assignment | bits do not get mixed up |
| `Preallocatable` (`preallocatable.h`) | an array and an atomic index | `Preallocate`, `New`, `Deallocate` | no element is handed out twice, exhaustion is noticed |
| `MRSimpleLock` (`lib/mrlock/src/mrsimplelock.h`) | one word of bits | `Lock`, `Unlock` | exclusion per resource |
| `MRResourceAllocator` (`lib/mrlock/src/strategy`) | an `MRLock` and a counter for each resource | `CreateLockable`, `UseResource` | the mask of a set of resources has a bit for each |
| `ThreadBarrier`, `timehelper`, `main.cc` (`lib/mrlock/src`) | those of the lock library's test program | | not used by the trees |
| `main.cpp` | the benchmark | starts threads with random operations | |

How they interact. The threads of a program share one tree and call it without
any other synchronisation. `LfcaTree` reads and replaces nodes with atomic
loads and compare-and-swaps; the treap of a base node never changes once the
node is published, so an update copies it (`immutableInsert`) and swings one
pointer. Nodes and treaps come from `Preallocatable` and are never freed while
the tree is in use, so a pointer is never used for two nodes. A thread that
finds a join in its way completes or aborts it, so one call runs steps of
another. `MrlockTree` runs each call between `Lock` and `Unlock`, copies treaps
for its updates all the same, and makes and deletes its own nodes. When
`Preallocatable` has no element left, `New` throws in the middle of whatever
called it.

What is hard. A traversal holds pointers to nodes that others have spliced out;
`is_replaceable` and `try_replace` are separate steps; a join is up to a dozen
steps which several threads may be executing at the same time, each at its own
pace, with three outcomes that race; a range query reads bases one after
another while values move between them; full treaps force splits outside of the
protocol; equal values may be on both sides of a route. In `MRLock` the two
fields of a cell are read one after the other while the buffer goes round. In a
treap, removes shuffle the array, splits and merges renumber the nodes, and an
error shows only many operations later. In `MrlockTree` it is the exceptions:
each call may end at several points, with the lock held and the tree half
changed.
`PROJECT.json` lists these hazards line by line with the properties aimed at
them.

## Modules

| Module | Models |
|---|---|
| `TreapSeq` | the public operations of `Treap` as operators on the sorted sequence of its values |
| `TreapContents` | what treaps promise: sorted sequences that inserts, removes, splits and merges change as `TreapSeq` says |
| `Treap` | `treap.cpp`: the array of linked nodes, one action per iteration of a loop |
| `MCTreap` | small treaps for TLC, the refinement of `TreapContents`, the properties of links, order and heap |
| `SearchTree` | the promise of the interface: a multiset on which each call acts in one step between its call and its return |
| `LfcaTree` | `lfca.cpp`: one action per access to shared mutable memory |
| `LfcaSafety` | type invariant, structure of the tree, join protocol, lock freedom |
| `LfcaInvariant` | `WellFormed` and the inductive invariant `IInv` |
| `LfcaJoins` | `RoutesAreHeld`: what the threads in a join rely on, and the inductive invariant `JInv` |
| `LfcaSlots` | `SlotsAreKept`: which nodes a join may still put somewhere, and the inductive invariant `SInv` |
| `LfcaBases` | `BasesAreHeld`: where the bases are as long as no full one is split under a lock (`NoLockedSplit`), and the inductive invariant `BInv` |
| `LfcaPlaces` | `ValuesAreKept`: where the values are as long as splits are of the usual kind (`SplitsFit`), and the inductive invariant `PInv` |
| `LfcaHistory` | history variable `answers`, refinement of `SearchTree`, properties of range queries |
| `MCLfcaTree` | programs and initial trees for TLC, and the properties of the finding runs |
| `TreapSeq_proofs` | lemmas about lengths, order and contents of what the treap operations return |
| `LfcaTree_proofs` | types, pointers, capacity and outcomes of joins |
| `LfcaJoins_proofs` | the join protocol: locked routes, `DONE`, routes that stay out |
| `LfcaSlots_proofs` | no node of the tree is in two places; where the bases of a join stay, nodes that do not come back |
| `LfcaPlaces_proofs` | keys lead to the values |
| `ResourceLock` | the promise of a multi-resource lock: conflicting requests are granted in order |
| `MRLock` | `mrlock.h`: one action per access to shared memory |
| `MRLockSafety` | the refinement of `ResourceLock`, and the condition under which it is one (`Timely`) |
| `MRLockInvariant` | the inductive invariant: the positions behind the indices that wrap around |
| `MCMRLock` | programs for TLC |
| `MRLock_proofs` | `MRLock` implements `ResourceLock` as long as no thread is late |
| `Preallocatable` | `preallocatable.h`: the array that is handed out by a counter |
| `TreeShape` | what makes a set of linked nodes a search tree: paths, reachability, order, sizes |
| `MrlockTree` | `mrlocktree.cpp`, composed with `ResourceLock` for the lock and `Preallocatable` for the treaps |
| `MrlockSafety` | types, values within reach, leaks, reasons of exceptions, and the inductive invariant of these |
| `MrlockHistory` | `MrlockTree` with the answers that each call may give: the refinement of `SearchTree`, what a query returns, and the invariant of both |
| `MCMrlockTree` | programs and trees for TLC |
| `MrlockTree_proofs` | all safety properties of `MrlockTree`, and that it implements `SearchTree`; the lock's promise implies exclusion; no treap is handed out twice |
| `Bitset` | `bitset.h` and the masks of `mrlockable.cc`, as operators on words |
| `MRSimpleLock` | `mrsimplelock.h`: one action per access to the word |
| `BitsetLock_proofs` | theorems about `Bitset` and `MRSimpleLock` |

Operators whose comment begins with "Faulty:" are not part of any model. Each
is a definition as a plausible bug would leave it, and stands in front of the
right one; `PROJECT.json` ("mutants") says which property notices it.

### TreapSeq

A treap is the ascending sequence of its values. `Rank(d, v)`, the number of
values up to `v`, is where `bstInsert` puts a value, where `split` puts its
dummy node, and where `immutableRemove` takes a value out (any copy of a value
is as good as another). `getMedianVal` keeps the rounding of the code: the even
case casts its first term only. Rotations and weights do not change the
sequence and are left out here; `Treap` has them, and the run `Treap` shows that
it implements these sequences. `rangeQuery` returns the values in ascending order
where the code's order depends on the shape; the properties do not use it.

### Treap

`work` is the copy that an update changes, `treaps` are the published ones,
which no action changes in place. An action is one iteration of a loop
(`bstInsert`, `moveUp`, `moveDown`, `TransferNode`), or what the code does
between two loops. A pointer between nodes is an index; the control node is the
last of the array.

| Code | Actions |
|---|---|
| `immutableInsert`, `insert`, `bstInsert`, `moveUp` | `immutableInsert`, `bstInsert`, `moveUp`, `InsertEnds` |
| `immutableRemove`, `remove`, `moveDown`, `moveNode` | `immutableRemove`, `moveDown`, `RemoveEnds` |
| `transferNodesFrom` | `StartTransfer`, `TransferNode`, `NextSide` |
| `split` | `split`, `bstInsert`, `moveUp`, `Divide`, the transfer of both sides, `SplitEnds` |
| `merge` | `merge`, the transfer of both sides, `Join`, `moveDown`, `MergeEnds`, or `MergeEmpty` |

The weight of each new node is any member of `Weights`. Two things are
abstracted: the fields of nodes that are not in use are forgotten when an
operation ends (`Forget`), since they are written before they are read again,
and the value of the dummy node of a merge is 0, since `moveDown` looks only at
weights. Operations that throw at once (an insert into a full treap, a split of
an empty one, a merge that does not fit) change nothing and are the guards'
negations.

### MrlockTree and Preallocatable

`nodes` maps the addresses in use to nodes; `Fresh` is what `new Node` returns,
and may be an address that was deleted before. A treap is its sorted sequence,
which `Treap` justifies. The action of a thread that calls `Treap::New` is a
conjunction of its own changes and `Treaps!New`; where `New` would throw,
`OutOfTreaps` takes its place, with what the code has changed up to there:
nothing in an insert or a remove, the inserted value and two lost nodes in a
split, the removed value in a merge. `Lock` is an instance of `ResourceLock` with one
resource: `Request`, `Acquire` and `Unlock` are its steps, and `ScopedMrLock`
releases on both ways out of a call.

| Code | Actions |
|---|---|
| `ScopedMrLock` | `Request`, `Acquire`, `Unlock` |
| `insert` | `Search`, `InsertValue`, `MakeNodes`, `SplitLeft`, `SplitRight` |
| `remove` | `Search`, `RemoveValue`, `Merge` |
| `lookup`, `rangeQuery` | `Search`, `Lookup`, `CheckNode`, `QueryEnds` |
| `New` that throws | `OutOfTreaps`, `Unlock`, and no further call of that thread |
| `main`, the destructor | `Deallocate`, `DeleteNode` |

`main` ends the process when a thread gets an exception (`main.cpp:126-130`); the
model lets the other threads go on, which includes every state the process can
end in and says what a program that catches the exception would find. The index
of `Preallocatable` goes up also when `New` throws, and wraps (`Successor`).

### Bitset and MRSimpleLock

A word is the set of the numbers of its bits that are 1, as the macros count
them. `Bitset` has no state of its own: its operators take and return arrays of
words. `MRSimpleLock` separates the load from the exchange, which may also fail
without a reason. All accesses are relaxed; the word's own values still have one
order, so the lock excludes, but nothing orders what one holder writes to the
resource before what the next one reads. The model says nothing of that memory.

### LfcaTree

`heap` is the sequence of the nodes that have been published; a pointer is an
index, `null` is 0. A node that its thread has not published yet is not in
`heap`; building it is part of the step that publishes it. Every action
accesses at most one mutable shared location: `root`, or the `left`, `right`,
`valid`, `join_id` or `neigh2` of a node. There are three places where several
loads are one step, each justified:

- `try_replace` loads `left` and `right` before its compare-and-swap. A node of
  the tree is in one slot (`SingleSlot`, proved) and a base that left its slot
  does not come back to it (`NodesNeverReturn`, proved as long as no full base is
  split that a join has locked), so those loads decide
  nothing that the compare-and-swap does not decide again. The same goes for the slot of a route
  in `complete_join` and of a base in `low_contention_adaptation`.
- `help_if_needed` loads `neigh2` twice; after `PREPARING` it changes once to a
  pointer or to `ABORTED` (`JoinOutcomeIsFinal`), and if it is `PREPARING` at the
  first load there is no second one.
- The fields of a `join_main` that `secure_join` fills in before it publishes
  `neigh2` are read by nobody else before.

| Code | Actions |
|---|---|
| `insert`, `remove`, `lookup`, `rangeQuery` | `Begin`, `LoadRoot`, `Return` |
| `find_base_node`, `lookup` | `FindBase`, `Lookup` |
| `do_update` | `FindFull`, `CheckBase`, `Replace`, `ReplaceFails` |
| `help_if_needed` | `Help`, `Abort` |
| `high_contention_adaptation` | `Split` |
| `low_contention_adaptation`, `secure_join` | `ChooseSide`, `LoadSibling`, `FindNeighbor`, `CheckNeighbor`, `LockMain`, `LockNeighbor`, `LockParent`, `LockGparent`, `ReadOther`, `Publish`, `UndoGparent`, `UndoParent`, `UndoMain` |
| `parent_of` | `ParentOf`, `SearchParent`, `ParentFound`, `ParentNotFound` |
| `complete_join` | `LoadJoined`, `ReplaceNeighbor`, `Invalidate`, `FindSlot`, `Splice`, `Unlock`, `Done` |
| `all_in_range`, `find_base_stack` | `FindBaseStack`, `CheckRangeBase`, `CopyBase`, `CopyFails` |
| `find_next_base_stack`, `leftmost_and_stack` | `FindNextBase`, `Climb`, `GoRight`, `GoLeft` |

`loc[t].then` is the return address of helping, splitting and joining: where
the update or the query goes on afterwards.

Left out: the branches for nodes of type `range`. `new_range_base` copies the
type of the node it copies and nothing else assigns `range`, so those branches
cannot run (finding `Overtaken` is the consequence). Memory is
sequentially consistent, which is what the default order of `std::atomic`
gives. Nodes do not run out here.

The statistics are modelled as they are (`new_stat`), with thresholds near 0, so
that splits and joins happen in short programs.

### MRLock

`sequence` and `bits` are the cells, `pos` is the position a thread has got from
the tail, `cur` the position that it looks at. Indices are counted modulo
`INDICES` (2^32 in the code, 32 in the runs, a multiple of the buffer size);
`Starts` lets a run begin shortly before the wrap, with a buffer as that many
requests leave it. A request is a set of resources; `~0` is the set of all. The
bits are plain memory in the code, with a data race by the letter of C++; one
word is loaded and stored as a whole, and stores become visible in program
order. `compare_exchange_weak` may fail for no reason (`EnqueueFails`,
`DequeueFails`).

`MRLockSafety` maps this to `ResourceLock`: a request is made when the tail moves,
granted when `spinPos` has reached `pos`, released when the bits are cleared.

## Runs

The tree's runs use `TREAP_NODES` 2 or 3 in `Fill` and in the runs about full
treaps, and 8 (4 in `ThreeJoins`) where treaps should not fill up before the last update; `LOW_CONT = 0` makes every update
without a conflict go on to join its base, so that joins meet.

| Run | Shows |
|---|---|
| `Fill` | two threads fill small treaps, from an empty tree and from grown ones: forced and contended splits; `Capacity`, every call answers as the atomic multiset would (`Linearizable`), and a query without concurrent calls misses nothing in its range (`RangeComplete`), from bounds that are not route keys |
| `Join` | two threads, one or two calls each, on trees of three bases (left-leaning, right-leaning, with equal keys): all the structural and protocol properties (`Placement`, `SingleSlot`, `JoinHoldsRoutes`, `JoinHoldsBases`, `DoneIsSpliced`, `NodesNeverReturn`, `LockedBasesStay`), and no join leaves a lock behind, however it ends (`LocksAreReleased`); a range query against updates and joins returns nothing that was not there (`RangeSound`); one thread's calls return wherever the other stops for good (`CallsReturn`); `RoutesAreHeld`, `SlotsAreKept`, `BasesAreHeld` and `ValuesAreKept`, the invariants behind the theorems about joins, slots, bases and values, and the condition of the last two (`SplitsFit`), are true in every state |
| `ThreeJoins` | three threads join three neighbouring bases at once, with treaps of 4: whether two neighbours fit together depends on whose update is first, and no merge is made that does not fit (`Capacity`; in `Fill` there are no joins); the bases of each join keep to it (`JoinHoldsBases`), and calls are atomic |
| `Lock` | `MRLock` implements `ResourceLock` (`GrantsInOrder`), and everyone is served (`LockReturns`): three threads with a cell for each request, and two threads that make six requests for four cells, so that the queue gets full, cells are used again and the indices wrap |
| `Treap` | treaps of up to 3 values, 5 together, one that is split in two and merged again, in every order of operations and with two weights: links form one tree in the front of the array (`TreapsAreTrees`), the operations do what `TreapContents` says (`KeepsContents`), reads find what is there (`ReadsAgree`), inserts and removes keep the heap order (`HeapKept`), loops end (`OperationsEnd`) |
| `MrlockTree` | two threads, up to six calls, treaps of 4 values, and 3, 4, 5, 6 or 50 of them, among the calls six inserts of one value, which fill a treap that cannot be divided: calls are atomic (`Linearizable`, `RangeAtomic`), routes lead to values (`ValuesInPlace`), nothing leaks as long as nothing throws (`NodesAreReachable`), an exception has a reason (`ThrowsForAReason`) and no call keeps the lock (`CallsEnd`) |

Why these bounds are enough. A join involves a base, its neighbour, the route
above and the route above that; three bases have all of these, with the grand
parent present or not, the neighbour the sibling or not, and left and right
exchanged. Two threads give every pair of a joiner and an updater, helper or
second joiner; three are needed for joins that lock neighbouring routes in turn,
and `ThreeJoins` has them with one call each. Values are chosen left of, on and
right of each route's key. Between them `Fill` and `Join`
fire every action of `LfcaTree`; `Lock` fires every action of `MRLock`. In `Lock`
the thread that shares reused cells makes one request only: with a second one
the lock fails, which is what `LiveCell` shows.

In `Treap` three values in an array of four places are enough for a node with two
children, a rotation with an orphan, a gap in the middle that the last node
fills, and a dummy node between any two; equal values and ties of weights occur,
and the values are odd and even, negative and positive, since the median rounds
towards zero. In `MrlockTree` four treaps more or less decide at which of its
calls of `New` an operation throws; the smallest numbers stop the first insert's
split at its left and right treap, the larger ones a merge or the second
thread's calls. 50 are never used up. `INT_MAX` is that of the code and not
reached: the wrap is the subject of a theorem.

### What the code does not do

| Run | Shows |
|---|---|
| `RouteKey` | `rangeQuery(lo, hi)` misses values equal to `lo` if `lo` is a route's key: `find_base_stack` uses `<` where the left child holds `<=` |
| `Overtaken` | a range query misses values that are in the tree all along: an insert replaces the base that the query has read, so that `find_next_base_stack` (`lfca.cpp:217`) no longer finds it as the left child and climbs past the base on its right. Nothing marks the bases that a query has read, so a join may also move values past it, in either direction |
| `LostInsert` | a completed `insert` is lost: a full base that a join has locked is split nevertheless |
| `RoundedKey` | a completed `insert` is lost because `getMedianVal` rounds towards zero: the median of -3, -3 is -2, above both. A contended split of a base below the left side of a route -3 makes a route -2 there, with an empty base that no value is led to. A join takes that base for the neighbour of the base right of -3; afterwards values that were right of -3, among them -2, are right of the route -2, where `lookup(-2)` does not look |
| `FullJoin` | an `insert` spins for ever because a thread has stopped in the middle of a join, which it does not help if the merged base is full |
| `LiveCell` | `MRLock` lets two threads hold one resource: `Unlock` reads the bits of a cell before and its sequence after the cell is used again, and dequeues a live request. Two threads and four cells, which is what the constructor makes for two hardware threads. `LockExcludes` below says when this cannot happen |

More observations, without a run of their own.

- Splits at the same key nest routes with equal keys; then `find_next_base_stack`
  (`>` at `lfca.cpp:223`) skips bases and `parent_of` does not find the lower
  route, so its bases are never joined. `lfca.h:61-62` describes the children as
  `< key` and `>= key`, which is not the order that `find_base_node` uses.
- A full treap whose values are all on one side of its median is split into all
  and nothing (`Unsplittable`). This needs equal values, or the rounding of the
  median: of -5, -5, -3, -3 it is -3, as -5 / 2.0 is cast and -3 / 2.0 is not, and
  of 3, 3, 3, 3 it is 2, so that all values are above it. `LfcaTree` then
  retries the split for ever; `MrlockTree` throws "Treap is full" at the next
  insert. `ThrowsForAReason` says that it throws for nothing else.
- A split that runs out of treaps throws from `insert` although the value is
  inserted, and the two new nodes are lost. A merge that does throws from
  `remove` although the value is removed.
- `split` and `merge` draw the weights of all nodes anew and copy the old
  structure, so the result is in general no heap. `HeapKept` is therefore
  stated for inserts and removes, from a treap that is one.
- `CreateLockable` shifts an `int` by up to 63 for up to 64 resources. From 32 on
  this has no defined result; with the shift that processors do, resources 32
  apart share a bit, so requests wait for each other without need, but never
  fail to when they should (`IntMasksConflict`).
- After `INT_MAX` calls of `New` the index is negative, passes the test for
  exhaustion and is used.

## Fairness

`Running` is the set of threads that the operating system keeps scheduling;
`GrownSpec` and `HFairSpec` assume weak fairness of `Thread(t)` for these only. A thread
in the tree always has a step to take, so nothing stronger is needed, and the
others may stop anywhere: so in `Join` one of the threads may. For `MRLock` every
thread runs, since a thread that stops with the lock stops everyone by design,
and a compare-and-swap that could succeed again and again does in the end
(`SF`), since the weak form may fail without a reason, but not always.

In `MrlockTree` every thread runs (`WF` of each `Thread(t)`): the lock is fair, and a
call waits for at most the calls ahead of it. In `Treap` there is only one
thread, and `WF` of `Step` says that it goes on with the operation it has begun,
not that it begins another.

## Proofs

`LfcaTree_proofs` proves, for any set of threads, any programs, any
`TREAP_NODES` above 1 and any thresholds:

- `TypeCorrect`: `Spec => []TypeOK`,
- `PointersAreGood`: `Spec => []WellFormed`,
- `TreapsFit`: `Spec => []Capacity`,
- `OutcomesStay`: `Spec => JoinOutcomeIsFinal`.

The assumptions are the ones that `LfcaTree` names (`ProgramsAssumption`,
`CapacityAssumption`, `StatAssumption`, `NoCallAssumption`); `NoCall` is any
value that is not a call.

`TypeOK` is not inductive: that `LoadJoined` gets a pointer and not `ABORTED`
depends on what every helper knows about the join it completes. `WellFormed`
says it: of every node in the heap what its type promises (`HeapOK`), of every
thread what it needs to know of its locals at its label (`LocalOK`), and that an
unpublished join has a single owner (`OwnersOK`), without which an owner that
gives up could abort a join that somebody else has published.

The argument has three parts. `HeapOK` is about the heap alone, and each kind
of edit keeps it: a new child, a new `join_id`, an invalidated route, a new
outcome, an added node. Each edit also *extends* the heap: nodes keep their
kinds, their data and their fixed fields, so what another thread knows stays
true (`LocalStable`). Then each action is a step of one thread with one such
edit (`StepOK`), and one lemma per action shows that the thread knows afterwards
what its next label requires. `TreapSeq_proofs` gives the lengths of what the
treap operations return.

`Capacity` follows: `secure_join` checks sizes before it locks, and what makes
this enough is that treaps are immutable, so the bounds hold when it merges.

`LfcaJoins_proofs` proves, under the same assumptions:

- `JoinsHoldTheirRoutes`: `Spec => []RoutesAreHeld`,
- `RoutesStayLocked`: `Spec => []JoinHoldsRoutes`,
- `DoneMeansSpliced`: `Spec => []DoneIsSpliced`,
- `CutRoutesStayOut`: `Spec => RoutesNeverReturn`.

What is hard here is that the properties speak of the tree, that is of what can be
reached from the root, while a helper works with pointers that may have been out
of the tree for long. `JInv` therefore does not mention the tree. A published
join is *cut* when its slot has got something else, a route is *attached* when no
join has cut it out, and everything is said of attached routes: below them there
are attached routes only (`AttachedBelow`), no route has two slots among them
(`OneSlot`), a join whose main node is elsewhere can no longer be published
(`MainsInPlace`, `Doomed`), and as long as a join is not cut it holds its two
locks, its route is in its slot, and its sibling is still one (`JoinLocks`).
`OwnerJoins` and `HelperJoins` add what a thread knows at its label, such as that
the join is cut when it stores `DONE`. As the
route above is locked by the same join, no other join can cut it out before.

All steps but one are *calm*: they leave each route in its slot, publish a join
only below an attached route, and put something into a slot only if it is new or
a base. A calm step keeps the whole invariant (`CalmHeap`, `CalmThread`), so for
each action only the calm edit and the thread's own next label are left. The one
that is not calm is `Splice`, by whichever thread it is done (`CutHeap`,
`CutThread`). Nodes are younger than the ones above them (`YoungerBelow`), also
after a splice, so there are no cycles. So the recursive function `Below` is the
least set closed under children: else there would be a youngest node where the two
differ (`BelowIsFrom`). With this the routes of the tree are attached
(`TreeIsAttached`), and the results carry over to `InTree`.

`LfcaSlots_proofs` proves, under the same assumptions and with full treaps
split under locks as the code does:

- `SlotsStayApart`: `Spec => []SlotsAreKept`,
- `NodesHaveOneSlot`: `Spec => []SingleSlot`.

A slot gets a node that is new, the merged node of a join (`ReplaceNeighbor`), or
what replaces a route that is cut out (`Splice`): the sibling that the owner read
before it published the join, or the merged node again. So `SingleSlot` depends on
what unfinished joins have in their hands. `SInv` is `JInv` with three facts of these.
A join that has read its sibling *claims* what replaces its route: this is below
that route or nowhere, and two joins never claim the same node (`Claims`). A base
in the slot of an attached route *knows* the route (`Knows`): its `parent` names it,
or names a route that has been cut out, or the base is the merged node of a join
whose route this is. So an update of a base hits its slot or none. And as long as the
neighbour of a published join is where its `parent` says, the join is not over, its
merged node has no place yet, and no other join claims it (`Unmerged`). A helper
beyond `ReplaceNeighbor` therefore knows that the neighbour has no place any more
(`ThreadSlots`), and so a second `ReplaceNeighbor` fails.

Again most steps are alike: `Stays` says that at most one old node gets a new slot,
and only one join changes what it says. For the steps that put no old node anywhere
`EditKeeps` leaves the thread's next label. The others have lemmas of their own: a
new base (`BasePutSlots`), `Split`, `LockMain` and `LockNeighbor`, whose new nodes
take the place of old ones; `ReadOther` and `Publish`, where a claim begins;
`ReplaceNeighbor` (`MergeKeeps`); and `Splice` (`SpliceKeeps`), where the replacement
is claimed and so in no other slot. If two slots of the
tree led to one node there would be a youngest one, and it would be in two slots of
attached routes (`SubtreesApart`).

These theorems say where a node may be, not that it stays there. That the bases of a
join do stay is proved under a condition:

- `BasesStayInPlace`: `Spec /\ []NoLockedSplit => []BasesAreHeld`,
- `BasesStayLocked`: `Spec /\ []NoLockedSplit => []JoinHoldsBases`,
- `NodesStayOut`: `Spec /\ []NoLockedSplit => NodesNeverReturn`,
- `LockedBasesAreKept`: `Spec /\ []NoLockedSplit => LockedBasesStay`.

`NoLockedSplit` says that no thread is about to split a base that is in place and
that a join has locked. Without it all four are false: `do_update` splits a full
base without asking `is_replaceable` (`lfca.cpp:155-158`), which is the step that
loses the value in `LostInsert`. It is a condition on full treaps only. A split for
contention is of a base that the same thread has just installed; where a join has
locked that base meanwhile, the base is no longer the node in the slot, since a lock
on a base is a node of its own. It allows full bases to be
split as long as no join holds them, and it always holds where treaps do not fill up,
as in `Join` and `ThreeJoins`, or in any program whose values, inserted or there
to begin with, are fewer than `TREAP_NODES`.

`BInv` is `SInv` and `BasesAreHeld`. Of the heap it says that the base in the slot of
an attached route is that route's own or the merged node which is about to take the
route's place (`BasesAtHome`), that a route which is cut out keeps no base but the
main node of its join (`CutOutEmpty`), that a main node is in its slot unless its
join is aborted (`MainsStay`), its neighbour until the join is published
(`NeighborsStay`), and from then on the neighbour or the merged node until the join
is over (`MergesStay`). Of a thread it says that what it is about to replace is
replaceable, and where its search for a neighbour has got to: everything that is
below it and still *alive*, that is in the tree or yet to be put there, is below the
sibling of its base (`Leads`). So the neighbour that it locks is below that sibling
(`ThreadBases`), and the join that is then published merges two bases of which one
is below one child of its route and the other below the other.

Every step is a `Step`: it moves one slot from one node to another, and it does so
in one of four ways. The slot stays (`Stands`), a base that is replaceable gets a
successor (`Renews`), the merged node takes the neighbour's place (`MergesInto`), or
a route is cut out for what its join has saved (`CutsRoute`). Each way keeps each part
of the invariant, and each action is one of these ways. For the two action
properties it is then enough to ask what a `Step` puts into the tree (`StepEnters`)
and what it takes out (`StepLeaves`).

That the values are where their keys lead is proved in `LfcaPlaces_proofs`, under a
second condition:

- `ValuesStayPlaced`: `Spec /\ []SplitsFit => []ValuesAreKept`,
- `ValuesArePlaced`: `Spec /\ []SplitsFit => []Placement`.

`SplitsFit` is `NoLockedSplit` and `MediansFit`: no base in the tree is about to be
split at a median that is above all of its values. Without the first, `LostInsert`
breaks the theorem; without the second, `RoundedKey` does. A median can only be above all
values if these are negative and the upper half of them are equal and odd. In `Join` the
condition is checked and holds.

A path in the tree is a choice of a side at every route (`Way`). The choice of a key
(`KeyWay`) is the path of a search for it, and the choice of a route and a side
(`NextWay`) is the path from that route to the base next to its child on that side:
down the other side, and then always back towards the child. `Placement` is about the paths of
keys, and what a join does to it depends on the other paths: cutting out a route and
giving the values of its base to the base next to it is right because the two are
neighbours. So `PInv` is `BInv` with `ValuesAreKept`, which says: every value is on
the path of its key, but those of a main node whose join is not yet cut out are also
in the merged node (`ValuesPlaced`); the routes on the path to a neighbour have keys
on the right side (`RoutesOrdered`); a published join merges a child of its route
with the base next to it, and the merged data is that of both (`MergesNeighbors`);
treaps are sorted (`DataSorted`). Of a thread it says that whatever is still alive on
the path that its search follows from where it has got to, is on that path from
the top (`LeadsOn`, in `ThreadPlaces`). Each of the four ways of a `Step` changes a path in
one place only, and what is lost from it is not alive any more. This is where the order of `complete_join` matters: for
the values of the neighbour it is `MergesInto` that keeps them on their path, for those of
the main node `CutsRoute`.

`ResourceLock` is a lock that grants conflicting requests in their order. `MRLock_proofs`
proves that `MRLock` is such a lock, for any threads, requests,
buffer size, number of index values and number of requests before:

- `QueueIsKept`: `Spec /\ []Timely => []QueueHoldsRequests`,
- `LockGrantsInOrder`: `Spec /\ []Timely => GrantsInOrder`,
- `LockExcludes`: `Spec /\ []Timely => []Exclusive`.

That the order is enough is a fact about `ResourceLock` alone: `OrderExcludes`, in
`MrlockTree_proofs`, says for any threads and resources that no resource is given to
two threads.

Without `Timely` all three are false. It names the two ways in which a thread can
be late, and nothing else:

- `NoLateReset`: no thread is about to read the bits of the cell at the head
  while the thread that dequeued the cell's previous request has still to reset
  them. `Unlock` checks the bits first and the sequence number then
  (`mrlock.h:121-127`), so that the bits may be those of the old request and the
  number that of the new one. This is what happens in `LiveCell`, after the
  buffer has been used once around. The state alone does no harm: it occurs in
  `Lock` as well, where the next request never comes.
- `NoLongDelay`: between a thread's load of the tail or the head and its
  compare-and-swap at most half of the indices are used. After all 2^32 of them
  the index is the same again, and the compare-and-swap succeeds on a cell that
  was looked at before. Half is also what `Before` needs to order two positions.

`LockInv` is an invariant about positions that do not wrap around: `H` and `T`
behind the head and the tail, `P[t]` and `C[t]` behind what a thread has loaded
(`HasPositions`). They are not in the code, so the invariant says that there are
some. With them the positions `T - BUFFER_SIZE` to `T - 1` have a cell each, and the
invariant says what is in it (`CellsAccounted`): from `H` on a request of just one
thread (`RequestsInCells`, `RequestsApart`) or one that has been released, before `H`
a request that one thread is dequeuing (`DequeuedCells`, `DequeuersApart`) or a free
cell. `TailSeen` and `HeadSeen` say what a thread still knows of the cell that it
has checked if the tail or the head has not moved, and `PassedBy` that a waiting
thread has passed by no request that conflicts with its own. Each action moves
one of the positions or changes one cell, and there is a lemma for each.

In the refinement an `Enqueue` is the abstract lock's request, `Acquire` its grant
(`NobodyAhead`: all requests before it that conflict have been passed by) and
`Release` its release. All other steps stutter, those of other threads too, as
the order of two positions in the queue never changes (`BeforeIs`).

`MrlockTree_proofs` proves, for any threads, programs, trees to begin with and
numbers of treaps:

- `TreeIsLocked`: `Spec => []CallsRunAlone`,
- `TreeTyped`: `Spec => []TypeOK`, with sorted treaps that fit their arrays and
  walks that never meet a deleted node,
- `NothingOutOfReach`: `Spec => []ValuesInPlace`,
- `NothingLeaks`: `Spec => []NodesAreReachable`,
- `ThrowsExplained`: `RoomInIndex => (Spec => []ThrowsForAReason)`,
- `QueriesAreAtomic`: `HSpec => []RangeAtomic`,
- `TreeKeepsPromise`: `HSpec => Linearizable`.

The assumptions are the ones that `MrlockTree` and `MrlockHistory` name;
`ValuesAssumption` says that the values that are counted include the keys of all
inserts, removes and lookups. `TreesAssumption` says that
the calls find a search tree when they begin, of any shape, without a full treap
that a split should have divided. The constructor's single base is one. `RoomInIndex` says that
the number of treaps and the number of threads together are at most `INT_MAX`.
Without it the last theorem is false: each thread that gets an exception moves
the index once more, and after the wrap `New` gives out what is not there instead
of throwing.

The steps of `MrlockTree` on the lock's variables are steps of `ResourceLock`, so
the invariant behind `OrderExcludes` carries over (`OrderInv`); `LInv` adds that exactly the threads in the tree hold
the lock, also on the way out by an exception. So a thread that is in the tree
is the only one, and what the others know of the nodes is nothing (`OthersKept`).

`Inv` is about the nodes. `ValuesInPlace` is not inductive: that a merge or a
split moves values to the right place needs that no node has two parents
(`Forest`), and of the thread in the tree that the base it has reached is on the
path of its key, that `tempParent` is the route above it, and that the two halves
of a split are not linked anywhere yet (`LocalOK`). `NodesAreReachable` needs the
same, and that the stack of the destructor holds no node twice (`AliveOrEnded`). `Path` and
`Below` are least closed sets, so that to show how an edit changes them it is
enough to name a closed set before and after it (`PathKept`, `BelowKept`,
`DividedLinks`, `MergedLinks`); the lemmas of the first half of the module are
about `TreeShape` and `TreapSeq` alone. `TreapSeq_proofs` shows that `Rank` divides a sorted
sequence, and from it what an insert, a remove, a split and a merge do to order
and contents.

`ThrowInv` adds how far the index can be (`IndexBounded`), and that, as long as
there are treaps, the only full base that its median divides is the one that the
thread in the tree is about to split (`FullIsSplit`). Here the rounding of the
median matters: a split that leaves a half as full as the whole leaves it
`Unsplittable` (`SplitIsSplit`). The values are in place for any rounding.

The last two theorems are a refinement. The multiset of `SearchTree` is `Items`:
how many pairs of a base and a place in its treap hold a value (`Places`). The
lemmas on contents in `TreapSeq_proofs` say what each treap operation does to
the copies of one value. From them and from what the edits leave of the other
bases it follows that a split, a merge and new nodes leave `Items` alone
(`SplitRightHeld`, `MergeHeld`, `MakeNodesHeld`), and that an insert and a remove
are its `Effect`. For the answers this is not enough: that the one treap a call looks at
knows whether the value is in the tree at all needs `ValuesInPlace`, and that a
search ends at one base only (`OneBase`, `AllInOne`).

`HistoryInv` says which answers a call may give at its label. For a query it
is: what it has found so far, together with what the bases hold that it has still
to come to (`Waiting`), is what the tree holds, for each value in its range.
No node may be below two entries of the stack (`Apart`), or values would be
found twice. When the query goes on from a route, the side that it leaves out is off
the path of every value in the range (`CheckRoute`, `OffPath`); at a base it adds
the copies there (`CheckBase`). As the tree does not change while a query is in
it, the answer is that of one moment. Each action of a thread is then a step of
`SearchTree` or a stutter (`OwnStep`, `StepKeepsPromise`).

`Linearizable` ends when the treaps are deallocated: the destructor removes
values without a call. No call is in progress then (`AliveOrEnded`).

The last part of the module is about `Preallocatable`, whatever calls it: `New`
gives no element out twice and none outside of the array until the index wraps
(`ElementsAreDistinct`). A history variable counts the calls, and up to the wrap
the index equals their number.

`BitsetLock_proofs` proves, for every size, that `Set` and `Reset` change one
position, that `&` and `bool` find what there is, and that requests conflict in
the masks of `MRResourceAllocator` if they have a resource in common. The
argument is that a position is found again from its word and its bit.
`MRLock` may therefore take a request for a set.

It proves of `MRSimpleLock` exclusion and that the bits set are those of the
holders (`SimpleLockExcludes`): a thread about to exchange the word has found
its bits unset in the value that the exchange compares with.

Only model-checked: what the calls of `LfcaTree` answer (its `Linearizable`,
`RangeSound`, `RangeComplete`), which needs what a stale base has held since the call
began, and that no join leaves a lock behind (`LocksAreReleased`); of `Treap` all properties (`TreapsAreTrees`,
`KeepsContents`, `ReadsAgree`, `HeapKept`). Liveness (`CallsReturn`, `LockReturns`,
`OperationsEnd`, `CallsEnd`) is out of the prover's reach, and so is induction over
data: that `Rank` describes what `bstInsert` does for every treap is not provable
here.

## Plan

1. The treap: an inductive invariant of the links (parents and children name each
   other, the nodes in use fill the front of the array) for `moveNode` and the
   rotations.
2. The answers of `LfcaTree` under `SplitsFit`: from `ValuesAreKept` a base that an update
   replaces is the one that its key leads to; what is missing is that a base that a
   lookup has reached was that one at some moment of the call.

## Not modelled

- `ThreadBarrier`, the timing helpers and the lock library's test program, and
  `UseResource` with its counters: no tree uses them, and what they rely on is
  the exclusion that `ResourceLock` and `MRSimpleLock` have theorems for.
- The benchmark's random operations and its measurements, the build files.
- Exceptions in `LfcaTree` when its nodes run out: `main` ends the process then.
- The memory that is leaked or freed by `LfcaTree`: it frees nothing before
  `Deallocate`.
- The branches of `lfca.cpp` for nodes of type `range`, which no node has.
