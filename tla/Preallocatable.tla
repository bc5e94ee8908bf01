---------------------------- MODULE Preallocatable ----------------------------
(***************************************************************************)
(* Class Preallocatable (preallocatable.h): the elements of a class are    *)
(* made in one array before they are needed, and handed out one by one by  *)
(* a counter that only goes up.  An element is never given back; all of    *)
(* them go when the array does.                                            *)
(***************************************************************************)
EXTENDS Integers

CONSTANT INT_MAX        \* the largest int

VARIABLES isPreallocated, numPreallocated, currentElementIndex

vars == <<isPreallocated, numPreallocated, currentElementIndex>>

Init ==
    /\ isPreallocated = FALSE
    /\ numPreallocated = 0
    /\ currentElementIndex = 0

(* fetch_add on an atomic<int> wraps around.                               *)
Successor(index) == IF index = INT_MAX THEN -INT_MAX - 1 ELSE index + 1

(* A second call before Deallocate throws.                                 *)
Preallocate(numElements) ==
    /\ ~isPreallocated
    /\ isPreallocated' = TRUE
    /\ numPreallocated' = numElements
    /\ currentElementIndex' = 0

Deallocate ==
    /\ isPreallocated' = FALSE
    /\ UNCHANGED <<numPreallocated, currentElementIndex>>

HasNext == currentElementIndex < numPreallocated

(* One atomic step takes the index of the element.  Whatever else New      *)
(* reads is written only while no other thread runs.                       *)
New ==
    /\ isPreallocated /\ HasNext
    /\ currentElementIndex' = Successor(currentElementIndex)
    /\ UNCHANGED <<isPreallocated, numPreallocated>>

(* The elements are used up.  The index goes up all the same.              *)
NewThrows ==
    /\ isPreallocated /\ ~HasNext
    /\ currentElementIndex' = Successor(currentElementIndex)
    /\ UNCHANGED <<isPreallocated, numPreallocated>>

Next ==
    \/ \E numElements \in 0 .. INT_MAX : Preallocate(numElements)
    \/ Deallocate \/ New \/ NewThrows

Spec == Init /\ [][Next]_vars
=============================================================================
