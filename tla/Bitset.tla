-------------------------------- MODULE Bitset --------------------------------
(***************************************************************************)
(* Class Bitset (lib/mrlock/src/bitset.h), an array of words of 32 bits,   *)
(* and the masks that MRResourceAllocator (strategy/mrlockable.cc) makes   *)
(* of sets of resources.  A word is the set of the numbers of its bits     *)
(* that are 1, counted from the left as the macros of bitset.h do.         *)
(***************************************************************************)
EXTENDS Integers

WORD_INDEX(pos) == pos \div 32
BIT_INDEX(pos) == pos % 32

Word == SUBSET (0 .. 31)
AllBits == 0 .. 31          \* ~0

(* The bitsets of a given size; without a resource there is no word.       *)
Words(size) == 0 .. WORD_INDEX(size - 1)
Bitset(size) == [Words(size) -> Word]

(* flag is 0 or ~0, here {} or AllBits.                                    *)
Resize(size, flag) == [w \in Words(size) |-> flag]

(* operator=, with a bitset and with a flag.                               *)
Assign(b, rhs) == [w \in DOMAIN b |-> rhs[w]]
AssignFlag(b, flag) == [w \in DOMAIN b |-> flag]

(* operator bool and operator &.                                           *)
NonZero(b) == \E w \in DOMAIN b : b[w] /= {}
And(b, rhs) == \E w \in DOMAIN b : b[w] \cap rhs[w] /= {}

Set(b, pos) ==
    IF pos >= 0 THEN [b EXCEPT ![WORD_INDEX(pos)] = @ \cup {BIT_INDEX(pos)}]
    ELSE AssignFlag(b, AllBits)

Reset(b, pos) ==
    IF pos >= 0 THEN [b EXCEPT ![WORD_INDEX(pos)] = @ \ {BIT_INDEX(pos)}]
    ELSE AssignFlag(b, {})

-----------------------------------------------------------------------------
(* CreateLockable                                                          *)

(* More than 64 resources: Resize(size), then Set for each of the ids.     *)
Mask(size, ids) == [w \in Words(size) |-> {BIT_INDEX(id) : id \in {i \in ids : WORD_INDEX(i) = w}}]

(* Else 1 << id for each of the ids, in an int.  A shift by 32 or more has *)
(* no defined result; processors shift by its lowest five bits.            *)
IntMask(ids) == {id % 32 : id \in ids}

(* The int is extended to 64 bits by its sign.                             *)
Extended(mask) == mask \cup (IF 31 \in mask THEN 32 .. 63 ELSE {})
Mask64(ids) == Extended(IntMask(ids))
=============================================================================
