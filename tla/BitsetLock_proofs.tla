-------------------------- MODULE BitsetLock_proofs ---------------------------
(***************************************************************************)
(* The parts of the lock library without a queue.                          *)
(*                                                                         *)
(* The bitset: why module MRLock may take a request for a set of           *)
(* resources.  Positions of a bitset do not get mixed up, and requests     *)
(* with a common resource have masks with a common bit.                    *)
(*                                                                         *)
(* The lock that is one bitset: it excludes, for any threads and           *)
(* resources.                                                              *)
(***************************************************************************)
EXTENDS MRSimpleLock, Bitset, TLAPS

-----------------------------------------------------------------------------
(* Bitset                                                                  *)

Positions(b) == {pos \in Nat : WORD_INDEX(pos) \in DOMAIN b /\ BIT_INDEX(pos) \in b[WORD_INDEX(pos)]}

(* A position is found again from its word and its bit.                    *)
LEMMA WordAndBit ==
    ASSUME NEW pos \in Nat
    PROVE  /\ WORD_INDEX(pos) \in Nat /\ BIT_INDEX(pos) \in 0 .. 31
           /\ pos = 32 * WORD_INDEX(pos) + BIT_INDEX(pos)
BY DEF WORD_INDEX, BIT_INDEX

LEMMA FromWordAndBit ==
    ASSUME NEW w \in Nat, NEW bit \in 0 .. 31
    PROVE  /\ 32 * w + bit \in Nat
           /\ WORD_INDEX(32 * w + bit) = w /\ BIT_INDEX(32 * w + bit) = bit
BY DEF WORD_INDEX, BIT_INDEX

LEMMA PositionInWords ==
    ASSUME NEW size \in Nat, NEW pos \in 0 .. size - 1
    PROVE  pos \in Nat /\ WORD_INDEX(pos) \in Words(size)
BY DEF Words, WORD_INDEX

LEMMA WordsAreNat ==
    ASSUME NEW size \in Nat, NEW w \in Words(size)
    PROVE  w \in Nat
BY DEF Words, WORD_INDEX

(* Set(pos) (bitset.h:86-96) adds the position pos and no other.  It need  *)
(* only be in a word of the bitset: MrlockTree sets position 1 of a bitset *)
(* of size 1 (mrlocktree.cpp:21-22).                                       *)
THEOREM SetAddsPosition ==
    ASSUME NEW size \in Nat, NEW b \in Bitset(size),
           NEW pos \in Nat, WORD_INDEX(pos) \in Words(size)
    PROVE  Set(b, pos) \in Bitset(size) /\ Positions(Set(b, pos)) = Positions(b) \cup {pos}
<1>1. pos \in Nat /\ WORD_INDEX(pos) \in Words(size) /\ BIT_INDEX(pos) \in 0 .. 31
  BY WordAndBit
<1>2. /\ DOMAIN b = Words(size)
      /\ Set(b, pos) = [b EXCEPT ![WORD_INDEX(pos)] = @ \cup {BIT_INDEX(pos)}]
  BY <1>1 DEF Set, Bitset
<1>3. Set(b, pos) \in Bitset(size)
  BY <1>1, <1>2 DEF Bitset, Word
<1>4. ASSUME NEW i \in Nat
      PROVE  i \in Positions(Set(b, pos)) <=> i \in Positions(b) \/ i = pos
  <2>1. CASE i = pos
    BY <1>1, <1>2, <1>3, <2>1 DEF Positions, Bitset
  <2>2. CASE i /= pos
    <3>1. WORD_INDEX(i) /= WORD_INDEX(pos) \/ BIT_INDEX(i) /= BIT_INDEX(pos)
      BY <1>1, <2>2, WordAndBit
    <3> QED BY <1>1, <1>2, <1>3, <2>2, <3>1 DEF Positions, Bitset
  <2> QED BY <2>1, <2>2
<1> QED BY <1>1, <1>3, <1>4 DEF Positions

(* Reset(pos) (bitset.h:98-108) takes away the position pos and no other.  *)
THEOREM ResetRemovesPosition ==
    ASSUME NEW size \in Nat, NEW b \in Bitset(size),
           NEW pos \in Nat, WORD_INDEX(pos) \in Words(size)
    PROVE  Reset(b, pos) \in Bitset(size) /\ Positions(Reset(b, pos)) = Positions(b) \ {pos}
<1>1. pos \in Nat /\ WORD_INDEX(pos) \in Words(size) /\ BIT_INDEX(pos) \in 0 .. 31
  BY WordAndBit
<1>2. /\ DOMAIN b = Words(size)
      /\ Reset(b, pos) = [b EXCEPT ![WORD_INDEX(pos)] = @ \ {BIT_INDEX(pos)}]
  BY <1>1 DEF Reset, Bitset
<1>3. Reset(b, pos) \in Bitset(size)
  BY <1>1, <1>2 DEF Bitset, Word
<1>4. ASSUME NEW i \in Nat
      PROVE  i \in Positions(Reset(b, pos)) <=> i \in Positions(b) /\ i /= pos
  <2>1. CASE i = pos
    BY <1>1, <1>2, <1>3, <2>1 DEF Positions, Bitset
  <2>2. CASE i /= pos
    <3>1. WORD_INDEX(i) /= WORD_INDEX(pos) \/ BIT_INDEX(i) /= BIT_INDEX(pos)
      BY <1>1, <2>2, WordAndBit
    <3> QED BY <1>1, <1>2, <1>3, <2>2, <3>1 DEF Positions, Bitset
  <2> QED BY <2>1, <2>2
<1> QED BY <1>3, <1>4 DEF Positions

(* operator & (bitset.h:73-84) tells whether there is a common position,   *)
(* operator bool (bitset.h:60-71) whether there is one.                    *)
THEOREM AndFindsCommon ==
    ASSUME NEW size \in Nat, NEW b \in Bitset(size), NEW c \in Bitset(size)
    PROVE  /\ And(b, c) <=> Positions(b) \cap Positions(c) /= {}
           /\ NonZero(b) <=> Positions(b) /= {}
<1>1. DOMAIN b = Words(size) /\ DOMAIN c = Words(size)
  BY DEF Bitset
<1>2. ASSUME NEW w \in Words(size), NEW bit \in b[w]
      PROVE  /\ bit \in 0 .. 31 /\ w \in Nat
             /\ 32 * w + bit \in Positions(b)
             /\ bit \in c[w] => 32 * w + bit \in Positions(c)
  <2>1. bit \in 0 .. 31 /\ w \in Nat
    BY WordsAreNat DEF Bitset, Word
  <2> QED BY <1>1, <2>1, FromWordAndBit DEF Positions
<1>3. And(b, c) => Positions(b) \cap Positions(c) /= {}
  BY <1>1, <1>2 DEF And
<1>4. Positions(b) \cap Positions(c) /= {} => And(b, c)
  BY <1>1 DEF And, Positions
<1>5. NonZero(b) <=> Positions(b) /= {}
  BY <1>1, <1>2 DEF NonZero, Positions
<1> QED BY <1>3, <1>4, <1>5

-----------------------------------------------------------------------------
(* The mask of a set of ids is a bitset with these positions.              *)
LEMMA MaskPositions ==
    ASSUME NEW size \in Nat, NEW ids \in SUBSET (0 .. size - 1)
    PROVE  Mask(size, ids) \in Bitset(size) /\ Positions(Mask(size, ids)) = ids
<1>1. \A id \in ids : id \in Nat /\ WORD_INDEX(id) \in Words(size) /\ BIT_INDEX(id) \in 0 .. 31
  BY PositionInWords, WordAndBit
<1>2. Mask(size, ids) \in Bitset(size)
  BY <1>1 DEF Mask, Bitset, Word
<1>3. ASSUME NEW id \in ids PROVE id \in Positions(Mask(size, ids))
  BY <1>1 DEF Mask, Positions
<1>4. ASSUME NEW pos \in Positions(Mask(size, ids)) PROVE pos \in ids
  <2>1. pos \in Nat /\ WORD_INDEX(pos) \in Words(size)
    BY <1>2 DEF Positions, Bitset
  <2>2. PICK id \in ids : WORD_INDEX(id) = WORD_INDEX(pos) /\ BIT_INDEX(id) = BIT_INDEX(pos)
    BY <2>1 DEF Positions, Mask
  <2>3. id = pos
    BY <1>1, <2>1, <2>2, WordAndBit
  <2> QED BY <2>3
<1> QED BY <1>2, <1>3, <1>4

(* One iteration of CreateLockable's loop (mrlockable.cc:39-42) makes the  *)
(* mask of one more id.                                                    *)
LEMMA MaskStep ==
    ASSUME NEW size \in Nat, NEW ids \in SUBSET (0 .. size - 1), NEW id \in 0 .. size - 1
    PROVE  Set(Mask(size, ids), id) = Mask(size, ids \cup {id})
<1> DEFINE old == Mask(size, ids)
           new == Mask(size, ids \cup {id})
<1>1. id \in Nat /\ WORD_INDEX(id) \in Words(size)
  BY PositionInWords
<1>2. Set(old, id) = [w \in Words(size) |->
                        IF w = WORD_INDEX(id) THEN old[w] \cup {BIT_INDEX(id)} ELSE old[w]]
  <2>1. Set(old, id) = [old EXCEPT ![WORD_INDEX(id)] = @ \cup {BIT_INDEX(id)}]
    BY <1>1 DEF Set
  <2>2. old \in Bitset(size)
    BY MaskPositions
  <2> HIDE DEF old
  <2> QED BY <1>1, <2>1, <2>2 DEF Bitset
<1>3. ASSUME NEW w \in Words(size)
      PROVE  new[w] = IF w = WORD_INDEX(id) THEN old[w] \cup {BIT_INDEX(id)} ELSE old[w]
  <2>1. CASE w = WORD_INDEX(id)
    BY <2>1, Zenon DEF Mask
  <2>2. CASE w /= WORD_INDEX(id)
    <3>1. {i \in ids \cup {id} : WORD_INDEX(i) = w} = {i \in ids : WORD_INDEX(i) = w}
      BY <2>2
    <3> QED BY <2>2, <3>1 DEF Mask
  <2> QED BY <2>1, <2>2
<1>4. new = [w \in Words(size) |-> new[w]]
  BY DEF Mask
<1> QED BY <1>2, <1>3, <1>4

(* With more than 64 resources, two requests wait for each other just when *)
(* they have a resource in common.                                         *)
THEOREM MasksConflict ==
    ASSUME NEW size \in Nat, NEW ids \in SUBSET (0 .. size - 1), NEW others \in SUBSET (0 .. size - 1)
    PROVE  And(Mask(size, ids), Mask(size, others)) <=> ids \cap others /= {}
BY MaskPositions, AndFindsCommon

(* With up to 64, requests with a common resource still wait for each      *)
(* other, although resources share bits of the int (mrlockable.cc:49-53).  *)
THEOREM IntMasksConflict ==
    ASSUME NEW ids, NEW others, ids \cap others /= {}
    PROVE  Mask64(ids) \cap Mask64(others) /= {}
<1>1. PICK id \in ids : id \in others
  OBVIOUS
<1>2. id % 32 \in Mask64(ids) /\ id % 32 \in Mask64(others)
  BY <1>1 DEF Mask64, Extended, IntMask
<1> QED BY <1>2

-----------------------------------------------------------------------------
(* MRSimpleLock                                                            *)

Typed ==
    /\ m_bits \in SUBSET Resources
    /\ pc \in [Threads -> {"idle", "load", "set", "held", "clear"}]
    /\ resources \in [Threads -> SUBSET Resources]
    /\ bits \in [Threads -> SUBSET Resources]

(* Holds(t, r): t holds the resource r.                                    *)
Holds(t, r) == pc[t] \in {"held", "clear"} /\ r \in resources[t]

(* A set bit belongs to exactly one holder, one that is not set to none; a *)
(* thread about to exchange has found its bits unset in what it has read.  *)
SLInv ==
    /\ Typed
    /\ \A r \in Resources : r \in m_bits <=> \E t \in Threads : Holds(t, r)
    /\ \A t, u \in Threads, r \in Resources : Holds(t, r) /\ Holds(u, r) => t = u
    /\ \A t \in Threads : pc[t] = "set" => bits[t] \cap resources[t] = {}

(* Every step of Lock and Unlock keeps the invariant.                      *)
LEMMA StepKeepsHolders == SLInv /\ [Next]_vars => SLInv'
<1> SUFFICES ASSUME SLInv, [Next]_vars PROVE SLInv'
  OBVIOUS
<1> USE DEF SLInv, Typed, Holds, Goto
<1>1. ASSUME NEW t \in Threads, NEW rs \in SUBSET Resources, Lock(t, rs) PROVE SLInv'
  BY <1>1 DEF Lock
<1>2. ASSUME NEW t \in Threads, Load(t) PROVE SLInv'
  <2>1. Typed'
    BY <1>2 DEF Load
  <2>2. \A u \in Threads, r \in Resources : Holds(u, r)' <=> Holds(u, r)
    BY <1>2 DEF Load
  <2>3. \A u \in Threads : pc'[u] = "set" => bits'[u] \cap resources'[u] = {}
    BY <1>2 DEF Load
  <2> QED BY <1>2, <2>1, <2>2, <2>3 DEF Load
<1>3. ASSUME NEW t \in Threads, SetBits(t) PROVE SLInv'
  <2>1. Typed'
    BY <1>3 DEF SetBits
  <2>2. \A u \in Threads, r \in Resources :
            Holds(u, r)' <=> Holds(u, r) \/ (u = t /\ r \in resources[t])
    BY <1>3 DEF SetBits
  <2>3. m_bits \cap resources[t] = {} /\ m_bits' = m_bits \cup resources[t]
    BY <1>3 DEF SetBits
  <2>4. \A u \in Threads : pc'[u] = "set" => bits'[u] \cap resources'[u] = {}
    BY <1>3 DEF SetBits
  <2> QED BY <2>1, <2>2, <2>3, <2>4
<1>4. ASSUME NEW t \in Threads, SetFails(t) PROVE SLInv'
  BY <1>4 DEF SetFails
<1>5. ASSUME NEW t \in Threads, Unlock(t) PROVE SLInv'
  BY <1>5 DEF Unlock
<1>6. ASSUME NEW t \in Threads, ClearBits(t) PROVE SLInv'
  <2>1. Typed'
    BY <1>6 DEF ClearBits
  <2>2. \A u \in Threads, r \in Resources : Holds(u, r)' <=> Holds(u, r) /\ u /= t
    BY <1>6 DEF ClearBits
  <2>3. m_bits' = m_bits \ resources[t] /\ \A r \in resources[t] : Holds(t, r)
    BY <1>6 DEF ClearBits
  <2>4. \A u \in Threads : pc'[u] = "set" => bits'[u] \cap resources'[u] = {}
    BY <1>6 DEF ClearBits
  <2> QED BY <2>1, <2>2, <2>3, <2>4
<1>7. ASSUME NEW t \in Threads, ClearFails(t) PROVE SLInv'
  BY <1>7 DEF ClearFails
<1>8. CASE UNCHANGED vars
  BY <1>8 DEF vars
<1> QED BY <1>1, <1>2, <1>3, <1>4, <1>5, <1>6, <1>7, <1>8 DEF Next, Step

(* Between Lock (mrsimplelock.h:25) and the end of Unlock                  *)
(* (mrsimplelock.h:42) no resource has two holders, and the word has the   *)
(* bits of the holders and no others.                                      *)
THEOREM SimpleLockExcludes == Spec => [](Exclusive /\ BitsAreHeld)
<1>1. Init => SLInv
  BY DEF Init, SLInv, Typed, Holds
<1>2. SLInv => Exclusive
  BY DEF SLInv, Typed, Holds, Exclusive, Holders
<1>3. SLInv => BitsAreHeld
  BY DEF SLInv, Typed, Holds, BitsAreHeld, Holders
<1> QED BY <1>1, <1>2, <1>3, StepKeepsHolders, PTL DEF Spec
=============================================================================
