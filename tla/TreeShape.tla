------------------------------ MODULE TreeShape ------------------------------
(***************************************************************************)
(* What makes a set of linked nodes a search tree.  In all of this, its is *)
(* a function from addresses to nodes, as in MrlockTree.  Nothing here     *)
(* depends on the calls that change the nodes.                             *)
(***************************************************************************)
EXTENDS TreapSeq

null == 0
head == 1

Node == [isRoute : BOOLEAN, val : Int, treap : Seq(Int), left : Nat, right : Nat]

Routes(its) == {n \in DOMAIN its : its[n].isRoute}
Bases(its) == DOMAIN its \ Routes(its)
Children(its, r) == {its[r].left, its[r].right}

(* The nodes that can be reached from the nodes in roots: the least set    *)
(* that contains them and the children of its routes.                      *)
ClosedBelow(its, roots, S) == roots \subseteq S /\ \A r \in S \cap Routes(its) : Children(its, r) \subseteq S
Below(its, roots) ==
    LET closed == {S \in SUBSET DOMAIN its : ClosedBelow(its, roots, S)}
    IN  {n \in DOMAIN its : \A S \in closed : n \in S}

(* No node is below two of the nodes in the sequence s.                    *)
Apart(its, s) == \A i, j \in DOMAIN s : i /= j => Below(its, {s[i]}) \cap Below(its, {s[j]}) = {}

(* Values up to the key of a route belong on its left.                     *)
Toward(its, r, v) == IF v <= its[r].val THEN its[r].left ELSE its[r].right

(* The nodes that a search for v comes to, from the head on.               *)
ClosedToward(its, v, S) == head \in S /\ \A r \in S \cap Routes(its) : Toward(its, r, v) \in S
Path(its, v) ==
    LET closed == {S \in SUBSET DOMAIN its : ClosedToward(its, v, S)}
    IN  {n \in DOMAIN its : \A S \in closed : n \in S}

(* Every value is in the base that a search for it ends at.                *)
InPlace(its) == \A b \in Bases(its) : \A v \in ToSet(its[b].treap) : b \in Path(its, v)

(* Where the bases in B hold copies of v.                                  *)
Places(its, B, v) == UNION {{b} \X Positions(its[b].treap, v) : b \in B}

(* No node has two parents, and the roots have none.                       *)
Forest(its, roots) ==
    /\ roots \subseteq DOMAIN its
    /\ \A r \in Routes(its) :
        /\ its[r].left /= its[r].right
        /\ Children(its, r) \subseteq DOMAIN its \ roots
        /\ \A q \in Routes(its) \ {r} : Children(its, r) \cap Children(its, q) = {}

(* Nodes of the right types, with sorted treaps that fit.                  *)
GoodNodes(its, capacity) ==
    /\ IsFiniteSet(DOMAIN its) /\ DOMAIN its \subseteq Nat \ {null}
    /\ its \in [DOMAIN its -> Node]
    /\ \A b \in Bases(its) :
        /\ its[b].left = null /\ its[b].right = null
        /\ Sorted(its[b].treap) /\ Len(its[b].treap) <= capacity

(* The bases with full treaps that a split could divide.                   *)
Full(its, capacity) == {b \in Bases(its) : Len(its[b].treap) = capacity /\ ~Unsplittable(its[b].treap)}

(* A tree as the calls leave it that do not throw.                         *)
IsTree(its, capacity) ==
    /\ GoodNodes(its, capacity) /\ Full(its, capacity) = {}
    /\ Forest(its, {head}) /\ InPlace(its) /\ Below(its, {head}) = DOMAIN its
=============================================================================
