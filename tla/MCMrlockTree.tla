----------------------------- MODULE MCMrlockTree -----------------------------
(***************************************************************************)
(* Small instances of MrlockTree: programs, and trees to begin with.       *)
(***************************************************************************)
EXTENDS MrlockHistory

CONSTANTS t1, t2

Insert(k) == [op |-> "insert", key |-> k, hi |-> k]
Delete(k) == [op |-> "remove", key |-> k, hi |-> k]
Find(k) == [op |-> "lookup", key |-> k, hi |-> k]
Query(lo, hi) == [op |-> "rangeQuery", key |-> lo, hi |-> hi]

Two(p1, p2) == (t1 :> p1) @@ (t2 :> p2)

(* An empty tree, and one as earlier calls may have left it.               *)
EmptyTree == (1 :> Base(<<>>))
GrownTree ==
    (1 :> Route(2, 2, 3)) @@ (2 :> Base(<<1, 2>>)) @@ (3 :> Route(6, 4, 5))
    @@ (4 :> Base(<<4, 6>>)) @@ (5 :> Base(<<8>>))
SmallTrees == {EmptyTree, GrownTree}

Minus(k) == -k
TreeValues == {1, 2, 3, 4, 6, 8} \cup {Minus(3), Minus(5)}

(* Splits and merges, queries from and to the keys of routes, removes of   *)
(* what is not there; equal values, and -5, -5, -3, -3, whose median the   *)
(* code rounds up to -3.                                                   *)
TreePrograms ==
    { Two(<<Insert(1), Insert(4), Insert(4), Find(4)>>, <<Insert(2), Delete(4)>>),
      Two(<<Insert(Minus(5)), Insert(Minus(5)), Insert(Minus(3))>>,
          <<Insert(Minus(3)), Insert(Minus(3)), Find(Minus(3))>>),
      Two(<<Insert(3), Insert(3), Insert(3)>>, <<Insert(3), Insert(3), Find(3)>>),
      Two(<<Insert(6), Insert(6), Delete(6)>>, <<Insert(6), Insert(6), Query(6, 6)>>),
      Two(<<Delete(4), Delete(6), Query(2, 6)>>, <<Insert(2), Delete(8), Find(6)>>),
      Two(<<Delete(2), Delete(1), Delete(1)>>, <<Delete(6), Query(1, 8), Delete(8)>>) }
=============================================================================
