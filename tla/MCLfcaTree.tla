----------------------------- MODULE MCLfcaTree -----------------------------
(***************************************************************************)
(* Small instances of LfcaTree: the programs that the threads run, and the *)
(* trees they start from.                                                  *)
(***************************************************************************)
EXTENDS LfcaHistory

CONSTANTS
    t1, t2, t3,
    Trees       \* the trees that GrownSpec starts from; their root is node 1

Insert(k) == [op |-> "insert", key |-> k, hi |-> k]
Delete(k) == [op |-> "remove", key |-> k, hi |-> k]
Find(k) == [op |-> "lookup", key |-> k, hi |-> k]
Query(lo, hi) == [op |-> "rangeQuery", key |-> lo, hi |-> hi]

Two(p1, p2) == (t1 :> p1) @@ (t2 :> p2)
Three(p1, p2, p3) == (t1 :> p1) @@ (t2 :> p2) @@ (t3 :> p3)

(* A LOW_CONT that no base node of these programs gets below.              *)
Never == -100

-----------------------------------------------------------------------------
(* Trees with three base nodes, as earlier calls may have left them.  In   *)
(* the last one a base with three 4s was split twice, each time at 4.      *)
Route(key, left, right) ==
    [NewNode EXCEPT !.type = "route", !.key = key, !.left = left, !.right = right]

RightTree == << Route(4, 2, 3), Base(1, <<2>>, 0),
                Route(8, 4, 5), Base(3, <<6>>, 0), Base(3, <<10>>, 0) >>
LeftTree == << Route(8, 3, 2), Base(1, <<10>>, 0),
               Route(4, 4, 5), Base(3, <<2>>, 0), Base(3, <<6>>, 0) >>
EqualTree == << Route(4, 2, 5), Route(4, 3, 4), Base(2, <<2, 2, 4>>, 0),
                Base(2, <<>>, 0), Base(1, <<6, 10>>, 0) >>

(* What the constructor makes.                                             *)
EmptyTree == << Base(0, <<>>, 0) >>

RightTrees == {RightTree}
SoloTrees == {RightTree, LeftTree}
FillTrees == {EmptyTree, RightTree, LeftTree}
GrownTrees == {RightTree, LeftTree, EqualTree}

GrownInit == heap \in Trees /\ root = 1 /\ InitThreads /\ HistoryInit
GrownSpec == GrownInit /\ [][HNext]_hvars /\ Fairness

(* Every update without a conflict goes on to join its base (LOW_CONT 0).  *)
Updates == Two(<<Insert(2), Find(6)>>, <<Delete(6), Insert(10)>>)
JoinPrograms ==
    { Updates,
      Two(<<Query(1, 11)>>, <<Delete(6)>>),
      Two(<<Query(1, 11)>>, <<Insert(6)>>),
      Two(<<Query(3, 6)>>, <<Insert(2), Insert(10)>>) }
(* With TREAP_NODES 4 it depends on the order of the updates which of      *)
(* these bases still fit together.                                         *)
ThreeJoins == { Three(<<Insert(2)>>, <<Delete(6)>>, <<Insert(10)>>) }

(* Trees are filled until their treaps are full or contended.  Queries run *)
(* with no updates but their own thread's, from low bounds that are not    *)
(* keys of routes.                                                         *)
FillPrograms ==
    { Two(<<Insert(1), Insert(4), Find(3)>>, <<Insert(3), Delete(4)>>),
      Two(<<Insert(1), Insert(3), Delete(4)>>, <<Insert(4), Find(3)>>) }
    \cup
    { Two(<<Insert(k), Query(lo, hi)>>, <<>>) :
        <<k, lo, hi>> \in {2, 4, 6, 8, 10} \X {1, 2, 3, 5, 6, 7, 9, 10} \X {2, 4, 6, 8, 10} }

-----------------------------------------------------------------------------
(* Programs and trees for what the code does not do.                       *)

(* A query from the key of a route, alone (TREAP_NODES 2).                 *)
RouteKeyPrograms == { (t1 :> <<Insert(1), Insert(2), Insert(3), Query(1, 3)>>) }

(* A query of a tree that another thread changes.                          *)
OvertakenPrograms == { Two(<<Query(1, 11)>>, <<Insert(2)>>) }

(* A base that gets full (TREAP_NODES 2) next to an empty one.             *)
FullTrees == { << Route(4, 2, 3), Base(1, <<1>>, 0), Base(1, <<>>, 0) >> }
LostPrograms == { Two(<<Insert(2)>>, <<Insert(3)>>) }
StuckPrograms == { Two(<<Insert(2)>>, <<Insert(6)>>) }

(* Two bases at the key of their route, both odd and negative numbers: the *)
(* median of <<-3, -3>> is -2.                                             *)
OddTrees == { << Route(-3, 2, 3), Base(1, <<>>, 0), Base(1, <<-2>>, 0) >> }
OddValues == {-3, -2}
RoundedPrograms == { Two(<<Insert(-3), Insert(-2)>>, <<Insert(-3)>>) }

(* When all calls have returned, every inserted value is in the tree.      *)
InsertedIsFound ==
    (\A t \in Threads : call[t] = NoCall /\ todo[t] = <<>>) =>
        \A c \in CallsMade : c.op = "insert" => Items[c.key] > 0
=============================================================================
