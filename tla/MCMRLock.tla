------------------------------ MODULE MCMRLock ------------------------------
(***************************************************************************)
(* Small instances of MRLock, against what such a lock promises.           *)
(***************************************************************************)
EXTENDS MRLockSafety, TLC

CONSTANTS t1, t2, t3, r1, r2

-----------------------------------------------------------------------------
Two(p1, p2) == (t1 :> p1) @@ (t2 :> p2)
Three(p1, p2, p3) == (t1 :> p1) @@ (t2 :> p2) @@ (t3 :> p3)

(* Three threads with a cell for each request; and two threads with more   *)
(* requests than cells, so that the queue gets full and cells are used     *)
(* again, but no second request of a thread that was late in Unlock.       *)
LockPrograms ==
    { Three(<<{r1}>>, <<{r1, r2}>>, <<{r2}>>),
      Three(<<{r1}>>, <<{r2}, {r1, r2}, {r1}, {r2}, {r1}>>, <<>>) }

(* A cell is used again while two threads dequeue.                         *)
LiveCellPrograms == { Two(<<{r1}, {r1}>>, <<{r1}, {r1}, {r1}, {r1}>>) }
=============================================================================
