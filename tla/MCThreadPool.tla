---------------------------- MODULE MCThreadPool ----------------------------
(* Small instances of ThreadPool for TLC.                                    *)
EXTENDS ThreadPool, TLC

CONSTANTS c1, c2, t1, t2, t3, t4

(* t1 and t2 form a batch, the body of t1 submits t3, t4 is submitted by    *)
(* itself: t3 goes to a deque, the others to the global queue.              *)
AllTasks == {t1, t2, t3, t4}
AllPriority == (t1 :> Normal @@ t2 :> Normal @@ t3 :> Normal @@ t4 :> High)
AllSpawns == (t1 :> {t3} @@ t2 :> {} @@ t3 :> {} @@ t4 :> {})
OneBatch == {<<t1, t2>>}

(* The body of t1 submits t2. *)
PairTasks == {t1, t2}
PairPriority == (t1 :> High @@ t2 :> Normal)
PairSpawns == (t1 :> {t2} @@ t2 :> {})
=============================================================================
