------------------------- MODULE MC_FuturesUnordered -------------------------
(* Two waker threads for the races between wake-ups, and three tasks for the *)
(* second yield of poll_next, which fewer cannot reach; the two at a time.   *)
EXTENDS FuturesUnordered, TLC

CONSTANTS t1, t2, t3, w1, w2

TwoTasks == {t1, t2}
ThreeTasks == {t1, t2, t3}
OneWaker == {w1}
TwoWakers == {w1, w2}
Symm == Permutations(ThreeTasks) \cup Permutations(TwoWakers)

\* Bound: at most two tasks, or one waker at work and the set in use.
FewTasksOrOneWaker ==
    \/ \E t \in Tasks : future[t] = "absent"
    \/ /\ \E w \in Wakers : wpc[w] = "idle"
       /\ opc \notin {"iter", "drop", "dropRelease", "clearFuture", "clearFutureArc", "drain", "gone"}
=============================================================================
