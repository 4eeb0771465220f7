------------------------- MODULE MC_ReadyToRunQueue -------------------------
(* Three tasks, three enqueuers: two can be stopped between swap and link    *)
(* while the third completes and the owner puts the stub back.               *)
EXTENDS ReadyToRunQueue

CONSTANTS t1, t2, t3, e1, e2, e3

MCTasks == {t1, t2, t3}
MCEnqueuers == {e1, e2, e3}
=============================================================================
