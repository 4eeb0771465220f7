--------------------------- MODULE MC_AllTasksList ---------------------------
EXTENDS AllTasksList

CONSTANTS t1, t2, t3, p1, p2, p3

MCTasks == {t1, t2, t3}
MCThreads == {p1, p2, p3}
=============================================================================
