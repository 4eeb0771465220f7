SPECIFICATION Spec
CONSTANTS
    t1 = t1  t2 = t2  t3 = t3  w1 = w1  w2 = w2  NoTask = NoTask
    Tasks <- ThreeTasks
    Wakers <- TwoWakers
    MaxClones = 1
SYMMETRY Symm
CONSTRAINT FewTasksOrOneWaker
INVARIANTS TypeOK RefsAccounted EnqueuedOnce AbortsUnreachable NoLostWakeup
PROPERTY RefinesFutureSet
