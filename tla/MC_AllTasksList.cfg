SPECIFICATION FairSpec
CONSTANTS
    t1 = t1  t2 = t2  t3 = t3  p1 = p1  p2 = p2  p3 = p3
    Null = Null  Pending = Pending
    Tasks <- MCTasks
    Threads <- MCThreads
PROPERTIES SpinsEnd
INVARIANTS TypeOK ListIntact IteratorsExact
