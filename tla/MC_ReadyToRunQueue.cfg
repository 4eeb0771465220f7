SPECIFICATION FairSpec
CONSTANTS
    t1 = t1  t2 = t2  t3 = t3
    e1 = e1  e2 = e2  e3 = e3
    Owner = Owner  Stub = Stub  Null = Null  NoTask = NoTask
    Tasks <- MCTasks
    Enqueuers <- MCEnqueuers
PROPERTIES RefinesTaskFifo EveryTaskComesOut
INVARIANTS ChainIntact OneEnqueuer QueueInv
