SPECIFICATION FairSpec
CONSTANTS
    m = m o = o w1 = w1 w2 = w2 c = c a1 = a1 b1 = b1
    Workers = {w1, w2}
    Main = m
    Other = o
    Collector = c
    Tasks <- MCTasks
    QueueSizes = {0, 1}
    Capacity = 1
    MaxSpurious = 1
INVARIANTS
    TasksAccounted
    LatchCoversResults
PROPERTIES
    PoolProgresses
CHECK_DEADLOCK FALSE
