SPECIFICATION FairSpec
CONSTANTS
    Clients = {c1, c2}
    MaxThreads = 2
    MaxFds = 2
INVARIANTS
    LoopsAreBalanced
    NoneForgotten
    SpareDescriptorKept
    CleanWithoutConnections
PROPERTIES
    ServerProgresses
CHECK_DEADLOCK FALSE
