SPECIFICATION FairThreadSpec
CONSTANTS
    Threads = {o, t1}
    Owner = o
    Functors = {f1, f2, f3}
INVARIANTS
    LoopLifetime
    NoLostWakeup
    NoLostQuit
PROPERTIES
    RoundIsBounded
    ImplementsExecutor
    FunctorsRun
    HandshakesComplete
CHECK_DEADLOCK FALSE
