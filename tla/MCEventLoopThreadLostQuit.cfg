SPECIFICATION FairThreadSpec
CONSTANTS
    Threads = {o}
    Owner = o
    Functors = {f1}
PROPERTIES
    DestructorReturns
CHECK_DEADLOCK FALSE
