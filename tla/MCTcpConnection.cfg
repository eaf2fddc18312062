SPECIFICATION FairSpec
CONSTANTS
    Threads = {t1}
    LocalOps = {"Send", "Shutdown", "ForceClose", "ForceCloseWithDelay", "StartRead", "StopRead"}
    RemoteOps = {"Send", "Shutdown", "ForceClose", "ForceCloseWithDelay", "StartRead", "StopRead"}
    ServerMayDie = TRUE
    MaxMessages = 2
    MaxPending = 2
    MaxCloses = 1
    Sizes = {2}
    high_water_mark_ = 3
INVARIANTS
    StreamInOrder
    OutputFlushed
    UpThenDownOnce
PROPERTIES
    ShutdownCompletes
    CloseCompletes
CHECK_DEADLOCK FALSE
