SPECIFICATION FairSpec
CONSTANTS
    Threads = {t1, t2}
    BufferSize = 2
    KeptBuffers = 25
    MaxLines = 3
    Null = Null
    RollSize = 2
    FlushInterval = 0
    CheckEveryN = 2
    RollSeconds = 3
    StdioSize = 1
    Times = {1, 2, 3}
INVARIANTS
    LinesKept
    FilesRoll
PROPERTIES
    LinesReachFile
CHECK_DEADLOCK FALSE
