SPECIFICATION FairSpec
CONSTANTS
    Threads = {t1}
    Addrs = {1, 2}
    MaxTime = 3
    MaxTimers = 2
    MaxPending = 1
    Intervals = {0, 1}
INVARIANTS
    SetsAgree
    TimerfdCoversEarliest
    CancelIsFinal
PROPERTIES
    DueTimersRun
