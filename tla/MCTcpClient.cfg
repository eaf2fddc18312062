SPECIFICATION FairSpec
CONSTANTS
    kinit_retry_delay_ms = 1
    kmax_retry_delay_ms = 3
    MaxConns = 2
    MaxCalls = 3
INVARIANTS
    OneAttempt
    
PROPERTIES
    StopIsFinal
    ConnectorComesToRest
CHECK_DEADLOCK FALSE
