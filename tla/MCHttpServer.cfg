SPECIFICATION Spec
CONSTANTS
    Requests <- MCRequests
    MaxRequests = 2
    Callbacks <- MCCallbacks
INVARIANTS
    AnswersExact
CHECK_DEADLOCK FALSE
