SPECIFICATION Spec
CONSTANTS
    t1 = t1
    t2 = t2
    t3 = t3
    alice = alice
    bob = bob
    None = None
    ThreadId <- MCThreads
    Author <- MCAuthors
    OperatorStatuses = {}
    Requests <- MCRequests
    Filters <- MCFilters
    Limit = 2
    MaxMessages = 6
CHECK_DEADLOCK FALSE
INVARIANTS
    WalkMissesNoQuietThread
    PageHangsTogether
    TotalIsReached
    SummaryHasProposes
