SPECIFICATION Spec
CONSTANTS
    t1 = t1
    alice = alice
    bob = bob
    None = None
    ThreadId <- MCThreads
    Author <- MCAuthors
    OperatorStatuses = {}
    Requests <- MCRequests
    Here = t1
    Forms <- MCForms
    MaxTexts = 2
    MaxLosses = 1
    MaxMessages = 3
CHECK_DEADLOCK FALSE
INVARIANTS
    PostedOncePerTry
    PostedIsListed
    PostedAsFilledIn
PROPERTIES
    ListGrows
    PostedGetsListed
