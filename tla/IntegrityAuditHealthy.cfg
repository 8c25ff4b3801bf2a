SPECIFICATION Spec
CONSTANTS
    t1 = t1
    t2 = t2
    alice = alice
    bob = bob
    None = None
    ThreadId <- MCThreads
    Author <- MCAuthors
    OperatorStatuses = {}
    Requests <- Traffics
    Stamped = {3, 4, 5}
    Planted = {}
    WrongKeys = {}
    BareStatuses = {}
    MaxMessages = 4
    MaxEdits = 0
CHECK_DEADLOCK FALSE
INVARIANTS
    HealthyProjectHasNoIssues
