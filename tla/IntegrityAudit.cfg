SPECIFICATION Spec
CONSTANTS
    t1 = t1
    t2 = t2
    alice = alice
    bob = bob
    None = None
    ThreadId <- MCThreads
    Author <- MCAuthors
    OperatorStatuses = {}
    Requests <- Traffics
    Stamped = {3, 4}
    Planted <- BadMessages
    WrongKeys = {2}
    BareStatuses = {"active", "resolved"}
    MaxMessages = 4
    MaxEdits = 2
CHECK_DEADLOCK FALSE
INVARIANTS
    AuditBlamesOnlyTheRace
    OldClosesSorted
    ThreadCleared
