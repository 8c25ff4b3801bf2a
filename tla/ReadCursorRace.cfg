SPECIFICATION Spec
CONSTANTS
    t1 = t1
    t2 = t2
    alice = alice
    bob = bob
    m1 = m1
    m2 = m2
    m3 = m3
    None = None
    ThreadId <- MCThreads
    Author <- MCAuthors
    Marker <- MCMarkers
    Positions <- MCPositions
    Requests <- MCRequests
    OperatorStatuses = {}
    WhoOf <- MCWhoOf
    Casts = {{m1, m3}}
    MaxMessages = 3
    MaxMarks = 2
PROPERTIES
    CursorMonotonic
