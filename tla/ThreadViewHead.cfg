SPECIFICATION Spec
CONSTANTS
    t1 = t1
    t2 = t2
    alice = alice
    bob = bob
    r1 = r1
    p1 = p1
    p2 = p2
    None = None
    ThreadId <- MCThreads
    Author <- MCAuthors
    OperatorStatuses = {}
    Requests <- MCRequests
    Reader = {r1}
    Producer = {p1}
    Casts = {{r1, p1}}
    Style = {"brief"}
    Wanted = {None}
    Points = {1, 2, 3}
    MaxMessages = 3
CHECK_DEADLOCK FALSE
SYMMETRY Symmetry
INVARIANTS
    HeadIsWhatBehindMeasures
