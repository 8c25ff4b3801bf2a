SPECIFICATION Spec
CONSTANTS
    t1 = t1
    t2 = t2
    alice = alice
    bob = bob
    c1 = c1
    c2 = c2
    c3 = c3
    c4 = c4
    c5 = c5
    None = None
    Base = 2
    MinPad = 1
    ThreadId <- MCThreads
    Author <- MCAuthors
    Client = {c1, c2, c3, c4, c5}
    Requests <- LinkRequests
    OperatorStatuses = {}
SYMMETRY Symmetry
INVARIANTS
    NumberingDense
    ActivityKeyExact
    CreatedOncePerRequest
    ProposeOnceFirst
    LinksResolve
PROPERTIES
    IdSpec
