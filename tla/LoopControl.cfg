SPECIFICATION Spec
CONSTANTS
    op1 = op1
    op2 = op2
    loop1 = loop1
    None = None
    Operator = {op1, op2}
    Loop = {loop1}
    Time <- MCTimes
    Id <- MCIds
    Asked <- MCAsked
    MaxRequests = 2
CHECK_DEADLOCK FALSE
SYMMETRY Symmetry
INVARIANTS
    DesiredIsLoggedLast
    AnswersOwnRequest
    HistoryInOrder
PROPERTIES
    BoardSpec
