SPECIFICATION Spec
CONSTANTS
    p1 = p1
    p2 = p2
    Proc = {p1, p2}
    Nothing = Nothing
    MaxRuns = 2
    MaxUpdates = 1
    MaxFaults = 2
    MaxRows = 1
CHECK_DEADLOCK FALSE
INVARIANTS
    WritersStayDown
    SuccessIsTrue
    FailureRestores
PROPERTIES
    NeverOverwritten
SYMMETRY Sym
