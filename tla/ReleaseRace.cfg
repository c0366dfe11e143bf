SPECIFICATION Spec
CONSTANTS
    p1 = p1
    p2 = p2
    r1 = r1
    r2 = r2
    r3 = r3
    Proc = {p1, p2}
    Release = {r1, r2}
    Nothing = Nothing
    MaxOps = 2
    MaxFaults = 0
CHECK_DEADLOCK FALSE
PROPERTIES
    ActiveStays
