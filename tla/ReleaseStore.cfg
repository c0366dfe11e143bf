SPECIFICATION Spec
CONSTANTS
    p1 = p1
    p2 = p2
    r1 = r1
    r2 = r2
    r3 = r3
    Proc = {p1, p2}
    Release = {r1, r2, r3}
    Nothing = Nothing
    MaxOps = 4
    MaxFaults = 2
CHECK_DEADLOCK FALSE
INVARIANTS
    ActiveIsMarked
    NamesAgree
SYMMETRY Sym
