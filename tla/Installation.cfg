SPECIFICATION Spec
CONSTANTS
    s1 = s1
    s2 = s2
    v1 = v1
    v2 = v2
    c1 = c1
    c2 = c2
    Session = {s1, s2}
    Nobody = Nobody
    Version = {v1, v2}
    Config = {c1, c2}
    Nothing = Nothing
    Broken = Broken
    MaxRuns = 2
    MaxFaults = 2
CHECK_DEADLOCK FALSE
INVARIANTS
    PassIsTrue
    OneDeployment
    FailedIsDown
SYMMETRY Sym
