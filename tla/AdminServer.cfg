SPECIFICATION Spec
CONSTANTS
    Client = {c1, c2}
    Slots = 2
    Window = 2
    Life = 3
    MaxAttempts = 1
    MaxSessions = 1
    Release <- Listed
    Current <- Running
    Channel = "stable"
    Nothing = Nothing
    MaxTime = 4
    MaxFaults = 1
CHECK_DEADLOCK FALSE
INVARIANTS
    SlotsConserved
    LoginsLimited
    QueuedIsEligible
PROPERTIES
    CheckEnds
