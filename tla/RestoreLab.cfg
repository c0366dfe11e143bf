SPECIFICATION MCSpec
CONSTANTS
    p1 = p1
    p2 = p2
    b1 = b1
    b2 = b2
    Preparer = {p1, p2}
    Backup = {b1, b2}
    Databases <- Sorted
    Order <- LabOrder
    Dump <- Texts
    Definers <- DefinerCount
    WithHistory = {"smartinstall"}
    Nothing = Nothing
    Approved = b1
    Version = {"2.4", "9.9"}
    Known = {"2.4"}
    MaxPrepares = 2
    MaxCommands = 5
    MaxFaults = 2
CHECK_DEADLOCK FALSE
INVARIANTS
    StagedIsSound
    ManifestVouches
    QualifiedIsWhole
    SnapshotIsOriginal
    MigrationIsTrue
PROPERTIES
    FinishedStays
SYMMETRY Sym
