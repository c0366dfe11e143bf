SPECIFICATION MCSpec
CONSTANTS
    a1 = a1
    a2 = a2
    a3 = a3
    p1 = p1
    p2 = p2
    d1 = d1
    d2 = d2
    d3 = d3
    settings = settings
    channels = channels
    CloneItem = {"RoomSpecificSettings", "TVSettings"}
    RoomItem = "RoomSpecificSettings"
    Package <- Packages
    Url <- Urls
    Configured = TRUE
    Serial = "own"
    Service = {"PowerService"}
    App = {"TVChannels"}
    NoRoom = NoRoom
    Keep = 1
    MaxCloneBytes = 16
    MaxUncompressedBytes = 32
    MaxZipEntries = 2
    MaxItems = 2
    MaxCommands = 2
    MaxLost = 1
    Address = {a1, a2, a3}
    TV = {d1, d2}
    Permitted = {a1, a2, a3}
    Loopback = {}
    Isolated = FALSE
    Allowed <- AllowList
    Process = {p1, p2}
    Concurrency = 2
    MaxTargets = 3
    Nobody = Nobody
    MaxMoves = 2
    MaxUses = 2
    Item = {settings, channels}
    Wanted = {settings, channels}
    Device = {d1, d2, d3}
    Selected = {d1, d2}
    Nothing = Nothing
    MaxBytes = 3
    MaxLength = 2
    MaxUploads = 2
    MaxFaults = 2
CHECK_DEADLOCK FALSE
INVARIANTS
    CompletedIsWhole
    ReportIsFinal
    SentToVerified
    BudgetKept
    ClonesSettle
    ScanAccounts
    InventoryIsTrue
    CommandReachesAllowed
PROPERTIES
    ExportEnds
