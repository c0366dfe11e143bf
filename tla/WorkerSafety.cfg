SPECIFICATION Spec
CONSTANTS
    c1 = c1
    svc = svc
    tomcat = tomcat
    php = php
    Cli = {c1}
    Svc = svc
    Services = {tomcat, php}
    MaxVersion = 3
    Nothing = Nothing
    Malformed = Malformed
    Broken = Broken
    StartLimit = 1
    MaxConfirm = 2
    MaxFaults = 2
    Crashes = TRUE
    WriteFails = TRUE
CHECK_DEADLOCK FALSE
INVARIANTS
    CompleteIsTrue
    ConfirmationsSpentOnce
PROPERTIES
    PackageChangeIsBackedUp
    RecoveryIsTrue
    TerminalLeavesQueue
    OutcomeSpec
SYMMETRY Sym
