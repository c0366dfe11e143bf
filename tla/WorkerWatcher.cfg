SPECIFICATION Spec
CONSTANTS
    c1 = c1
    svc = svc
    tomcat = tomcat
    php = php
    Cli = {c1}
    Svc = svc
    Services = {tomcat, php}
    MaxVersion = 2
    Nothing = Nothing
    Malformed = Malformed
    Broken = Broken
    StartLimit = 2
    MaxConfirm = 2
    MaxFaults = 0
    Crashes = TRUE
    WriteFails = FALSE
CHECK_DEADLOCK FALSE
INVARIANTS
    QueueIsWatched
