SPECIFICATION Spec
CONSTANTS
    php = php
    tomcat = tomcat
    a1 = a1
    a2 = a2
    cmnd = cmnd
    cms = cms
    Unit = {php, tomcat}
    Admin = {a1, a2}
    Nobody = Nobody
    Uid = {cmnd, cms}
    Site = {here}
    Vendor = {license}
    here = here
    license = license
    MaxOps = 4
    MaxFaults = 2
CHECK_DEADLOCK FALSE
INVARIANTS
    FailClosed
    FileIsSiteAndAnswer
    RulesMatchFile
SYMMETRY Sym
