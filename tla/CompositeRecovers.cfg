SPECIFICATION FairSagaSpec
CONSTANTS
    p1 = p1
    p2 = p2
    core = core
    app = app
    Proc = {p1}
    NoProc = NoProc
    OpId = {o1, o2}
    NoOp = NoOp
    Token = {t1, t2, t3, t4, t5, t6, t7, t8, t9}
    NoToken = NoToken
    Mode = {"INSTALL", "UPGRADE", "REINSTALL"}
    LeaseSeconds = 1
    MaxClock = 3
    Packages <- OnePackage
    Grouped = FALSE
    Plans <- FirstInstall
    Installed = 0
    Overlap = TRUE
    SlowAt = {"running"}
    Leftover = {}
    Commands = TRUE
    FaultAt <- BeforeActive
    Spare = 9
    MaxFaults = 3
PROPERTIES
    Recovers
CHECK_DEADLOCK FALSE
