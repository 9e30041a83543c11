SPECIFICATION SagaSpec
CONSTANTS
    p1 = p1
    p2 = p2
    core = core
    app = app
    Proc = {p1, p2}
    NoProc = NoProc
    OpId = {o1}
    NoOp = NoOp
    Token = {t1, t2}
    NoToken = NoToken
    Mode = {"INSTALL", "UPGRADE", "REINSTALL"}
    LeaseSeconds = 2
    MaxClock = 1
    Packages <- OnePackage
    Grouped = FALSE
    Plans <- FirstInstall
    Installed = 0
    Overlap = TRUE
    SlowAt = {}
    Leftover = {}
    Commands = TRUE
    FaultAt <- Place
    Spare = 0
    MaxFaults = 0
SYMMETRY Symmetry
PROPERTIES
    CompletedDatabaseNotReplayed
CHECK_DEADLOCK FALSE
