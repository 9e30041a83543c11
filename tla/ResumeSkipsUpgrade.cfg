SPECIFICATION SagaSpec
CONSTANTS
    p1 = p1
    p2 = p2
    core = core
    app = app
    Proc = {p1}
    NoProc = NoProc
    OpId = {o1}
    NoOp = NoOp
    Token = {t1, t2}
    NoToken = NoToken
    Mode = {"INSTALL", "UPGRADE", "REINSTALL"}
    LeaseSeconds = 1
    MaxClock = 1
    Packages <- OnePackage
    Grouped = FALSE
    Plans <- Upgrades
    Installed = 1
    Overlap = FALSE
    SlowAt = {}
    Leftover = {}
    Commands = FALSE
    FaultAt <- Place
    Spare = 0
    MaxFaults = 1
SYMMETRY Symmetry
INVARIANTS
    CompletionIsTrue
CHECK_DEADLOCK FALSE
