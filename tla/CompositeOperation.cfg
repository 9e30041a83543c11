SPECIFICATION SagaSpec
CONSTANTS
    p1 = p1
    p2 = p2
    core = core
    app = app
    Proc = {p1, p2}
    NoProc = NoProc
    OpId = {o1, o2}
    NoOp = NoOp
    Token = {t1, t2, t3}
    NoToken = NoToken
    Mode = {"INSTALL", "UPGRADE", "REINSTALL"}
    LeaseSeconds = 1
    MaxClock = 2
    Packages <- TwoPackages
    Grouped = TRUE
    Plans <- InstallOrReinstall
    Installed = 0
    Overlap = FALSE
    SlowAt = {}
    Leftover = {3}
    Commands = TRUE
    FaultAt <- Place
    Spare = 0
    MaxFaults = 2
SYMMETRY Symmetry
INVARIANTS
    SagaTypeOK
    OneDeployer
    CompletionIsTrue
    ValidatedIsConsistent
PROPERTIES
    LeaseProtocol
    RuntimeFollowsDatabase
    CompletedDatabaseNotReplayed
CHECK_DEADLOCK FALSE
