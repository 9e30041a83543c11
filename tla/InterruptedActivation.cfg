SPECIFICATION Spec
CONSTANTS
    p1 = p1
    p2 = p2
    Proc = {p1}
    None = None
    Graphs <- OneGraph
    Modes = {"install", "upgrade", "reinstall"}
    Orderly = TRUE
    Rebuilt = FALSE
    ErrorAt = {}
    InterruptAt = {"swap"}
    KillAt = {}
    MaxCommands = 2
    MaxFaults = 1
INVARIANTS
    JournalIsRecoverable
CHECK_DEADLOCK FALSE
