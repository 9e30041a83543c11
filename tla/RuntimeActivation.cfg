SPECIFICATION Spec
CONSTANTS
    p1 = p1
    p2 = p2
    Proc = {p1}
    None = None
    Graphs <- ThreeGraphs
    Modes = {"install", "upgrade", "reinstall"}
    Orderly = TRUE
    Rebuilt = FALSE
    ErrorAt <- Undone
    InterruptAt <- Journaled
    KillAt = {"script"}
    MaxCommands = 4
    MaxFaults = 1
INVARIANTS
    TypeOK
    ActiveIntact
    OldGraphStaysUsable
    RollbackTargetIntact
PROPERTIES
    AllOrNothing
    GenerationsGrow
CHECK_DEADLOCK FALSE
