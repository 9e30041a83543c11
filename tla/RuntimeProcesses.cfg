SPECIFICATION Spec
CONSTANTS
    p1 = p1
    p2 = p2
    Proc = {p1, p2}
    None = None
    Graphs <- TwoGraphs
    Modes = {"upgrade"}
    Orderly = FALSE
    Rebuilt = FALSE
    ErrorAt = {"removePackages"}
    InterruptAt = {"swap"}
    KillAt = {}
    MaxCommands = 4
    MaxFaults = 1
SYMMETRY Symmetry
INVARIANTS
    OldGraphStaysUsable
PROPERTIES
    ExclusiveMutation
CHECK_DEADLOCK FALSE
