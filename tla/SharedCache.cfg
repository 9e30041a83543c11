SPECIFICATION Spec
CONSTANTS
    final = final
    snap = snap
    Publisher = {p1}
    Version <- Versions
    Replaceable <- Snapshots
    MaxBuild = 1
    Command = {c1, c2}
    Overlap = TRUE
    MaxCommands = 2
    MaxContent = 1
PROPERTIES
    TreeUndisturbed
CHECK_DEADLOCK FALSE
