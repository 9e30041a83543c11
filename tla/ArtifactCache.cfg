SPECIFICATION Spec
CONSTANTS
    final = final
    snap = snap
    Publisher = {p1, p2}
    Version <- Versions
    Replaceable <- Snapshots
    MaxBuild = 2
    Command = {c1, c2}
    Overlap = FALSE
    MaxCommands = 3
    MaxContent = 2
CONSTRAINT Parts
SYMMETRY Processes
INVARIANTS
    TypeOK
    ListedIsWhole
    IndexIsServed
    DeployedAsPinned
    ProvenanceIsTrue
    CacheHonest
PROPERTIES
    CachedLockNeedsNoRepository
CHECK_DEADLOCK FALSE
