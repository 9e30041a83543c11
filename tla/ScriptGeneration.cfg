SPECIFICATION Spec
CONSTANTS
    MaxTable = 3
    MaxForm = 2
    MaxEdits = 2
    MaxReleases = 3
    ForeignKeys <- Keys
    FirstTrees <- Beginnings
CONSTRAINT Commits
INVARIANTS
    OrderIsRight
    InstallDelivers
    UpgradeMatchesInstall
CHECK_DEADLOCK FALSE
