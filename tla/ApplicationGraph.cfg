SPECIFICATION Spec
CONSTANTS
    base = base
    lib = lib
    app = app
    tool = tool
    App = {base, lib, app, tool}
    Catalog <- Packages
    Supplies <- WithSources
    Locked = FALSE
    Capabilities <- All
INVARIANT
    TypeOK
PROPERTIES
    DependenciesKept
    DeployedOnDependencies
    NeverDowngraded
    KnownOnlyUpgraded
    ThroughMinors
    PlanDelivers
