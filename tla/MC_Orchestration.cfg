\* Seven topologies against three registries; every step answers, raises or is cancelled.
SPECIFICATION RunFairSpec
CONSTANTS
    Shapes <- MCShapes
    Registries <- MCRegistries
    Values = {x, y}
    Scores = {0, 1}
    None = None
CHECK_DEADLOCK FALSE
INVARIANTS
    RunsWhatWasChecked
    NoStrayBranches
    KeepsBest
PROPERTIES
    RunEnds
