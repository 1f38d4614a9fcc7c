\* Two examples, two generations with one debug retry; two GEPA runs on one bus.
SPECIFICATION FairSpec
CONSTANTS
    Weights <- MCWeights
    Scale = 2
    Malformed = Malformed
    None = None
    Examples = {e1, e2}
    Outcomes <- MCOutcomes
    Strategies <- MCStrategies
    ArchiveSize = 1
    Generations = 2
    ReflexionPasses = 1
    DebugMax = 1
    MinibatchSize = 1
    Genome <- MCGenome
    Candidates <- MCCandidates
    Trials = 2
    MaxMetricCalls = 2
    MaxRuns = 2
CHECK_DEADLOCK FALSE
INVARIANTS
    Consistent
    WinnerOnFront
    ParentWasShown
    BrokenDesignsAreSkipped
PROPERTIES
    HistoryArrives
