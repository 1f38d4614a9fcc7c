\* Three requests of either kind for two goals, a cache of one item or two entries.
SPECIFICATION Spec
CONSTANTS
    Requests = {r1, r2, r3}
    Goals = {g, h}
    Specs = {s1}
    Fallback = fallback
    None = None
    Settings <- MCSettings
    MaxSize = 1
    MaxEntries = 2
    Patience = 1
SYMMETRY Symmetry
CHECK_DEADLOCK FALSE
INVARIANTS
    Consistent
    UnprovenIsTried
    CacheHitExplained
