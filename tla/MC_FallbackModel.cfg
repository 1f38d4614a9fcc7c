\* Two overlapping callers on a chain of three models.
SPECIFICATION FairChainSpec
CONSTANTS
    Callers = {c1, c2}
    N = 3
INVARIANTS
    WalksAreSound
PROPERTIES
    StickyAlone
    CallsEnd
