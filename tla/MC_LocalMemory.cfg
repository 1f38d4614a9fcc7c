\* Two tasks over one or two connections, two entries, restarts.
SPECIFICATION Spec
CONSTANTS
    Tasks = {t1, t2}
    Ids = {i, j}
    Topics = {x}
    Conns = {c1, c2}
    MaxRel = 1
    MaxRowid = 2
    MaxCalls = 4
    MaxFaults = 1
CHECK_DEADLOCK FALSE
SYMMETRY Symmetry
INVARIANTS
    Consistent
    StoredIsDurable
