\* Two concurrent goals over two subtask names; one re-decomposition each.
SPECIFICATION FairSolveSpec
CONSTANTS
    Tasks = {t1, t2}
    Names = {a, b}
    Decompositions <- Short
    MaxSubtasks = 1
    MaxRedecompositions = 1
    MaxSpawns = 3
INVARIANTS
    WorkIsBounded
PROPERTIES
    ImplementsGoals
    SolveEnds
