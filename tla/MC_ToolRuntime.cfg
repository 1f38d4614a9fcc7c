\* Restarts and deletions, two implementations, up to three versions of a name.
SPECIFICATION Spec
CONSTANTS
    Names = {n1}
    Impls = {a, b}
    Calls = {c1, c2}
    Threshold = 2
    Policy = "threshold"
    MaxVersion = 3
    MaxInvocations = 1
SYMMETRY Symmetry
INVARIANTS
    Consistent
PROPERTIES
    AutoPromotionIsSound
