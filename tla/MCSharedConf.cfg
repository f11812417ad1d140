\* Reference counting with and without overlapping resets.
SPECIFICATION Spec
CONSTANTS
    r1 = r1
    r2 = r2
    Request <- MCRequest
    MaxLoads = 3
SYMMETRY MCSymmetry
INVARIANTS
    TypeOK
    FreedWithLastReference
    CopyOutlivesReload
CHECK_DEADLOCK FALSE
