\* A copy of the pointer during a reset of it.
SPECIFICATION Spec
CONSTANTS
    r1 = r1
    r2 = r2
    Request <- MCRequest
    MaxLoads = 3
SYMMETRY MCSymmetry
INVARIANT
    RunIsThreadSafe
CHECK_DEADLOCK FALSE
