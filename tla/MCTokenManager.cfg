\* Expiry and staleness of cached tokens.
SPECIFICATION Spec
CONSTANTS
    b1 = b1
    r1 = r1
    r2 = r2
    Bot <- MCBot
    Request <- MCRequest
    Lifetimes <- MCLifetimes
    Margin = 2
    MaxLatency = 1
    MaxLookup = 1
    MaxTime = 5
    MaxVersion = 1
SYMMETRY MCSymmetry
INVARIANTS
    TypeOK
    HitIsAlive
    TimeInv
    StaleOnlyByLateStore
