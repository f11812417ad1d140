\* The two scans of find_best_policy against the one-step choice.
SPECIFICATION ScanSpec
CONSTANTS
    a = a
    b = b
    s1 = s1
    s2 = s2
    none = none
    State <- MCState
    NoState = none
    Slot <- MCSlot
    CandidateVectors <- MCVectors
    QuKeyLists <- MCQuKeyLists
INVARIANTS
    ScanTypeOK
    ScanInv
    SlotsMatchOneToOne
PROPERTIES
    ImplementsChoice
CHECK_DEADLOCK FALSE
