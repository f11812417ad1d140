\* Ranking and resolution over up to three domains.
SPECIFICATION Spec
CONSTANTS
    d1 = d1
    d2 = d2
    d3 = d3
    noDomain = noDomain
    s1 = s1
    s2 = s2
    noState = noState
    a = a
    Domain <- MCDomain
    NoDomain = noDomain
    State <- MCState
    NoState = noState
    Slot <- MCSlot
    DomainConfigs <- MCDomainConfigs
    QuSlotLists <- MCQuSlotLists
SYMMETRY MCSymmetry
INVARIANTS
    TypeOK
    RankedByScore
    RankedAreTheFound
    SessionGoesFirst
CHECK_DEADLOCK FALSE
