CONSTANTS
    a1 = a1
    a2 = a2
    Auths = {a1, a2}
    MaxPayload = 1
    MaxAdmitted = 3
    MaxPerWindow = 2
    WindowLength = 2
    MaxInflight = 2
    MaxEgress = 3
    Sizes = {1, 2}
    Times = {0, 1, 2}
    Reserves = {0, 1, 2}
    Responses = {0, 1, 3}
    MaxObserved = 4
SPECIFICATION Spec
CHECK_DEADLOCK FALSE
INVARIANTS
    LeaseAccounting
    EgressWithinBudget
    CountersCoherent
    LatchedOnce
PROPERTIES
    KilledIsFinal
    ImplementsKillSwitch
