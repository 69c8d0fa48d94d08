SPECIFICATION Spec
CONSTANTS
    Reqs = {r1, r2}
    AuthIds = {a1, a2}
    Expiry = 0
    MaxNs = 1
    MaxTrail = 6
CHECK_DEADLOCK FALSE
INVARIANTS
    AcceptsWellFormed
    CountsTheFile
