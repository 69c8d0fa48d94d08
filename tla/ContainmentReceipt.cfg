SPECIFICATION Spec
CONSTANTS
    Auths = {w1}
    Workers = {w1}
    Requests = {w1}
    RequestOf <- DistinctRequests
    Replayers = {p}
    Watchdogs = {d}
    Completers = {c}
    Reporters = {r}
    Threads = {w1, p, c, r, d}
    Free = Free
    Inputs = {"allow", "kill", "malformed", "oversize", "misframed"}
    MaxPayload = 1
    MaxAdmitted = 1
    MaxPerWindow = 1
    WindowLength = 5
    MaxInflight = 1
    MaxEgress = 2
    MaxEvents = 5
    Deadline = 0
    Ttl = 2
    MaxResponse = 1
    Responses = {1}
    MaxClock = 1
    MaxFaults = 0
    Cancelling = FALSE
    MaxWallSteps = 0
INVARIANTS
    DispatchIsAuthorized
    WitnessedRootStands
    QuietRunAudits
PROPERTIES
    ReceiptIsFrozen
