SPECIFICATION Spec
CONSTANTS
    Auths = {w1, w2}
    Workers = {w1, w2}
    Requests = {w1, w2}
    RequestOf <- DistinctRequests
    Replayers = {}
    Watchdogs = {}
    Completers = {}
    Reporters = {}
    Threads = {w1, w2}
    Free = Free
    Inputs = {"allow", "kill", "malformed", "oversize", "misframed"}
    MaxPayload = 1
    MaxAdmitted = 2
    MaxPerWindow = 2
    WindowLength = 5
    MaxInflight = 2
    MaxEgress = 1
    MaxEvents = 12
    Deadline = 1
    Ttl = 2
    MaxResponse = 1
    Responses = {1}
    MaxClock = 1
    MaxFaults = 1
    Cancelling = TRUE
    MaxWallSteps = 0
SYMMETRY WorkerSymmetry
INVARIANTS
    NoDispatchAfterLatchedTrigger
    IsolatedOnce
    AckIsLogged
    AckUnlessEmergency
    QuietRunAudits
PROPERTIES
    ImplementsKillSwitch
