SPECIFICATION Spec
CONSTANTS
    Auths = {w1}
    Workers = {w1}
    Requests = {w1}
    RequestOf <- DistinctRequests
    Replayers = {}
    Watchdogs = {}
    Completers = {}
    Reporters = {}
    Threads = {w1}
    Free = Free
    Inputs = {"allow"}
    MaxPayload = 1
    MaxAdmitted = 1
    MaxPerWindow = 1
    WindowLength = 5
    MaxInflight = 1
    MaxEgress = 2
    MaxEvents = 12
    Deadline = 1
    Ttl = 2
    MaxResponse = 1
    Responses = {1}
    MaxClock = 0
    MaxFaults = 0
    Cancelling = FALSE
    MaxWallSteps = 0
INVARIANTS
    QuietKillVerifies
