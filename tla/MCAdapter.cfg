SPECIFICATION AdapterSpec
CONSTANTS
    Auths = {w1, w2}
    Workers = {w1, w2}
    Requests = {w1, w2}
    RequestOf <- DistinctRequests
    Replayers = {}
    Watchdogs = {}
    Completers = {c}
    Reporters = {}
    Threads = {w1, w2, c}
    Free = Free
    Inputs = {"allow", "kill", "malformed", "misframed"}
    MaxPayload = 2
    MaxAdmitted = 2
    MaxPerWindow = 2
    WindowLength = 5
    MaxInflight = 2
    MaxEgress = 2
    MaxEvents = 12
    Deadline = 1
    Ttl = 2
    MaxResponse = 1
    Responses = {1}
    MaxClock = 1
    MaxFaults = 1
    Cancelling = FALSE
    MaxWallSteps = 0
    MaxDepth = 3
    MaxNodes = 5
    MaxSafe = 3
    Combining = {833}
    Documents <- MCDocuments
    FromWire <- from_wire
    NoLength = NoLength
    Lengths <- MCLengths
    Chunks = {1, 2}
SYMMETRY WorkerSymmetry
INVARIANTS
    AnsweredOrClosed
    OneTextPerMeaning
    LimitsAreExact
    NoDispatchAfterTrigger
    KillIsAcknowledged
