SPECIFICATION Spec
CONSTANTS
    MaxPayloadBytes = 1
    Callers = {c1, c2}
    NoCredential = 0
    Actions <- MCActions
    Manifests <- MCManifests
    Times = {0, 2, 3}
    Ttl = 2
    OperatorKey = "operatorKey"
    GatewayKey = "gatewayKey"
    Secrets = {"key", "tripwire"}
    OtherDecisions <- MCOther
CHECK_DEADLOCK FALSE
INVARIANTS
    BudgetsAreExact
    PathsMatchBySegment
    AllowedIsGranted
    DecisionsValidate
    EffectsAreAllowed
