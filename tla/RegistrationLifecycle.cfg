SPECIFICATION FairSpec
CONSTANTS
    Sessions = {1}
    Snapshots = {A, B}
    None = None
    MaxVersion = 3
    FaultKinds = {"restart", "expiry", "connect", "request", "throttle", "resolve"}
    MaxFaults = 2
INVARIANTS
    SyncedIsHeld
    WorkerBooksAgree
    LossesAreSurvived
PROPERTIES
    RouteTableConverges
CHECK_DEADLOCK FALSE
