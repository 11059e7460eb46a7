SPECIFICATION FairSpec
CONSTANTS
    s1 = s1
    s2 = s2
    b1 = b1
    b2 = b2
    Sessions = {s1, s2}
    PeerSessions = {}
    ConnIds = {1}
    Destinations = {d1}
    d1 = d1
    Bindings = {b1, b2}
    Keys = {k1}
    k1 = k1
    Distributed = TRUE
    MaxSessions = 2
    MaxBindings = 2
    MaxPendingOffers = 2
    MaxRemoteDialAttempts = 1
    MaxLivePipes = 1
    CursorWrap = 2
    None = None
INVARIANTS
    RegistryIndexesAgree
    EndpointsAreTold
PROPERTIES
    OpensAreSettled
CHECK_DEADLOCK FALSE
