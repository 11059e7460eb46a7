SPECIFICATION Spec
CONSTANTS
    s1 = s1
    s2 = s2
    b1 = b1
    Sessions = {s1, s2}
    PeerSessions = {f1}
    ConnIds = {1}
    Destinations = {d1}
    d1 = d1
    Bindings = {b1}
    Keys = {k1, k2}
    k1 = k1
    k2 = k2
    f1 = f1
    Distributed = TRUE
    MaxSessions = 2
    MaxBindings = 1
    MaxPendingOffers = 2
    MaxRemoteDialAttempts = 1
    MaxLivePipes = 1
    CursorWrap = 1
    None = None
SYMMETRY Symmetry
INVARIANTS
    PipeBooksAgree
    EndpointsAreLive
    OneAnswerPerDial
    PublicationMatchesRegistry
PROPERTIES
    NothingRevives
CHECK_DEADLOCK FALSE
