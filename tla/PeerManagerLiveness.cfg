SPECIFICATION FairSpec
CONSTANTS
    o1 = o1
    o2 = o2
    x1 = x1
    x2 = x2
    g1 = g1
    i1 = i1
    i2 = i2
    Calls = {o1, o2}
    Identity <- OwnIdentity
    Target <- BothToOne
    Workloads <- OpensCrossing
    Remotes = {g1}
    Local = g0
    Inbound = {i1, i2}
    ManagerCapacity = 1
    QueueCapacity = 1
    EventCapacity = 1
    MaxPendingOpens = 1
    MaxHandshakes = 2
    MaxStreams = 1
    MaxData = 0
    Cancellable = {}
    Faults = {}
    None = None
PROPERTIES
    OpensAreAnswered
    EndedStreamsAreReleased
CHECK_DEADLOCK FALSE
