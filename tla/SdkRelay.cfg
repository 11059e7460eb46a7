SPECIFICATION RelaySpec
CONSTANTS
    l1 = l1
    l2 = l2
    d1 = d1
    c1 = c1
    c2 = c2
    Listeners = {l1, l2}
    Destinations = {d1}
    DestinationOf <- OneDestination
    NoListener = NoListener
    QueueCapacity = 1
    MaxOffers = 2
    MaxBreaks = 1
    MaxEpoch = 1
    Operations <- EveryOperation
    Dials = {c1, c2}
    CommandCapacity = 1
    Workloads <- ListenersOrDials
SYMMETRY CallSymmetry
INVARIANTS
    BindingsAgree
    ReconcileIsDue
    CallsTellTruth
    PipesHaveOwners
CHECK_DEADLOCK FALSE
