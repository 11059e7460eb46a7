SPECIFICATION FairSpec
CONSTANTS
    l1 = l1
    l2 = l2
    l3 = l3
    d1 = d1
    d2 = d2
    Listeners = {l1, l2, l3}
    Destinations = {d1, d2}
    DestinationOf <- TwoDestinations
    NoListener = NoListener
    QueueCapacity = 1
    MaxOffers = 2
    MaxBreaks = 1
    MaxEpoch = 1
    Operations <- FewOrEvery
    Workloads <- SharedOrAlone
PROPERTIES
    ListensAreAnswered
    RelayRecovers
CHECK_DEADLOCK FALSE
