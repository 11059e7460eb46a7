SPECIFICATION FairSpec
CONSTANTS
    MaxStreams = 1
    StreamQueueCapacity = 1
    WriterCapacity = 1
    WireCapacity = 1
    CounterLimit <- OneStream
    NonceLimit = 2
    None = None
    Inputs <- Probed
INVARIANTS
    ProbeOnItsWay
PROPERTIES
    StreamsAreSettled
CHECK_DEADLOCK FALSE
