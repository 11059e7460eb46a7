SPECIFICATION Spec
CONSTANTS
    MaxStreams = 2
    StreamQueueCapacity = 2
    WriterCapacity = 2
    WireCapacity = 2
    CounterLimit <- OneEach
    NonceLimit = 1
    None = None
    Inputs <- OneStreamOrTwo
INVARIANTS
    CrossingsSettle
    BooksAgree
    DeliveredInOrder
    EveryEndIsHeard
CHECK_DEADLOCK FALSE
