SPECIFICATION Spec
CONSTANTS
    p1 = p1
    p2 = p2
    Pipes = {p1, p2}
    LaneCapacity = 2
    FrameCapacity = 2
    PipeBytes = 4
    RelayBytes = 4
    ChunkBytes = 2
    MaxWrites = 2
    MaxInbound = 3
    Operations <- OnePipeOrTwoWriters
INVARIANTS
    NothingAfterClose
    FlushMeansSent
    BothFinsClose
    EofMeansAll
    EndedPipesRelease
    NoWakeIsLost
CHECK_DEADLOCK FALSE
