SPECIFICATION SteadySpec
CONSTANTS
    Generations = {1, 2}
    MaxJobs = 1
    EventBound = 1
    OutputBound = 1
    Reserve = 1
    MaxChunk = 1
    MaxSegments = 1
    SegmentLimit = 1
    ReplyLimit = 1
    Hearing = FALSE
    SpeakerCapacity = 1
INVARIANTS
    NoStrayCancellation
    DrainIsComplete
PROPERTIES
    DrainEnds
    CancelEnds
    StopEnds
