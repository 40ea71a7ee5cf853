SPECIFICATION Spec
CONSTANTS
    Generations = {1}
    MaxJobs = 1
    EventBound = 1
    OutputBound = 1
    Reserve = 1
    MaxChunk = 1
    MaxSegments = 1
    SegmentLimit = 2
    ReplyLimit = 2
    Hearing = TRUE
    SpeakerCapacity = 1
INVARIANTS
    TypeOK
    OutputAccounting
    AudioClock
    EndOwed
    ReceiptIsHonest
    ReleasedIsGone
    NoMissedClose
    CancelledIsFenced
PROPERTIES
    KeepsCustody
    FenceIsFinal
