SPECIFICATION Spec
CONSTANTS
    Scripts <- AllScripts
    MaxRequests = 5
    MaxFinals = 3
    SpeakerCapacity = 1
    PendingCapacity = 3
    ReportBacklog = 1
    DrainIdle = 1
    CaptureClose = 2
    AbortTime = 1
    RetireTime = 1
CHECK_DEADLOCK FALSE
INVARIANTS AnsweredOnce EndsOnce NoFalseAlarm
PROPERTY ClosingEnds
