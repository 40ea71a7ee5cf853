SPECIFICATION Spec
CONSTANTS
    MaxBlocks = 6
    Trigger = 1
    Commit = 3
    Maximum = 4
    PrerollLimit = 2
    QueryBound = 1
    SpeakerCapacity = 1
    MaxSegments = 1
    Recognizers <- TwoKinds
INVARIANTS SpeechHeardOnce VerdictIsOfThisPause GateIsBounded FinalsObserved
PROPERTIES HearingEnds
CHECK_DEADLOCK FALSE
