SPECIFICATION Spec
CONSTANTS
    Voices = {v1, v2}
    NoVoice = none
    FirstVoice = v1
    MaxReplies = 3
    MaxAsks = 3
INVARIANT OwnAnswerIsSpoken
CHECK_DEADLOCK FALSE
