SPECIFICATION Spec
CONSTANTS
    Voices = {v1, v2}
    NoVoice = none
    FirstVoice = v1
    MaxReplies = 2
    MaxAsks = 2
INVARIANT ReplyWaits
CHECK_DEADLOCK FALSE
