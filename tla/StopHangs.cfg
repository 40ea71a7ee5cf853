SPECIFICATION FairSpec
CONSTANTS
    a = a
    b = b
    Channels <- TwoChannels
    NoChannel = NoChannel
    Ceiling = 2
    ChannelLimit = 2
    MaxOpens = 1
PROPERTY StopEndsInTime
CHECK_DEADLOCK FALSE
