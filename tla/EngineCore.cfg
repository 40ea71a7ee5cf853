SPECIFICATION ServedSpec
CONSTANTS
    a = a
    b = b
    Channels <- TwoChannels
    NoChannel = NoChannel
    Ceiling = 1
    ChannelLimit = 2
    MaxOpens = 1
INVARIANTS SlotsAreKept FirstOpenIsAdmitted StopIsThorough
PROPERTIES SlotsComeBack OrphansEnd
CHECK_DEADLOCK FALSE
