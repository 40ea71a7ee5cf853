SPECIFICATION Spec
CONSTANTS
    Block = 2
    InputBound = 4
    MaxPackets = 2
    PacketSizes = {1, 3}
    InputLimit = 7
    TailTime = 2
INVARIANTS NothingLost HeardToTheEnd
PROPERTIES TailBudget InputEnds
CHECK_DEADLOCK FALSE
