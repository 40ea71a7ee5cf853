SPECIFICATION Spec
CONSTANTS
    o1 = o1
    o2 = o2
    r1 = r1
    Absent = Absent
    Other = Other
    Owners <- AllOwners
    Readers <- OnlyReaders
    Loads <- AllLoads
    MaxEpochs = 2
    MaxRequests = 3
    PendingCapacity = 2
    WriteCapacity = 1
    EventCapacity = 1
CHECK_DEADLOCK FALSE
INVARIANTS StorageToldTruth HostToldTruth
PROPERTY LaneSettles
