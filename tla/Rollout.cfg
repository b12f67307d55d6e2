CONSTANTS
    Items = 3
    Capacity = 2
    Faults = 2
SPECIFICATION FairSpec
INVARIANTS
    TypeOK
    FileInOrder
    AckedIsWritten
    NothingLost
PROPERTY WrittenUnasked
CHECK_DEADLOCK FALSE
