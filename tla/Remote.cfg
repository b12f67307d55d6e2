CONSTANTS
    Keys = {k1}
    Capacity = 1
    Conns = 2
    Messages = 2
    Losses = 2
SPECIFICATION FairSpec
INVARIANTS
    TypeOK
    StreamIsComplete
    KeptUntilAcked
    NothingLeftBehind
PROPERTIES
    Delivered
    DisconnectCloses
CHECK_DEADLOCK FALSE
