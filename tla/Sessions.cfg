CONSTANTS
    Conns = {c1, c2, c3}
    Sessions = {s1}
    Procs = {p1}
    Ttl = 2
    NoConn = NoConn
    NoSession = NoSession
    NoProc = NoProc
    NoTime = NoTime
SPECIFICATION FairSpec
CHECK_DEADLOCK FALSE
INVARIANTS
    TypeOK
    KeepsSession
    NoOrphan
    StartIsOwned
PROPERTIES
    ResumeWindow
    Reclaimed
