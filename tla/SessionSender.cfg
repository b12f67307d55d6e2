CONSTANTS
    Conns = {c1, c2}
    Sessions = {s1}
    Procs = {p1}
    Ttl = 1
    NoConn = NoConn
    NoSession = NoSession
    NoProc = NoProc
    NoTime = NoTime
SPECIFICATION Spec
CHECK_DEADLOCK FALSE
INVARIANTS
    AttachedIsNotified
