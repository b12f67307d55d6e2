CONSTANTS
    Keys = {k1}
    Capacity = 1
    Conns = 2
    Messages = 2
    Losses = 2
SPECIFICATION Spec
INVARIANT ClosedWithItsTask
CHECK_DEADLOCK FALSE
