CONSTANTS
    Streams = {out, err}
    Exit = Exit
    Chunks = 2
    Retained = 1
    Consumers = {"read"}
SPECIFICATION Spec
SYMMETRY Symmetry
INVARIANTS
    OneFailed
    InOrder
    PollSkipsNothing
PROPERTY StreamSpec
