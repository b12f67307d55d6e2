CONSTANTS
    Streams = {out, err}
    Exit = Exit
    Chunks = 1
    Retained = 1
    Consumers = {"read", "never"}
SPECIFICATION FairSpec
INVARIANT TypeOK
PROPERTIES
    PushEnds
    PollStops
