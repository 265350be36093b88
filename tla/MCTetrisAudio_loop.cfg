\* The game's loop against the handler; the ring goes round three times.
CONSTANTS
    Size = 10
    FifoDepth = 4
    Requests = {}
    MaxSamples = 21
    Budgeted = FALSE
    MayStop = FALSE
    Chunk = 4
SPECIFICATION TetrisFairSpec
INVARIANTS
    NeverPartial
    NoSampleLost
PROPERTIES
    ImplementsStream
    EverySamplePlayed
CHECK_DEADLOCK FALSE
