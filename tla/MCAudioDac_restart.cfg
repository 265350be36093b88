\* A client that submits whatever arrived, as the Modbus register does, and
\* that stops playback and starts it again while interrupts arrive.
CONSTANTS
    Size = 10
    FifoDepth = 2
    Requests = {4, 12}
    MaxSamples = 21
    Budgeted = FALSE
    MayStop = TRUE
SPECIFICATION FairSpec
INVARIANTS
    TypeOK
    PendingInOrder
PROPERTIES
    DacNeverStalls
CHECK_DEADLOCK FALSE
