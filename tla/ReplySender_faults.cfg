SPECIFICATION Spec
CONSTANTS
    w1 = w1
    w2 = w2
    Writers <- MCWriters
    MaxSends = 2
    Faults <- MCAllFaults
INVARIANTS NothingLost WireIsPrefix
PROPERTIES FailedSendIsLast ImplementsChannel
CHECK_DEADLOCK FALSE
