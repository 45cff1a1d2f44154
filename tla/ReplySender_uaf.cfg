SPECIFICATION Spec
CONSTANTS
    w1 = w1
    w2 = w2
    Writers <- MCWriters
    MaxSends = 1
    Faults <- MCSendErrors
INVARIANT NoUseAfterFree
CHECK_DEADLOCK FALSE
