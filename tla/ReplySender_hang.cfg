SPECIFICATION FairSpec
CONSTANTS
    w1 = w1
    w2 = w2
    Writers <- MCWriters
    MaxSends = 1
    Faults <- MCSendErrors
PROPERTY DestructorReturns
CHECK_DEADLOCK FALSE
