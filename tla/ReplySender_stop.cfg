SPECIFICATION FairSpec
CONSTANTS
    w1 = w1
    w2 = w2
    Writers <- MCWriters
    MaxSends = 2
    Faults <- MCNoFaults
INVARIANT NoUseAfterFree
PROPERTIES DestructorReturns RepliesReachPeer
CHECK_DEADLOCK FALSE
