SPECIFICATION Spec
CONSTANTS
    Kinds <- MCChunked
    MaxRequests = 1
    MaxHeader = 2
    Patience <- MCPatient
INVARIANT BodyIntact
CHECK_DEADLOCK FALSE
