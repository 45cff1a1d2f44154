SPECIFICATION Spec
CONSTANTS
    Kinds <- MCAllKinds
    MaxRequests = 2
    MaxHeader = 2
    Patience <- MCPatient
INVARIANT VectorsOwned
PROPERTY HooksInOrder
CHECK_DEADLOCK FALSE
