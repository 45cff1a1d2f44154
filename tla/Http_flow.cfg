SPECIFICATION FairSpec
CONSTANTS
    Kinds <- MCFlowKinds
    MaxRequests = 2
    MaxHeader = 2
    Patience <- MCAnyClient
INVARIANTS DispatchedInOrder BodyIntact
PROPERTIES ServiceKept RequestAnswered 
CHECK_DEADLOCK FALSE
