SPECIFICATION FairSpec
CONSTANTS
    Kinds <- MCKeepGet
    MaxRequests = 1
    MaxHeader = 2
    Patience <- MCPatient
PROPERTY ExitResets
CHECK_DEADLOCK FALSE
