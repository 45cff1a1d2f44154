SPECIFICATION Spec
CONSTANTS
    MaxConnections = 1
    MaxExits = 1
INVARIANT ExitIsGraceful
CHECK_DEADLOCK FALSE
