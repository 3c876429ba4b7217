SPECIFICATION Spec
CONSTANTS
    User = {u1}
    MaxGen = 2
    MaxVersion = 1
    MaxFaults = 0
INVARIANT RevocationReachesCore
CHECK_DEADLOCK FALSE
