SPECIFICATION UnattendedSpec
CONSTANTS
    User = {u1}
    Period = 2
    FailAfter = 1
    Limits = {1, 2}
    MaxTime = 4
    MaxBytes = 1
    MaxFaults = 0
PROPERTY FailClosedEnds
CHECK_DEADLOCK FALSE
