SPECIFICATION Spec
CONSTANTS
    User = {u1}
    Period = 2
    FailAfter = 1
    Limits = {1, 2}
    MaxTime = 4
    MaxBytes = 2
    MaxFaults = 2
INVARIANTS TypeOK Conserved BlockedMatchesUsage PeriodsAreConsecutive FailClosedIsEarned
PROPERTIES RecoveryAfterAccounting
CHECK_DEADLOCK FALSE
