SPECIFICATION Spec
CONSTANTS
    User = {u1}
    Notice = 2
    Limit = 4
    Lease = 8
    RetryDelay <- Delays
    BatchLimit = 1
    MaxFaults = 2
    MaxSlow = 8
PROPERTY KeepsOutboxPromise
INVARIANTS TypeOK PlannedIsAnnounced PlannedRestartsSpaced HeldIsLeased RowsAreServedInTime
