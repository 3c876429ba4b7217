SPECIFICATION FairSpec
CONSTANTS
    User = {u1}
    MaxGen = 2
    MaxVersion = 1
    MaxFaults = 1
INVARIANTS TypeOK StaleIsQueued InFlightIsQueued Restorable NoOlderCredentials
PROPERTY KeepsOutboxPromise
PROPERTY RowsAreCompleted
CHECK_DEADLOCK FALSE
