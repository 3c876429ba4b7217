CONSTANTS
    Admin = {r, a}
    Root = r
    Browser = {b1, b2}
    CodeLife = 1
    IdleLife = 2
    SessionLife = 3
    MaxCodes = 2
    MaxRemovals = 1
    Account = {u, v}
    Address = {x, y}
    AccountAttempts = 1
    AddressAttempts = 2
    GlobalAttempts = 3
    AccountWindow = 2
    AddressWindow = 2
    GlobalWindow = 1
    MaxAttempts = 4
    MaxClock = 2
    Rotation = {p, q}
    MaxToken = 2
    Target = {s, t}
    Worker = {w1, w2}
    SampleLimit = 3
    RetentionDays = {1, 2}
    MaxArchives = 3
    MaxAge = 4
SPECIFICATION Spec
INVARIANTS
    TypeOK
    SessionsAreEarned
    GuessesAreLimited
    WorkingBotStartsAgain
    NoticesMatchHealth
PROPERTIES
    RolesChangeByOwners
    SearchEnds
    OnlySupersededPruned
CHECK_DEADLOCK FALSE
