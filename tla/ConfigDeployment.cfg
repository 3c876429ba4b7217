SPECIFICATION Spec
CONSTANTS
    Config = {c1, c2, c3}
    NoConfig = NoConfig
INVARIANTS KeepsLastUsable LastUsableOnDisk
PROPERTY KeepsPromise
CHECK_DEADLOCK FALSE
