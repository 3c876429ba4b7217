SPECIFICATION FairSpec
CONSTANTS
    User = {u1}
    Chat = {c1}
    Administrator = {a1}
    MaxEvents = 2
    MaxFaults = 0
PROPERTY EveryEventIsHandled
