SPECIFICATION FairSpec
CONSTANTS
    User = {u1}
    Chat = {c1, c2}
    Administrator = {a1}
    MaxEvents = 2
    MaxFaults = 1
INVARIANTS TypeOK LoyalIsNeverRevoked ChangeIsRechecked
PROPERTIES EligibilityConverges OnlyPressesBlock
