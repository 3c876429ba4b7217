SPECIFICATION Spec
CONSTANTS
    Domain = {d1, d2}
    NoDomain = NoDomain
    Validity = 5
    Margin = 3
    MaxOutage = 2
    MaxSaves = 3
INVARIANTS TypeOK RenewedInTime ExpiryIsBacked TornPairIsDue
PROPERTY DomainConverges
