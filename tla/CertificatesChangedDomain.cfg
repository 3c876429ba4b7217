SPECIFICATION Spec
CONSTANTS
    Domain = {d1, d2}
    NoDomain = NoDomain
    Validity = 5
    Margin = 3
    MaxOutage = 0
    MaxSaves = 2
INVARIANT IssuedMatchesDomain
