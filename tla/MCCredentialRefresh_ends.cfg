\* One refresh, with a fault, a lost lease and a new authorization.
SPECIFICATION FairSpec
CONSTANTS
    i1 = i1
    i2 = i2
    c1 = c1
    c2 = c2
    Instances = {i1, i2}
    Pollers = {i1}
    Calls = {c1}
    Kinds = {"forced"}
    MaxGrants = 1
    MaxFaults = 1
    MaxLosses = 1
INVARIANTS RotatedTokensAreKept
PROPERTIES RefreshesEnd SharedStateConverges
