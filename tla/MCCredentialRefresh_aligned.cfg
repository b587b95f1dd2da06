SPECIFICATION FollowingSpec
CONSTANTS
    i1 = i1
    i2 = i2
    c1 = c1
    c2 = c2
    Instances = {i1, i2}
    Pollers = {i1}
    Calls = {c1, c2}
    Kinds = {"expired", "recovery"}
    MaxGrants = 1
    MaxFaults = 0
    MaxLosses = 0
PROPERTIES EntriesConverge
