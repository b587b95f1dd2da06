\* Failures, probes and model cooldowns at two instances.
SPECIFICATION Spec
CONSTANTS
    i1 = i1
    i2 = i2
    c1 = c1
    c2 = c2
    c3 = c3
    m1 = m1
    m2 = m2
    Instances = {i1, i2}
    Calls = {c1, c2, c3}
    Ops <- RecordOps
    Models = {m1, m2}
    Threshold = 1
    MaxIdentity = 1
    MaxSecret = 1
    MaxFaults = 0
    Editors = {}
    MaxEdits = 0
SYMMETRY InstanceSymmetry
INVARIANT VersionDeterminesContent
PROPERTY RecoveriesAreOfTheTested
