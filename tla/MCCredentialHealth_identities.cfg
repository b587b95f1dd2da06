\* The identity and the secret change, and the instances load them at different times.
SPECIFICATION Spec
CONSTANTS
    i1 = i1
    i2 = i2
    c1 = c1
    c2 = c2
    c3 = c3
    m1 = m1
    m2 = m2
    Instances = {i1, i2}
    Calls = {c1, c2}
    Ops <- IdentityOps
    Models = {m1}
    Threshold = 1
    MaxIdentity = 2
    MaxSecret = 2
    MaxFaults = 0
    Editors = {}
    MaxEdits = 0
SYMMETRY InstanceSymmetry
INVARIANT VersionDeterminesContent
