\* Faults, and an edit at one instance, while the mirrors are reconciled.
SPECIFICATION FairSpec
CONSTANTS
    i1 = i1
    i2 = i2
    c1 = c1
    c2 = c2
    c3 = c3
    m1 = m1
    m2 = m2
    Instances = {i1, i2}
    Calls = {c1, c2}
    Ops <- MirrorOps
    Models = {m1}
    Threshold = 1
    MaxIdentity = 1
    MaxSecret = 1
    MaxFaults = 1
    Editors = {i1}
    MaxEdits = 1
PROPERTY MirrorsConverge MirrorsDoNotGoBack
