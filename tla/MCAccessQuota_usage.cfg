\* Two instances with skewed clocks share a periodic rule, with one fault of any kind.
SPECIFICATION Spec
CONSTANTS
    a = a
    b = b
    q1 = q1
    q2 = q2
    tot = tot
    per = per
    Instances = {a, b}
    Requests = {q1, q2}
    Rules = {per}
    PeriodicRules = {per}
    Period = 1
    Limits = {2}
    Deletable = {}
    Modes = {"admit"}
    Costs = {1}
    MaxUsed = 2
    Skew <- AheadSkew
    MaxClock = 2
    MaxRevision = 1
    MaxFaults = 1
SYMMETRY RequestSymmetry
INVARIANTS
    CheckpointsAreSnapshots
    CheckpointsAreRestorable
    UsageIsExact
PROPERTIES
    WindowsDoNotOverlap
