\* Passes of a total rule that is edited, reset and deleted, with one fault of any kind.
SPECIFICATION FairSpec
CONSTANTS
    a = a
    b = b
    q1 = q1
    q2 = q2
    tot = tot
    per = per
    Instances = {a}
    Requests = {q1, q2}
    Rules = {tot}
    PeriodicRules = {}
    Period = 1
    Limits = {1, 2}
    Deletable = {tot}
    Modes = {"check", "admit"}
    Costs <- FaultyCosts
    MaxUsed = 2
    Skew <- AheadSkew
    MaxClock = 1
    MaxRevision = 2
    MaxFaults = 1
INVARIANTS
    TypeOK
    ChangesAreTracked
    UsageIsExact
PROPERTIES
    ChangesAreCheckpointed
