\* Two replicas deliver one acceptable report and two rejected ones in batches of two.
SPECIFICATION FairSpec
CONSTANTS
    i1 = i1
    i2 = i2
    r1 = r1
    r2 = r2
    r3 = r3
    Replicas = {i1, i2}
    Reports = {r1, r2, r3}
    Valid = {r1}
    BatchSize = 2
    ReportTimeout = 1
    MinBackoff = 2
    MaxBackoff = 3
    MaxTries = 1
    Skew <- OneAhead
    MaxSkew = 1
    MaxLatency = 0
    MaxFaults = 1
INVARIANT TypeOK
INVARIANT DeliveriesDoNotOverlap
PROPERTY ImplementsLedger
PROPERTY ReportsAreSettled
CHECK_DEADLOCK FALSE
