\* Requests on one and two scopes, limited and unlimited, with faults and time.
SPECIFICATION FairSpec
CONSTANTS
    i1 = i1
    i2 = i2
    c1 = c1
    c2 = c2
    global = global
    key = key
    Instances = {i1, i2}
    Calls = {c1, c2}
    Scopes = {global, key}
    Homes <- CallHomes
    Path <- RequestPath
    Limits = {0, 1}
    MaxLimit = 1
    TTL = 5
    Every = 1
    MaxMissed = 1
INVARIANT HeldSlotsAreLive
INVARIANT WorkWithinLimit
INVARIANT EndedCallsHoldNothing
PROPERTY NoSlotIsRevived
PROPERTY EndedCallsAreFreed
