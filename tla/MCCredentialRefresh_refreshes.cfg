\* Two refreshes, a poll and one fault of any kind.
SPECIFICATION Spec
CONSTANTS
    i1 = i1
    i2 = i2
    c1 = c1
    c2 = c2
    Instances = {i1, i2}
    Pollers = {i1}
    Calls = {c1, c2}
    Kinds = {"expired", "recovery"}
    MaxGrants = 0
    MaxFaults = 1
    MaxLosses = 0
SYMMETRY CallSymmetry
INVARIANTS TokensArePresentedOnce ReadyTokensAreValid SettledStateIsShared
