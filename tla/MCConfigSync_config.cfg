SPECIFICATION FairSpec
CONSTANTS
    i1 = i1
    i2 = i2
    w1 = w1
    o1 = o1
    Instances <- MCInstances
    Writes <- MCWrites
    Operations <- MCOperations
    MaxFaults = 1
INVARIANTS
    AppliedIsServed
    AnswersAreServed
PROPERTIES
    ViewsDoNotGoBack
    StagesDoNotGoBack
    ViewsConverge
    OperationsComplete
CHECK_DEADLOCK FALSE
