CONSTANTS
    k1 = k1
    k2 = k2
    w1 = w1
    w2 = w2
    w3 = w3
    Keys <- MCKeys
    W <- TwoWaiters
    Hits = {1, 2}
    SlotOf <- SlotOneForAll
    IsCluster = FALSE
    MaxExternal = 0
    MaxStoreErrors = 0
SPECIFICATION Spec
PROPERTY EveryWaiterAnswered
CHECK_DEADLOCK FALSE
