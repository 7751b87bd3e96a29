CONSTANTS
    k1 = k1
    k2 = k2
    w1 = w1
    w2 = w2
    w3 = w3
    Keys <- MCKeys
    W <- TwoWaiters
    Hits = {1, 2}
    SlotOf <- SlotOneForAll
    IsCluster = FALSE
    MaxExternal = 1
    MaxStoreErrors = 1
SPECIFICATION Spec
INVARIANT TypeOK
INVARIANT CountsSerializable
PROPERTY AtomicCounterRefined
PROPERTY SubmittedBeforeStopAnswered
\* After Close() the batcher legitimately stops; late waiters stay blocked.
CHECK_DEADLOCK FALSE
