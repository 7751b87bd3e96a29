CONSTANTS
    k1 = k1
    k2 = k2
    r1 = r1
    r2 = r2
    r3 = r3
    none = none
    Keys <- MCKeys
    Requests <- MCRequests
    NoKey = none
    PerSecondKeys = {k2}
    PerSecondClient = FALSE
    Closable = FALSE
    Hits = {1}
    SlotOf <- SlotPerKey
    IsCluster = FALSE
    MaxExternal = 0
    MaxStoreErrors = 0
    Req <- NearReq
    Limit <- NearLimitPair
    Shadow <- NoShadow
    NearPct = 100
    StopIncrement = TRUE
    HotKeysEnabled = TRUE
    LocalCacheOn = TRUE
SPECIFICATION Spec
INVARIANT NoOverAdmission
\* The workload is finite: once every request has returned, nothing is left to do.
CHECK_DEADLOCK FALSE
