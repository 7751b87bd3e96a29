\* Close() may stop both batchers, one after the other, at any point of the
\* two requests.
CONSTANTS
    k1 = k1
    k2 = k2
    r1 = r1
    r2 = r2
    r3 = r3
    none = none
    Keys <- MCKeys
    NoKey = none
    Hits = {1}
    PerSecondKeys = {k2}
    Requests <- TwoRequests
    SlotOf <- SlotOneForAll
    IsCluster = TRUE
    MaxExternal = 0
    MaxStoreErrors = 0
    Req <- MixedReq
    Limit <- MixedLimit
    Shadow <- NoShadow
    PerSecondClient = TRUE
    NearPct = 100
    StopIncrement = FALSE
    HotKeysEnabled = TRUE
    LocalCacheOn = TRUE
    Closable = TRUE
SPECIFICATION Spec
INVARIANT NoOverAdmission
PROPERTY RequestsComplete
\* The workload is finite, and a request that submits after Close() blocks
\* for ever (see batcher_submit_after_stop): no deadlock check.
CHECK_DEADLOCK FALSE
