\* Two requests with the stop policy (GET pre-read per slot), hot keys, one
\* transient store error and one increment by another replica.
CONSTANTS
    k1 = k1
    k2 = k2
    r1 = r1
    r2 = r2
    none = none
    Keys <- MCKeys
    Requests <- TwoRequests
    NoKey = none
    Hits = {1}
    SlotOf <- SlotPerKey
    IsCluster = TRUE
    MaxExternal = 1
    MaxStoreErrors = 1
    Req <- MixedReq
    Limit <- MixedLimit
    Shadow <- NoShadow
    NearPct = 100
    StopIncrement = TRUE
    HotKeysEnabled = TRUE
    LocalCacheOn = TRUE
SPECIFICATION Spec
INVARIANT TypeOK
INVARIANT CountsSerializable

PROPERTY RequestsComplete
\* The workload is finite: once every request has returned, nothing is left to do.
CHECK_DEADLOCK FALSE
