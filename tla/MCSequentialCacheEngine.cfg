\* Main and per-second client, hot keys and the stop policy, with one
\* transient store error and one increment by another replica.  With
\* limit 1 and near_limit_ratio 100% every key is near its limit from its
\* first hit; the external increment can put a key over the limit before
\* the first request, so that the second meets it in the local cache.
CONSTANTS
    k1 = k1
    k2 = k2
    r1 = r1
    r2 = r2
    r3 = r3
    none = none
    Keys <- MCKeys
    NoKey = none
    Hits = {1}
    PerSecondKeys = {k2}
    Requests <- TwoRequests
    SlotOf <- SlotOneForAll
    IsCluster = TRUE
    MaxExternal = 1
    MaxStoreErrors = 1
    Req <- MixedReq
    Limit <- MixedLimit
    Shadow <- NoShadow
    PerSecondClient = TRUE
    NearPct = 100
    StopIncrement = TRUE
    HotKeysEnabled = TRUE
    LocalCacheOn = TRUE
    Closable = FALSE
SPECIFICATION Spec
INVARIANT TypeOK
INVARIANT CountsSerializable

INVARIANT LocalCacheSound
\* The workload is finite: once every request has returned, nothing is left to do.
CHECK_DEADLOCK FALSE
