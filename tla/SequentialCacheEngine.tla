----------------------- MODULE SequentialCacheEngine -----------------------
(***************************************************************************)
(* fixedRateLimitCacheImpl of src/src/redis/fixed_cache_impl.go: DoLimit  *)
(* for concurrent requests with one pipeline per client, the optional     *)
(* per-second client, one hot-key batcher per client, and Close().        *)
(*                                                                         *)
(* A request walks the phases of DoLimit: the local over-limit check, the *)
(* optional GET pre-read (the main client's pipeline, then the per-second *)
(* one), the loop that sends each key to the batcher of its client or     *)
(* appends an INCRBY to its client's pipeline, the two PipeDo calls one   *)
(* after the other (an error panics through checkError before the second  *)
(* one), the wait on the batcher channels, and the verdicts.              *)
(*                                                                         *)
(* The hot-key detector's answer is a free choice (HotKeyDetector is      *)
(* modelled on its own).  EXPIRE and the jitter are left out.  The        *)
(* verdict code (BaseRateLimiter, not under src/) follows spec 4.6.5.     *)
(***************************************************************************)
EXTENDS Naturals, Sequences, FiniteSets

CONSTANTS
    Keys, Hits, SlotOf(_), IsCluster, MaxExternal, MaxStoreErrors,
    Requests,        \* concurrent DoLimit calls
    Req,             \* Req[r]: the descriptors of r, a sequence of [key, hits]
    NoKey,           \* the empty cache key (no rule, or an unlimited one)
    Limit,           \* Limit[k]: requests_per_unit of the rule of key k
    Shadow,          \* Shadow[k]: shadow_mode of the rule of key k
    PerSecondKeys,   \* keys whose rule has unit SECOND (cacheKey.PerSecond)
    PerSecondClient, \* a dedicated per-second client is configured
    NearPct,         \* near_limit_ratio, in percent
    StopIncrement,   \* stopCacheKeyIncrementWhenOverlimit
    HotKeysEnabled,  \* hotKeyConfig.Enabled
    LocalCacheOn,    \* a local (freecache) over-limit cache is configured
    Closable         \* the server may call Close() during the behaviour

Desc(r) == DOMAIN Req[r]
KeyOf(r, i) == Req[r][i].key
HitsOf(r, i) == Req[r][i].hits

\* One request names a cache key at most once.
ASSUME \A r \in Requests : \A i, j \in Desc(r) :
          (i # j /\ Req[r][i].key # NoKey) => Req[r][i].key # Req[r][j].key

VARIABLES
    \* the main client's Redis and hotKeyBatcher
    store, pending, toFlush, flushErr, final, fpc, exiting, running,
    stopClosed, hist,
    \* the per-second client's Redis and perSecondBatcher
    store2, pending2, toFlush2, flushErr2, final2, fpc2, exiting2, running2,
    stopClosed2, hist2,
    \* the result channels and the bounds, shared by both batchers
    inbox, wst, late, nExternal, nErrors,
    \* DoLimit, one instance per request
    pc,          \* phase of the request
    overIdx,     \* overlimitIndexes (= isOverLimitWithLocalCache)
    cur,         \* currentCount: the GET replies
    getLeft,     \* clients whose GET pipeline has not run yet
    nearIdx,     \* nearlimitIndexes
    idx,         \* the next descriptor of the pipeline setup loop
    cold,        \* client -> descriptors with an INCRBY in its pipeline
    eff,         \* the hitsAddend actually sent for each descriptor
    hot,         \* descriptors waiting on a batcher channel
    res,         \* results: the counter after the increment
    outcome,     \* "none" | "admitted" | "denied" | "failed"
    cpc,         \* Close(): "open" | "half" (hotKeyBatcher stopped) | "closed"
    \* BaseRateLimiter's local cache
    localCache

b1rest == <<pending, toFlush, flushErr, final, fpc, exiting, running,
            stopClosed>>
b2rest == <<pending2, toFlush2, flushErr2, final2, fpc2, exiting2, running2,
            stopClosed2>>
b1vars == <<store, hist, b1rest>>
b2vars == <<store2, hist2, b2rest>>
shared == <<inbox, wst, late, nExternal, nErrors>>
evars == <<pc, overIdx, cur, getLeft, nearIdx, idx, cold, eff, hot, res,
           outcome, cpc, localCache>>
vars == <<b1vars, b2vars, shared, evars>>

\* One result channel per descriptor of every request.
Channels == UNION {{<<r, i>> : i \in Desc(r)} : r \in Requests}

B1 == INSTANCE HotKeyBatcher WITH W <- Channels
B2 == INSTANCE HotKeyBatcher WITH W <- Channels, store <- store2,
        pending <- pending2, toFlush <- toFlush2, flushErr <- flushErr2,
        final <- final2, fpc <- fpc2, exiting <- exiting2,
        running <- running2, stopClosed <- stopClosed2, hist <- hist2

Clients == {"main", "perSecond"}
Live(r) == {i \in Desc(r) : KeyOf(r, i) # NoKey}

\* this.perSecondClient != nil && cacheKey.PerSecond
ClientOf(k) == IF PerSecondClient /\ k \in PerSecondKeys THEN "perSecond"
               ELSE "main"
Redis(c) == IF c = "main" THEN store ELSE store2
OfClient(r, c) == {i \in Live(r) : ClientOf(KeyOf(r, i)) = c}
KeysOf(r, S) == {KeyOf(r, i) : i \in S}

\* PipeDo of one pipeline may fail: a transient error, within the bound,
\* or, on a cluster client, keys of two slots (spec 7: a hard error).
CrossSlot(ks) == IsCluster /\ ~B1!SingleSlot(ks)

-----------------------------------------------------------------------------
\* getHitsAddend
GetHitsAddend(hitsAddend, isCacheKeyOverlimit, isCacheKeyNearlimit, isNearLimit) ==
    IF ~StopIncrement THEN hitsAddend
    ELSE IF isCacheKeyOverlimit THEN 0
    ELSE IF ~isCacheKeyNearlimit THEN hitsAddend
    ELSE IF isNearLimit THEN hitsAddend
    ELSE 0

\* IsOverLimitThresholdReached on the pre-read value (spec 4.6.3):
\* after / limit >= near_limit_ratio.
NearLimit(k, before, h) == (before + h) * 100 >= NearPct * Limit[k]

\* limitBeforeIncrease := limitAfterIncrease - hitsAddends[i] is at most
\* lim.  The subtraction is in uint64: below hitsAddend it wraps around to
\* 2^64 - (hitsAddend - after), which is above every limit.
BeforeAtMost(after, h, lim) == after >= h /\ after - h <= lim

\* GetResponseDescriptorStatus (spec 4.6.5): the code of one descriptor.
OverLimit(r, i) == i \in overIdx[r] \/ res[r][i] > Limit[KeyOf(r, i)]
DescOK(r, i) ==
    \/ KeyOf(r, i) = NoKey
    \/ ~OverLimit(r, i)
    \/ Shadow[KeyOf(r, i)]

-----------------------------------------------------------------------------
\* The local variables of DoLimit, as they are made at its start.
Fresh(r) == [overIdx |-> {}, cur |-> [i \in Desc(r) |-> 0], getLeft |-> {},
             nearIdx |-> {}, idx |-> 1, cold |-> [c \in Clients |-> {}],
             eff |-> [i \in Desc(r) |-> 0], hot |-> {},
             res |-> [i \in Desc(r) |-> 0]]

\* DoLimit returns (or panics through checkError): its locals are gone.
Finish(r, out) ==
    /\ pc' = [pc EXCEPT ![r] = IF out = "failed" THEN "failed" ELSE "done"]
    /\ outcome' = [outcome EXCEPT ![r] = out]
    /\ overIdx' = [overIdx EXCEPT ![r] = Fresh(r).overIdx]
    /\ cur' = [cur EXCEPT ![r] = Fresh(r).cur]
    /\ getLeft' = [getLeft EXCEPT ![r] = Fresh(r).getLeft]
    /\ nearIdx' = [nearIdx EXCEPT ![r] = Fresh(r).nearIdx]
    /\ idx' = [idx EXCEPT ![r] = Fresh(r).idx]
    /\ cold' = [cold EXCEPT ![r] = Fresh(r).cold]
    /\ eff' = [eff EXCEPT ![r] = Fresh(r).eff]
    /\ hot' = [hot EXCEPT ![r] = Fresh(r).hot]
    /\ res' = [res EXCEPT ![r] = Fresh(r).res]

\* NewFixedRateLimitCacheImpl: both batchers are started (an unconfigured
\* per-second batcher is never submitted to nor stopped).
Init ==
    /\ B1!Init /\ B2!Init
    /\ pc = [r \in Requests |-> "start"]
    /\ overIdx = [r \in Requests |-> Fresh(r).overIdx]
    /\ cur = [r \in Requests |-> Fresh(r).cur]
    /\ getLeft = [r \in Requests |-> Fresh(r).getLeft]
    /\ nearIdx = [r \in Requests |-> Fresh(r).nearIdx]
    /\ idx = [r \in Requests |-> Fresh(r).idx]
    /\ cold = [r \in Requests |-> Fresh(r).cold]
    /\ eff = [r \in Requests |-> Fresh(r).eff]
    /\ hot = [r \in Requests |-> Fresh(r).hot]
    /\ res = [r \in Requests |-> Fresh(r).res]
    /\ outcome = [r \in Requests |-> "none"]
    /\ cpc = "open"
    /\ localCache = {}

\* The loop over cacheKeys asking IsOverLimitWithLocalCache (a shadow rule
\* counts too), then the decision whether to pre-read.
LocalCheck(r) ==
    LET over == {i \in Live(r) : KeyOf(r, i) \in localCache}
    IN
    /\ pc[r] = "start"
    /\ overIdx' = [overIdx EXCEPT ![r] = over]
    /\ IF StopIncrement /\ over = {} /\ Live(r) # {}
       THEN /\ getLeft' = [getLeft EXCEPT ![r] =
                             {ClientOf(KeyOf(r, i)) : i \in Live(r)}]
            /\ pc' = [pc EXCEPT ![r] = "get"]
       ELSE /\ pc' = [pc EXCEPT ![r] = "setup"]
            /\ UNCHANGED getLeft
    /\ UNCHANGED <<b1vars, b2vars, shared, cur, nearIdx, idx, cold, eff, hot,
                   res, outcome, cpc, localCache>>

\* The replies of the GETs pipelineAppendtoGet puts in the pipeline of
\* client c, one per descriptor of the client (0 for an absent key).
GetReplies(r, c) == [i \in OfClient(r, c) |-> Redis(c)[KeyOf(r, i)]]

\* PipeDo of pipelineToGet, then of perSecondPipelineToGet, each through
\* checkError.  After the last one, the near-limit classification loop.
GetPipeline(r, c) ==
    LET ids == OfClient(r, c)
        cur2 == [i \in Desc(r) |-> IF i \in ids THEN GetReplies(r, c)[i]
                                   ELSE cur[r][i]]
        left == getLeft[r] \ {c}
    IN
    /\ pc[r] = "get"
    /\ c \in getLeft[r]
    /\ c = "perSecond" => "main" \notin getLeft[r]
    /\ \/ /\ ~CrossSlot(KeysOf(r, ids))
          /\ cur' = [cur EXCEPT ![r] = cur2]
          /\ getLeft' = [getLeft EXCEPT ![r] = left]
          /\ IF left = {}
             THEN /\ nearIdx' = [nearIdx EXCEPT ![r] =
                       {i \in Live(r) : NearLimit(KeyOf(r, i), cur2[i], HitsOf(r, i))}]
                  /\ pc' = [pc EXCEPT ![r] = "setup"]
             ELSE UNCHANGED <<nearIdx, pc>>
          /\ UNCHANGED <<nErrors, outcome, overIdx, idx, cold, eff, hot, res>>
       \/ /\ CrossSlot(KeysOf(r, ids))
          /\ Finish(r, "failed")
          /\ UNCHANGED nErrors
       \/ /\ nErrors < MaxStoreErrors
          /\ nErrors' = nErrors + 1
          /\ Finish(r, "failed")
    /\ UNCHANGED <<b1vars, b2vars, inbox, wst, late, nExternal, cpc,
                   localCache>>

\* Submit to the batcher of client c: hotKeyBatcher or perSecondBatcher.
Submit(c, w, k, h) ==
    IF c = "main" THEN B1!Submit(w, k, h) /\ UNCHANGED b2vars
    ELSE B2!Submit(w, k, h) /\ UNCHANGED b1vars

\* Mutant: an empty cache key is not skipped by the setup loop.
SetupStepNoEmptySkip(r) ==
    LET i == idx[r]
        k == KeyOf(r, i)
        h == GetHitsAddend(HitsOf(r, i), overIdx[r] # {}, nearIdx[r] # {},
                           i \in nearIdx[r])
    IN
    /\ pc[r] = "setup"
    /\ i \in Desc(r)
    /\ idx' = [idx EXCEPT ![r] = i + 1]
    /\ IF i \in overIdx[r]
       THEN UNCHANGED <<b1vars, b2vars, shared, cold, eff, hot>>
       ELSE /\ eff' = [eff EXCEPT ![r][i] = h]
            /\ cold' = [cold EXCEPT ![r][ClientOf(k)] = @ \cup {i}]
            /\ UNCHANGED <<b1vars, b2vars, shared, hot>>
    /\ UNCHANGED <<pc, overIdx, cur, getLeft, nearIdx, res, outcome, cpc,
                   localCache>>

\* One iteration of the pipeline setup loop: skip an empty or locally
\* over-limit key; otherwise RecordAccess decides between Submit to the
\* batcher of the key's client and INCRBY+EXPIRE appended (pipelineAppend)
\* to that client's one pipeline.
SetupStep(r) ==
    LET i == idx[r]
        k == KeyOf(r, i)
        h == GetHitsAddend(HitsOf(r, i), overIdx[r] # {}, nearIdx[r] # {},
                           i \in nearIdx[r])
    IN
    /\ pc[r] = "setup"
    /\ i \in Desc(r)
    /\ idx' = [idx EXCEPT ![r] = i + 1]
    /\ IF k = NoKey \/ i \in overIdx[r]
       THEN UNCHANGED <<b1vars, b2vars, shared, cold, eff, hot>>
       ELSE /\ eff' = [eff EXCEPT ![r][i] = h]
            /\ \E isHot \in IF HotKeysEnabled THEN BOOLEAN ELSE {FALSE} :
                 IF isHot
                 THEN /\ Submit(ClientOf(k), <<r, i>>, k, h)
                      /\ hot' = [hot EXCEPT ![r] = @ \cup {i}]
                      /\ UNCHANGED cold
                 ELSE /\ cold' = [cold EXCEPT ![r][ClientOf(k)] = @ \cup {i}]
                      /\ UNCHANGED <<b1vars, b2vars, shared, hot>>
    /\ UNCHANGED <<pc, overIdx, cur, getLeft, nearIdx, res, outcome, cpc,
                   localCache>>

\* The end of the setup loop (the trace span changes no state).
SetupDone(r) ==
    /\ pc[r] = "setup"
    /\ idx[r] \notin Desc(r)
    /\ pc' = [pc EXCEPT ![r] = IF \A c \in Clients : cold[r][c] = {}
                               THEN "await" ELSE "exec"]
    /\ UNCHANGED <<b1vars, b2vars, shared, overIdx, cur, getLeft, nearIdx,
                   idx, cold, eff, hot, res, outcome, cpc, localCache>>

\* Redis of client c takes the counters s, and the intervals ivs are
\* handed out from it.
SetRedis(c, s, ivs) ==
    IF c = "main"
    THEN store' = s /\ hist' = hist \cup ivs /\ UNCHANGED <<store2, hist2>>
    ELSE store2' = s /\ hist2' = hist2 \cup ivs /\ UNCHANGED <<store, hist>>

\* The counters of client c's Redis once the INCRBYs that pipelineAppend
\* put in the pipeline for the descriptors S are applied.
IncrBy(r, c, S) ==
    [k \in Keys |->
       IF \E i \in S : KeyOf(r, i) = k
       THEN Redis(c)[k] + eff[r][CHOOSE i \in S : KeyOf(r, i) = k]
       ELSE Redis(c)[k]]

\* Mutant: the result is taken from the GET pre-read plus the hits, not
\* from the INCRBY reply.
ExecPipelineFromPreRead(r, c) ==
    LET ids == cold[r][c]
        after(i) == Redis(c)[KeyOf(r, i)] + eff[r][i]
        told(i) == cur[r][i] + eff[r][i]
    IN
    /\ pc[r] = "exec"
    /\ ids # {}
    /\ c = "perSecond" => cold[r]["main"] = {}
    /\ \/ /\ ~CrossSlot(KeysOf(r, ids))
          /\ SetRedis(c, IncrBy(r, c, ids),
                      {[who |-> <<r, i>>, key |-> KeyOf(r, i),
                        lo |-> told(i) - eff[r][i], hi |-> told(i)] : i \in ids})
          /\ res' = [res EXCEPT ![r] = [i \in Desc(r) |->
                       IF i \in ids THEN told(i) ELSE res[r][i]]]
          /\ cold' = [cold EXCEPT ![r][c] = {}]
          /\ pc' = [pc EXCEPT ![r] = IF \A d \in Clients \ {c} : cold[r][d] = {}
                                     THEN "await" ELSE "exec"]
          /\ UNCHANGED <<nErrors, outcome, overIdx, cur, getLeft, nearIdx, idx,
                         eff, hot>>
       \/ /\ CrossSlot(KeysOf(r, ids))
          /\ Finish(r, "failed")
          /\ UNCHANGED <<store, hist, store2, hist2, nErrors>>
       \/ /\ nErrors < MaxStoreErrors
          /\ nErrors' = nErrors + 1
          /\ \E S \in SUBSET ids : SetRedis(c, IncrBy(r, c, S), {})
          /\ Finish(r, "failed")
    /\ UNCHANGED <<b1rest, b2rest, inbox, wst, late, nExternal, cpc,
                   localCache>>

\* checkError(this.client.PipeDo(pipeline)), then the same for
\* perSecondPipeline: a panic of the first means the second is never sent.
\* Success applies every INCRBY of the pipeline and stores each reply in
\* results[i]; a transient error may leave any part of it applied; keys
\* of two slots on a cluster fail the whole pipeline.
ExecPipeline(r, c) ==
    LET ids == cold[r][c]
        after(i) == Redis(c)[KeyOf(r, i)] + eff[r][i]
    IN
    /\ pc[r] = "exec"
    /\ ids # {}
    /\ c = "perSecond" => cold[r]["main"] = {}
    /\ \/ /\ ~CrossSlot(KeysOf(r, ids))
          /\ SetRedis(c, IncrBy(r, c, ids),
                      {[who |-> <<r, i>>, key |-> KeyOf(r, i),
                        lo |-> after(i) - eff[r][i], hi |-> after(i)] : i \in ids})
          /\ res' = [res EXCEPT ![r] = [i \in Desc(r) |->
                       IF i \in ids THEN after(i) ELSE res[r][i]]]
          /\ cold' = [cold EXCEPT ![r][c] = {}]
          /\ pc' = [pc EXCEPT ![r] = IF \A d \in Clients \ {c} : cold[r][d] = {}
                                     THEN "await" ELSE "exec"]
          /\ UNCHANGED <<nErrors, outcome, overIdx, cur, getLeft, nearIdx, idx,
                         eff, hot>>
       \/ /\ CrossSlot(KeysOf(r, ids))
          /\ Finish(r, "failed")
          /\ UNCHANGED <<store, hist, store2, hist2, nErrors>>
       \/ /\ nErrors < MaxStoreErrors
          /\ nErrors' = nErrors + 1
          /\ \E S \in SUBSET ids : SetRedis(c, IncrBy(r, c, S), {})
          /\ Finish(r, "failed")
    /\ UNCHANGED <<b1rest, b2rest, inbox, wst, late, nExternal, cpc,
                   localCache>>

\* A receive that dropped the batched value instead of storing it in
\* results[i].
AwaitHotNoResult(r, i) ==
    LET got == inbox[<<r, i>>]
    IN
    /\ pc[r] = "await"
    /\ i \in hot[r]
    /\ B1!Receive(<<r, i>>)
    /\ IF got = B1!ErrResult
       THEN Finish(r, "failed")
       ELSE /\ hot' = [hot EXCEPT ![r] = @ \ {i}]
            /\ UNCHANGED <<pc, outcome, overIdx, cur, getLeft, nearIdx, idx,
                           cold, eff, res>>
    /\ UNCHANGED <<b2vars, cpc, localCache>>

\* batchResult := <-resultChan for one hot descriptor, in map order; an
\* error panics through checkError.  Both batchers write the same kind of
\* buffered channel.
AwaitHot(r, i) ==
    LET got == inbox[<<r, i>>]
    IN
    /\ pc[r] = "await"
    /\ i \in hot[r]
    /\ B1!Receive(<<r, i>>)
    /\ IF got = B1!ErrResult
       THEN Finish(r, "failed")
       ELSE /\ hot' = [hot EXCEPT ![r] = @ \ {i}]
            /\ res' = [res EXCEPT ![r][i] = got.val]
            /\ UNCHANGED <<pc, outcome, overIdx, cur, getLeft, nearIdx, idx,
                           cold, eff>>
    /\ UNCHANGED <<b2vars, cpc, localCache>>

\* A verdict loop that cached a key when its count reached the limit.
VerdictCacheAtLimit(r) ==
    /\ pc[r] = "await"
    /\ hot[r] = {}
    /\ Finish(r, IF \A i \in Desc(r) : DescOK(r, i) THEN "admitted"
                 ELSE "denied")
    /\ localCache' = IF LocalCacheOn
                     THEN localCache \cup {KeyOf(r, i) : i \in
                            {j \in Live(r) \ overIdx[r] :
                               /\ res[r][j] >= Limit[KeyOf(r, j)]
                               /\ BeforeAtMost(res[r][j], HitsOf(r, j),
                                               Limit[KeyOf(r, j)])}}
                     ELSE localCache
    /\ UNCHANGED <<b1vars, b2vars, shared, cpc>>

\* The verdict loop: GetResponseDescriptorStatus per descriptor, which
\* also puts a key whose verdict goes from under to over in this request
\* (before = result - hitsAddend) into the local cache.  The request is
\* admitted when every descriptor is OK.
Verdict(r) ==
    /\ pc[r] = "await"
    /\ hot[r] = {}
    /\ Finish(r, IF \A i \in Desc(r) : DescOK(r, i) THEN "admitted"
                 ELSE "denied")
    /\ localCache' = IF LocalCacheOn
                     THEN localCache \cup {KeyOf(r, i) : i \in
                            {j \in Live(r) \ overIdx[r] :
                               /\ res[r][j] > Limit[KeyOf(r, j)]
                               /\ BeforeAtMost(res[r][j], HitsOf(r, j),
                                               Limit[KeyOf(r, j)])}}
                     ELSE localCache
    /\ UNCHANGED <<b1vars, b2vars, shared, cpc>>

\* Close(): hotKeyBatcher.Stop(), then perSecondBatcher.Stop() if there is
\* one; DoLimit calls may run in between.  Without hot keys both are nil
\* and Close() changes nothing.
CloseMain ==
    /\ Closable /\ HotKeysEnabled
    /\ cpc = "open"
    /\ B1!Stop
    /\ cpc' = IF PerSecondClient THEN "half" ELSE "closed"
    /\ UNCHANGED <<b2vars, pc, overIdx, cur, getLeft, nearIdx, idx, cold, eff,
                   hot, res, outcome, localCache>>

ClosePerSecond ==
    /\ cpc = "half"
    /\ B2!Stop
    /\ cpc' = "closed"
    /\ UNCHANGED <<b1vars, pc, overIdx, cur, getLeft, nearIdx, idx, cold, eff,
                   hot, res, outcome, localCache>>

-----------------------------------------------------------------------------
Request(r) ==
    \/ LocalCheck(r)
    \/ \E c \in Clients : GetPipeline(r, c)
    \/ SetupStep(r) \/ SetupDone(r)
    \/ \E c \in Clients : ExecPipeline(r, c)
    \/ \E i \in Desc(r) : AwaitHot(r, i)
    \/ Verdict(r)

\* Another replica's INCRBY, on the store the key lives in.
Store ==
    \E k \in Keys :
        IF ClientOf(k) = "main"
        THEN B1!ExternalIncr(k) /\ UNCHANGED b2vars
        ELSE B2!ExternalIncr(k) /\ UNCHANGED b1vars

Flusher1 == B1!Flusher /\ UNCHANGED <<b2vars, evars>>
Flusher2 == B2!Flusher /\ UNCHANGED <<b1vars, evars>>

Next ==
    \/ \E r \in Requests : Request(r)
    \/ Flusher1
    \/ Flusher2
    \/ Store /\ UNCHANGED evars
    \/ CloseMain
    \/ ClosePerSecond

\* Each request runs in its own goroutine and each batcher's ticker keeps
\* firing, so no step that stays enabled is postponed forever.  Close() is
\* the server's decision and may never come.
Fairness ==
    /\ \A r \in Requests : WF_vars(Request(r))
    /\ WF_vars(Flusher1)
    /\ WF_vars(Flusher2)

Spec == Init /\ [][Next]_vars /\ Fairness

-----------------------------------------------------------------------------
Phases == {"start", "get", "setup", "exec", "await", "done", "failed"}

TypeOK ==
    /\ B1!TypeOK /\ B2!TypeOK
    /\ pc \in [Requests -> Phases]
    /\ \A r \in Requests :
          /\ overIdx[r] \subseteq Live(r) /\ nearIdx[r] \subseteq Live(r)
          /\ hot[r] \subseteq Live(r) /\ getLeft[r] \subseteq Clients
          /\ cur[r] \in [Desc(r) -> Nat] /\ res[r] \in [Desc(r) -> Nat]
          /\ eff[r] \in [Desc(r) -> Nat] /\ idx[r] \in 1..(Len(Req[r]) + 1)
          /\ \A c \in Clients : cold[r][c] \subseteq OfClient(r, c)
    /\ outcome \in [Requests -> {"none", "admitted", "denied", "failed"}]
    /\ cpc \in {"open", "half", "closed"}
    /\ localCache \subseteq Keys

(* The counts DoLimit works with, from the INCRBY pipelines and from the   *)
(* batcher channels of either client, are those of a serial execution of   *)
(* the increments on that client's Redis: the intervals (count -           *)
(* hitsAddend, count] never overlap for one key, and lie below its counter.*)
CountsSerializable == B1!CountsSerializable /\ B2!CountsSerializable

(* No rule admits more requests than its limit: the admitted requests that *)
(* take hits on a non-shadow key k number at most Limit[k].  This is the    *)
(* promise of the default policy, where every request charges its hits:    *)
(* every count of a key must come from the one store it lives in, through  *)
(* the pipeline and through the batcher alike (spec 9), each request must   *)
(* judge itself on its own count, from the INCRBY reply or from its batcher *)
(* channel, and the local cache must deny only keys already over.  Under    *)
(* stopCacheKeyIncrementWhenOverlimit it fails (seq_stop_overadmission,     *)
(* seq_shadow_suppression).                                                 *)
ChargedAdmissions(k) ==
    {r \in Requests :
        /\ outcome[r] = "admitted"
        /\ \E i \in Desc(r) : KeyOf(r, i) = k /\ HitsOf(r, i) > 0}

NoOverAdmission ==
    \A k \in Keys : ~Shadow[k] => Cardinality(ChargedAdmissions(k)) <= Limit[k]

(* The local over-limit cache is sound: every key in it is over its limit *)
(* in the store it lives in.  DoLimit's verdict loop inserts a key when   *)
(* this request took it from at most to over its limit, with the count   *)
(* from the INCRBY pipeline or from a batcher channel, the hits actually  *)
(* sent possibly 0 and limitBeforeIncrease wrapping around in uint64      *)
(* (fixed_cache_impl.go:258); a key cached too early is denied by         *)
(* LocalCheck to every later request without reaching Redis.              *)
LocalCacheSound ==
    \A k \in localCache : Redis(ClientOf(k))[k] > Limit[k]

(* Every pipeline DoLimit sends on a cluster client holds keys of one slot *)
(* (spec 4.4 and spec 8): the GET pre-read pipeline and the INCRBY         *)
(* pipeline of each client, while they are still to be sent.               *)
PipelinesSingleSlot ==
    IsCluster =>
      \A r \in Requests, c \in Clients :
        /\ (pc[r] = "get" /\ c \in getLeft[r]) =>
              B1!SingleSlot(KeysOf(r, OfClient(r, c)))
        /\ pc[r] = "exec" => B1!SingleSlot(KeysOf(r, cold[r][c]))

(* Every DoLimit call returns verdicts or fails: no request waits forever  *)
(* on a batcher channel of either client, whether or not Close() stops the *)
(* two batchers, one after the other, while it runs.  The exception is a   *)
(* request that submits after Stop has cleared b.running (the finding of   *)
(* batcher_submit_after_stop).                                             *)
RequestsComplete ==
    \A r \in Requests :
        <>(\/ pc[r] \in {"done", "failed"}
           \/ \E i \in hot[r] : late[<<r, i>>])
=============================================================================
