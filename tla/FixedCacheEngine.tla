-------------------------- MODULE FixedCacheEngine --------------------------
(***************************************************************************)
(* fixedRateLimitCacheImpl.DoLimit (src/unnamed/part_004 lines 63-330)    *)
(* for concurrent requests, composed with the hot-key batcher of          *)
(* HotKeyBatcher and the Redis counters.                                  *)
(*                                                                         *)
(* A request walks the phases of DoLimit: the local over-limit check, the *)
(* optional GET pre-read (one pipeline per slot, executed one after the   *)
(* other), the loop that sends each key to the batcher or to the          *)
(* INCRBY pipeline of its slot, the parallel execution of those           *)
(* pipelines, the wait on the batcher channels, and the verdicts.         *)
(*                                                                         *)
(* The hot-key detector's answer is a free choice here (HotKeyDetector    *)
(* is modelled on its own).  The per-second client, EXPIRE and the        *)
(* jitter are left out: all keys belong to one window of one client.      *)
(* The verdict code (BaseRateLimiter, not under src/) follows the spec,   *)
(* section 4.6.5.                                                          *)
(***************************************************************************)
EXTENDS Naturals, Sequences, FiniteSets

CONSTANTS
    Keys, Hits, SlotOf(_), IsCluster, MaxExternal, MaxStoreErrors,
    Requests,        \* concurrent DoLimit calls
    Req,             \* Req[r]: the descriptors of r, a sequence of [key, hits]
    NoKey,           \* the empty cache key (no rule, or an unlimited one)
    Limit,           \* Limit[k]: requests_per_unit of the rule of key k
    Shadow,          \* Shadow[k]: shadow_mode of the rule of key k
    NearPct,         \* near_limit_ratio, in percent
    StopIncrement,   \* stopCacheKeyIncrementWhenOverlimit
    HotKeysEnabled,  \* hot key detection and batching configured
    LocalCacheOn     \* a local (freecache) over-limit cache is configured

Desc(r) == DOMAIN Req[r]
KeyOf(r, i) == Req[r][i].key
HitsOf(r, i) == Req[r][i].hits

\* One request names a cache key at most once.
ASSUME \A r \in Requests : \A i, j \in Desc(r) :
          (i # j /\ Req[r][i].key # NoKey) => Req[r][i].key # Req[r][j].key

VARIABLES
    \* Redis and the hot-key batcher, as in HotKeyBatcher
    store, pending, toFlush, flushErr, final, fpc, exiting, running,
    stopClosed, inbox, wst, late, hist, nExternal, nErrors,
    \* DoLimit, one instance per request
    pc,          \* phase of the request
    overIdx,     \* overlimitIndexes (= isOverLimitWithLocalCache)
    cur,         \* currentCount: the GET replies
    getLeft,     \* slots whose GET pipeline has not run yet
    nearIdx,     \* nearlimitIndexes
    idx,         \* the next descriptor of the pipeline setup loop
    cold,        \* pipelines: slot -> descriptors with an INCRBY in it
    eff,         \* the hitsAddend actually sent for each descriptor
    hot,         \* descriptors waiting on a batcher channel
    res,         \* results: the counter after the increment
    pipeErr,     \* pipelineErr of the parallel execution
    outcome,     \* "none" | "admitted" | "denied" | "failed"
    \* BaseRateLimiter's local cache
    localCache

bvars == <<store, pending, toFlush, flushErr, final, fpc, exiting, running,
           stopClosed, inbox, wst, late, hist, nExternal, nErrors>>
evars == <<pc, overIdx, cur, getLeft, nearIdx, idx, cold, eff, hot, res,
           pipeErr, outcome, localCache>>
vars == <<bvars, evars>>

\* One result channel per descriptor of every request.
Channels == UNION {{<<r, i>> : i \in Desc(r)} : r \in Requests}

B == INSTANCE HotKeyBatcher WITH W <- Channels

Slots == {SlotOf(k) : k \in Keys}
Live(r) == {i \in Desc(r) : KeyOf(r, i) # NoKey}

-----------------------------------------------------------------------------
\* getHitsAddend
GetHitsAddend(hitsAddend, isCacheKeyOverlimit, isCacheKeyNearlimit, isNearLimit) ==
    IF ~StopIncrement THEN hitsAddend
    ELSE IF isCacheKeyOverlimit THEN 0
    ELSE IF ~isCacheKeyNearlimit THEN hitsAddend
    ELSE IF isNearLimit THEN hitsAddend
    ELSE 0

\* IsOverLimitThresholdReached on the pre-read value (spec 4.6.3):
\* after / limit >= near_limit_ratio.
NearLimit(k, before, h) == (before + h) * 100 >= NearPct * Limit[k]

\* limitBeforeIncrease := limitAfterIncrease - hitsAddends[i] is at most
\* lim.  The subtraction is in uint64: below hitsAddend it wraps around to
\* 2^64 - (hitsAddend - after), which is above every limit.
BeforeAtMost(after, h, lim) == after >= h /\ after - h <= lim

\* GetResponseDescriptorStatus (spec 4.6.5): the code of one descriptor.
OverLimit(r, i) == i \in overIdx[r] \/ res[r][i] > Limit[KeyOf(r, i)]
DescOK(r, i) ==
    \/ KeyOf(r, i) = NoKey
    \/ ~OverLimit(r, i)
    \/ Shadow[KeyOf(r, i)]

-----------------------------------------------------------------------------
\* The local variables of DoLimit, as they are made at its start.
Fresh(r) == [overIdx |-> {}, cur |-> [i \in Desc(r) |-> 0], getLeft |-> {},
             nearIdx |-> {}, idx |-> 1, cold |-> [s \in Slots |-> {}],
             eff |-> [i \in Desc(r) |-> 0], hot |-> {},
             res |-> [i \in Desc(r) |-> 0], pipeErr |-> FALSE]

locals == <<overIdx, cur, getLeft, nearIdx, idx, cold, eff, hot, res, pipeErr>>

\* DoLimit returns (or panics through checkError): its locals are gone.
Finish(r, out) ==
    /\ pc' = [pc EXCEPT ![r] = IF out = "failed" THEN "failed" ELSE "done"]
    /\ outcome' = [outcome EXCEPT ![r] = out]
    /\ overIdx' = [overIdx EXCEPT ![r] = Fresh(r).overIdx]
    /\ cur' = [cur EXCEPT ![r] = Fresh(r).cur]
    /\ getLeft' = [getLeft EXCEPT ![r] = Fresh(r).getLeft]
    /\ nearIdx' = [nearIdx EXCEPT ![r] = Fresh(r).nearIdx]
    /\ idx' = [idx EXCEPT ![r] = Fresh(r).idx]
    /\ cold' = [cold EXCEPT ![r] = Fresh(r).cold]
    /\ eff' = [eff EXCEPT ![r] = Fresh(r).eff]
    /\ hot' = [hot EXCEPT ![r] = Fresh(r).hot]
    /\ res' = [res EXCEPT ![r] = Fresh(r).res]
    /\ pipeErr' = [pipeErr EXCEPT ![r] = Fresh(r).pipeErr]

Init ==
    /\ B!Init
    /\ pc = [r \in Requests |-> "start"]
    /\ overIdx = [r \in Requests |-> Fresh(r).overIdx]
    /\ cur = [r \in Requests |-> Fresh(r).cur]
    /\ getLeft = [r \in Requests |-> Fresh(r).getLeft]
    /\ nearIdx = [r \in Requests |-> Fresh(r).nearIdx]
    /\ idx = [r \in Requests |-> Fresh(r).idx]
    /\ cold = [r \in Requests |-> Fresh(r).cold]
    /\ eff = [r \in Requests |-> Fresh(r).eff]
    /\ hot = [r \in Requests |-> Fresh(r).hot]
    /\ res = [r \in Requests |-> Fresh(r).res]
    /\ pipeErr = [r \in Requests |-> Fresh(r).pipeErr]
    /\ outcome = [r \in Requests |-> "none"]
    /\ localCache = {}

\* The loop over cacheKeys asking IsOverLimitWithLocalCache, then the
\* decision whether to pre-read.
LocalCheck(r) ==
    LET over == {i \in Live(r) : KeyOf(r, i) \in localCache}
    IN
    /\ pc[r] = "start"
    /\ overIdx' = [overIdx EXCEPT ![r] = over]
    /\ IF StopIncrement /\ over = {} /\ Live(r) # {}
       THEN /\ getLeft' = [getLeft EXCEPT ![r] =
                             {SlotOf(KeyOf(r, i)) : i \in Live(r)}]
            /\ pc' = [pc EXCEPT ![r] = "get"]
       ELSE /\ pc' = [pc EXCEPT ![r] = "setup"]
            /\ UNCHANGED getLeft
    /\ UNCHANGED <<bvars, cur, nearIdx, idx, cold, eff, hot, res, pipeErr,
                   outcome, localCache>>

\* One GET pipeline of pipelinesToGet; checkError panics on an error.
\* After the last one, the near-limit classification loop.
GetPipeline(r, s) ==
    LET ids == {i \in Live(r) : SlotOf(KeyOf(r, i)) = s}
        cur2 == [i \in Desc(r) |-> IF i \in ids THEN store[KeyOf(r, i)]
                                   ELSE cur[r][i]]
        left == getLeft[r] \ {s}
    IN
    /\ pc[r] = "get"
    /\ s \in getLeft[r]
    /\ \/ /\ cur' = [cur EXCEPT ![r] = cur2]
          /\ getLeft' = [getLeft EXCEPT ![r] = left]
          /\ IF left = {}
             THEN /\ nearIdx' = [nearIdx EXCEPT ![r] =
                       {i \in Live(r) : NearLimit(KeyOf(r, i), cur2[i], HitsOf(r, i))}]
                  /\ pc' = [pc EXCEPT ![r] = "setup"]
             ELSE UNCHANGED <<nearIdx, pc>>
          /\ UNCHANGED <<outcome, nErrors, overIdx, idx, cold, eff, hot, res,
                         pipeErr>>
       \/ /\ nErrors < MaxStoreErrors
          /\ nErrors' = nErrors + 1
          /\ Finish(r, "failed")
    /\ UNCHANGED <<store, pending, toFlush, flushErr, final, fpc, exiting,
                   running, stopClosed, inbox, wst, late, hist, nExternal,
                   localCache>>

\* Mutant: an empty cache key is not skipped by the setup loop.
SetupStepNoEmptySkip(r) ==
    LET i == idx[r]
        k == KeyOf(r, i)
        h == GetHitsAddend(HitsOf(r, i), overIdx[r] # {}, nearIdx[r] # {},
                           i \in nearIdx[r])
    IN
    /\ pc[r] = "setup"
    /\ i \in Desc(r)
    /\ idx' = [idx EXCEPT ![r] = i + 1]
    /\ IF i \in overIdx[r]
       THEN UNCHANGED <<bvars, cold, eff, hot>>
       ELSE /\ eff' = [eff EXCEPT ![r][i] = h]
            /\ cold' = [cold EXCEPT ![r][SlotOf(k)] = @ \cup {i}]
            /\ UNCHANGED <<bvars, hot>>
    /\ UNCHANGED <<pc, overIdx, cur, getLeft, nearIdx, res, pipeErr, outcome,
                   localCache>>

\* One iteration of the pipeline setup loop: skip an empty or locally
\* over-limit key; otherwise RecordAccess decides between Submit to the
\* batcher and an INCRBY appended to the pipeline of the key's slot.
SetupStep(r) ==
    LET i == idx[r]
        k == KeyOf(r, i)
        h == GetHitsAddend(HitsOf(r, i), overIdx[r] # {}, nearIdx[r] # {},
                           i \in nearIdx[r])
    IN
    /\ pc[r] = "setup"
    /\ i \in Desc(r)
    /\ idx' = [idx EXCEPT ![r] = i + 1]
    /\ IF k = NoKey \/ i \in overIdx[r]
       THEN UNCHANGED <<bvars, cold, eff, hot>>
       ELSE /\ eff' = [eff EXCEPT ![r][i] = h]
            /\ \E isHot \in IF HotKeysEnabled THEN BOOLEAN ELSE {FALSE} :
                 IF isHot
                 THEN /\ B!Submit(<<r, i>>, k, h)
                      /\ hot' = [hot EXCEPT ![r] = @ \cup {i}]
                      /\ UNCHANGED cold
                 ELSE /\ cold' = [cold EXCEPT ![r][SlotOf(k)] = @ \cup {i}]
                      /\ UNCHANGED <<bvars, hot>>
    /\ UNCHANGED <<pc, overIdx, cur, getLeft, nearIdx, res, pipeErr, outcome,
                   localCache>>

SetupDone(r) ==
    /\ pc[r] = "setup"
    /\ idx[r] \notin Desc(r)
    /\ pc' = [pc EXCEPT ![r] = "exec"]
    /\ UNCHANGED <<bvars, overIdx, cur, getLeft, nearIdx, idx, cold, eff, hot,
                   res, pipeErr, outcome, localCache>>

\* Mutant: the result is taken from the GET pre-read plus the hits, not
\* from the INCRBY reply.
ExecSlotFromPreRead(r, s) ==
    LET ids == cold[r][s]
        after(i) == store[KeyOf(r, i)] + eff[r][i]
        told(i) == cur[r][i] + eff[r][i]
        incr(S) == [k \in Keys |->
                      IF \E i \in S : KeyOf(r, i) = k
                      THEN after(CHOOSE i \in S : KeyOf(r, i) = k)
                      ELSE store[k]]
    IN
    /\ pc[r] = "exec"
    /\ ids # {}
    /\ cold' = [cold EXCEPT ![r][s] = {}]
    /\ \/ /\ store' = incr(ids)
          /\ res' = [res EXCEPT ![r] = [i \in Desc(r) |->
                       IF i \in ids THEN told(i) ELSE res[r][i]]]
          /\ hist' = hist \cup {[who |-> <<r, i>>, key |-> KeyOf(r, i),
                                 lo |-> told(i) - eff[r][i],
                                 hi |-> told(i)] : i \in ids}
          /\ UNCHANGED <<pipeErr, nErrors>>
       \/ /\ nErrors < MaxStoreErrors
          /\ nErrors' = nErrors + 1
          /\ \E S \in SUBSET ids : store' = incr(S)
          /\ pipeErr' = [pipeErr EXCEPT ![r] = TRUE]
          /\ UNCHANGED <<res, hist>>
    /\ UNCHANGED <<pending, toFlush, flushErr, final, fpc, exiting, running,
                   stopClosed, inbox, wst, late, nExternal,
                   pc, overIdx, cur, getLeft, nearIdx, idx, eff, hot, outcome,
                   localCache>>

\* The goroutine running PipeDo for the INCRBY pipeline of slot s.  An
\* error may leave any part of the pipeline applied and is kept as
\* pipelineErr.
ExecSlot(r, s) ==
    LET ids == cold[r][s]
        after(i) == store[KeyOf(r, i)] + eff[r][i]
        incr(S) == [k \in Keys |->
                      IF \E i \in S : KeyOf(r, i) = k
                      THEN after(CHOOSE i \in S : KeyOf(r, i) = k)
                      ELSE store[k]]
    IN
    /\ pc[r] = "exec"
    /\ ids # {}
    /\ cold' = [cold EXCEPT ![r][s] = {}]
    /\ \/ /\ store' = incr(ids)
          /\ res' = [res EXCEPT ![r] = [i \in Desc(r) |->
                       IF i \in ids THEN after(i) ELSE res[r][i]]]
          /\ hist' = hist \cup {[who |-> <<r, i>>, key |-> KeyOf(r, i),
                                 lo |-> after(i) - eff[r][i],
                                 hi |-> after(i)] : i \in ids}
          /\ UNCHANGED <<pipeErr, nErrors>>
       \/ /\ nErrors < MaxStoreErrors
          /\ nErrors' = nErrors + 1
          /\ \E S \in SUBSET ids : store' = incr(S)
          /\ pipeErr' = [pipeErr EXCEPT ![r] = TRUE]
          /\ UNCHANGED <<res, hist>>
    /\ UNCHANGED <<pending, toFlush, flushErr, final, fpc, exiting, running,
                   stopClosed, inbox, wst, late, nExternal,
                   pc, overIdx, cur, getLeft, nearIdx, idx, eff, hot, outcome,
                   localCache>>

\* wg.Wait(), then checkError(pipelineErr).
Join(r) ==
    /\ pc[r] = "exec"
    /\ \A s \in Slots : cold[r][s] = {}
    /\ IF pipeErr[r]
       THEN Finish(r, "failed")
       ELSE /\ pc' = [pc EXCEPT ![r] = "await"]
            /\ UNCHANGED <<outcome, locals>>
    /\ UNCHANGED <<bvars, localCache>>

\* batchResult := <-resultChan for one hot descriptor; an error panics
\* through checkError.
AwaitHot(r, i) ==
    LET got == inbox[<<r, i>>]
    IN
    /\ pc[r] = "await"
    /\ i \in hot[r]
    /\ B!Receive(<<r, i>>)
    /\ IF got = B!ErrResult
       THEN Finish(r, "failed")
       ELSE /\ hot' = [hot EXCEPT ![r] = @ \ {i}]
            /\ res' = [res EXCEPT ![r][i] = got.val]
            /\ UNCHANGED <<pc, outcome, overIdx, cur, getLeft, nearIdx, idx,
                           cold, eff, pipeErr>>
    /\ UNCHANGED localCache

\* The verdict loop: GetResponseDescriptorStatus per descriptor, which
\* also puts a key whose verdict goes from under to over in this request
\* (before = result - hitsAddend) into the local cache.  The request is
\* admitted when every descriptor is OK.
Verdict(r) ==
    /\ pc[r] = "await"
    /\ hot[r] = {}
    /\ Finish(r, IF \A i \in Desc(r) : DescOK(r, i) THEN "admitted"
                 ELSE "denied")
    /\ localCache' = IF LocalCacheOn
                     THEN localCache \cup {KeyOf(r, i) : i \in
                            {j \in Live(r) \ overIdx[r] :
                               /\ res[r][j] > Limit[KeyOf(r, j)]
                               /\ BeforeAtMost(res[r][j], HitsOf(r, j),
                                               Limit[KeyOf(r, j)])}}
                     ELSE localCache
    /\ UNCHANGED bvars

-----------------------------------------------------------------------------
Request(r) ==
    \/ LocalCheck(r)
    \/ \E s \in Slots : GetPipeline(r, s)
    \/ SetupStep(r) \/ SetupDone(r)
    \/ \E s \in Slots : ExecSlot(r, s)
    \/ Join(r)
    \/ \E i \in Desc(r) : AwaitHot(r, i)
    \/ Verdict(r)

Store == \E k \in Keys : B!ExternalIncr(k)

Next ==
    \/ \E r \in Requests : Request(r)
    \/ B!Flusher /\ UNCHANGED evars
    \/ Store /\ UNCHANGED evars

\* Each request runs in its own goroutine and the flush ticker keeps
\* firing, so no step that stays enabled is postponed forever.
Fairness ==
    /\ \A r \in Requests : WF_vars(Request(r))
    /\ WF_vars(B!Flusher /\ UNCHANGED evars)

Spec == Init /\ [][Next]_vars /\ Fairness

-----------------------------------------------------------------------------
Phases == {"start", "get", "setup", "exec", "await", "done", "failed"}

TypeOK ==
    /\ B!TypeOK
    /\ pc \in [Requests -> Phases]
    /\ \A r \in Requests :
          /\ overIdx[r] \subseteq Live(r) /\ nearIdx[r] \subseteq Live(r)
          /\ hot[r] \subseteq Live(r) /\ getLeft[r] \subseteq Slots
          /\ cur[r] \in [Desc(r) -> Nat] /\ res[r] \in [Desc(r) -> Nat]
          /\ eff[r] \in [Desc(r) -> Nat] /\ idx[r] \in 1..(Len(Req[r]) + 1)
          /\ cold[r] \in [Slots -> SUBSET Live(r)]
    /\ pipeErr \in [Requests -> BOOLEAN]
    /\ outcome \in [Requests -> {"none", "admitted", "denied", "failed"}]
    /\ localCache \subseteq Keys

(* The counts DoLimit works with, from the cold INCRBY pipelines and from  *)
(* the batcher channels alike, are those of a serial execution of the      *)
(* increments: the intervals (count - hitsAddend, count] never overlap for  *)
(* one key.  Hot and cold increments of one key interleave in Redis.       *)
CountsSerializable == B!CountsSerializable

(* Every DoLimit call returns verdicts or fails: no request waits forever  *)
(* on an INCRBY goroutine (wg.Wait) or on a batcher channel, whether its   *)
(* slot pipelines, its GET pipelines or the batcher's flush fail or not.   *)
(* (Close(), the one way to stop the batcher, is modelled with the         *)
(* sequential variant in SequentialCacheEngine.)                           *)
RequestsComplete ==
    \A r \in Requests : <>(pc[r] \in {"done", "failed"})
=============================================================================
