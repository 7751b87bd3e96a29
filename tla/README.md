# TLA+ models of the rate limiter's Redis cache with hot-key batching

This directory holds TLA+ specifications of the Redis fixed-window cache of
this rate limiter: `fixedRateLimitCacheImpl.DoLimit` in its two variants,
`Close()` and the constructor, the hot-key detector, its Count-Min Sketch
and the hot-key micro-batcher; and the stats-collecting memcached client.
It also holds the TLC
configurations that check them. Every action is written from the Go source. The
map in `PROJECT.json` names, for every definition, the lines it translates.

## The system

`DoLimit` (src/unnamed/part_004, lines 93-330) serves one rate-limit request.
Many requests run concurrently, one goroutine each. A request goes through
these phases:

1. **Local check** (lines 117-138). Keys that the local over-limit cache of
   BaseRateLimiter reports as over the limit are not incremented.
2. **Pre-read** (lines 140-188). This runs only when
   `stopCacheKeyIncrementWhenOverlimit` is set and no key was over locally.
   A GET pipeline per cluster slot reads the counters, one slot after the
   other. A key is *near* its limit when its count plus hits reaches
   near_limit_ratio.
3. **Setup** (lines 193-236). For every remaining key, `getHitsAddend`
   decides the hits actually sent. `HotKeyDetector.RecordAccess` then decides
   between `HotKeyBatcher.Submit` (hot) and an INCRBY in the pipeline of the
   key's slot (cold).
4. **Execution** (lines 260-303). Slot pipelines run in parallel goroutines.
   The first error is kept and panics the request through `checkError`.
5. **Wait** (lines 305-312). The request blocks on each batcher channel, with
   no context.
6. **Verdicts** (lines 314-329). `GetResponseDescriptorStatus` produces them
   and puts a key whose verdict goes from under to over in this request into
   the local cache (spec 4.6.5).

The **sequential variant** (src/src/redis/fixed_cache_impl.go) has the
same phases, with three differences:

- It has one GET pipeline and one INCRBY pipeline per *client*, instead of
  one per slot.
- The main client's PipeDo runs first, then the per-second client's
  (lines 236-241). A `checkError` panic on the first means the second is
  never sent.
- Keys of rules with unit SECOND go to the optional `perSecondClient` and
  its own `perSecondBatcher`.

`Close()` (lines 277-285) stops `hotKeyBatcher` and then
`perSecondBatcher`. The part_004 `Close()` is the same code.
`NewFixedRateLimitCacheImpl` (lines 290-326) creates and starts both
batchers when hot keys are enabled.

The **batcher** (lines 635-862) collects Submits under its mutex. A single
flush goroutine swaps the pending map on every ticker tick, and once more on
Stop(). It then sends one pipeline of INCRBY/EXPIRE for all swapped keys and
gives each waiter its own count, walking backwards from the INCRBY reply.

The **detector** (lines 389-634) counts accesses in a Count-Min Sketch
(src/unnamed/part_005). It keeps a bounded hot set with an LRU list. Counters
decay lazily every decayInterval. Its lock is taken and released several
times within one `RecordAccess`.

The **memcached stats client** (src/src/memcached/stats_collecting_client.go)
wraps a memcached client shared by the serving goroutines. GetMulti adds
len(keys) to keys_requested, calls the inner client, then bumps
multiget success or error and, on success, adds len(results) to keys_found.
Increment and Add call the inner client and bump the counter that the
switch on the returned error chooses. Each method returns what the inner
client returned.

BaseRateLimiter, the local cache and the Redis driver are not under `src/`.
They are modelled from spec.md (sections 4.5-4.7) and marked `spec_modelled`
in the map.

## Modules

| Module | Models | State | Actions |
|---|---|---|---|
| `HotKeyBatcher` | HotKeyBatcher and the Redis counters | `store`, `pending`, `toFlush`, the flush goroutine's `fpc`, `running`/`stopClosed`, each waiter's channel `inbox` and state `wst`, history `hist` of handed-out counter intervals | `Submit`, `Receive`, `FlushSwap`, `FlushExec` (success, cross-slot failure, transient failure with any subset applied), `FlushDeliver`, `Stop`, `ExternalIncr` (another replica's INCRBY) |
| `FixedCacheEngine` | DoLimit for concurrent requests, composed with `HotKeyBatcher` (`INSTANCE ... WITH W <- Channels`) | the batcher's state plus each request's `pc` and DoLimit locals (`overIdx`, `cur`, `nearIdx`, `cold`, `eff`, `hot`, `res`, `pipeErr`), `outcome`, and `localCache` | `LocalCheck`, `GetPipeline`, `SetupStep`, `SetupDone`, `ExecSlot`, `Join`, `AwaitHot`, `Verdict`, the batcher's flusher, other clients' INCRBYs |
| `SequentialCacheEngine` | The sequential DoLimit of fixed_cache_impl.go, `Close()` and the constructor (`Init`), composed with two instances of `HotKeyBatcher`: `B1` (hotKeyBatcher, on `store`) and `B2` (perSecondBatcher, on `store2`, with every per-batcher variable renamed). The two instances share the result channels. | both batchers' state, each request's `pc` and DoLimit locals (`cold` is now client -> descriptors), `outcome`, `localCache`, and `cpc`, the progress of Close() | `LocalCheck`, `GetPipeline(r, c)` (main, then per-second), `SetupStep` (routing by `ClientOf`, `Submit` to the client's batcher), `SetupDone`, `ExecPipeline(r, c)` (main, then per-second; an error panics), `AwaitHot`, `Verdict`, `CloseMain`, `ClosePerSecond`, both flushers, other replicas' INCRBYs on the key's own store |
| `AtomicCounter` | What `Submit` promises DoLimit: one atomic INCRBY answered with the counter right after it, or a failure | `counter`, each caller's `req`, `ans`, `st` | `Call`, `Apply` (a set of calls in some serial order), `Fail` (any subset of keys applied), `External`, `Receive` |
| `CountMinSketch` | CountMinSketch | `counters`; history `satCount` | `Increment`, `Decay`, `Reset` |
| `MemcacheClient` | The contract of the memcached client that statsCollectingClient wraps, and what the wrapper promises its callers: GetMulti, Increment, Add, each atomic on the server and answered to its caller (gomemcache outcomes: partial results on a network error, ErrCacheMiss, ErrNotStored, a failure before or after the server applied the call) | `items` (the stored keys and values), each caller's answer `ret`, `nErr` | `GetMulti`, `Increment`, `Add`, `Consume` (the caller takes its answer) |
| `StatsCollectingClient` | statsCollectingClient for concurrent goroutines, with the inner client as `INSTANCE MemcacheClient WITH ret <- inner` | the server's `items`, each caller's `pc`, `arg`, the inner answer `inner` and the returned `out`, the ten counters `ctr` | `GetMultiBegin` (keys_requested), `GetMultiCall`, `GetMultiEnd`, `IncrementCall`, `IncrementEnd`, `AddCall`, `AddEnd`, `Consume` |
| `HotKeyDetector` | HotKeyDetector, using the sketch's operators (`INSTANCE CountMinSketch`) | `cms`, `hotKeys`, `hotKeysList`, `decayDue`, each thread's `tpc`/`tkey`/`tdelta`/`tcount`; history `nSketchDecays` | `Begin` (maybeDecay's first check), `DecayLock`, `DecaySketch`, `CleanupColdKeys`, `Increment`, `IsHot`, `TouchHotKey`, `PromoteToHot`, `Reset`, `Tick` (the decay interval elapses) |

Each `MC*.tla` module declares the model values and defines the small
workloads that the `.cfg` files assign to the constants.

How code maps to steps:

- **Critical sections.** Each critical section of the code is one step. A
  mutex section is a step, and so is one PipeDo, which Redis executes
  command by command, atomically per command.
- **DoLimit locals.** A request's locals are reset when it returns or panics
  (`Finish`).
- **Hot or cold.** In the two engine modules the detector's answer is a
  free choice. `HotKeyDetector` is checked on its own, and every answer it gives
  is among those choices.
- **Store errors.** A store error is a choice bounded by `MaxStoreErrors`.
  A failing pipeline may have applied any subset of its INCRBYs.
- **Cross-slot pipelines.** On a cluster client, a pipeline with keys of
  two slots fails whole (spec 7), with nothing applied.
- **Sketch counters.** They keep their width: `Bits` stands for uint32's
  32. The add wraps modulo `2^Bits` before the code's overflow test.
- **Decay.** The code's factor 0.5 is `DecayNum/DecayDen`, with truncation.
- **uint64 subtraction.** `limitBeforeIncrease = result - hitsAddend` wraps
  below hitsAddend. `BeforeAtMost` treats the wrapped value as above every
  limit when it decides whether a verdict went from under to over.

## Runs

| Run | cfg | Expect | What it shows |
|---|---|---|---|
| batcher_counts | MCHotKeyBatcher.cfg | pass | Two waiters over two keys, another client's increment, a transient error and Stop. The counts flush() hands out (intervals `(count-hits, count]`) never overlap and lie below the counter (`CountsSerializable`). `HotKeyBatcher` refines `AtomicCounter` (`AtomicCounterRefined`): each Submit acts as an atomic INCRBY told its own count, or fails. Every waiter that submitted before Stop() is answered (`SubmittedBeforeStopAnswered`). |
| batcher_submit_after_stop | MCHotKeyBatcherHang.cfg | violation | A Submit after the final flush is never answered (`EveryWaiterAnswered`). |
| batcher_cross_slot | MCHotKeyBatcherCluster.cfg | violation | flush() sends a pipeline with keys of two cluster slots (`FlushPipelineSingleSlot`, spec 8.4). |
| engine_stop_policy | MCFixedCacheEngineStop.cfg | pass | This is the slot-grouped DoLimit under stopCacheKeyIncrementWhenOverlimit (pre-read per slot, zero hits). Two requests run over two slots, on hot and cold paths, with a transient error and another client's INCRBY that can land between the GET and the increments. Counts stay serial, and every request returns or fails (`RequestsComplete`). |
| seq_engine | MCSequentialCacheEngine.cfg | pass | The sequential DoLimit with a main and a per-second client and a batcher for each, under the stop policy. It has one transient error, which can cut a request between its two PipeDo calls, and one external INCRBY. The external INCRBY can put a key over its limit before the first request, so the second meets it in the local cache. The counts of both stores stay serial. The local over-limit cache holds only keys that are over their limit in the store they live in (`LocalCacheSound`), whichever path (pipeline or batcher) the count came from and whether or not `limitBeforeIncrease` wrapped. |
| seq_complete | MCSequentialCacheEngineLive.cfg | pass | The default policy, where every request charges its hits. Close() stops hotKeyBatcher and then perSecondBatcher at any point of two requests that share the per-second key. No key admits more requests than its limit, whether its counts come from the pipeline or from a batcher channel (`NoOverAdmission`). Every request returns, except one that submits to a batcher already stopped (`RequestsComplete`). |
| seq_stop_overadmission | MCSequentialCacheEngineOverAdmit.cfg | violation | Under the stop policy, a key that is not near its limit is not charged while another key is near. Three requests are then admitted with limit 2. |
| seq_shadow_suppression | MCSequentialCacheEngineShadow.cfg | violation | Under that policy, a shadow-mode rule in the local cache suppresses the hits of the enforced rule beside it, and that rule admits three requests with limit 2. The same workload without shadow mode passes. |
| stats_client | MCStatsCollectingClient.cfg | pass | Two goroutines share one statsCollectingClient over two keys. A GetMulti may repeat a key, a network error may return part of the items, Increments miss and Adds race. keys_found never exceeds keys_requested in any interleaving (`KeysFoundAtMostRequested`), so a hit ratio stays at most 1. The wrapper refines `MemcacheClient` (`MemcacheClientRefined`): it returns exactly what the inner client answered, partial results and sentinel errors included. |
| cms_estimate | MCCountMinSketch.cfg | pass | With colliding rows, saturation and decay, no estimate falls below what a private saturating counter of the key holds (`NeverUnderestimates`). |
| detector_hot_set | MCHotKeyDetector.cfg | pass | Two goroutines, three keys, two hot slots, decay and reset. The hot set stays within maxHotKeys (spec 8.2, `HotSetBounded`), every hot key stays on the LRU list (`HotKeysListed`), and the double-check of maybeDecay lets only one goroutine decay the sketch per interval (`DecayOncePerInterval`). |
| detector_lru_race | MCHotKeyDetectorLRU.cfg | violation | A key evicted between isHot and touchHotKey is appended to the LRU list again (`HotListMatchesSet`). |

In `StatsCollectingClient` the refinement mapping `AbsRet` takes a
caller's answer to be the inner client's from the inner call until the
wrapper returns, and what the wrapper returned after. The inner call is the
abstract step; keys_requested, the outcome counters and the return are
stutter steps. A wrapper that changed what it returns, for instance
reporting ErrNotStored as success, breaks the refinement.

The refinement mapping (`HotKeyBatcher`, `ReqOf` and `AnsOf`) works as
follows. A call takes effect at the PipeDo of its flush. Until then it is the
abstract request of its waiter, whether it sits in `pending` or in the swapped
map. From the PipeDo until the delivery loop, its answer is the value or
error that flush() is about to send. The swap and the delivery loop are
stutter steps of the abstract spec. The refinement is stronger than
`CountsSerializable`: the counts of one flush must be exactly consecutive
from the counter before the pipeline, and the answer must match the
waiter's own call.

Every property of a passing run has a mutant in `PROJECT.json`. A mutant is
an operator, defined just before the definition it replaces, that makes a
plausible bug, and the property catches it. Examples:

- the backward walk subtracting first;
- every waiter given the INCRBY reply;
- no final flush on Stop;
- the batched result never written into `results[i]`;
- a batched value received but never stored in `results[i]`;
- keys_requested counted once per GetMulti instead of len(keys);
- ErrNotStored reported as success;
- counts taken from the GET pre-read;
- a key put into the local cache when its count reaches the limit rather than passes it;
- an off-by-one in the eviction loop;
- an uncapped counter.

## Findings

1. **Cross-slot batcher pipeline** (part_004:785-793). DoLimit groups its
   pipelines by slot, but the batcher does not. On a cluster, two hot keys of
   different slots in one flush window fail the whole flush, and every
   waiter's request fails with them.
2. **Submit after Stop hangs** (part_004:747, 307). Submit does not check
   `running`. A Submit after the final flush is never flushed, and DoLimit
   waits on its channel forever. Spec section 9 says close() drains the
   pending map.
3. **Over-admission under stopCacheKeyIncrementWhenOverlimit**
   (fixed_cache_impl.go:194, part_004:206). This follows the policy of spec 4.6.4. A key whose hits
   are suppressed because another key is near its limit is not counted, yet
   its request is admitted. The guide docs/stop-cache-key-increment-guide.md
   claims the opposite: that only admitted requests are recorded.
4. **Sequential pipelines cross slots** (fixed_cache_impl.go:147-155,
   218-237). This one is stated as `PipelinesSingleSlot` in
   `SequentialCacheEngine`; a cluster configuration with one request over
   keys of two slots violates it in 5 states, but that run is not among
   the project's runs (the number of runs is capped, and finding 1 shows
   the same divergence of spec 4.4 in flush()). The sequential DoLimit puts every key of a client into one GET
   pipeline and one INCRBY pipeline. Spec 4.4 forbids keys of two slots in
   one pipeline, and spec 7 says a cluster rejects such a pipeline. On a
   cluster client, every request whose keys span two slots therefore fails.
   The part_004 variant groups its pipelines by slot.
5. **LRU list race in the detector** (part_004:466-468). An evicted key is
   re-appended by touchHotKey. The list then holds keys that are not hot and
   duplicates, later evictions remove more keys than needed, and the hot set
   runs below its capacity. The bound |H| <= maxHotKeys still holds.

6. **A shadow rule suppresses counting of enforced rules**
   (fixed_cache_impl.go:121-130, 194; part_004:128-136, 206). The local-cache check sets isCacheKeyOverlimit
   for a shadow-mode rule too. Under stopCacheKeyIncrementWhenOverlimit,
   every other key of the request then gets hitsAddend 0. The shadow
   descriptor reports OK, so the request is admitted, and its enforced rules
   are never charged. The spec presents shadow mode as a dry run that only
   changes the reported code (section 8, invariant 7, and the glossary).

Spec 8.1 states, without qualification, that the sketch's estimate is at
least the true count. The code caps a counter at 0xFFFFFFFF (part_005:81),
so past 2^32-1 increments of one cell within a decay interval the estimate
falls below the true count. `NeverUnderestimates` states the invariant
that does hold, up to the cap. This needs a cell to saturate, which is
out of reach in practice.

`limitBeforeIncrease := limitAfterIncrease - hitsAddends[i]`
(fixed_cache_impl.go:258, part_004:320) wraps around in uint64 when the
stop policy sent 0 hits for a key whose count is below the request's
hitsAddend. `BeforeAtMost` models the wrap. It only suppresses the
local-cache insertion of a key this request did not take over its limit,
which spec 4.6.5 does not ask for either, so no verdict changes.
`LocalCacheSound` in seq_engine checks that the local cache stays sound
with the wrap in place; since the wrap can only suppress an insertion, no
property can catch it going wrong, and the hazard is listed without one.

## Bounds, and why they are enough

- **Batcher.** Two or three waiters with hits in {1, 2}, two keys (in two
  slots for the cluster case), one external increment and one transient
  error. Two waiters are enough for two calls in one flush, on one key or
  on two, and for a Submit that lands between a swap and its delivery. This
  covers waiters arriving before, during and after a swap; several waiters
  per key; an interleaved foreign increment; a failing flush; and Stop
  racing Submit.
- **Engines.** Passing runs use two requests over two keys, with limit 1,
  so the second request on a key is denied. With limit 1 and
  near_limit_ratio 100% every key is near from its first hit, so the stop
  policy's suppression of a key that is not near never reaches an admitted
  request there; `NoOverAdmission` is therefore checked only under the
  default policy (seq_complete), and the runs that let the suppression
  happen (limit 2, a key near from its first hit beside one that is not)
  find it violated (findings 3 and 6). Each key is reached by both the
  hot and the cold path. There is an empty cache key, one store error and
  one external increment. The external increment lets a key be over its
  limit before the first request, so the other request meets it in the
  local cache. In the sequential variant, one key belongs to the main
  client and one to the per-second client. The sequential safety run has
  no Close(). The liveness run has Close() but no errors or external
  increments: with both, the state space of two batchers exceeds what TLC
  explores in minutes. Store errors under liveness are checked by
  engine_stop_policy. The violation runs use three requests. The
  over-admission run uses a key whose first hit is already near its limit. The shadow run gives every request an enforced and a
  shadow rule, near from their first hit, so only the local cache can
  suppress hits. It leaves the hot path off, since the hot path plays no
  part in the suppression.
- **Sketch.** Two rows of two columns for three keys, so every key collides
  in one row. Counters are 2-bit and saturate at 3. There are six operations.
- **Memcached client.** Two goroutines, two keys, values up to 2, one
  network error and five calls. This is enough for a GetMulti of each
  goroutine to straddle the other's, for an Add to race another Add of the
  same key (not stored), for an Increment of a missing key, and for a
  partial GetMulti after both keys are stored.
- **Detector.** Two goroutines, threshold 2, two hot slots for three keys,
  seven accesses, one decay interval and one reset. Each key can go cold,
  then hot, be evicted, and go cold again after decay. The LRU race needs
  only one slot and three accesses.

All runs finish in well under five minutes. Deadlock checking is off where a
behaviour legitimately ends: the bounded workloads finish, and the batcher
exits after Stop.

## Fairness

- **Flush goroutine.** It is weakly fair: the ticker fires every flushWindow,
  and `select` on a ready channel does not starve it.
- **Waiters and requests.** A blocked receiver is weakly fair, and so is each
  request's goroutine. Go schedules every runnable goroutine eventually.
- **No fairness elsewhere.** There is none on Submit, Stop or other clients:
  callers may stop calling.

## Not modelled

- **Per-second client in the slot-grouped variant.** It is the same code
  path as the main client's. It is modelled in the sequential variant
  (`SequentialCacheEngine`), together with `Close()`.
- **EXPIRE, expiration jitter and window roll-over.** No property depends on
  a TTL.
- **Local cache capacity.** Its eviction and its deadline are not modelled.
  All counts live in one window, so `LocalCacheSound` is a statement about
  one window: the entry's TTL and the key's EXPIRE end together.
- **`Flush()` of the sequential engine** (fixed_cache_impl.go:268-276). It is
  a no-op (spec.md notes its intent is unclear), so it would be a stutter step.
- **Redirect handling and connection pools of the driver.**
- **BaseRateLimiter's statistics.**
- **Construction from settings.** It only wires the configuration together
  (the sequential constructor is `SequentialCacheEngine`'s `Init`).
- **Metrics.** These only report.
- **src/src/server/server.go.** It declares an interface and has no code.
- **The memcached cache that uses the stats client.** It is not in the
  sources; `MemcacheClient` states the client contract it relies on.

## Plan

1. **Abstract limiter and refinement of the engines.** The batcher
   refines `AtomicCounter`. Still to do: an abstract per-window limiter
   (admit while count <= limit), with the engines checked against it under
   the default policy.

The backward walk of flush() is checked by `AtomicCounterRefined`. That
property demands spec 8.3's closed form, `results[i] = v + sum_{j<=i}
hits_j`, on every flush the model reaches, so no separate reference check is
kept.
