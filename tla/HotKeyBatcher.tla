--------------------------- MODULE HotKeyBatcher ---------------------------
(***************************************************************************)
(* The hot-key micro-batcher (HotKeyBatcher, src/unnamed/part_004 lines   *)
(* 636-862) together with the Redis counters it increments.               *)
(*                                                                         *)
(* Submitters append a waiter to the pending entry of a key under the     *)
(* batcher mutex.  A single flush goroutine, woken by the ticker or by    *)
(* the closed stop channel, swaps the pending map for an empty one,       *)
(* sends one pipeline of INCRBY/EXPIRE for every swapped key, and hands   *)
(* every waiter its own post-increment count by walking the waiters of a  *)
(* key backwards from the final count.  Other limiter replicas (and the   *)
(* cold path) increment the same counters concurrently.                   *)
(*                                                                         *)
(* EXPIRE and the expiration seconds are not modelled: no property here   *)
(* depends on a TTL (no key expires within one window).                   *)
(***************************************************************************)
EXTENDS Naturals, Sequences, SequencesExt, FiniteSets

CONSTANTS
    Keys,             \* counter keys of one window
    W,                \* result channels (one per Submit call)
    Hits,             \* hitsAddend values a caller may submit
    SlotOf(_),        \* GetSlot: key -> cluster slot
    IsCluster,        \* the client is a Redis Cluster client
    MaxExternal,      \* bound on increments by other clients
    MaxStoreErrors    \* bound on transient PipeDo failures

ASSUME Hits \subseteq Nat /\ MaxExternal \in Nat /\ MaxStoreErrors \in Nat

VARIABLES
    store,        \* Redis: key -> counter value
    pending,      \* b.pending: key -> [totalHits, waiters]
    toFlush,      \* the map swapped out by the running flush()
    flushErr,     \* the error returned by PipeDo in the running flush()
    final,        \* the INCRBY replies of the running flush(): key -> count
    fpc,          \* flush goroutine: "idle" | "exec" | "deliver" | "exited"
    exiting,      \* the running flush() is the final one (stop channel case)
    running,      \* b.running
    stopClosed,   \* b.stopChan has been closed
    inbox,        \* the buffered result channel of every waiter
    wst,          \* waiter: "idle" | "waiting" | "done"
    late,         \* the waiter submitted after Stop cleared b.running
    hist,         \* history: every counter interval (lo, hi] handed out, by whom
    nExternal,    \* increments done by other clients so far
    nErrors       \* transient store errors so far

vars == <<store, pending, toFlush, flushErr, final, fpc, exiting, running,
          stopClosed, inbox, wst, late, hist, nExternal, nErrors>>

NoResult == [kind |-> "none"]
ErrResult == [kind |-> "err"]
ValResult(v) == [kind |-> "val", val |-> v]

\* An absent map entry; a present one always has at least one waiter.
Absent == [totalHits |-> 0, waiters |-> <<>>]
EmptyMap == [k \in Keys |-> Absent]
PendingKeys(m) == {k \in Keys : m[k].waiters # <<>>}

-----------------------------------------------------------------------------
(* The per-waiter result computation of flush(): walking the waiters      *)
(* backwards from finalCount, each one gets the running count and then    *)
(* its hitsAddend is subtracted.                                          *)
RECURSIVE WalkBack(_, _, _)
WalkBack(ws, i, runningCount) ==
    IF i = 0 THEN <<>>
    ELSE Append(WalkBack(ws, i - 1, runningCount - ws[i].hits), runningCount)

\* Mutant: the hitsAddend is subtracted before the count is handed out.
WaiterResultsSubtractFirst(ws, finalCount) ==
    WalkBack(ws, Len(ws), finalCount - ws[Len(ws)].hits)

\* Mutant: every waiter of a key is handed the INCRBY reply itself.
WaiterResultsAllFinal(ws, finalCount) == [i \in 1..Len(ws) |-> finalCount]

WaiterResults(ws, finalCount) == WalkBack(ws, Len(ws), finalCount)

\* The keys of one pipeline live in one slot (otherwise Redis Cluster
\* answers CROSSSLOT and the whole pipeline fails).
SingleSlot(ks) == \A k1, k2 \in ks : SlotOf(k1) = SlotOf(k2)

-----------------------------------------------------------------------------
Init ==
    /\ store = [k \in Keys |-> 0]
    /\ pending = EmptyMap
    /\ toFlush = EmptyMap
    /\ flushErr = FALSE
    /\ final = [k \in Keys |-> 0]
    /\ fpc = "idle"
    /\ exiting = FALSE
    /\ running = TRUE                 \* NewFixedRateLimitCacheImpl calls Start()
    /\ stopClosed = FALSE
    /\ inbox = [w \in W |-> NoResult]
    /\ wst = [w \in W |-> "idle"]
    /\ late = [w \in W |-> FALSE]
    /\ hist = {}
    /\ nExternal = 0
    /\ nErrors = 0

\* Submit(key, hitsAddend, expirationSeconds), under b.mu.
Submit(w, k, h) ==
    /\ wst[w] = "idle"
    /\ pending' = [pending EXCEPT
                     ![k].totalHits = @ + h,
                     ![k].waiters = Append(@, [w |-> w, hits |-> h])]
    /\ wst' = [wst EXCEPT ![w] = "waiting"]
    /\ late' = [late EXCEPT ![w] = ~running]
    /\ UNCHANGED <<store, toFlush, flushErr, final, fpc, exiting, running,
                   stopClosed, inbox, hist, nExternal, nErrors>>

\* The caller blocks on <-resultChan (no context case in DoLimit).
Receive(w) ==
    /\ wst[w] = "waiting"
    /\ inbox[w] # NoResult
    /\ wst' = [wst EXCEPT ![w] = "done"]
    /\ inbox' = [inbox EXCEPT ![w] = NoResult]     \* drained and closed
    /\ UNCHANGED <<store, pending, toFlush, flushErr, final, fpc, exiting,
                   running, stopClosed, late, hist, nExternal, nErrors>>

\* An INCRBY k 1 by another replica, outside the batcher.
ExternalIncr(k) ==
    /\ nExternal < MaxExternal
    /\ store' = [store EXCEPT ![k] = @ + 1]
    /\ hist' = hist \cup {[who |-> <<"ext", nExternal>>, key |-> k,
                            lo |-> store[k], hi |-> store[k] + 1]}
    /\ nExternal' = nExternal + 1
    /\ UNCHANGED <<pending, toFlush, flushErr, final, fpc, exiting, running,
                   stopClosed, inbox, wst, late, nErrors>>

\* Mutant: the stop channel case returns without the final flush.
FlushSwapNoFinalFlush ==
    /\ fpc = "idle"
    /\ \/ /\ stopClosed
          /\ fpc' = "exited"
          /\ UNCHANGED <<pending, toFlush, exiting>>
       \/ /\ PendingKeys(pending) # {}
          /\ toFlush' = pending
          /\ pending' = EmptyMap
          /\ exiting' = FALSE
          /\ fpc' = "exec"
    /\ UNCHANGED <<store, flushErr, final, running, stopClosed, inbox, wst,
                   late, hist, nExternal, nErrors>>

\* flushLoop selects the ticker or, once closed, the stop channel, and
\* flush() swaps the pending map under b.mu.  An empty map makes flush()
\* return at once: a no-op on a tick, the end of the loop on stop.
FlushSwap ==
    /\ fpc = "idle"
    /\ \E final_ \in {FALSE} \cup (IF stopClosed THEN {TRUE} ELSE {}) :
          IF PendingKeys(pending) = {}
          THEN /\ final_
               /\ fpc' = "exited"
               /\ UNCHANGED <<pending, toFlush, exiting>>
          ELSE /\ toFlush' = pending
               /\ pending' = EmptyMap
               /\ exiting' = final_
               /\ fpc' = "exec"
    /\ UNCHANGED <<store, flushErr, final, running, stopClosed, inbox, wst,
                   late, hist, nExternal, nErrors>>

\* PipeDo of the one pipeline holding INCRBY+EXPIRE for every swapped key.
\* Success applies every INCRBY; a cross-slot pipeline on a cluster fails
\* as a whole; a transient error may leave any subset applied.
FlushExec ==
    LET ks == PendingKeys(toFlush)
        applied(S) == [k \in Keys |->
                         IF k \in S THEN store[k] + toFlush[k].totalHits
                         ELSE store[k]]
    IN
    /\ fpc = "exec"
    /\ \/ /\ IsCluster => SingleSlot(ks)
          /\ store' = applied(ks)
          /\ final' = applied(ks)
          /\ flushErr' = FALSE
          /\ UNCHANGED nErrors
       \/ /\ IsCluster /\ ~SingleSlot(ks)
          /\ flushErr' = TRUE
          /\ UNCHANGED <<store, final, nErrors>>
       \/ /\ nErrors < MaxStoreErrors
          /\ \E S \in SUBSET ks : store' = applied(S)
          /\ flushErr' = TRUE
          /\ nErrors' = nErrors + 1
          /\ UNCHANGED final
    /\ fpc' = "deliver"
    /\ UNCHANGED <<pending, toFlush, exiting, running, stopClosed, inbox,
                   wst, late, hist, nExternal>>

\* The per-waiter intervals (count - hitsAddend, count] of one key.
Delivered(k) ==
    LET ws == toFlush[k].waiters
        rs == WaiterResults(ws, final[k])
    IN {[who |-> ws[i].w, key |-> k, lo |-> rs[i] - ws[i].hits, hi |-> rs[i]] :
           i \in 1..Len(ws)}

\* Mutant: on a PipeDo error the waiters are skipped, not told.
FlushDeliverDropErrors ==
    LET ks == PendingKeys(toFlush)
        out == UNION {Delivered(k) : k \in ks}
    IN
    /\ fpc = "deliver"
    /\ IF flushErr
       THEN UNCHANGED <<inbox, hist>>
       ELSE /\ inbox' = [w \in W |->
                           IF \E d \in out : d.who = w
                           THEN ValResult((CHOOSE d \in out : d.who = w).hi)
                           ELSE inbox[w]]
            /\ hist' = hist \cup out
    /\ toFlush' = EmptyMap
    /\ flushErr' = FALSE
    /\ final' = [k \in Keys |-> 0]
    /\ fpc' = IF exiting THEN "exited" ELSE "idle"
    /\ UNCHANGED <<store, pending, exiting, running,
                   stopClosed, wst, late, nExternal, nErrors>>

\* The delivery loop of flush(): every waiter of the swapped map gets the
\* error, or its own count from WaiterResults.
FlushDeliver ==
    LET ks == PendingKeys(toFlush)
        out == UNION {Delivered(k) : k \in ks}
    IN
    /\ fpc = "deliver"
    /\ IF flushErr
       THEN /\ inbox' = [w \in W |->
                           IF \E k \in ks : \E i \in 1..Len(toFlush[k].waiters) :
                                 toFlush[k].waiters[i].w = w
                           THEN ErrResult ELSE inbox[w]]
            /\ UNCHANGED hist
       ELSE /\ inbox' = [w \in W |->
                           IF \E d \in out : d.who = w
                           THEN ValResult((CHOOSE d \in out : d.who = w).hi)
                           ELSE inbox[w]]
            /\ hist' = hist \cup out
    /\ toFlush' = EmptyMap
    /\ flushErr' = FALSE
    /\ final' = [k \in Keys |-> 0]
    /\ fpc' = IF exiting THEN "exited" ELSE "idle"
    /\ UNCHANGED <<store, pending, exiting, running,
                   stopClosed, wst, late, nExternal, nErrors>>

\* Stop(): clear b.running under b.mu, then close(b.stopChan).  A second
\* Stop returns at once.
Stop ==
    /\ running
    /\ running' = FALSE
    /\ stopClosed' = TRUE
    /\ UNCHANGED <<store, pending, toFlush, flushErr, final, fpc, exiting,
                   inbox, wst, late, hist, nExternal, nErrors>>

-----------------------------------------------------------------------------
Flusher == FlushSwap \/ FlushExec \/ FlushDeliver

Next ==
    \/ \E w \in W, k \in Keys, h \in Hits : Submit(w, k, h)
    \/ \E w \in W : Receive(w)
    \/ \E k \in Keys : ExternalIncr(k)
    \/ Flusher
    \/ Stop

\* The ticker fires every flushWindow, so the flush goroutine is never
\* starved; a blocked receiver is woken when its channel holds a value.
Fairness ==
    /\ WF_vars(Flusher)
    /\ \A w \in W : WF_vars(Receive(w))

Spec == Init /\ [][Next]_vars /\ Fairness

-----------------------------------------------------------------------------
Waiter == [w : W, hits : Nat]     \* the engine submits 0 when it suppresses hits
Entry == [totalHits : Nat, waiters : Seq(Waiter)]
IsResult(r) == r \in {NoResult, ErrResult} \/ (r.kind = "val" /\ r.val \in Nat)

TypeOK ==
    /\ store \in [Keys -> Nat]
    /\ pending \in [Keys -> Entry] /\ toFlush \in [Keys -> Entry]
    /\ flushErr \in BOOLEAN /\ final \in [Keys -> Nat]
    /\ fpc \in {"idle", "exec", "deliver", "exited"}
    /\ {exiting, running, stopClosed} \subseteq BOOLEAN
    /\ \A w \in W : IsResult(inbox[w])
    /\ wst \in [W -> {"idle", "waiting", "done"}] /\ late \in [W -> BOOLEAN]
    /\ \A d \in hist : d.key \in Keys /\ d.lo \in Nat /\ d.hi \in Nat
    /\ nExternal \in 0..MaxExternal /\ nErrors \in 0..MaxStoreErrors

(* The counts handed out by flush() are those of some serial execution of  *)
(* the single increments: for one key, the intervals (count - hitsAddend,  *)
(* count] that waiters and other clients were told about never overlap,   *)
(* and each lies below the counter.  This is what DoLimit relies on when   *)
(* it computes limitBeforeIncrease = result - hitsAddend per waiter; it    *)
(* depends on the swap under b.mu, on totalHits aggregation and on the     *)
(* backward walk of flush() all being right at once.                      *)
CountsSerializable ==
    \A d, e \in hist :
        /\ d.hi <= store[d.key]
        /\ (d # e /\ d.key = e.key) => (d.hi <= e.lo \/ e.hi <= d.lo)

(* Every pipeline flush() sends on a cluster client holds keys of one slot *)
(* (spec section 8, invariant 4).                                          *)
FlushPipelineSingleSlot ==
    (IsCluster /\ fpc = "exec") => SingleSlot(PendingKeys(toFlush))

(* A waiter that submitted before Stop() is eventually answered: the final *)
(* flush of flushLoop drains everything submitted until then.             *)
SubmittedBeforeStopAnswered ==
    \A w \in W : (wst[w] = "waiting" /\ ~late[w]) ~> (wst[w] = "done")

(* Every waiter is eventually answered, whenever it submitted (the spec:   *)
(* close() stops the worker and drains the pending map).                   *)
EveryWaiterAnswered ==
    \A w \in W : (wst[w] = "waiting") ~> (wst[w] = "done")

-----------------------------------------------------------------------------
(* Refinement mapping onto AtomicCounter.  A call takes effect when the    *)
(* PipeDo of its flush returns: from then on until the delivery loop has    *)
(* run, its answer is the one flush() is about to send.                    *)
Entries(m) ==
    UNION {{[w |-> e.w, key |-> k, hits |-> e.hits] : e \in ToSet(m[k].waiters)} :
             k \in Keys}

InFlight(w) == fpc = "deliver" /\ w \in {e.w : e \in Entries(toFlush)}

ReqOf(w) ==
    LET es == {e \in Entries(pending) \cup
                   (IF fpc = "exec" THEN Entries(toFlush) ELSE {}) : e.w = w}
    IN IF es = {} THEN [key |-> "none"]
       ELSE LET e == CHOOSE e \in es : TRUE IN [key |-> e.key, hits |-> e.hits]

AnsOf(w) ==
    IF ~InFlight(w) THEN inbox[w]
    ELSE IF flushErr THEN ErrResult
    ELSE ValResult((CHOOSE d \in UNION {Delivered(k) : k \in Keys} : d.who = w).hi)

Abs == INSTANCE AtomicCounter WITH counter <- store,
          req <- [w \in W |-> ReqOf(w)], ans <- [w \in W |-> AnsOf(w)], st <- wst

(* The batcher implements AtomicCounter: every Submit behaves as one       *)
(* atomic INCRBY whose caller is told the counter right after its own      *)
(* increment, or fails.  Swapping under b.mu, summing totalHits, the one   *)
(* INCRBY per key and the backward walk of flush() must together produce   *)
(* exactly the answers of some serial order of the calls of the flush.     *)
AtomicCounterRefined == Abs!Spec
=============================================================================
