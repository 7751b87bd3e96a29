--------------------------- MODULE HotKeyDetector ---------------------------
(***************************************************************************)
(* The hot-key detector (HotKeyDetector, src/unnamed/part_004 lines       *)
(* 389-634) called concurrently by the request goroutines of DoLimit.     *)
(*                                                                         *)
(* RecordAccess takes d.mu and the sketch's lock several times, never     *)
(* across the whole call: maybeDecay reads lastDecayTime under the read   *)
(* lock, double-checks and updates it under the write lock, decays the    *)
(* sketch under its own lock and cleans the hot set under d.mu; then the  *)
(* sketch is incremented, isHot reads the hot set under the read lock,    *)
(* and touchHotKey or promoteToHot update it under the write lock.  Each  *)
(* of these critical sections is one step of the calling thread.         *)
(*                                                                         *)
(* Wall-clock time enters only through "decayInterval has elapsed since  *)
(* lastDecayTime": decayDue, set by Tick.                                  *)
(***************************************************************************)
EXTENDS Naturals, Sequences, SequencesExt, FiniteSets

CONSTANTS
    Keys, Depth, Width, Hash(_, _), Bits, DecayNum, DecayDen,
    Threads,         \* goroutines calling RecordAccess
    Deltas,          \* 1 for RecordAccess, delta for RecordAccessWithDelta
    HotThreshold,    \* d.hotThreshold
    MaxHotKeys,      \* d.maxHotKeys
    MaxAccesses,     \* bound on RecordAccess calls of a behaviour
    MaxDecays,       \* bound on decay intervals elapsing
    MaxResets        \* bound on Reset calls

ASSUME MaxHotKeys >= 1 /\ HotThreshold >= 1   \* NewHotKeyDetector defaults

VARIABLES
    cms,           \* d.cms.counters
    hotKeys,       \* d.hotKeys
    hotKeysList,   \* d.hotKeysList, least recently used first
    decayDue,      \* time.Since(d.lastDecayTime) >= d.decayInterval
    tpc,           \* thread -> where it is in RecordAccess
    tkey,          \* thread -> the key of its call
    tdelta,        \* thread -> the delta of its call
    tcount,        \* thread -> count returned by cms.Increment
    nAccess, nDecays, nResets,
    nSketchDecays  \* history: calls of d.cms.Decay so far

vars == <<cms, hotKeys, hotKeysList, decayDue, tpc, tkey, tdelta, tcount,
          nAccess, nDecays, nResets, nSketchDecays>>

\* The sketch's operators; its own variables are not used here.
C == INSTANCE CountMinSketch WITH counters <- cms, MaxOps <- 0,
        satCount <- [k \in Keys |-> 0],
        nOps <- 0

tvars == <<tpc, tkey, tdelta, tcount>>

-----------------------------------------------------------------------------
Init ==
    /\ cms = [r \in C!Rows |-> [j \in C!Cols |-> 0]]
    /\ hotKeys = {}
    /\ hotKeysList = <<>>
    /\ decayDue = FALSE
    /\ tpc = [t \in Threads |-> "idle"]
    /\ tkey = [t \in Threads |-> CHOOSE k \in Keys : TRUE]
    /\ tdelta = [t \in Threads |-> 0]
    /\ tcount = [t \in Threads |-> 0]
    /\ nAccess = 0 /\ nDecays = 0 /\ nResets = 0
    /\ nSketchDecays = 0

\* decayInterval passes since lastDecayTime.
Tick ==
    /\ ~decayDue
    /\ nDecays < MaxDecays
    /\ decayDue' = TRUE
    /\ nDecays' = nDecays + 1
    /\ UNCHANGED <<cms, hotKeys, hotKeysList, tvars, nAccess, nResets, nSketchDecays>>

\* RecordAccess(key) / RecordAccessWithDelta(key, delta): maybeDecay's
\* first check, under d.mu.RLock.
Begin(t, k, d) ==
    /\ tpc[t] = "idle"
    /\ nAccess < MaxAccesses
    /\ tkey' = [tkey EXCEPT ![t] = k]
    /\ tdelta' = [tdelta EXCEPT ![t] = d]
    /\ tpc' = [tpc EXCEPT ![t] = IF decayDue THEN "decayLock" ELSE "incr"]
    /\ nAccess' = nAccess + 1
    /\ UNCHANGED <<cms, hotKeys, hotKeysList, decayDue, tcount, nDecays,
                   nResets, nSketchDecays>>

\* Mutant: the double-check is dropped; every thread that saw the
\* deadline passed goes on to decay.
DecayLockNoRecheck(t) ==
    /\ tpc[t] = "decayLock"
    /\ tpc' = [tpc EXCEPT ![t] = "decay"]
    /\ decayDue' = FALSE
    /\ UNCHANGED <<cms, hotKeys, hotKeysList, tkey, tdelta, tcount, nAccess,
                   nDecays, nResets, nSketchDecays>>

\* maybeDecay's double-check under d.mu.Lock: the first thread past the
\* deadline moves lastDecayTime and goes on to decay.
DecayLock(t) ==
    /\ tpc[t] = "decayLock"
    /\ tpc' = [tpc EXCEPT ![t] = IF decayDue THEN "decay" ELSE "incr"]
    /\ decayDue' = FALSE
    /\ UNCHANGED <<cms, hotKeys, hotKeysList, tkey, tdelta, tcount, nAccess,
                   nDecays, nResets, nSketchDecays>>

\* d.cms.Decay(d.decayFactor), under the sketch's lock only.
DecaySketch(t) ==
    /\ tpc[t] = "decay"
    /\ cms' = IF C!DecayApplies THEN C!DecayedAll(cms) ELSE cms
    /\ tpc' = [tpc EXCEPT ![t] = "cleanup"]
    /\ nSketchDecays' = nSketchDecays + 1
    /\ UNCHANGED <<hotKeys, hotKeysList, decayDue, tkey, tdelta, tcount,
                   nAccess, nDecays, nResets>>

\* Mutant: a cold key leaves the list but is not deleted from hotKeys.
CleanupColdKeysNoDelete(t) ==
    /\ tpc[t] = "cleanup"
    /\ hotKeysList' = SelectSeq(hotKeysList,
                         LAMBDA k : C!EstimateIn(cms, k) >= HotThreshold)
    /\ tpc' = [tpc EXCEPT ![t] = "incr"]
    /\ UNCHANGED <<cms, hotKeys, decayDue, tkey, tdelta, tcount, nAccess,
                   nDecays, nResets, nSketchDecays>>

\* cleanupColdKeys, under d.mu: keep the listed keys whose estimate is
\* still at the threshold, delete the others from hotKeys.
CleanupColdKeys(t) ==
    LET cold == {hotKeysList[i] : i \in {i \in 1..Len(hotKeysList) :
                    C!EstimateIn(cms, hotKeysList[i]) < HotThreshold}}
    IN
    /\ tpc[t] = "cleanup"
    /\ hotKeysList' = SelectSeq(hotKeysList,
                         LAMBDA k : C!EstimateIn(cms, k) >= HotThreshold)
    /\ hotKeys' = hotKeys \ cold
    /\ tpc' = [tpc EXCEPT ![t] = "incr"]
    /\ UNCHANGED <<cms, decayDue, tkey, tdelta, tcount, nAccess, nDecays,
                   nResets, nSketchDecays>>

\* count := d.cms.Increment(key, delta), under the sketch's lock.
Increment(t) ==
    /\ tpc[t] = "incr"
    /\ tcount' = [tcount EXCEPT ![t] = C!IncrementResult(cms, tkey[t], tdelta[t])]
    /\ cms' = C!Incremented(cms, tkey[t], tdelta[t])
    /\ tpc' = [tpc EXCEPT ![t] = "isHot"]
    /\ UNCHANGED <<hotKeys, hotKeysList, decayDue, tkey, tdelta, nAccess,
                   nDecays, nResets, nSketchDecays>>

\* isHot(key) under d.mu.RLock, then the choice: touch a hot key, promote
\* a key whose count reached the threshold, or return false.
IsHot(t) ==
    /\ tpc[t] = "isHot"
    /\ tpc' = [tpc EXCEPT ![t] =
                 IF tkey[t] \in hotKeys THEN "touch"
                 ELSE IF tcount[t] >= HotThreshold THEN "promote"
                 ELSE "idle"]
    /\ UNCHANGED <<cms, hotKeys, hotKeysList, decayDue, tkey, tdelta, tcount,
                   nAccess, nDecays, nResets, nSketchDecays>>

\* touchHotKey, under d.mu: remove the first occurrence and append.
TouchHotKey(t) ==
    /\ tpc[t] = "touch"
    /\ hotKeysList' = Append(RemoveFirst(hotKeysList, tkey[t]), tkey[t])
    /\ tpc' = [tpc EXCEPT ![t] = "idle"]
    /\ UNCHANGED <<cms, hotKeys, decayDue, tkey, tdelta, tcount, nAccess,
                   nDecays, nResets, nSketchDecays>>

\* The number of entries the eviction loop of promoteToHot removes from
\* the front of a list of length n: while len >= maxHotKeys, evict one.
\* Mutant: the loop evicts only while len > maxHotKeys.
EvictCountOffByOne(n) == IF n > MaxHotKeys THEN n - MaxHotKeys ELSE 0

EvictCount(n) == IF n >= MaxHotKeys THEN n - MaxHotKeys + 1 ELSE 0

\* promoteToHot, under d.mu: double-check, evict from the front of the
\* list (deleting each evicted key from hotKeys), then add the key.
PromoteToHot(t) ==
    LET k == tkey[t]
        n == EvictCount(Len(hotKeysList))
        evicted == {hotKeysList[i] : i \in 1..n}
    IN
    /\ tpc[t] = "promote"
    /\ IF k \in hotKeys
       THEN UNCHANGED <<hotKeys, hotKeysList>>
       ELSE /\ hotKeysList' = Append(SubSeq(hotKeysList, n + 1, Len(hotKeysList)), k)
            /\ hotKeys' = (hotKeys \ evicted) \cup {k}
    /\ tpc' = [tpc EXCEPT ![t] = "idle"]
    /\ UNCHANGED <<cms, decayDue, tkey, tdelta, tcount, nAccess, nDecays,
                   nResets, nSketchDecays>>

\* Reset(), under d.mu: clear the sketch and the hot set, restart the
\* decay interval.
Reset ==
    /\ nResets < MaxResets
    /\ cms' = [r \in C!Rows |-> [j \in C!Cols |-> 0]]
    /\ hotKeys' = {}
    /\ hotKeysList' = <<>>
    /\ decayDue' = FALSE
    /\ nResets' = nResets + 1
    /\ UNCHANGED <<tvars, nAccess, nDecays, nSketchDecays>>

-----------------------------------------------------------------------------
Step(t) ==
    \/ \E k \in Keys, d \in Deltas : Begin(t, k, d)
    \/ DecayLock(t) \/ DecaySketch(t) \/ CleanupColdKeys(t)
    \/ Increment(t) \/ IsHot(t) \/ TouchHotKey(t) \/ PromoteToHot(t)

Next ==
    \/ \E t \in Threads : Step(t)
    \/ Tick
    \/ Reset

Spec == Init /\ [][Next]_vars

-----------------------------------------------------------------------------
Phases == {"idle", "decayLock", "decay", "cleanup", "incr", "isHot",
           "touch", "promote"}

TypeOK ==
    /\ cms \in [C!Rows -> [C!Cols -> 0..C!CounterMax]]
    /\ hotKeys \subseteq Keys
    /\ hotKeysList \in Seq(Keys)
    /\ decayDue \in BOOLEAN
    /\ tpc \in [Threads -> Phases] /\ tkey \in [Threads -> Keys]
    /\ tdelta \in [Threads -> {0} \cup Deltas]
    /\ tcount \in [Threads -> 0..C!CounterMax]
    /\ nAccess \in 0..MaxAccesses /\ nDecays \in 0..MaxDecays
    /\ nResets \in 0..MaxResets /\ nSketchDecays \in Nat

(* Spec section 8, invariant 2: the hot set never holds more than          *)
(* maxHotKeys keys, whatever the interleaving of promotions, touches and   *)
(* cleanups.  promoteToHot bounds the list, not the set, so this needs     *)
(* every hot key to be on the list as well.                                *)
HotSetBounded == Cardinality(hotKeys) <= MaxHotKeys

(* Every hot key has an entry in the LRU list, so LRU eviction and the      *)
(* cleanup walk, which both go through the list, can reach it.             *)
HotKeysListed == hotKeys \subseteq ToSet(hotKeysList)

(* The LRU list orders exactly the hot set (spec 3: "a bounded set H with  *)
(* insertion-order/LRU tracking"): no key on it twice, none that is not    *)
(* hot.                                                                    *)
HotListMatchesSet ==
    /\ ToSet(hotKeysList) = hotKeys
    /\ Len(hotKeysList) = Cardinality(hotKeys)

(* The sketch is decayed at most once per elapsed decayInterval, however   *)
(* many goroutines see the deadline pass at once in maybeDecay: the check  *)
(* under the read lock and the one under the write lock are separate      *)
(* critical sections, and only the second may let a goroutine decay.      *)
DecayOncePerInterval == nSketchDecays <= nDecays
=============================================================================
