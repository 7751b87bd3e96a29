--------------------------- MODULE CountMinSketch ---------------------------
(***************************************************************************)
(* The Count-Min Sketch of the hot-key detector (src/unnamed/part_005).   *)
(*                                                                         *)
(* Depth rows of Width uint32 counters.  Every operation holds cms.mu for *)
(* its whole length, so each one is a single atomic step.  The xxhash of  *)
(* (seed of the row, key) is the constant function Hash; the counters    *)
(* keep their width: Bits stands for the 32 of uint32, and the increment *)
(* wraps modulo 2^Bits before the code's overflow test catches it.       *)
(*                                                                         *)
(* satCount is a history variable: what one private uint32 counter of    *)
(* each key would hold, decayed by the same factor as the counters.       *)
(***************************************************************************)
EXTENDS Naturals, FiniteSetsExt

CONSTANTS
    Keys,            \* keys that are counted
    Depth,           \* cms.depth (NewCountMinSketch clamps it to 2..8)
    Width,           \* cms.width
    Hash(_, _),      \* Hash(row, key) \in 0..Width-1: cms.hash(key, seeds[row])
    Bits,            \* counter width in bits (32 in the code)
    Deltas,          \* the deltas callers pass to Increment
    DecayNum,        \* the decay factor is DecayNum / DecayDen
    DecayDen,
    MaxOps           \* bound on the number of operations of a behaviour

ASSUME Depth >= 1 /\ Width >= 1 /\ Bits >= 1 /\ DecayDen >= 1
ASSUME \A r \in 1..Depth, k \in Keys : Hash(r, k) \in 0..(Width - 1)

VARIABLES
    counters,    \* cms.counters: row -> column -> count
    satCount,    \* history: key -> the same count in one saturating counter
    nOps         \* operations so far

vars == <<counters, satCount, nOps>>

Rows == 1..Depth
Cols == 0..(Width - 1)
CounterMax == 2^Bits - 1                 \* 0xFFFFFFFF

\* Mutant: the overflow test is dropped and the counter wraps.
SaturatingAddNoTest(c, d) == (c + d) % (CounterMax + 1)

\* One counter plus delta in uint32 arithmetic, with the code's test for
\* a wrap-around: newVal < old means it overflowed, and it is capped.
SaturatingAdd(c, d) ==
    LET newVal == (c + d) % (CounterMax + 1)
    IN IF newVal < c THEN CounterMax ELSE newVal

\* Mutant: the counters are added to without the uint32 width.
IncrementedUnbounded(cs, k, d) ==
    [r \in Rows |-> [cs[r] EXCEPT ![Hash(r, k)] = @ + d]]

\* The counters after Increment(key, delta).
Incremented(cs, k, d) ==
    [r \in Rows |-> [cs[r] EXCEPT ![Hash(r, k)] = SaturatingAdd(@, d)]]

\* Estimate(key): the minimum over the rows of the key's counters.
EstimateIn(cs, k) == Min({cs[r][Hash(r, k)] : r \in Rows})

\* Increment returns the minimum of the new values, i.e. the estimate of
\* the key in the counters it leaves.
IncrementResult(cs, k, d) == EstimateIn(Incremented(cs, k, d), k)

\* uint32(float64(c) * factor): the product truncated towards zero.
Decayed(c) == (c * DecayNum) \div DecayDen

\* Decay(factor) returns at once unless 0 < factor < 1.
DecayApplies == 0 < DecayNum /\ DecayNum < DecayDen

DecayedAll(cs) == [r \in Rows |-> [j \in Cols |-> Decayed(cs[r][j])]]

-----------------------------------------------------------------------------
Init ==
    /\ counters = [r \in Rows |-> [j \in Cols |-> 0]]
    /\ satCount = [k \in Keys |-> 0]
    /\ nOps = 0

Increment(k, d) ==
    /\ nOps < MaxOps
    /\ counters' = Incremented(counters, k, d)
    /\ satCount' = [satCount EXCEPT ![k] = Min({@ + d, CounterMax})]
    /\ nOps' = nOps + 1

Decay ==
    /\ nOps < MaxOps
    /\ DecayApplies
    /\ counters' = DecayedAll(counters)
    /\ satCount' = [k \in Keys |-> Decayed(satCount[k])]
    /\ nOps' = nOps + 1

Reset ==
    /\ nOps < MaxOps
    /\ counters' = [r \in Rows |-> [j \in Cols |-> 0]]
    /\ satCount' = [k \in Keys |-> 0]
    /\ nOps' = nOps + 1

Next ==
    \/ \E k \in Keys, d \in Deltas : Increment(k, d)
    \/ Decay
    \/ Reset

Spec == Init /\ [][Next]_vars

-----------------------------------------------------------------------------
TypeOK ==
    /\ counters \in [Rows -> [Cols -> 0..CounterMax]]
    /\ satCount \in [Keys -> 0..CounterMax]
    /\ nOps \in 0..MaxOps

(* Spec section 8, invariant 1, as far as a uint32 counter can hold it: the *)
(* estimate of a key is never below what one private uint32 counter of the *)
(* key, saturating and decayed like the sketch's, would hold.  Collisions  *)
(* of Hash across keys, the overflow test of Increment, the minimum over   *)
(* the rows and the truncating Decay must all agree.                       *)
NeverUnderestimates ==
    \A k \in Keys : EstimateIn(counters, k) >= satCount[k]
=============================================================================
