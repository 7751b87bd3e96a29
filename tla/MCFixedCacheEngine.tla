------------------------ MODULE MCFixedCacheEngine ------------------------
(* Instantiates FixedCacheEngine for TLC: two concurrent requests over two *)
(* keys of two cluster slots.                                               *)
EXTENDS FixedCacheEngine, TLC

CONSTANTS k1, k2, r1, r2, none

MCKeys == {k1, k2}
TwoRequests == {r1, r2}
SlotPerKey(k) == IF k = k1 THEN 100 ELSE 200

D(k, h) == [key |-> k, hits |-> h]

\* r1 on both keys (two slot pipelines), r2 on k1 and a descriptor no rule
\* matched (empty cache key).
MixedReq == (r1 :> <<D(k1, 1), D(k2, 1)>>) @@ (r2 :> <<D(k1, 1), D(none, 1)>>)
MixedLimit == (k1 :> 1) @@ (k2 :> 1)

NoShadow == [k \in MCKeys |-> FALSE]
=============================================================================
