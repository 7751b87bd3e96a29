--------------------- MODULE MCSequentialCacheEngine ---------------------
(* Instantiates SequentialCacheEngine for TLC: concurrent requests over a  *)
(* key of the main client (k1) and a per-second key (k2).                  *)
EXTENDS SequentialCacheEngine, TLC

CONSTANTS k1, k2, r1, r2, r3, none

MCKeys == {k1, k2}
MCRequests == {r1, r2, r3}
TwoRequests == {r1, r2}
OneRequest == {r1}
SlotPerKey(k) == IF k = k1 THEN 100 ELSE 200
SlotOneForAll(k) == 100

D(k, h) == [key |-> k, hits |-> h]

\* r1 on both keys, r2 on the per-second key and a descriptor no rule
\* matched (empty cache key): each key is met by two requests.
MixedReq == (r1 :> <<D(k1, 1), D(k2, 1)>>) @@ (r2 :> <<D(k2, 1), D(none, 1)>>)
            @@ (r3 :> <<D(k1, 1)>>)
MixedLimit == (k1 :> 1) @@ (k2 :> 1)
NearLimitPair == (k1 :> 2) @@ (k2 :> 1)

\* k2 near its limit from the first hit, k1 not: r1 charges only k2.
NearReq == (r1 :> <<D(k1, 1), D(k2, 1)>>) @@ (r2 :> <<D(k1, 1)>>)
           @@ (r3 :> <<D(k1, 1)>>)

NoShadow == [k \in MCKeys |-> FALSE]

\* Every request carries an enforced rule on k1 (limit 2) and a shadow-mode
\* rule on k2 (limit 1).  With near_limit_ratio 50% both keys are near
\* from their first hit, so the pre-read never suppresses either of them.
ShadowReq == [r \in MCRequests |-> <<D(k1, 1), D(k2, 1)>>]
ShadowLimit == (k1 :> 2) @@ (k2 :> 1)
ShadowOnK2 == (k1 :> FALSE) @@ (k2 :> TRUE)
=============================================================================
