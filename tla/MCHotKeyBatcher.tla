-------------------------- MODULE MCHotKeyBatcher --------------------------
(* Instantiates HotKeyBatcher for TLC: two keys, two or three result       *)
(* channels.                                                               *)
EXTENDS HotKeyBatcher, TLC

CONSTANTS k1, k2, w1, w2, w3

MCKeys == {k1, k2}
ThreeWaiters == {w1, w2, w3}
TwoWaiters == {w1, w2}

\* Standalone or sentinel Redis: every key maps to slot 0.
SlotOneForAll(k) == 0
\* Redis Cluster: the two keys hash to different slots.
SlotPerKey(k) == IF k = k1 THEN 100 ELSE 200
=============================================================================
