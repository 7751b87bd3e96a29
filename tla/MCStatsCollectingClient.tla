----------------------- MODULE MCStatsCollectingClient -----------------------
(* Two goroutines sharing one statsCollectingClient over two keys.  The   *)
(* keys slices include a repeated key, which GetMulti answers once.       *)
EXTENDS StatsCollectingClient

CONSTANTS k1, k2, c1, c2

MCKeys == {k1, k2}
MCCallers == {c1, c2}
MCKeySeqs == {<<k1>>, <<k1, k2>>, <<k2, k2>>}
=============================================================================
