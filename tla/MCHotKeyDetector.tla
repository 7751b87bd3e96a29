------------------------- MODULE MCHotKeyDetector -------------------------
(* Two goroutines recording accesses to three keys; the two-row sketch   *)
(* makes every key collide with another in one row.                      *)
EXTENDS HotKeyDetector

CONSTANTS a, b, c, t1, t2

MCKeys == {a, b, c}
TwoKeys == {a, b}
MCThreads == {t1, t2}

\* Row 1 puts a and b in column 0, row 2 puts b and c in column 1.
MCHash(r, k) == IF r = 1 THEN (IF k = c THEN 1 ELSE 0)
                ELSE (IF k = a THEN 0 ELSE 1)
=============================================================================
