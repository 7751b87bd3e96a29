------------------------- MODULE MCCountMinSketch -------------------------
(* Two rows of two counters for three keys: every key collides with      *)
(* another in some row, and 2-bit counters saturate within a few steps.  *)
EXTENDS CountMinSketch

CONSTANTS a, b, c

MCKeys == {a, b, c}

\* Row 1 puts a and b in column 0, row 2 puts b and c in column 1.
MCHash(r, k) == IF r = 1 THEN (IF k = c THEN 1 ELSE 0)
                ELSE (IF k = a THEN 0 ELSE 1)
=============================================================================
