\* Bits = 2 makes a counter saturate at 3; the decay factor is the
\* code's 0.5.
CONSTANTS
    a = a
    b = b
    c = c
    Keys <- MCKeys
    Depth = 2
    Width = 2
    Hash <- MCHash
    Bits = 2
    Deltas = {1, 2}
    DecayNum = 1
    DecayDen = 2
    MaxOps = 6
SPECIFICATION Spec
INVARIANT TypeOK
INVARIANT NeverUnderestimates
\* The bound MaxOps ends every behaviour.
CHECK_DEADLOCK FALSE
