\* Two hot-set slots for three keys, so promotions evict; a threshold of
\* 2 lets keys be cold, hot, and cold again after one decay; 2-bit
\* counters saturate at 3.
CONSTANTS
    a = a
    b = b
    c = c
    t1 = t1
    t2 = t2
    Keys <- MCKeys
    Threads <- MCThreads
    Depth = 2
    Width = 2
    Hash <- MCHash
    Bits = 2
    DecayNum = 1
    DecayDen = 2
    Deltas = {1}
    HotThreshold = 2
    MaxHotKeys = 2
    MaxAccesses = 7
    MaxDecays = 1
    MaxResets = 1
SPECIFICATION Spec
INVARIANT TypeOK
INVARIANT HotSetBounded
INVARIANT HotKeysListed
INVARIANT DecayOncePerInterval
\* The bounds on accesses, decays and resets end every behaviour.
CHECK_DEADLOCK FALSE
