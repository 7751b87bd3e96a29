\* One hot-set slot and a threshold of 1: every access promotes or
\* touches, so one promotion can evict a key another goroutine has just
\* found hot.  No decay and no reset: the race needs neither.
CONSTANTS
    a = a
    b = b
    c = c
    t1 = t1
    t2 = t2
    Keys <- TwoKeys
    Threads <- MCThreads
    Depth = 2
    Width = 2
    Hash <- MCHash
    Bits = 2
    DecayNum = 1
    DecayDen = 2
    Deltas = {1}
    HotThreshold = 1
    MaxHotKeys = 1
    MaxAccesses = 3
    MaxDecays = 0
    MaxResets = 0
SPECIFICATION Spec
INVARIANT HotListMatchesSet
\* The bound on accesses ends every behaviour.
CHECK_DEADLOCK FALSE
