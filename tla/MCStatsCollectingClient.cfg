\* Two goroutines, two keys, values up to 2, one network error.
CONSTANTS
    k1 = k1
    k2 = k2
    c1 = c1
    c2 = c2
    Keys <- MCKeys
    Callers <- MCCallers
    KeySeqs <- MCKeySeqs
    Deltas = {1}
    MaxValue = 2
    MaxErrors = 1
    MaxCalls = 5
SPECIFICATION Spec
INVARIANT KeysFoundAtMostRequested
PROPERTY MemcacheClientRefined
\* The bound MaxCalls ends every behaviour.
CHECK_DEADLOCK FALSE
