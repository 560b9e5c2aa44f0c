\* Every type of value on one key, with TTLs and a snapshot; lists with every index
\* and count, from both ends.
CONSTANTS
    Key = {k1}
    Str <- MCMixed
    Elem = {1, 2}
    Snap = {s1}
    Ttl = {1}
    Increments <- MCSigned
    IntHalf = 1
    SampleSize = 1
    MaxRounds = 2
    MaxTime = 2
    MaxLen = 3
    MaxPush = 2
    Score = {0, 1}
    Types = {"set", "hash", "list", "zset", "sketch", "bitmap"}
SPECIFICATION Spec
SYMMETRY Symmetry
INVARIANTS TypeOK NoEmptyCollection ExpiryIndexed
