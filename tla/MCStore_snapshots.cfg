\* Strings and sets: two keys, so that SMOVE and the STORE commands meet, and two
\* snapshots that overlap.
CONSTANTS
    Key = {k1, k2}
    Str <- MCPlain
    Elem = {1, 2}
    Snap = {s1, s2}
    Ttl = {1}
    Increments = {}
    IntHalf = 1
    SampleSize = 1
    MaxRounds = 2
    MaxTime = 1
    MaxLen = 2
    MaxPush = 2
    Score = {0, 1}
    Types = {"set"}
SPECIFICATION Spec
SYMMETRY Symmetry
INVARIANT SnapshotCountExact
PROPERTY ClonedWritesIsolated
