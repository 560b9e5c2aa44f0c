\* Two Sentinels with their failover threads, two epochs and a restart, or three
\* Sentinels whose election timers run out in one epoch.
SPECIFICATION ElectionSpec
CONSTANTS
    Sentinel = {s1, s2, s3}
    None = None
    Thread = {"monitor", "timer"}
    OnePort = {}
    Quorum = 2
    MaxEpoch = 2
    MaxRestarts = 1
SYMMETRY Symmetry
CONSTRAINT Focus
INVARIANT
    VoteOnce
