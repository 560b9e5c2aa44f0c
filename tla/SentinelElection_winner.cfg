\* Three Sentinels, one epoch, no restart.
SPECIFICATION Spec
CONSTANTS
    Sentinel = {s1, s2, s3}
    None = None
    Thread = {"monitor"}
    OnePort = {}
    Quorum = 2
    MaxEpoch = 1
    MaxRestarts = 0
INVARIANT
    OneWinner
