\* One client blocks forever, another pushes one element.
SPECIFICATION Spec
CONSTANTS
    k1 = k1
    k2 = k2
    k3 = k3
    Client = {c1, c2}
    Key = {k1}
    WrongType = {}
    NoKey = NoKey
    Free = Free
    Requests <- MCForever
    MaxBatch = 1
    MaxPushed = 2
    MaxBlocks = 2
INVARIANT
    NoLostWakeup
CHECK_DEADLOCK FALSE
