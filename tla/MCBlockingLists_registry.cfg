\* BLPOP on two keys and BLMOVE, with timeouts, beside pushes of one or two.
SPECIFICATION Spec
CONSTANTS
    k1 = k1
    k2 = k2
    k3 = k3
    Client = {c1, c2, c3}
    Key = {k1, k2, k3}
    WrongType = {k3}
    NoKey = NoKey
    Free = Free
    Requests <- MCMixed
    MaxBatch = 2
    MaxPushed = 2
    MaxBlocks = 2
SYMMETRY Symmetry
INVARIANTS
    ElementsConserved
    RegistryExact
PROPERTY
    ServedInOrder
CHECK_DEADLOCK FALSE
