\* Two slots, two other nodes and a check of a key's owner; keys of up to five bytes; or a
\* master that fails once, two replicas and a Sentinel.
SPECIFICATION DeploymentSpec
CONSTANTS
    NumSlots = 2
    MySelf = MySelf
    Other = {n1, n2}
    NoNode = NoNode
    Checker = {g1}
    MaxListed = 2
    Char = {97, 123, 125, 200}
    MaxKey = 5
    a = a
    b = b
    c = c
    Sentinel = {n}
    None = None
    MaxTimers = 1
    MaxReaders = 1
    MaxFaults = 1
SYMMETRY DeploymentSymmetry
CHECK_DEADLOCK FALSE
INVARIANTS
    CoverageExact
    
    KeySlotExact
    
    ViewCurrent
    
    
