\* Strings and HyperLogLogs with TTLs, no snapshot; a sorted set of three members, the
\* empty string among them; a list of three elements; strings of two bytes of two bits;
\* four items with hashes of four bits; a grid of four by four cells; two connections with
\* two commands and a channel of one; a client that pipelines up to three commands.
CONSTANTS
    Key = {k1, k2}
    Str <- MCStrings
    Elem = {1}
    Snap = {}
    Ttl = {1}
    Increments <- MCSigned
    IntHalf = 1
    SampleSize = 1
    MaxRounds = 2
    MaxTime = 2
    MaxLen = 2
    MaxPush = 2
    Score = {0, 1}
    Types = {"sketch", "bitmap"}
    Member = {0, 1, 2}
    Delta = {1}
    Heights = 3
    Value = {1, 2}
    MaxLength = 3
    ByteBits = 2
    MaxBytes = 2
    MaxSources = 2
    Item = {1, 2, 3, 4}
    WordBits = 2
    Words = 2
    NumHashes = 2
    HashBits = 4
    Precision = 1
    MaxItems = 2
    GeoMember = {1, 2}
    Steps = 2
    Lat <- MCLatitudes
    Lon = {0, 3, 4}
    MaxPoints = 2
    Client = {c1, c2}
    MaxCmds = 2
    ChanSize = 1
    MaxTicks = 1
    MaxSent = 3
    BatchSize = 2
    MaxSlow = 2
SPECIFICATION ServerSpec
CHECK_DEADLOCK FALSE
INVARIANTS
    ReadsExact
    CounterExact
    
    InOrder
PROPERTIES
    ExpiredReclaimed
    
    LinkedListImplements
    BitmapImplements
    SubmittedExecuted
    
