\* Stream: one replica, a ring of four bytes, three commands of two or three bytes, one
\* broken connection or restart.  Saves: two goroutines, two writes, one crash.
SPECIFICATION LinkSpec
CONSTANTS
    Replica = {r1}
    NoByte = NoByte
    BacklogSize = 4
    MaxCmds = 3
    CmdBytes <- MCBytes
    ChanSize = 2
    MaxFaults = 1
    Saver = {1, 2}
    MaxWrites = 2
    SaveChanges = 1
    Inode = {1, 2, 3}
    NoFile = NoFile
    MaxCrashes = 1
CONSTRAINT Separate
CHECK_DEADLOCK FALSE
INVARIANTS
    OffsetsExact
    
    
    StringsArrive
    

    
    
