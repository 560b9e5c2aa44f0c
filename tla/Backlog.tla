------------------------------ MODULE Backlog ------------------------------
(* ReplicationBacklog of internal/replication/replication.go: the ring buffer
   of the last bytes that a master has propagated. *)
EXTENDS Integers, SequencesExt

CONSTANTS BacklogSize,   \* the size of the ring, 1 MB in the code
          NoByte         \* what a cell holds before it is written

ASSUME BacklogAssumption == BacklogSize \in Nat \ {0}

NewReplicationBacklog ==
    [buffer |-> [i \in 0 .. BacklogSize - 1 |-> NoByte], offset |-> 0, idx |-> 0, historyLen |-> 0]

\* Variant: offset moves with every byte, not only when one is overwritten.
AppendByteEager(rb, b) ==
    [buffer     |-> [rb.buffer EXCEPT ![rb.idx] = b],
     idx        |-> (rb.idx + 1) % BacklogSize,
     historyLen |-> IF rb.historyLen < BacklogSize THEN rb.historyLen + 1 ELSE rb.historyLen,
     offset     |-> rb.offset + 1]

\* The loop body of Append.
AppendByte(rb, b) ==
    [buffer     |-> [rb.buffer EXCEPT ![rb.idx] = b],
     idx        |-> (rb.idx + 1) % BacklogSize,
     historyLen |-> IF rb.historyLen < BacklogSize THEN rb.historyLen + 1 ELSE rb.historyLen,
     offset     |-> IF rb.historyLen < BacklogSize THEN rb.offset ELSE rb.offset + 1]

\* Data that fills the ring replaces it; offset then counts only the bytes of
\* data that were left out, not the history that was discarded.
AppendBacklog(rb, data) ==
    IF Len(data) >= BacklogSize
    THEN [buffer     |-> [i \in 0 .. BacklogSize - 1 |-> data[Len(data) - BacklogSize + 1 + i]],
          offset     |-> rb.offset + Len(data) - BacklogSize,
          idx        |-> 0,
          historyLen |-> BacklogSize]
    ELSE FoldLeft(AppendByte, rb, data)

InBacklog(rb, off) == rb.offset <= off /\ off <= rb.offset + rb.historyLen

\* Position off - offset of the buffer, wherever the oldest byte is.
GetRange(rb, off) ==
    [i \in 1 .. rb.offset + rb.historyLen - off |->
        rb.buffer[(off - rb.offset + i - 1) % BacklogSize]]

\* The oldest byte is at position 0, where GetRange takes it to be.
Straight(rb) == rb.historyLen < BacklogSize \/ rb.idx = 0

============================================================================
