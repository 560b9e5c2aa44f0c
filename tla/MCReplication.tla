--------------------------- MODULE MCReplication ---------------------------
(* The three ways in which the data set leaves the server, on small           *)
(* instances: the stream of commands to a replica, the bytes of a snapshot    *)
(* and the file that BGSAVE keeps.  A behaviour is one of the three (part     *)
(* says which).                                                               *)
EXTENDS Replication

CONSTANTS Saver, MaxWrites, SaveChanges, Inode, NoFile, MaxCrashes

VARIABLE part
VARIABLES dataset, reader, data, pos, value, commands, result
VARIABLES writes, uncounted, changes, ticker, saver, content, synced, tmp, dump, snapped, blind,
          overlap, crashes

codecVars == <<dataset, reader, data, pos, value, commands, result>>
dumpVars == <<writes, uncounted, changes, ticker, saver, content, synced, tmp, dump, snapped, blind,
              overlap, crashes>>

\* Commands of two and three bytes; the third is the longer one.
MCBytes == [c \in Cmd |-> IF c = 3 THEN 3 ELSE 2]

\* Keys that look like a digit and like a type byte, an empty value and another one.
MCKey  == {<<49>>, <<2>>}
MCText == {<<7>>, <<>>}
MCTypes == {"string", "list", "set", "zset", "hash", "sketch"}

\* Both sides of every bound of the encoding.
MCLengths ==
    (0 .. 70) \cup (250 .. 260) \cup (16380 .. 16390) \cup {65535, 65536, 16777216, 2147483647}

R == INSTANCE RdbCodec WITH Key <- MCKey, Text <- MCText, Types <- MCTypes, Lengths <- MCLengths
D == INSTANCE Dump

ASSUME PersistenceConstants == R!CodecConstants /\ D!DumpConstants

LinkInit ==
    /\ part \in {"stream", "codec", "dump"}
    /\ Init
    /\ R!Init /\ (part # "codec" => dataset = <<>> /\ reader = "replica")
    /\ D!Init

LinkNext ==
    /\ UNCHANGED part
    /\ \/ part = "stream" /\ Next /\ UNCHANGED <<codecVars, dumpVars>>
       \/ part = "codec" /\ R!Next /\ UNCHANGED <<vars, dumpVars>>
       \/ part = "dump" /\ D!Next /\ UNCHANGED <<vars, codecVars>>

LinkFairness ==
    /\ WF_vars(part = "stream" /\ (AppendToBacklog \/ SendToReplicas))
    /\ \A r \in Replica : WF_vars(part = "stream" /\ Work(r))

LinkSpec == LinkInit /\ [][LinkNext]_<<part, vars, codecVars, dumpVars>> /\ LinkFairness

\* No two saves have files open at once: what they do to one temporary file then is
\* another question (DumpWhole says nothing of it).
Separate == "files" \notin overlap

\* Offsets mean the same on both sides: the ring gives back the bytes from any offset to
\* the end, unless it has wrapped, and no replica is more than one ahead of the master
\* whose stream it holds (Append, GetRange, handlePSync).
OffsetsExact == BacklogExact /\ OneAheadAtMost

\* A full resynchronisation brings every string of a data set of strings and sorted sets
\* to the replica, and every length is read back as it was written (generateRDB and
\* loadRDBIntoStore, writeLength and readLength).
StringsArrive == part = "codec" => R!StringsArrive /\ R!LengthsExact

\* Whatever save fails and wherever the machine stops, dump.rdb is one whole snapshot, and
\* never an older one than before, as long as no two saves overlap (Writer.Save: temporary
\* file, sync, rename).
DumpSafe ==
    [][/\ D!DumpWhole'
       /\ overlap' = {} /\ dump # NoFile
            => dump' # NoFile /\ content'[dump'][1] >= content[dump][1]]_dumpVars

\* The change counter forgets no write that the newest snapshot lacks, except those
\* between its check and its reset (startBackgroundRDBSave, IncrementChanges).
ChangesCover == D!ChangesCover

-----------------------------------------------------------------------------
(* Statements of the repository that these components do not keep.           *)

\* generateRDB "generates an RDB file with actual database content".
SnapshotComplete == part = "codec" => R!SnapshotComplete

\* A start reads the file that a save wrote (docs/rdb-auto-save.md).
DumpRestores == part = "codec" => R!DumpRestores

\* startBackgroundRDBSave: "Reset counters after successful save".
ResetAfterSave == D!ResetAfterSave
============================================================================
