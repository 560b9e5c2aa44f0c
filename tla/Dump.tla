-------------------------------- MODULE Dump --------------------------------
(* BGSAVE and the automatic save: the change counter, the goroutines that save *)
(* a snapshot, the temporary file they share, and crashes.                     *)
(*                                                                             *)
(* The data set is the number of writes executed so far, and a file two parts  *)
(* that each hold the snapshot they were written from.  Every save opens the   *)
(* same temporary file: two that overlap write to one file.                    *)
EXTENDS Integers, FiniteSets

CONSTANTS
    Saver,        \* goroutines that may be saving at once
    MaxWrites,    \* bound: writes
    SaveChanges,  \* RDBSavePoint.Changes
    Inode,        \* the files (inodes) the saves create
    NoFile,       \* the name is not there
    MaxCrashes    \* bound: crashes

DumpConstants ==
    /\ MaxWrites \in Nat /\ SaveChanges \in Nat \ {0} /\ MaxCrashes \in Nat
    /\ NoFile \notin Inode

Part == 1..2
Empty == -1

VARIABLES
    writes,    \* writes executed: the data set
    uncounted, \* writes executed but not yet counted by LogToAOF
    changes,   \* changesSinceLastSave
    ticker,    \* the auto-save goroutine: what it is doing and the writes at its check
    saver,     \* the save goroutines: pc, snapshot, the file it has open
    content,   \* the parts of every file
    synced,    \* the files whose parts are on the disk
    tmp,       \* the file called dump.rdb.tmp
    dump,      \* the file called dump.rdb
    snapped,   \* ghost: the writes that the newest snapshot, or the last start, has seen
    blind,     \* ghost: the writes that came between a check of the counter and its reset
    overlap,   \* ghost: two saves held "snapshots" at once, or had "files" open at once
    crashes

vars == <<writes, uncounted, changes, ticker, saver, content, synced, tmp, dump, snapped, blind,
          overlap, crashes>>
files == <<content, synced, tmp, dump>>

Idle == [pc |-> "idle", snap |-> 0, file |-> NoFile]
NewFile == [p \in Part |-> Empty]

\* A file without a name that nobody has open is gone.
InUse == {tmp', dump'} \cup {saver'[s].file : s \in Saver}

Release ==
    /\ content' = [f \in Inode |-> IF f \in InUse THEN content[f] ELSE NewFile]
    /\ synced' = synced \cap InUse

Init ==
    /\ writes = 0 /\ uncounted = 0 /\ changes = 0
    /\ ticker = [pc |-> "idle", seen |-> 0]
    /\ saver = [s \in Saver |-> Idle]
    /\ content = [f \in Inode |-> NewFile]
    /\ synced = {}
    /\ tmp = NoFile /\ dump = NoFile
    /\ snapped = 0 /\ blind = 0 /\ overlap = {} /\ crashes = 0

-----------------------------------------------------------------------------
(* Writes: the processor executes, the client's goroutine counts later. *)

Write ==
    /\ writes < MaxWrites
    /\ writes' = writes + 1
    /\ uncounted' = uncounted + 1
    /\ UNCHANGED <<changes, ticker, saver, files, snapped, blind, overlap, crashes>>

IncrementChanges ==
    /\ uncounted > 0
    /\ uncounted' = uncounted - 1
    /\ changes' = changes + 1
    /\ UNCHANGED <<writes, ticker, saver, files, snapped, blind, overlap, crashes>>

-----------------------------------------------------------------------------
(* startBackgroundRDBSave and handleBGSave. *)

StartSave(s) ==
    /\ saver[s].pc = "idle"
    /\ saver' = [saver EXCEPT ![s].pc = "snapshot"]

\* A client's BGSAVE: the goroutine starts, whatever else is being saved.
BGSave(s) ==
    /\ StartSave(s)
    /\ UNCHANGED <<writes, uncounted, changes, ticker, files, snapped, blind, overlap, crashes>>

\* The ticker finds enough changes and starts a save of its own ...
AutoSave(s) ==
    /\ ticker.pc = "idle"
    /\ changes >= SaveChanges
    /\ StartSave(s)
    /\ ticker' = [pc |-> "started", seen |-> writes - uncounted]
    /\ UNCHANGED <<writes, uncounted, changes, files, snapped, blind, overlap, crashes>>

\* ... and clears the counter once the goroutine is started.
ResetChanges ==
    /\ ticker.pc = "started"
    /\ changes' = 0
    /\ ticker' = [pc |-> "idle", seen |-> 0]
    /\ blind' = writes - uncounted - ticker.seen
    /\ UNCHANGED <<writes, uncounted, saver, files, snapped, overlap, crashes>>

-----------------------------------------------------------------------------
(* The save goroutine: GetDataSnapshot, then Writer.Save. *)

Saving(s) == saver[s].pc \notin {"idle", "snapshot"}

Move(s, from, to) ==
    /\ saver[s].pc = from
    /\ saver' = [saver EXCEPT ![s].pc = to]

\* Through the processor, so the snapshot holds every write executed so far.
GetDataSnapshot(s) ==
    /\ saver[s].pc = "snapshot"
    /\ saver' = [saver EXCEPT ![s].pc = "open", ![s].snap = writes]
    /\ snapped' = writes
    /\ overlap' = overlap \cup {"snapshots" : t \in {u \in Saver : Saving(u)}}
    /\ UNCHANGED <<writes, uncounted, changes, ticker, files, blind, crashes>>

\* O_CREATE | O_TRUNC: the file of that name is emptied, or a new one is made.
OpenTemp(s) ==
    LET fresh == CHOOSE f \in Inode : f # dump /\ \A t \in Saver : saver[t].file # f
        f == IF tmp = NoFile THEN fresh ELSE tmp
    IN
    /\ saver[s].pc = "open"
    /\ tmp' = f
    /\ saver' = [saver EXCEPT ![s].pc = "part 1", ![s].file = f]
    /\ content' = [content EXCEPT ![f] = NewFile]
    /\ synced' = synced \ {f}
    /\ overlap' = overlap \cup {"files" : t \in {u \in Saver : saver[u].file # NoFile}}
    /\ UNCHANGED <<writes, uncounted, changes, ticker, dump, snapped, blind, crashes>>

\* The buffered writer hands its data over in more than one piece.
WritePart(s, p, from, to) ==
    /\ Move(s, from, to)
    /\ content' = [content EXCEPT ![saver[s].file][p] = saver[s].snap]
    /\ synced' = synced \ {saver[s].file}
    /\ UNCHANGED <<writes, uncounted, changes, ticker, tmp, dump, snapped, blind, overlap, crashes>>

\* Variant: the file is renamed without having been synced.
SyncSkipped(s) ==
    /\ Move(s, "sync", "rename")
    /\ UNCHANGED <<writes, uncounted, changes, ticker, files, snapped, blind, overlap, crashes>>

Sync(s) ==
    /\ Move(s, "sync", "rename")
    /\ synced' = synced \cup {saver[s].file}
    /\ UNCHANGED <<writes, uncounted, changes, ticker, content, tmp, dump, snapped, blind, overlap,
                   crashes>>

\* Variant: a save that has succeeded clears the counter.
RenameResets(s) ==
    /\ saver[s].pc = "rename"
    /\ saver' = [saver EXCEPT ![s] = Idle]
    /\ dump' = IF tmp = NoFile THEN dump ELSE tmp
    /\ tmp' = NoFile
    /\ Release
    /\ changes' = 0
    /\ UNCHANGED <<writes, uncounted, ticker, snapped, blind, overlap, crashes>>

\* The name dump.rdb now means the file called dump.rdb.tmp, whoever made it; when
\* another save has renamed it already, there is nothing to rename and the save fails.
Rename(s) ==
    /\ saver[s].pc = "rename"
    /\ saver' = [saver EXCEPT ![s] = Idle]
    /\ dump' = IF tmp = NoFile THEN dump ELSE tmp
    /\ tmp' = NoFile
    /\ Release
    /\ UNCHANGED <<writes, uncounted, changes, ticker, snapped, blind, overlap, crashes>>

\* A write or the sync fails: the temporary file is removed, the counter stays cleared.
SaveFails(s) ==
    /\ saver[s].pc \in {"part 1", "part 2", "sync"}
    /\ saver' = [saver EXCEPT ![s] = Idle]
    /\ tmp' = NoFile
    /\ UNCHANGED dump
    /\ Release
    /\ UNCHANGED <<writes, uncounted, changes, ticker, snapped, blind, overlap, crashes>>

-----------------------------------------------------------------------------
\* The machine stops: goroutines and counters are gone, and of each file that was
\* not synced any part may be.  What dump.rdb.tmp names is still there.
Crash ==
    /\ crashes < MaxCrashes
    /\ crashes' = crashes + 1
    /\ saver' = [s \in Saver |-> Idle]
    /\ UNCHANGED <<tmp, dump>>
    /\ synced' = synced \cap InUse
    /\ \E lost \in SUBSET (((InUse \cap Inode) \ synced) \X Part) :
          content' = [f \in Inode |-> [p \in Part |->
              IF f \notin InUse \/ <<f, p>> \in lost THEN Empty ELSE content[f][p]]]
    /\ ticker' = [pc |-> "idle", seen |-> 0]
    /\ uncounted' = 0 /\ changes' = 0 /\ blind' = 0
    /\ snapped' = writes
    /\ UNCHANGED <<writes, overlap>>

Save(s) ==
    \/ GetDataSnapshot(s)
    \/ OpenTemp(s)
    \/ WritePart(s, 1, "part 1", "part 2") \/ WritePart(s, 2, "part 2", "sync")
    \/ Sync(s) \/ Rename(s) \/ SaveFails(s)

Next ==
    \/ Write \/ IncrementChanges \/ ResetChanges \/ Crash
    \/ \E s \in Saver : BGSave(s) \/ AutoSave(s) \/ Save(s)

Spec == Init /\ [][Next]_vars

-----------------------------------------------------------------------------
TypeOK ==
    /\ writes \in 0..MaxWrites /\ uncounted \in 0..MaxWrites /\ changes \in 0..MaxWrites
    /\ ticker \in [pc : {"idle", "started"}, seen : 0..MaxWrites]
    /\ saver \in [Saver -> [pc : {"idle", "snapshot", "open", "part 1", "part 2", "sync", "rename"},
                            snap : 0..MaxWrites, file : Inode \cup {NoFile}]]
    /\ content \in [Inode -> [Part -> 0..MaxWrites \cup {Empty}]]
    /\ synced \subseteq Inode
    /\ tmp \in Inode \cup {NoFile} /\ dump \in Inode \cup {NoFile}
    /\ snapped \in 0..MaxWrites /\ blind \in 0..MaxWrites
    /\ overlap \subseteq {"snapshots", "files"} /\ crashes \in 0..MaxCrashes

Whole(f) == content[f][1] # Empty /\ content[f][1] = content[f][2]

\* Whatever save fails and wherever the machine stops, dump.rdb is one whole snapshot
\* as long as no two saves overlap.
DumpWhole == dump # NoFile /\ "files" \notin overlap => Whole(dump) /\ dump \in synced

\* The counter forgets no write that the newest snapshot lacks, except those that came
\* between the check that started a save and the reset that followed it; a save that
\* has yet to take its snapshot will have them all.
ChangesCover ==
    \/ \E s \in Saver : saver[s].pc = "snapshot"
    \/ writes - snapped <= changes + uncounted + blind

\* server/rdb_loader.go: "Reset counters after successful save".
ResetAfterSave ==
    [][ticker.pc = "started" /\ ticker'.pc = "idle" /\ crashes' = crashes =>
           dump # NoFile /\ content[dump][1] >= ticker.seen]_vars

=============================================================================
