-------------------------------- MODULE Aof ---------------------------------
(* The append-only file: Writer and Rewrite of internal/aof/aof.go, LoadAll of
   reader.go, the calls of executeWithTimeout and LogToAOF that feed it,
   BGREWRITEAOF of aof_handlers.go and the loading at start of redis_server.go.

   A command that changes the data is an id in the order of execution and the
   kind of its value.  What it does to the data is left out: the store is the
   sequence of the commands applied to it, a snapshot is that sequence, and
   loading a file applies the commands of the file.  What reaches the disk is
   counted in entries, and one entry more may be there in part. *)
EXTENDS Naturals, Sequences, FiniteSets, SequencesExt

CONSTANTS Client,
          Free,         \* the mutex w.mu is not held
          Policies,     \* the values of appendfsync: "always", "everysec", "no"
          Kinds,        \* the kinds of commands the clients send
          Failures,     \* what may fail in a rewrite and how the process may end
          MaxCommands,  \* bound on the commands executed
          MaxRewrites,  \* bound on the rewrites
          MaxRestarts   \* bound on the restarts

\* string: strings, sets and key commands; list: lists and hashes.
AllKinds == {"string", "list", "zset", "sketch"}
AllFailures == {"temp", "rename", "kill", "power", "shutdown"}

ASSUME AofAssumption ==
    /\ Free \notin Client
    /\ Policies \subseteq {"always", "everysec", "no"}
    /\ Kinds \subseteq AllKinds
    /\ Failures \subseteq AllFailures
    /\ MaxCommands \in Nat /\ MaxRewrites \in Nat /\ MaxRestarts \in Nat

\* IsWriteCommand of the package aof.
Logged(kind) == kind \in {"string", "list"}

\* The values that the conversion of handleBGRewriteAOF finds: its assertions
\* for lists and hashes name types that the store does not use.
Converted(cmd) == cmd.kind \in {"string", "zset"}

Command == [id : Nat, kind : AllKinds]

VARIABLES policy,         \* appendfsync, of the configuration
          db,             \* the commands applied to the store
          issued,         \* the number of commands executed since the first start
          pc, cur,        \* the goroutine of each client and its command
          mu,             \* holder of w.mu, where it is held across steps
          file,           \* the append-only file
          rewrite,        \* the phase of the goroutine of BGREWRITEAOF
          isRewriting,
          rewriteBuffer,
          temp,           \* the commands of the temporary file
          acked,          \* history: commands whose reply was sent
          replaced,       \* history: a rewrite took the place of the file, or closed it
          rewrites, restarts

vars == <<policy, db, issued, pc, cur, mu, file, rewrite, isRewriting, rewriteBuffer, temp,
          acked, replaced, rewrites, restarts>>

(* entries: the commands written, of which the first `flushed` have left the
   process, the first `synced` are on the disk, and `part` says whether the
   beginning of the next one has left the process too; torn: the number of the
   entry that an incomplete one stands before; bare: the number of an entry
   that is complete but for its line end (0: none); open: w.file can be written. *)
File(entries) == [entries |-> entries, flushed |-> Len(entries), part |-> FALSE,
                  synced |-> Len(entries), torn |-> 0, bare |-> 0, open |-> TRUE]

NoCommand == [id |-> 0, kind |-> "string"]

Init ==
    /\ policy \in Policies
    /\ db = <<>>
    /\ issued = 0
    /\ pc = [c \in Client |-> "ready"]
    /\ cur = [c \in Client |-> NoCommand]
    /\ mu = Free
    /\ file = File(<<>>)
    /\ rewrite = "idle"
    /\ isRewriting = FALSE
    /\ rewriteBuffer = <<>>
    /\ temp = <<>>
    /\ acked = {}
    /\ replaced = FALSE
    /\ rewrites = 0
    /\ restarts = 0

bgrewrite == <<rewrite, temp, rewrites, replaced>>

Flushed(f) == IF f.open THEN [f EXCEPT !.flushed = Len(f.entries), !.part = FALSE] ELSE f
Synced(f)  == IF f.open THEN [Flushed(f) EXCEPT !.synced = Len(f.entries)] ELSE f

-----------------------------------------------------------------------------
(* A client's command: executed by the processor, then logged, then answered. *)

Execute(c) == \E kind \in Kinds :
    LET cmd == [id |-> issued + 1, kind |-> kind] IN
    /\ pc[c] = "ready" /\ issued < MaxCommands
    /\ issued' = issued + 1
    /\ db' = Append(db, cmd)
    /\ IF Logged(kind)
       THEN /\ pc' = [pc EXCEPT ![c] = "executed"]
            /\ cur' = [cur EXCEPT ![c] = cmd]
            /\ UNCHANGED acked
       ELSE acked' = acked \cup {cmd} /\ UNCHANGED <<pc, cur>>
    /\ UNCHANGED <<mu, file, bgrewrite, isRewriting, rewriteBuffer, restarts, policy>>

\* Variant: during a rewrite the entry only goes to the rewrite buffer.
WriteCommandDiverted(c) ==
    /\ pc[c] = "executed" /\ mu = Free /\ file.open
    /\ file' = IF isRewriting THEN file
               ELSE Flushed([file EXCEPT !.entries = Append(@, cur[c])])
    /\ IF policy = "always"
       THEN mu' = c /\ pc' = [pc EXCEPT ![c] = "syncing"]
       ELSE pc' = [pc EXCEPT ![c] = "wrote"] /\ UNCHANGED mu
    /\ UNCHANGED <<db, issued, cur, bgrewrite, isRewriting, rewriteBuffer, acked, restarts, policy>>

\* The first part of WriteCommand: the entry goes to the buffer, which may
\* overflow and pass on some of what it holds.
WriteCommand(c) ==
    /\ pc[c] = "executed" /\ mu = Free /\ file.open
    /\ \E n \in file.flushed .. Len(file.entries) + 1, part \in BOOLEAN :
           /\ part => n <= Len(file.entries)
           /\ n = file.flushed /\ file.part => part
           /\ file' = [file EXCEPT !.entries = Append(@, cur[c]), !.flushed = n, !.part = part]
    /\ IF policy = "always"
       THEN mu' = c /\ pc' = [pc EXCEPT ![c] = "syncing"]
       ELSE pc' = [pc EXCEPT ![c] = "wrote"] /\ UNCHANGED mu
    /\ UNCHANGED <<db, issued, cur, bgrewrite, isRewriting, rewriteBuffer, acked, restarts, policy>>

\* After a failed rename the file is closed.  A full buffer is an error, which
\* LogToAOF only reports; a buffer with room takes the entry, for nothing.
WriteToClosed(c) ==
    /\ pc[c] = "executed" /\ mu = Free /\ ~file.open
    /\ \/ /\ pc' = [pc EXCEPT ![c] = "ready"]
          /\ acked' = acked \cup {cur[c]}
       \/ /\ policy # "always"
          /\ pc' = [pc EXCEPT ![c] = "wrote"]
          /\ UNCHANGED acked
    /\ UNCHANGED <<db, issued, cur, mu, file, bgrewrite, isRewriting, rewriteBuffer, restarts, policy>>

\* Variant: Flush without Sync.
FlushCommand(c) ==
    /\ pc[c] = "syncing"
    /\ file' = Flushed(file)
    /\ mu' = Free
    /\ pc' = [pc EXCEPT ![c] = "wrote"]
    /\ UNCHANGED <<db, issued, cur, bgrewrite, isRewriting, rewriteBuffer, acked, restarts, policy>>

\* SyncAlways: Flush and Sync, still under w.mu.
SyncCommand(c) ==
    /\ pc[c] = "syncing"
    /\ file' = Synced(file)
    /\ mu' = Free
    /\ pc' = [pc EXCEPT ![c] = "wrote"]
    /\ UNCHANGED <<db, issued, cur, bgrewrite, isRewriting, rewriteBuffer, acked, restarts, policy>>

\* The second part of WriteCommand, under w.rewriteMu, and the reply.
BufferCommand(c) ==
    /\ pc[c] = "wrote"
    /\ rewriteBuffer' = IF isRewriting THEN Append(rewriteBuffer, cur[c]) ELSE rewriteBuffer
    /\ pc' = [pc EXCEPT ![c] = "ready"]
    /\ acked' = acked \cup {cur[c]}
    /\ UNCHANGED <<db, issued, cur, mu, file, bgrewrite, isRewriting, restarts, policy>>

BackgroundSync ==
    /\ policy = "everysec" /\ mu = Free
    /\ file' = Synced(file)
    /\ UNCHANGED <<db, issued, pc, cur, mu, bgrewrite, isRewriting, rewriteBuffer, acked, restarts, policy>>

-----------------------------------------------------------------------------
(* BGREWRITEAOF: Rewrite, phase by phase. *)

clients == <<issued, pc, cur, acked>>

StartRewrite ==
    /\ rewrite = "idle" /\ rewrites < MaxRewrites
    /\ rewrites' = rewrites + 1
    /\ isRewriting' = TRUE
    /\ rewriteBuffer' = <<>>
    /\ rewrite' = "snapshot"
    /\ UNCHANGED <<db, clients, mu, file, temp, replaced, restarts, policy>>

\* GetSnapshot runs in the processor; the conversion and the writing of the
\* temporary file do not touch anything shared.
TakeSnapshot ==
    /\ rewrite = "snapshot"
    /\ temp' = SelectSeq(db, Converted)
    /\ rewrite' = "buffer"
    /\ UNCHANGED <<db, clients, mu, file, isRewriting, rewriteBuffer, replaced, rewrites, restarts, policy>>

\* Variant: the buffer is reset and not written.
SwapBufferDrops ==
    /\ rewrite = "buffer"
    /\ rewriteBuffer' = <<>>
    /\ rewrite' = "replace"
    /\ UNCHANGED <<db, clients, mu, file, isRewriting, temp, replaced, rewrites, restarts, policy>>

SwapBuffer ==
    /\ rewrite = "buffer"
    /\ temp' = temp \o rewriteBuffer
    /\ rewriteBuffer' = <<>>
    /\ rewrite' = "replace"
    /\ UNCHANGED <<db, clients, mu, file, isRewriting, replaced, rewrites, restarts, policy>>

\* Rename the temporary file and open it, under both mutexes.
ReplaceFile ==
    /\ rewrite = "replace" /\ mu = Free
    /\ isRewriting' = FALSE
    /\ file' = File(temp)
    /\ replaced' = TRUE
    /\ rewrite' = "idle"
    /\ UNCHANGED <<db, clients, mu, rewriteBuffer, temp, rewrites, restarts, policy>>

\* The rename fails, or opening the renamed file does.
ReplaceFails == \E renamed \in BOOLEAN :
    /\ rewrite = "replace" /\ mu = Free /\ "rename" \in Failures
    /\ isRewriting' = FALSE
    /\ file' = [(IF renamed THEN File(temp) ELSE Flushed(file)) EXCEPT !.open = FALSE]
    /\ replaced' = TRUE
    /\ rewrite' = "idle"
    /\ UNCHANGED <<db, clients, mu, rewriteBuffer, temp, rewrites, restarts, policy>>

\* The temporary file cannot be created, written or synced.
RewriteFails ==
    /\ rewrite \in {"buffer", "replace"} /\ "temp" \in Failures
    /\ isRewriting' = FALSE
    /\ rewrite' = "idle"
    /\ UNCHANGED <<db, clients, mu, file, rewriteBuffer, temp, replaced, rewrites, restarts, policy>>

-----------------------------------------------------------------------------
(* The process ends and is started again. *)

\* LoadAll fails on an incomplete entry, and on the line that an entry without
\* its line end makes with the next one.
Loads(f) == f.torn = 0 /\ f.bare \in {0, Len(f.entries)}

\* Something has left the process beyond the first n entries.
Beyond(n) == n < file.flushed \/ file.part \/ file.torn = n + 1

\* What the disk may hold if it has n entries, and, if partial, some of the
\* next one, or all of it but the line end.
OnDisk(n, partial, synced) ==
    LET Kept(i) == IF i <= n THEN i ELSE 0
        whole   == [file EXCEPT !.entries = SubSeq(@, 1, n), !.flushed = n, !.part = FALSE,
                                !.synced = synced, !.open = TRUE,
                                !.torn = Kept(@), !.bare = Kept(@)]
        bare    == [whole EXCEPT !.entries = SubSeq(file.entries, 1, n + 1),
                                 !.flushed = n + 1, !.bare = n + 1]
        next    == n < Len(file.entries) /\ file.torn # n + 1 /\ file.bare = 0
    IN  IF ~partial THEN {whole}
        ELSE {[whole EXCEPT !.torn = IF @ = 0 THEN n + 1 ELSE @]}
             \cup (IF next THEN {bare} ELSE {})

\* NewRedisServer: the writer opens the file, loadAOF replays it, or the
\* server starts empty.  (The snapshot file, tried in between, is not there.)
Restart(f) ==
    /\ restarts < MaxRestarts
    /\ restarts' = restarts + 1
    /\ file' = f
    /\ db' = IF Loads(f) THEN f.entries ELSE <<>>
    /\ pc' = [c \in Client |-> "ready"]
    /\ mu' = Free
    /\ rewrite' = "idle"
    /\ isRewriting' = FALSE
    /\ rewriteBuffer' = <<>>
    /\ temp' = <<>>
    /\ UNCHANGED <<issued, cur, acked, replaced, rewrites, policy>>

\* The process is killed: what has left it is in the file.
Killed ==
    /\ "kill" \in Failures
    /\ \E f \in OnDisk(file.flushed, Beyond(file.flushed), file.synced) : Restart(f)

\* The machine stops: what was not synced may be in the file, or a part of it.
PowerLoss ==
    /\ "power" \in Failures
    /\ \E n \in file.synced .. file.flushed, partial \in BOOLEAN :
           /\ partial => Beyond(n)
           /\ \E f \in OnDisk(n, partial, n) : Restart([f EXCEPT !.synced = Len(f.entries)])

\* Shutdown: the connections are closed, then the writer is.
Shutdown ==
    /\ "shutdown" \in Failures /\ mu = Free
    /\ Restart([Synced(file) EXCEPT !.open = TRUE])

ClientStep(c) ==
    \/ Execute(c)
    \/ WriteCommand(c)
    \/ WriteToClosed(c)
    \/ SyncCommand(c)
    \/ BufferCommand(c)

Next ==
    \/ \E c \in Client : ClientStep(c)
    \/ BackgroundSync
    \/ StartRewrite
    \/ TakeSnapshot
    \/ SwapBuffer
    \/ ReplaceFile
    \/ ReplaceFails
    \/ RewriteFails
    \/ Killed
    \/ PowerLoss
    \/ Shutdown

Spec == Init /\ [][Next]_vars

-----------------------------------------------------------------------------
(* Properties. *)

\* Every variable keeps its type; the counts of the file are in order.
TypeOK ==
    /\ policy \in Policies
    /\ db \in Seq(Command)
    /\ issued \in 0 .. MaxCommands
    /\ pc \in [Client -> {"ready", "executed", "syncing", "wrote"}]
    /\ cur \in [Client -> Command]
    /\ mu \in Client \cup {Free}
    /\ file \in [entries : Seq(Command), flushed : Nat, part : BOOLEAN, synced : Nat,
                 torn : Nat, bare : Nat, open : BOOLEAN]
    /\ file.synced <= file.flushed /\ file.flushed <= Len(file.entries)
    /\ rewrite \in {"idle", "snapshot", "buffer", "replace"}
    /\ isRewriting \in BOOLEAN
    /\ rewriteBuffer \in Seq(Command)
    /\ temp \in Seq(Command)
    /\ acked \subseteq Command
    /\ replaced \in BOOLEAN
    /\ rewrites \in 0 .. MaxRewrites
    /\ restarts \in 0 .. MaxRestarts

LoggedIn(cmds) == {cmd \in cmds : Logged(cmd.kind)}
AboutToLog == {cur[c] : c \in {c \in Client : pc[c] = "executed"}}

\* Until a rewrite takes the place of the file, and whatever rewrites fail or
\* are cut short by the end of the process, the file has every logged command
\* of the store but those about to be written, and has each one once; and if it
\* can be loaded, nothing else.  (WriteCommand writes to the main file during a
\* rewrite; a rename that fails leaves the file closed, which ends it too.)
LogExact ==
    ~replaced =>
        /\ IsInjective(file.entries)
        /\ LoggedIn(ToSet(db)) \subseteq ToSet(file.entries) \cup AboutToLog
        /\ Loads(file) => ToSet(file.entries) \subseteq ToSet(db)

\* SyncAlways: a logged command whose reply was sent is on the disk, and after
\* any restart that could load the file it is in the store.
AckedDurable ==
    policy = "always" /\ ~replaced =>
        /\ LoggedIn(acked) \subseteq ToSet(SubSeq(file.entries, 1, file.synced))
        /\ Loads(file) => LoggedIn(acked) \subseteq ToSet(db)

\* The commands that a finished rewrite drops are of the kinds it cannot
\* convert, or met the rewrite buffer after it was swapped (SwapBuffer), or are
\* still on their way to it.  The file must hold what the store does before.
LostOnlyLate ==
    [][rewrite = "replace" /\ restarts' = restarts /\ Loads(file) =>
         \A cmd \in ToSet(file.entries) \ ToSet(file'.entries) :
             \/ ~Converted(cmd)
             \/ cmd \in ToSet(rewriteBuffer)
             \/ \E c \in Client : pc[c] = "wrote" /\ cur[c] = cmd]_vars

Quiet == rewrite = "idle" /\ \A c \in Client : pc[c] = "ready"

\* "This ensures zero data loss even if commands are written during rewrite"
\* (aof.go, on Rewrite): what was executed is in the file when all is quiet.
ZeroLoss == Quiet => ToSet(db) \subseteq ToSet(file.entries)

\* "creates a new AOF file with minimal commands to reconstruct current state"
\* (aof.go, on Rewrite): the file applies no command twice.
AppliedOnce == Quiet => IsInjective(file.entries)

\* "Data loss: None (every command is persisted before returning to client)"
\* (aof.go, SyncAlways): a command that was answered is in the store.
AckedKept == policy = "always" => acked \subseteq ToSet(db)

\* "Ensures sequential command ordering" (docs/aof-multithreading.md): the file
\* has the commands in the order they were executed in.
LogOrder == Quiet => \A i, j \in DOMAIN file.entries :
                         i < j => file.entries[i].id < file.entries[j].id
=============================================================================
