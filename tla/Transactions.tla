---------------------------- MODULE Transactions ----------------------------
(* MULTI, EXEC, DISCARD, WATCH and UNWATCH: internal/handler/transaction.go,
   pipeline_transaction.go and the dispatch of pipeline_executor.go.

   Each client has a goroutine (HandlePipeline) that executes its commands one
   after the other.  A command travels to the processor goroutine, which
   executes it in one step, and back; only then does the client's goroutine
   touch the keys it reports as written.  The steps of different clients
   interleave at each of these points.  A command that times out on the way is
   given up by its client but still executed, some time later.

   The store is abstracted to a version per key, the number of its changes. *)
EXTENDS Naturals, Sequences

CONSTANTS Client,
          Key,
          Names,        \* the command names clients use; see Changes
          Timeouts,     \* whether commands may time out
          MaxQueue,     \* bound on the commands queued in one transaction
          MaxCommands   \* bound on the commands issued in all

AllNames == {"GET", "SET", "ZADD", "SMOVE", "FLUSHALL"}

ASSUME TransactionsAssumption ==
    /\ Names \subseteq AllNames
    /\ Timeouts \in BOOLEAN
    /\ MaxQueue \in Nat
    /\ MaxCommands \in Nat

Command == [name : AllNames, key : Key, dest : Key]

\* The commands worth telling apart: only SMOVE has a destination.
Commands == {cmd \in [name : Names, key : Key, dest : Key] :
                cmd.name # "SMOVE" => cmd.dest = cmd.key}

\* The keys a command changes in the store.
Changes(cmd) ==
    CASE cmd.name = "GET" -> {}
      [] cmd.name \in {"SET", "ZADD"} -> {cmd.key}
      [] cmd.name = "SMOVE" -> {cmd.key, cmd.dest}
      [] cmd.name = "FLUSHALL" -> Key

\* The keys it reports: sorted set commands are not listed, SMOVE only has its
\* source, and FLUSHALL has none.
GetWriteKeys(cmd) == IF cmd.name \in {"SET", "SMOVE"} THEN {cmd.key} ELSE {}

VARIABLES tx,            \* Transaction of each client, with its connection
          keyWatchers,   \* the reverse index of the TransactionManager
          pc,            \* where the goroutine of each client is
          cur,           \* the command it is executing
          orphans,       \* commands given up by their clients, not yet executed
          version,       \* the store
          issued,        \* commands issued so far
          seen,          \* history: the version of each key when it was watched
          unreported     \* history: keys changed without a report by their writer

vars == <<tx, keyWatchers, pc, cur, orphans, version, issued, seen, unreported>>

Transaction == [started : BOOLEAN, queue : Seq(Command),
                watched : SUBSET Key, dirty : BOOLEAN]

NewTransaction == [started |-> FALSE, queue |-> <<>>, watched |-> {}, dirty |-> FALSE]

NoCommand == [name |-> "GET", key |-> "none", dest |-> "none"]

Init ==
    /\ tx = [c \in Client |-> NewTransaction]
    /\ keyWatchers = [k \in Key |-> {}]
    /\ pc = [c \in Client |-> "ready"]
    /\ cur = [c \in Client |-> NoCommand]
    /\ orphans = {}
    /\ version = [k \in Key |-> 0]
    /\ issued = 0
    /\ seen = [c \in Client |-> [k \in Key |-> 0]]
    /\ unreported = {}

Reset(t) == [t EXCEPT !.started = FALSE, !.queue = <<>>]

ClearWatches(t) == [t EXCEPT !.watched = {}, !.dirty = FALSE]

\* Variant: the watched keys are read after they were cleared.
UnwatchCleared(c) ==
    /\ keyWatchers' = [k \in Key |-> IF k \in tx'[c].watched THEN keyWatchers[k] \ {c}
                                                            ELSE keyWatchers[k]]
    /\ seen' = [seen EXCEPT ![c] = [k \in Key |-> 0]]

\* c leaves the index of the keys it watches, and those only.
UnwatchAllKeys(c) ==
    /\ keyWatchers' = [k \in Key |-> IF k \in tx[c].watched THEN keyWatchers[k] \ {c}
                                                           ELSE keyWatchers[k]]
    /\ seen' = [seen EXCEPT ![c] = [k \in Key |-> 0]]

-----------------------------------------------------------------------------
(* Transaction control, in the goroutine of the client. *)

Multi(c) ==
    /\ pc[c] = "ready" /\ ~tx[c].started
    /\ tx' = [tx EXCEPT ![c].started = TRUE, ![c].queue = <<>>]
    /\ UNCHANGED <<keyWatchers, pc, cur, orphans, version, issued, seen, unreported>>

Queue(c) == \E cmd \in Commands :
    /\ pc[c] = "ready" /\ tx[c].started
    /\ Len(tx[c].queue) < MaxQueue /\ issued < MaxCommands
    /\ tx' = [tx EXCEPT ![c].queue = Append(@, cmd)]
    /\ issued' = issued + 1
    /\ UNCHANGED <<keyWatchers, pc, cur, orphans, version, seen, unreported>>

\* DISCARD keeps the watched keys and the dirty flag.
Discard(c) ==
    /\ pc[c] = "ready" /\ tx[c].started
    /\ tx' = [tx EXCEPT ![c] = Reset(@)]
    /\ UNCHANGED <<keyWatchers, pc, cur, orphans, version, issued, seen, unreported>>

\* WATCH takes the lock of the manager once per key.
Watch(c, k) ==
    /\ pc[c] = "ready" /\ ~tx[c].started
    /\ tx' = [tx EXCEPT ![c].watched = @ \cup {k}]
    /\ keyWatchers' = [keyWatchers EXCEPT ![k] = @ \cup {c}]
    /\ seen' = IF k \in tx[c].watched THEN seen ELSE [seen EXCEPT ![c][k] = version[k]]
    /\ UNCHANGED <<pc, cur, orphans, version, issued, unreported>>

\* UNWATCH is not queued, even inside MULTI.
Unwatch(c) ==
    /\ pc[c] = "ready"
    /\ tx' = [tx EXCEPT ![c] = ClearWatches(@)]
    /\ UnwatchAllKeys(c)
    /\ UNCHANGED <<pc, cur, orphans, version, issued, unreported>>

ExecAbort(c) ==
    /\ pc[c] = "ready" /\ tx[c].started /\ tx[c].dirty
    /\ tx' = [tx EXCEPT ![c] = ClearWatches(Reset(@))]
    /\ UnwatchAllKeys(c)
    /\ UNCHANGED <<pc, cur, orphans, version, issued, unreported>>

\* The dirty flag was clear when EXEC looked; the queue is executed from here.
ExecCommit(c) ==
    /\ pc[c] = "ready" /\ tx[c].started /\ ~tx[c].dirty
    /\ pc' = [pc EXCEPT ![c] = "exec"]
    /\ UNCHANGED <<tx, keyWatchers, cur, orphans, version, issued, seen, unreported>>

\* The loop of EXEC takes the next command of the queue.
ExecNext(c) ==
    /\ pc[c] = "exec" /\ tx[c].queue # <<>>
    /\ pc' = [pc EXCEPT ![c] = "submitted"]
    /\ cur' = [cur EXCEPT ![c] = Head(tx[c].queue)]
    /\ tx' = [tx EXCEPT ![c].queue = Tail(@)]
    /\ UNCHANGED <<keyWatchers, orphans, version, issued, seen, unreported>>

ExecDone(c) ==
    /\ pc[c] = "exec" /\ tx[c].queue = <<>>
    /\ pc' = [pc EXCEPT ![c] = "ready"]
    /\ tx' = [tx EXCEPT ![c] = ClearWatches(Reset(@))]
    /\ UnwatchAllKeys(c)
    /\ UNCHANGED <<cur, orphans, version, issued, unreported>>

\* RemoveClient, when the connection ends; its next use is a new client.
RemoveClient(c) ==
    /\ pc[c] = "ready"
    /\ tx' = [tx EXCEPT ![c] = NewTransaction]
    /\ UnwatchAllKeys(c)
    /\ UNCHANGED <<pc, cur, orphans, version, issued, unreported>>

-----------------------------------------------------------------------------
(* The way of a command, queued or not, to the processor and back. *)

Issue(c) == \E cmd \in Commands :
    /\ pc[c] = "ready" /\ ~tx[c].started
    /\ issued < MaxCommands
    /\ issued' = issued + 1
    /\ pc' = [pc EXCEPT ![c] = "submitted"]
    /\ cur' = [cur EXCEPT ![c] = cmd]
    /\ UNCHANGED <<tx, keyWatchers, orphans, version, seen, unreported>>

Applied(cmd) == [k \in Key |-> IF k \in Changes(cmd) THEN version[k] + 1 ELSE version[k]]

\* The processor goroutine executes the command c waits for.
Execute(c) ==
    /\ pc[c] = "submitted"
    /\ pc' = [pc EXCEPT ![c] = "touch"]
    /\ version' = Applied(cur[c])
    /\ unreported' = unreported \cup (Changes(cur[c]) \ GetWriteKeys(cur[c]))
    /\ UNCHANGED <<tx, keyWatchers, cur, orphans, issued, seen>>

\* The context's deadline fires first: the client goes on to touch the keys.
Timeout(c) ==
    /\ Timeouts /\ pc[c] = "submitted"
    /\ pc' = [pc EXCEPT ![c] = "touch"]
    /\ orphans' = orphans \cup {cur[c]}
    /\ UNCHANGED <<tx, keyWatchers, cur, version, issued, seen, unreported>>

ExecuteOrphan(cmd) ==
    /\ cmd \in orphans
    /\ orphans' = orphans \ {cmd}
    /\ version' = Applied(cmd)
    /\ unreported' = unreported \cup Changes(cmd)
    /\ UNCHANGED <<tx, keyWatchers, pc, cur, issued, seen>>

\* Variant: only watchers that are already in MULTI are dirtied.
TouchStarted(c) ==
    /\ pc[c] = "touch"
    /\ tx' = [d \in Client |->
                IF tx[d].started /\ \E k \in GetWriteKeys(cur[c]) : d \in keyWatchers[k]
                THEN [tx[d] EXCEPT !.dirty = TRUE]
                ELSE tx[d]]
    /\ pc' = [pc EXCEPT ![c] = IF tx[c].started THEN "exec" ELSE "ready"]
    /\ cur' = [cur EXCEPT ![c] = NoCommand]
    /\ UNCHANGED <<keyWatchers, orphans, version, issued, seen, unreported>>

\* TouchKeys, after the response has come back.
TouchKeys(c) ==
    /\ pc[c] = "touch"
    /\ tx' = [d \in Client |->
                IF \E k \in GetWriteKeys(cur[c]) : d \in keyWatchers[k]
                THEN [tx[d] EXCEPT !.dirty = TRUE]
                ELSE tx[d]]
    /\ pc' = [pc EXCEPT ![c] = IF tx[c].started THEN "exec" ELSE "ready"]
    /\ cur' = [cur EXCEPT ![c] = NoCommand]
    /\ UNCHANGED <<keyWatchers, orphans, version, issued, seen, unreported>>

ClientStep(c) ==
    \/ Multi(c) \/ Queue(c) \/ Discard(c)
    \/ \E k \in Key : Watch(c, k)
    \/ Unwatch(c) \/ RemoveClient(c)
    \/ ExecAbort(c) \/ ExecCommit(c) \/ ExecNext(c) \/ ExecDone(c)
    \/ Issue(c) \/ Timeout(c) \/ TouchKeys(c)

Next ==
    \/ \E c \in Client : ClientStep(c)
    \/ \E c \in Client : Execute(c)
    \/ \E cmd \in orphans : ExecuteOrphan(cmd)

Spec == Init /\ [][Next]_vars

-----------------------------------------------------------------------------
InExec(c) == tx[c].started /\ pc[c] # "ready"

\* The type invariant.
TypeOK ==
    /\ tx \in [Client -> Transaction]
    /\ keyWatchers \in [Key -> SUBSET Client]
    /\ pc \in [Client -> {"ready", "submitted", "touch", "exec"}]
    /\ cur \in [Client -> Command \cup {NoCommand}]
    /\ \A c \in Client : pc[c] \in {"submitted", "touch"} => cur[c] \in Command
    /\ orphans \subseteq Command
    /\ version \in [Key -> Nat]
    /\ issued \in Nat
    /\ seen \in [Client -> [Key -> Nat]]
    /\ unreported \subseteq Key

\* The reverse index keyWatchers and the WatchedKeys of the clients are each
\* other's inverse after any mix of WATCH, UNWATCH, EXEC and disconnects: a key
\* missing from the index would never dirty its watcher, a client left in it
\* would be dirtied by keys it no longer watches.
WatchIndexExact ==
    \A c \in Client, k \in Key : c \in keyWatchers[k] <=> k \in tx[c].watched

\* Some client has executed, or given up, a write of k and not yet touched it.
TouchPending(k) == \E d \in Client : pc[d] = "touch" /\ k \in GetWriteKeys(cur[d])

\* A watched key that has changed since WATCH has dirtied its watcher, or its
\* writer's touch is still to come, or its writer did not report the key (ZADD,
\* FLUSHALL, the destination of SMOVE, a command that timed out).
ChangeIsKnown ==
    \A c \in Client : \A k \in tx[c].watched :
        version[k] # seen[c][k] => tx[c].dirty \/ TouchPending(k) \/ k \in unreported

\* docs/TRANSACTIONS.md:191 "**Abort if modified**, **commit if unchanged**": EXEC goes
\* on to execute the queue only if no watched key has changed since WATCH.
CommitsIfUnchanged ==
    [][\A c \in Client : ExecCommit(c) =>
          \A k \in tx[c].watched : version[k] = seen[c][k]]_vars

\* docs/TRANSACTIONS.md:34 "(all-or-nothing, no interleaving)": no command of
\* another client is executed between the commands of an EXEC.
NoInterleaving ==
    [][\A c, d \in Client : InExec(c) /\ c # d => ~Execute(d)]_vars

=============================================================================
