----------------------------- MODULE Processor -----------------------------
(* Connections, the command processor, scripts, the cleanup ticker and the     *)
(* shutdown of one server.                                                     *)
(*                                                                             *)
(* A connection runs one command at a time: executeWithTimeout hands it to a   *)
(* goroutine of its own and waits for the answer or for the deadline.  The     *)
(* goroutine of an ordinary command submits it to the processor's channel and  *)
(* waits there for ever; the goroutine of a script works on the store itself.  *)
(* All writes here increment one counter, which reads it and then writes it.   *)
EXTENDS Integers, Sequences, FiniteSets, SequencesExt

CONSTANTS
    Client,      \* the connections
    MaxCmds,     \* bound: commands that the clients send
    ChanSize,    \* capacity of the command channel (1000 in the code)
    MaxTicks     \* bound: cleanup commands sent

ProcessorConstants ==
    /\ MaxCmds \in Nat /\ MaxTicks \in Nat /\ ChanSize \in Nat \ {0}

Cmd == 1..MaxCmds
Idle == 0
Cleanup == -1

VARIABLES
    conn,        \* each connection: its pc and the command it waits for
    answered,    \* the commands whose answers have reached their clients
    job,         \* the goroutine of every command: kind, pc and the value it read
    commandChan, \* the processor's channel
    proc,        \* the processor's goroutine: its loop, the command in hand, the value read
    cleanup,     \* periodicCleanup(): its pc and the ticks it has had
    value,       \* the counter in the store
    applied,     \* ghost: the increments carried out
    aof,         \* the append-only file: is it open, what was logged
    stop,        \* how far the shutdown has come
    process,     \* "alive", "exited" or "panicked"
    raced        \* ghost: a script overlapped another writer of the counter

vars == <<conn, answered, job, commandChan, proc, cleanup, value, applied, aof, stop, process, raced>>

-----------------------------------------------------------------------------
\* Variant: the log is closed before the connections are.
StagesLogFirst == <<"up", "cancelled", "waited", "flushed", "closing", "stopped", "closed">>

\* The order of Shutdown's steps.
Stages == <<"up", "cancelled", "closing", "waited", "flushed", "stopped", "closed">>

Past(stage) == \E i, j \in DOMAIN Stages : Stages[i] = stage /\ Stages[j] = stop /\ i <= j

ContextDone == Past("cancelled")
Closed == Past("closed")

Issued == {k \in Cmd : job[k].kind # "none"}

\* A script between its read and its write.
InScript(k) == job[k].kind = "script" /\ job[k].pc = "read"

Executing == proc.cmd # Idle

Init ==
    /\ conn = [c \in Client |-> [pc |-> "idle", cmd |-> Idle]]
    /\ answered = {}
    /\ job = [k \in Cmd |-> [kind |-> "none", pc |-> "none", got |-> 0]]
    /\ commandChan = <<>>
    /\ proc = [loop |-> "run", cmd |-> Idle, got |-> 0]
    /\ cleanup = [pc |-> "select", ticks |-> 0]
    /\ value = 0
    /\ applied = 0
    /\ aof = [open |-> TRUE, logged |-> {}]
    /\ stop = "up"
    /\ process = "alive"
    /\ raced = FALSE

-----------------------------------------------------------------------------
(* A connection: HandlePipeline and executeWithTimeout. *)

\* The client sends its next command and a goroutine starts on it.  Shutdown closes
\* the connections; until then a command that is already on the wire is still read.
Issue(c, kind) ==
    LET k == Cardinality(Issued) + 1 IN
    /\ process = "alive"
    /\ conn[c].pc = "idle"
    /\ ~Past("closing")
    /\ k \in Cmd
    /\ conn' = [conn EXCEPT ![c] = [pc |-> "waiting", cmd |-> k]]
    /\ job' = [job EXCEPT ![k] =
                   [kind |-> kind, pc |-> IF kind = "script" THEN "start" ELSE "submit", got |-> 0]]
    /\ UNCHANGED <<answered, commandChan, proc, cleanup, value, applied, aof, stop, process, raced>>

LogToAOF(k) ==
    aof' = [aof EXCEPT !.logged = IF aof.open /\ job[k].kind = "incr" THEN @ \cup {k} ELSE @]

AfterCommand(c) ==
    conn' = [conn EXCEPT ![c] = [pc |-> IF ContextDone THEN "ended" ELSE "idle", cmd |-> Idle]]

\* The answer arrives first: the command is logged, then answered.  The answer reaches
\* the client if nothing has closed the connection.
Answer(c) ==
    /\ process = "alive"
    /\ conn[c].pc = "waiting"
    /\ job[conn[c].cmd].pc = "done"
    /\ LogToAOF(conn[c].cmd)
    /\ answered' = IF Past("closing") THEN answered ELSE answered \cup {conn[c].cmd}
    /\ AfterCommand(c)
    /\ UNCHANGED <<job, commandChan, proc, cleanup, value, applied, stop, process, raced>>

\* The deadline, or the end of the server's context, comes first: the client is told
\* so and disconnected; the goroutine goes on.  The client may connect again.
Timeout(c) ==
    /\ process = "alive"
    /\ conn[c].pc = "waiting"
    /\ AfterCommand(c)
    /\ UNCHANGED <<answered, job, commandChan, proc, cleanup, value, applied, aof, stop, process, raced>>

\* An idle connection ends at the end of the context or when Shutdown closes it.
Disconnect(c) ==
    /\ process = "alive"
    /\ conn[c].pc = "idle"
    /\ ContextDone
    /\ conn' = [conn EXCEPT ![c].pc = "ended"]
    /\ UNCHANGED <<answered, job, commandChan, proc, cleanup, value, applied, aof, stop, process, raced>>

-----------------------------------------------------------------------------
(* The goroutine of a command. *)

\* A send blocks while the channel is full and panics when it is closed.
Send(message) ==
    IF Closed THEN process' = "panicked" /\ UNCHANGED commandChan
    ELSE /\ Len(commandChan) < ChanSize
         /\ commandChan' = Append(commandChan, message)
         /\ UNCHANGED process

Submit(k) ==
    /\ process = "alive"
    /\ job[k].pc = "submit"
    /\ Send(k)
    /\ job' = [job EXCEPT ![k].pc = "queued"]
    /\ UNCHANGED <<conn, answered, proc, cleanup, value, applied, aof, stop, raced>>

\* redis.call("INCR"): Get, then Set, on the store, not through the processor.
ScriptGet(k) ==
    /\ process = "alive"
    /\ job[k].pc = "start"
    /\ job' = [job EXCEPT ![k].pc = "read", ![k].got = value]
    /\ raced' = (raced \/ Executing \/ \E l \in Cmd : InScript(l))
    /\ UNCHANGED <<conn, answered, commandChan, proc, cleanup, value, applied, aof, stop, process>>

ScriptSet(k) ==
    /\ process = "alive"
    /\ InScript(k)
    /\ value' = job[k].got + 1
    /\ applied' = applied + 1
    /\ job' = [job EXCEPT ![k].pc = "done", ![k].got = 0]
    /\ UNCHANGED <<conn, answered, commandChan, proc, cleanup, aof, stop, process, raced>>

\* Go's runtime may notice that two goroutines use the map at once, and ends the program.
ConcurrentMapAccess ==
    /\ process = "alive"
    /\ Executing
    /\ \E k \in Cmd : InScript(k)
    /\ process' = "panicked"
    /\ UNCHANGED <<conn, answered, job, commandChan, proc, cleanup, value, applied, aof, stop, raced>>

-----------------------------------------------------------------------------
(* The processor: run, drainCommands, executeCommand, periodicCleanup. *)

\* Variant: an increment starts from the value the last one read.
ExecuteCommandCached ==
    IF commandChan = <<>> THEN process' = "panicked" /\ UNCHANGED <<commandChan, proc, cleanup, raced>>
    ELSE /\ commandChan' = Tail(commandChan)
         /\ IF Head(commandChan) = Cleanup
            THEN /\ cleanup' = [cleanup EXCEPT !.pc = "select"]
                 /\ UNCHANGED <<proc, raced>>
            ELSE /\ proc' = [proc EXCEPT !.cmd = Head(commandChan)]
                 /\ raced' = (raced \/ \E k \in Cmd : InScript(k))
                 /\ UNCHANGED cleanup
         /\ UNCHANGED process

\* A received command starts: an increment reads the counter; a cleanup, which leaves
\* the counter alone, is answered at once.  A closed channel that is empty hands out
\* nil, and executeCommand dereferences it.
ExecuteCommand ==
    IF commandChan = <<>> THEN process' = "panicked" /\ UNCHANGED <<commandChan, proc, cleanup, raced>>
    ELSE /\ commandChan' = Tail(commandChan)
         /\ IF Head(commandChan) = Cleanup
            THEN /\ cleanup' = [cleanup EXCEPT !.pc = "select"]
                 /\ UNCHANGED <<proc, raced>>
            ELSE /\ proc' = [proc EXCEPT !.cmd = Head(commandChan), !.got = value]
                 /\ raced' = (raced \/ \E k \in Cmd : InScript(k))
                 /\ UNCHANGED cleanup
         /\ UNCHANGED process

\* run: a command of the channel, though the context may be done as well.
Receive ==
    /\ process = "alive"
    /\ proc.loop = "run" /\ ~Executing
    /\ commandChan # <<>> \/ Closed
    /\ ExecuteCommand
    /\ UNCHANGED <<conn, answered, job, value, applied, aof, stop>>

\* Variant: the response channel has no room, so the processor waits for the client.
FinishRendezvous ==
    /\ process = "alive"
    /\ Executing
    /\ \E c \in Client : conn[c].cmd = proc.cmd
    /\ value' = proc.got + 1
    /\ applied' = applied + 1
    /\ job' = [job EXCEPT ![proc.cmd].pc = "done"]
    /\ proc' = [proc EXCEPT !.cmd = Idle, !.got = 0]
    /\ UNCHANGED <<conn, answered, commandChan, cleanup, aof, stop, process, raced>>

\* The increment is written and answered; the response channel has room for it, so
\* the processor waits for nobody.
Finish ==
    /\ process = "alive"
    /\ Executing
    /\ value' = proc.got + 1
    /\ applied' = applied + 1
    /\ job' = [job EXCEPT ![proc.cmd].pc = "done"]
    /\ proc' = [proc EXCEPT !.cmd = Idle, !.got = 0]
    /\ UNCHANGED <<conn, answered, commandChan, cleanup, aof, stop, process, raced>>

\* run: the processor's own context is done.
StartDraining ==
    /\ process = "alive"
    /\ proc.loop = "run" /\ ~Executing
    /\ Past("stopped")
    /\ proc' = [proc EXCEPT !.loop = "drain"]
    /\ UNCHANGED <<conn, answered, job, commandChan, cleanup, value, applied, aof, stop, process, raced>>

DrainCommand ==
    /\ process = "alive"
    /\ proc.loop = "drain" /\ ~Executing
    /\ commandChan # <<>> \/ Closed
    /\ ExecuteCommand
    /\ UNCHANGED <<conn, answered, job, value, applied, aof, stop>>

\* The select's default: only a channel that is empty and still open ends the drain.
Drained ==
    /\ process = "alive"
    /\ proc.loop = "drain" /\ ~Executing
    /\ commandChan = <<>> /\ ~Closed
    /\ proc' = [proc EXCEPT !.loop = "ended"]
    /\ UNCHANGED <<conn, answered, job, commandChan, cleanup, value, applied, aof, stop, process, raced>>

Tick ==
    /\ process = "alive"
    /\ cleanup.pc = "select"
    /\ cleanup.ticks < MaxTicks
    /\ Send(Cleanup)
    /\ cleanup' = [pc |-> "waiting", ticks |-> cleanup.ticks + 1]
    /\ UNCHANGED <<conn, answered, job, proc, value, applied, aof, stop, raced>>

CleanupEnds ==
    /\ process = "alive"
    /\ cleanup.pc = "select"
    /\ Past("stopped")
    /\ cleanup' = [cleanup EXCEPT !.pc = "ended"]
    /\ UNCHANGED <<conn, answered, job, commandChan, proc, value, applied, aof, stop, process, raced>>

-----------------------------------------------------------------------------
(* Shutdown. *)

NextStage(from) == Stages[1 + CHOOSE i \in DOMAIN Stages : Stages[i] = from]

Advance(from) ==
    /\ process = "alive"
    /\ stop = from
    /\ stop' = NextStage(from)

\* SIGTERM: the signal goroutine cancels the context ...
Signal ==
    /\ Advance("up")
    /\ UNCHANGED <<conn, answered, job, commandChan, proc, cleanup, value, applied, aof, process, raced>>

\* ... which makes Start return, and with it main: from then on the program may end
\* whenever the scheduler lets main run.
MainReturns ==
    /\ process = "alive"
    /\ ContextDone
    /\ process' = "exited"
    /\ UNCHANGED <<conn, answered, job, commandChan, proc, cleanup, value, applied, aof, stop, raced>>

\* Shutdown closes the listener and the connections.
CloseConnections ==
    /\ Advance("cancelled")
    /\ UNCHANGED <<conn, answered, job, commandChan, proc, cleanup, value, applied, aof, process, raced>>

\* All connections have ended, or five seconds have passed.
Wait ==
    /\ Advance("closing")
    /\ UNCHANGED <<conn, answered, job, commandChan, proc, cleanup, value, applied, aof, process, raced>>

CloseAof ==
    /\ Advance("waited")
    /\ aof' = [aof EXCEPT !.open = FALSE]
    /\ UNCHANGED <<conn, answered, job, commandChan, proc, cleanup, value, applied, process, raced>>

\* processor.Shutdown: cancel, then close the channel.
CancelProcessor ==
    /\ Advance("flushed")
    /\ UNCHANGED <<conn, answered, job, commandChan, proc, cleanup, value, applied, aof, process, raced>>

CloseChannel ==
    /\ Advance("stopped")
    /\ UNCHANGED <<conn, answered, job, commandChan, proc, cleanup, value, applied, aof, process, raced>>

-----------------------------------------------------------------------------
ProcessorStep == Receive \/ Finish \/ StartDraining \/ DrainCommand \/ Drained

ShutdownStep ==
    Signal \/ MainReturns \/ CloseConnections \/ Wait \/ CloseAof \/ CancelProcessor \/ CloseChannel

Next ==
    \/ \E c \in Client :
          Issue(c, "incr") \/ Issue(c, "script") \/ Answer(c) \/ Timeout(c) \/ Disconnect(c)
    \/ \E k \in Cmd : Submit(k) \/ ScriptGet(k) \/ ScriptSet(k)
    \/ ConcurrentMapAccess
    \/ ProcessorStep
    \/ Tick \/ CleanupEnds
    \/ ShutdownStep

\* The goroutines of the processor and of the commands are always runnable; Go's
\* scheduler starves none of them, and a blocked send is served in turn.
Fairness ==
    /\ WF_vars(ProcessorStep)
    /\ \A k \in Cmd : SF_vars(Submit(k))

Spec == Init /\ [][Next]_vars

FairSpec == Spec /\ Fairness

-----------------------------------------------------------------------------
TypeOK ==
    /\ conn \in [Client -> [pc : {"idle", "waiting", "ended"}, cmd : Cmd \cup {Idle}]]
    /\ answered \subseteq Cmd
    /\ job \in [Cmd -> [kind : {"none", "incr", "script"},
                       pc : {"none", "start", "read", "submit", "queued", "done"}, got : Nat]]
    /\ commandChan \in Seq(Cmd \cup {Cleanup}) /\ Len(commandChan) <= ChanSize
    /\ proc \in [loop : {"run", "drain", "ended"}, cmd : Cmd \cup {Idle}, got : Nat]
    /\ cleanup \in [pc : {"select", "waiting", "ended"}, ticks : 0..MaxTicks]
    /\ value \in Nat /\ applied \in Nat
    /\ aof \in [open : BOOLEAN, logged : SUBSET Cmd]
    /\ stop \in Range(Stages) /\ process \in {"alive", "exited", "panicked"} /\ raced \in BOOLEAN

\* No increment is lost, whatever times out, is retried or is drained at shutdown, as
\* long as no script works on the counter beside the processor or another script.
CounterExact == raced \/ value = applied

\* A write that a client has seen answered is in the log, however the answer races the
\* shutdown: the connections are closed before the log is.
AnsweredLogged ==
    \A k \in answered : job[k].kind = "incr" => k \in aof.logged

\* Sends on the closed channel and commands read from it do end the program, but only
\* once the log has been flushed and closed; before that only a racing script can.
PanicsAfterFlush == process = "panicked" => ~aof.open \/ raced

\* Every submitted command is executed in the end, although its client may have given
\* up, the channel may be full and the cleanup ticker competes for it.
SubmittedExecuted ==
    \A k \in Cmd :
        job[k].pc = "submit" ~> (job[k].pc = "done" \/ Past("stopped") \/ process # "alive")

\* docs/LUA_SCRIPTING.md: no other command executes while a script does.
ScriptsAtomic == \A k \in Cmd : InScript(k) => job[k].got = value

\* docs/rdb-auto-save.md: a graceful shutdown flushes the log.
ExitFlushes == process = "exited" => ~aof.open

=============================================================================
