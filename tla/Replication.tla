---------------------------- MODULE Replication ----------------------------
(* A master and its replicas: internal/replication/{replication,replica}.go
   and internal/handler/replication_handlers.go.

   Commands are numbered in the order in which the processor executes them.
   The goroutine of each client passes its command on to PropagateCommand
   afterwards, propagateCommands writes the queued commands to the backlog and
   then to the replicas that are online, and handlePSync synchronises a replica
   while both go on.  A command is CmdBytes[c] bytes of RESP, <<c, 1>> being
   its "*n" line.  The data are strings, which the RDB transfer carries. *)
EXTENDS Backlog, FiniteSets

CONSTANTS Replica,
          MaxCmds,        \* bound on the commands executed
          CmdBytes,       \* the length of each command
          ChanSize,       \* the capacity of commandChan, 1000 in the code
          MaxFaults       \* bound on broken connections and restarts of the master

Cmd == 1 .. MaxCmds
None == 0
Garbled == MaxCmds + 1    \* a command with the arguments of others

ASSUME ReplicationAssumption ==
    /\ MaxCmds \in Nat /\ ChanSize \in Nat \ {0}
    /\ MaxFaults \in Nat
    /\ CmdBytes \in [Cmd -> Nat \ {0}]

VARIABLES executed,     \* the number of commands executed
          pending,      \* executed, not yet passed to PropagateCommand
          commandChan,  \* queued commands
          sending,      \* the command propagateToReplicas is working on
          master,       \* replID, offset and backlog of the master
          entry,        \* the master's connection of each replica
          wire,         \* what the replica has not read of that connection
          info,         \* MasterInfo of each replica
          base,         \* the snapshot a replica loaded: commands 1 .. base
          stream,       \* the commands it has executed since
          log,          \* history: the commands appended to the backlog
          lost,         \* history: the commands that were never queued
          missed,       \* history: sent while the replica was between sync and online
          fault,        \* history: what spoiled the replica's copy
          faults        \* history: the number of breaks and restarts

vars == <<executed, pending, commandChan, sending, master, entry, wire, info, base,
          stream, log, lost, missed, fault, faults>>
masterVars == <<executed, pending, commandChan, sending, master, log, lost>>
replicaVars == <<info, base, stream>>

Bytes(c) == [i \in 1 .. CmdBytes[c] |-> <<c, i>>]

\* from: the length of the log when the master started.
NewMaster(id, n) ==
    [replID |-> id, offset |-> 0, backlog |-> NewReplicationBacklog, from |-> n]

NoMaster == [state |-> "connecting", replID |-> None, offset |-> 0]

Init ==
    /\ executed = 0 /\ pending = {} /\ commandChan = <<>> /\ sending = None
    /\ master = NewMaster(1, 0)
    /\ entry = [r \in Replica |-> "none"]
    /\ wire = [r \in Replica |-> <<>>]
    /\ info = [r \in Replica |-> NoMaster]
    /\ base = [r \in Replica |-> 0]
    /\ stream = [r \in Replica |-> <<>>]
    /\ log = <<>> /\ lost = {}
    /\ missed = [r \in Replica |-> {}]
    /\ fault = [r \in Replica |-> {}]
    /\ faults = 0

-----------------------------------------------------------------------------
(* The master's clients. *)

Execute ==
    /\ executed < MaxCmds
    /\ executed' = executed + 1
    /\ pending' = pending \cup {executed + 1}
    /\ UNCHANGED <<commandChan, sending, master, entry, wire, info, base, stream,
                   log, lost, missed, fault, faults>>

\* Variant: a full queue makes room by forgetting its oldest command.
PropagateCommandEvicting(c) ==
    /\ c \in pending
    /\ pending' = pending \ {c}
    /\ commandChan' = IF Len(commandChan) < ChanSize THEN Append(commandChan, c)
                      ELSE Append(Tail(commandChan), c)
    /\ UNCHANGED <<executed, sending, master, entry, wire, info, base, stream,
                   log, lost, missed, fault, faults>>

\* In the goroutine of the client; a full queue drops the command.
PropagateCommand(c) ==
    /\ c \in pending
    /\ pending' = pending \ {c}
    /\ IF Len(commandChan) < ChanSize
       THEN commandChan' = Append(commandChan, c) /\ UNCHANGED lost
       ELSE lost' = lost \cup {c} /\ UNCHANGED commandChan
    /\ UNCHANGED <<executed, sending, master, entry, wire, info, base, stream,
                   log, missed, fault, faults>>

\* The client's wait timed out although the command was executed.
GiveUp(c) ==
    /\ c \in pending
    /\ pending' = pending \ {c}
    /\ lost' = lost \cup {c}
    /\ UNCHANGED <<executed, commandChan, sending, master, entry, wire, info, base,
                   stream, log, missed, fault, faults>>

-----------------------------------------------------------------------------
(* propagateToReplicas, in the goroutine propagateCommands. *)

AppendToBacklog ==
    /\ sending = None /\ commandChan # <<>>
    /\ LET c == Head(commandChan) IN
       /\ sending' = c
       /\ log' = Append(log, c)
       /\ master' = [master EXCEPT !.backlog = AppendBacklog(@, Bytes(c)),
                                   !.offset = @ + CmdBytes[c]]
    /\ commandChan' = Tail(commandChan)
    /\ UNCHANGED <<executed, pending, entry, wire, info, base, stream, lost, missed,
                   fault, faults>>

\* Variant: a command overtakes those that the replica has yet to read.
SendToReplicasRacing ==
    /\ sending # None
    /\ wire' = [r \in Replica |->
           IF entry[r] # "online" THEN wire[r]
           ELSE IF info[r].state = "connected" THEN Bytes(sending) \o wire[r]
           ELSE wire[r] \o Bytes(sending)]
    /\ missed' = [r \in Replica |-> IF entry[r] \in {"transferring", "resuming"}
                                    THEN missed[r] \cup {sending} ELSE missed[r]]
    /\ sending' = None
    /\ UNCHANGED <<executed, pending, commandChan, master, entry, info, base, stream,
                   log, lost, fault, faults>>

SendToReplicas ==
    /\ sending # None
    /\ wire' = [r \in Replica |-> IF entry[r] = "online"
                                  THEN wire[r] \o Bytes(sending) ELSE wire[r]]
    /\ missed' = [r \in Replica |-> IF entry[r] \in {"transferring", "resuming"}
                                    THEN missed[r] \cup {sending} ELSE missed[r]]
    /\ sending' = None
    /\ UNCHANGED <<executed, pending, commandChan, master, entry, info, base, stream,
                   log, lost, fault, faults>>

-----------------------------------------------------------------------------
(* handlePSync, in the goroutine of the replica's connection. *)

\* The handshake of a replica has come to PSYNC.
Asks(r) == info[r].state = "connecting" /\ entry[r] = "none"

CanResume(r) == info[r].replID = master.replID /\ InBacklog(master.backlog, info[r].offset)

\* A command that fills the ring was appended to one with history.
Oversized == \E i \in master.from + 2 .. Len(log) : CmdBytes[log[i]] >= BacklogSize

\* The offset that PSYNC reads includes a command that is still to be sent.
CountedEarly == IF sending = None THEN {} ELSE {"ahead"}

\* CONTINUE and the bytes of the backlog are written; AddReplica comes later.
PartialResync(r) ==
    /\ Asks(r) /\ CanResume(r)
    /\ entry' = [entry EXCEPT ![r] = "resuming"]
    /\ wire' = [wire EXCEPT ![r] = <<"CONTINUE">> \o GetRange(master.backlog, info[r].offset)]
    /\ fault' = [fault EXCEPT ![r] = @ \cup {"resumed"} \cup CountedEarly \cup
                    IF Straight(master.backlog) /\ ~Oversized THEN {} ELSE {"rotated"}]
    /\ UNCHANGED <<masterVars, replicaVars, missed, faults>>

\* FULLRESYNC with the offset of this moment, and AddReplica.
FullResync(r) ==
    /\ Asks(r) /\ ~CanResume(r)
    /\ entry' = [entry EXCEPT ![r] = "connecting"]
    /\ wire' = [wire EXCEPT ![r] = <<<<"FULLRESYNC", master.replID, master.offset>>>>]
    /\ fault' = [fault EXCEPT ![r] = (@ \ {"ahead"}) \cup CountedEarly]
    /\ UNCHANGED <<masterVars, replicaVars, missed, faults>>

\* generateRDB reads the store, and the snapshot is written.
SendSnapshot(r) ==
    /\ entry[r] = "connecting"
    /\ entry' = [entry EXCEPT ![r] = "transferring"]
    /\ wire' = [wire EXCEPT ![r] = Append(@, <<"RDB", executed>>)]
    /\ missed' = [missed EXCEPT ![r] = {}]
    /\ UNCHANGED <<masterVars, replicaVars, fault, faults>>

GoOnline(r) ==
    /\ entry[r] \in {"transferring", "resuming"}
    /\ entry' = [entry EXCEPT ![r] = "online"]
    /\ UNCHANGED <<masterVars, replicaVars, wire, missed, fault, faults>>

-----------------------------------------------------------------------------
(* The replica. *)

\* The answer to PSYNC, in performHandshake.
ReadPsyncReply(r) ==
    /\ info[r].state = "connecting" /\ wire[r] # <<>>
    /\ info' = [info EXCEPT ![r] =
           IF Head(wire[r]) = "CONTINUE" THEN [@ EXCEPT !.state = "connected"]
           ELSE [state |-> "syncing", replID |-> Head(wire[r])[2], offset |-> Head(wire[r])[3]]]
    /\ wire' = [wire EXCEPT ![r] = Tail(@)]
    /\ UNCHANGED <<masterVars, entry, base, stream, missed, fault, faults>>

\* One Read is made for the snapshot: it may return a part of it only.  What is
\* loaded is added to the data that the replica has.
ReadSnapshot(r) == \E whole \in BOOLEAN :
    /\ info[r].state = "syncing" /\ wire[r] # <<>>
    /\ info' = [info EXCEPT ![r].state = "connected"]
    /\ IF whole
       THEN /\ base' = [base EXCEPT ![r] = Head(wire[r])[2]]
            /\ stream' = [stream EXCEPT ![r] = <<>>]
            /\ fault' = [fault EXCEPT ![r] = @ \cap {"ahead"}]
       ELSE /\ fault' = [fault EXCEPT ![r] = @ \cup {"torn"}]
            /\ UNCHANGED <<base, stream>>
    /\ wire' = [wire EXCEPT ![r] = Tail(@)]
    /\ UNCHANGED <<masterVars, entry, missed, faults>>

\* Variant: a command is executed once the next one has begun to arrive.
ReadCommandLate(r) ==
    /\ info[r].state = "connected" /\ wire[r] # <<>> /\ Head(wire[r])[2] = 1
    /\ LET c == Head(wire[r])[1]
           n == CmdBytes[c] IN
       /\ n < Len(wire[r])
       /\ stream' = [stream EXCEPT ![r] =
              Append(@, IF SubSeq(wire[r], 1, n) = Bytes(c) THEN c ELSE Garbled)]
       /\ wire' = [wire EXCEPT ![r] = SubSeq(@, n + 1, Len(@))]
    /\ info' = [info EXCEPT ![r].offset = @ + 1]
    /\ UNCHANGED <<masterVars, entry, base, missed, fault, faults>>

\* A "*n" line is followed by the bytes of its arguments, whatever they are.
ReadCommand(r) ==
    /\ info[r].state = "connected" /\ wire[r] # <<>> /\ Head(wire[r])[2] = 1
    /\ LET c == Head(wire[r])[1]
           n == CmdBytes[c] IN
       /\ n <= Len(wire[r])
       /\ stream' = [stream EXCEPT ![r] =
              Append(@, IF SubSeq(wire[r], 1, n) = Bytes(c) THEN c ELSE Garbled)]
       /\ wire' = [wire EXCEPT ![r] = SubSeq(@, n + 1, Len(@))]
    /\ info' = [info EXCEPT ![r].offset = @ + 1]
    /\ UNCHANGED <<masterVars, entry, base, missed, fault, faults>>

\* Any other line is skipped.
SkipLine(r) ==
    /\ info[r].state = "connected" /\ wire[r] # <<>> /\ Head(wire[r])[2] # 1
    /\ wire' = [wire EXCEPT ![r] = Tail(@)]
    /\ UNCHANGED <<masterVars, replicaVars, entry, missed, fault, faults>>

\* handleMasterDisconnect: five seconds later ConnectToMaster, with the same
\* replID and offset.
Reconnect(r) ==
    /\ info[r].state = "disconnected"
    /\ info' = [info EXCEPT ![r].state = "connecting"]
    /\ UNCHANGED <<masterVars, entry, wire, base, stream, missed, fault, faults>>

-----------------------------------------------------------------------------
\* replID and offset are those of a snapshot that has not been loaded.
Interrupted(r) == IF info[r].state = "syncing" THEN {"torn"} ELSE {}

\* The connection of r breaks; what was under way is lost.
Break(r) ==
    /\ faults < MaxFaults /\ entry[r] # "none"
    /\ faults' = faults + 1
    /\ entry' = [entry EXCEPT ![r] = "none"]
    /\ wire' = [wire EXCEPT ![r] = <<>>]
    /\ info' = [info EXCEPT ![r].state = "disconnected"]
    /\ fault' = [fault EXCEPT ![r] = @ \cup Interrupted(r)]
    /\ UNCHANGED <<masterVars, base, stream, missed>>

\* The master starts again with its data, a new replID and an empty backlog.
Restart ==
    /\ faults < MaxFaults
    /\ faults' = faults + 1
    /\ master' = NewMaster(master.replID + 1, Len(log))
    /\ pending' = {} /\ commandChan' = <<>> /\ sending' = None
    /\ entry' = [r \in Replica |-> "none"]
    /\ wire' = [r \in Replica |-> <<>>]
    /\ info' = [r \in Replica |-> [info[r] EXCEPT !.state = "disconnected"]]
    /\ fault' = [r \in Replica |-> fault[r] \cup Interrupted(r)]
    /\ UNCHANGED <<executed, base, stream, log, lost, missed>>

Work(r) ==
    \/ PartialResync(r) \/ FullResync(r) \/ SendSnapshot(r) \/ GoOnline(r)
    \/ ReadPsyncReply(r) \/ ReadSnapshot(r) \/ ReadCommand(r) \/ SkipLine(r)
    \/ Reconnect(r)

Next ==
    \/ Execute
    \/ \E c \in Cmd : PropagateCommand(c) \/ GiveUp(c)
    \/ AppendToBacklog \/ SendToReplicas
    \/ \E r \in Replica : Work(r) \/ Break(r)
    \/ Restart

\* The propagator and the goroutines of a replica's connection do not stop.
Spec ==
    /\ Init /\ [][Next]_vars
    /\ WF_vars(AppendToBacklog \/ SendToReplicas)
    /\ \A r \in Replica : WF_vars(Work(r))

-----------------------------------------------------------------------------
\* The type invariant.
TypeOK ==
    /\ executed \in 0 .. MaxCmds
    /\ pending \subseteq 1 .. executed /\ lost \subseteq 1 .. executed
    /\ commandChan \in Seq(Cmd) /\ Len(commandChan) <= ChanSize
    /\ sending \in Cmd \cup {None}
    /\ entry \in [Replica -> {"none", "connecting", "transferring", "resuming", "online"}]
    /\ info \in [Replica -> [state : {"disconnected", "connecting", "syncing", "connected"},
                             replID : Nat, offset : Nat]]
    /\ base \in [Replica -> 0 .. executed]
    /\ stream \in [Replica -> Seq(Cmd \cup {Garbled})]
    /\ log \in Seq(Cmd)
    /\ missed \in [Replica -> SUBSET Cmd]
    /\ fault \in [Replica -> SUBSET {"ahead", "resumed", "rotated", "torn"}]

\* The bytes propagated since the master started.
Propagated == FlattenSeq([i \in 1 .. Len(log) - master.from |-> Bytes(log[master.from + i])])

\* docs/REPLICATION.md: the backlog keeps the last bytes of the stream.  Its end
\* is the master's offset, and GetRange returns exactly the bytes from an
\* offset to the end, as long as the oldest byte is at the start of the buffer
\* and no single command was larger than the buffer.
BacklogExact ==
    LET rb == master.backlog IN
    ~Oversized =>
        /\ rb.offset + rb.historyLen = master.offset
        /\ Straight(rb) => \A off \in 0 .. master.offset :
              InBacklog(rb, off) =>
                  GetRange(rb, off) = SubSeq(Propagated, off + 1, master.offset)

\* replication.go:159 "GetRange returns data from the backlog starting at offset": violated
\* once the ring has wrapped around.
RangeFromOffset ==
    LET rb == master.backlog IN
    ~Oversized => \A off \in 0 .. master.offset :
        InBacklog(rb, off) => GetRange(rb, off) = SubSeq(Propagated, off + 1, master.offset)

\* A replica counts the commands it executes and the master the bytes it
\* propagates, and a replica that resumes executes commands again.  Still its
\* offset is never more than one past that of the master whose replID it holds:
\* the one is a command that was in the backlog when PSYNC read the offset and
\* is sent once more when the replica is online.
OneAheadAtMost ==
    \A r \in Replica :
        info[r].replID = master.replID => info[r].offset <= master.offset + 1

\* A replica executes what it is sent in the order of the log, without gaps and
\* without repetitions, from its snapshot on and until it resumes.
InLogOrder ==
    \A r \in Replica : fault[r] \cap {"resumed", "torn"} = {} =>
        \E i \in 0 .. Len(log) - Len(stream[r]) :
            stream[r] = SubSeq(log, i + 1, i + Len(stream[r]))

\* Nothing is on its way to r.
Settled(r) ==
    /\ pending = {} /\ commandChan = <<>> /\ sending = None
    /\ entry[r] = "online" /\ wire[r] = <<>>

\* Once all is quiet, a replica lacks a command only if the command was never
\* queued, or was sent between the reading of the snapshot (or of the backlog)
\* and the moment the replica was marked online.  The exceptions: the snapshot
\* was not loaded whole; the replica resumed from a backlog that had wrapped
\* around, or from an offset that counted a command sent twice.
LostOnlyInWindow ==
    \A r \in Replica :
        /\ Settled(r)
        /\ fault[r] \cap {"rotated", "torn"} = {} /\ ~({"ahead", "resumed"} \subseteq fault[r])
        => (1 .. executed) \ (lost \cup missed[r]) \subseteq (1 .. base[r]) \cup Range(stream[r])

\* A queued command reaches every replica that is online, unless the connection
\* breaks or the replica's input was out of step when it resumed.
Delivered ==
    \A r \in Replica, c \in Cmd :
        entry[r] = "online" /\ c \in Range(commandChan)
            ~> c \in Range(stream[r]) \/ entry[r] # "online" \/ "rotated" \in fault[r]

=============================================================================
