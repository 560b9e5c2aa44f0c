---------------------------- MODULE ReplicaLink ----------------------------
(* How a server comes to follow another, loses it and connects again:
   internal/replication/replica.go and REPLICAOF of replication_handlers.go.

   A replica's goroutines share one MasterInfo: the handshake, the reader of
   the replication stream, the heartbeat and the five-second timers of
   handleMasterDisconnect.  None of them is stopped when the connection is
   replaced, and each acts on the MasterInfo of the moment.  What the stream
   carries is in module Replication. *)
EXTENDS Integers, FiniteSets, Functions, FiniteSetsExt

CONSTANTS Server,
          None,        \* the empty host of a server that follows nobody
          Config,      \* the master each server is configured with, or None
          MaxTimers,   \* bound on the timers of a server
          MaxReaders,  \* bound on the readers of its connections
          Faulty,      \* the servers that may crash or hang, or whose clients lose them
          MaxFaults    \* bound on crashes, hangs and broken connections

LinkConstants ==
    /\ None \notin Server /\ Faulty \subseteq Server
    /\ Config \in [Server -> Server \cup {None}]
    /\ MaxTimers \in Nat /\ MaxReaders \in Nat /\ MaxFaults \in Nat

VARIABLES status,   \* a process is "up", "hung" (its sockets stay open) or "down"
          node,     \* the ReplicationManager of each server and its goroutines
          slaves,   \* the connections in each server's replicas
          demoted,  \* history: masters that a timer or a restart made replicas
          faults    \* history: the number of faults

linkVars == <<status, node, slaves, demoted, faults>>

Host == Server \cup {None}

\* born: the role at creation; only a "master" then runs propagateCommands.
\* conn: the Conn of MasterInfo; "broken" is a connection that the other side
\* has left.  current and stale: the readers of conn and of replaced ones.
NewNode(role) ==
    [role |-> role, born |-> role, host |-> None, conn |-> "nil", state |-> "disconnected",
     handshakes |-> 0, current |-> 0, stale |-> 0,
     timers |-> [h \in Host |-> 0]]

Reachable(t) == t # None /\ status[t] # "down"

-----------------------------------------------------------------------------
(* The functions of ReplicationManager on a MasterInfo and its goroutines. *)

\* Variant: the role changes although nobody answers.
ConnectToMasterRole(nd, t) ==
    IF t # None /\ status[t] # "down"
    THEN [nd EXCEPT !.host = t, !.stale = @ + nd.current, !.current = 0, !.conn = "open",
                    !.state = "connecting", !.role = "replica", !.handshakes = @ + 1]
    ELSE [nd EXCEPT !.host = t, !.stale = @ + nd.current, !.current = 0, !.conn = "nil",
                    !.state = "disconnected", !.role = "replica"]

\* The old connection is closed in any case; without a new one that is all.
ConnectToMaster(nd, t) ==
    IF Reachable(t)
    THEN [nd EXCEPT !.host = t, !.stale = @ + nd.current, !.current = 0, !.conn = "open",
                    !.state = "connecting", !.role = "replica", !.handshakes = @ + 1]
    ELSE [nd EXCEPT !.host = t, !.stale = @ + nd.current, !.current = 0, !.conn = "nil",
                    !.state = "disconnected"]

\* Variant: nobody connects again.
HandleMasterDisconnectSilent(nd) ==
    [nd EXCEPT !.conn = IF @ = "nil" THEN "nil" ELSE "closed", !.state = "disconnected"]

HandleMasterDisconnect(nd) ==
    [nd EXCEPT !.conn = IF @ = "nil" THEN "nil" ELSE "closed",
               !.state = "disconnected",
               !.timers[nd.host] = @ + 1]

DisconnectFromMaster(nd) ==
    [nd EXCEPT !.host = None, !.stale = @ + nd.current, !.current = 0, !.conn = "nil",
               !.state = "disconnected", !.role = "master"]

\* readFromMaster keeps masterInfoMu while it waits for a server that hangs.
Locked(s) ==
    node[s].handshakes > 0 /\ node[s].conn = "open" /\ status[node[s].host] = "hung"

Runs(s) == status[s] = "up" /\ ~Locked(s)

Timers(nd) == SumFunction(nd.timers)

MayWait(s) == Timers(node[s]) < MaxTimers

-----------------------------------------------------------------------------
(* The goroutines of server s. *)

\* PING, REPLCONF and PSYNC are answered; a reader and a heartbeat start.
HandshakeDone(s) ==
    /\ Runs(s) /\ node[s].handshakes > 0
    /\ node[s].conn = "open" /\ status[node[s].host] = "up"
    /\ node[s].current + node[s].stale < MaxReaders
    /\ node' = [node EXCEPT ![s].handshakes = @ - 1, ![s].current = @ + 1,
                            ![s].state = "connected"]
    /\ slaves' = [slaves EXCEPT ![node[s].host] = @ \cup {s}]
    /\ UNCHANGED <<status, demoted, faults>>

\* The connection is gone, or someone else reads the answers from it.
HandshakeFails(s) ==
    /\ Runs(s) /\ node[s].handshakes > 0 /\ MayWait(s)
    /\ node[s].conn # "open" \/ node[s].handshakes > 1 \/ node[s].current > 0
    /\ node' = [node EXCEPT ![s] = HandleMasterDisconnect([@ EXCEPT !.handshakes = @ - 1])]
    /\ UNCHANGED <<status, slaves, demoted, faults>>

\* The reader of the connection: it was closed, or silent for 65 seconds.
StreamFails(s) ==
    /\ Runs(s) /\ node[s].current > 0 /\ MayWait(s)
    /\ node[s].conn \in {"broken", "closed"} \/ status[node[s].host] = "hung"
    /\ node' = [node EXCEPT ![s] = HandleMasterDisconnect([@ EXCEPT !.current = @ - 1])]
    /\ UNCHANGED <<status, slaves, demoted, faults>>

\* A reader of a connection that was replaced sees it closed and disconnects
\* from whoever is the master now.
StaleStreamFails(s) ==
    /\ Runs(s) /\ node[s].stale > 0 /\ MayWait(s)
    /\ node' = [node EXCEPT ![s] = HandleMasterDisconnect([@ EXCEPT !.stale = @ - 1])]
    /\ UNCHANGED <<status, slaves, demoted, faults>>

\* It was executing a command: it goes on with the new connection, if any.
StaleStreamMoves(s) ==
    /\ Runs(s) /\ node[s].stale > 0
    /\ node' = [node EXCEPT ![s].stale = @ - 1,
                            ![s].current = IF node[s].conn = "nil" THEN @ ELSE @ + 1]
    /\ UNCHANGED <<status, slaves, demoted, faults>>

\* A heartbeat, which ends when the state is not "connected", finds out first.
HeartbeatFails(s) ==
    /\ Runs(s) /\ MayWait(s)
    /\ node[s].state = "connected" /\ node[s].conn = "broken"
    /\ node' = [node EXCEPT ![s] = HandleMasterDisconnect(@)]
    /\ UNCHANGED <<status, slaves, demoted, faults>>

\* The five seconds are over.
TimerFires(s, t) ==
    /\ Runs(s) /\ node[s].timers[t] > 0
    /\ node' = [node EXCEPT ![s] = ConnectToMaster([@ EXCEPT !.timers[t] = @ - 1], t)]
    /\ demoted' = IF node[s].role = "master" /\ Reachable(t) THEN demoted \cup {s} ELSE demoted
    /\ UNCHANGED <<status, slaves, faults>>

\* propagateToReplicas finds the connection of s closed.
RemoveReplica(t, s) ==
    /\ Runs(t) /\ node[t].born = "master" /\ node[t].role = "master"
    /\ s \in slaves[t] /\ ~(node[s].host = t /\ node[s].conn = "open")
    /\ slaves' = [slaves EXCEPT ![t] = @ \ {s}]
    /\ UNCHANGED <<status, node, demoted, faults>>

-----------------------------------------------------------------------------
(* Faults. *)

Broken(nd, t) == IF nd.host = t /\ nd.conn = "open" THEN [nd EXCEPT !.conn = "broken"] ELSE nd

Crash(s) ==
    /\ faults < MaxFaults /\ s \in Faulty /\ status[s] # "down"
    /\ faults' = faults + 1
    /\ status' = [status EXCEPT ![s] = "down"]
    /\ node' = [t \in Server |-> IF t = s THEN NewNode("master") ELSE Broken(node[t], s)]
    /\ slaves' = [slaves EXCEPT ![s] = {}]
    /\ UNCHANGED demoted

\* NewRedisServer connects a replica to its configured master, once.
Start(s) ==
    /\ status[s] = "down"
    /\ status' = [status EXCEPT ![s] = "up"]
    /\ node' = [node EXCEPT ![s] = IF Config[s] = None THEN NewNode("master")
                                   ELSE ConnectToMaster(NewNode("replica"), Config[s])]
    /\ demoted' = IF Config[s] = None THEN demoted ELSE demoted \cup {s}
    /\ UNCHANGED <<slaves, faults>>

Hang(s) ==
    /\ faults < MaxFaults /\ s \in Faulty /\ status[s] = "up"
    /\ faults' = faults + 1
    /\ status' = [status EXCEPT ![s] = "hung"]
    /\ UNCHANGED <<node, slaves, demoted>>

Resume(s) ==
    /\ status[s] = "hung"
    /\ status' = [status EXCEPT ![s] = "up"]
    /\ UNCHANGED <<node, slaves, demoted, faults>>

Break(s) ==
    /\ faults < MaxFaults /\ node[s].conn = "open" /\ node[s].host \in Faulty
    /\ faults' = faults + 1
    /\ node' = [node EXCEPT ![s].conn = "broken"]
    /\ UNCHANGED <<status, slaves, demoted>>

-----------------------------------------------------------------------------
\* The servers are running and every replica follows its configured master.
LinkInit ==
    /\ status = [s \in Server |-> "up"]
    /\ node = [s \in Server |->
           IF Config[s] = None THEN NewNode("master")
           ELSE [NewNode("replica") EXCEPT !.host = Config[s], !.conn = "open",
                     !.state = "connected", !.current = 1]]
    /\ slaves = [s \in Server |-> {t \in Server : Config[t] = s}]
    /\ demoted = {} /\ faults = 0

ServerStep(s) ==
    \/ HandshakeDone(s) \/ HandshakeFails(s)
    \/ StreamFails(s) \/ StaleStreamFails(s) \/ StaleStreamMoves(s)
    \/ HeartbeatFails(s)
    \/ \E t \in Host : TimerFires(s, t)
    \/ \E t \in Server : RemoveReplica(s, t)

Fault(s) == Crash(s) \/ Start(s) \/ Hang(s) \/ Resume(s) \/ Break(s)

-----------------------------------------------------------------------------
\* The type invariant of this part.
LinkTypeOK ==
    /\ status \in [Server -> {"up", "hung", "down"}]
    /\ node \in [Server ->
           [role : {"master", "replica"}, born : {"master", "replica"}, host : Host,
            conn : {"nil", "open", "broken", "closed"},
            state : {"disconnected", "connecting", "connected"},
            handshakes : Nat, current : Nat, stale : Nat,
            timers : [Host -> 0 .. MaxTimers]]]
    /\ slaves \in [Server -> SUBSET Server]
    /\ demoted \subseteq Server /\ faults \in 0 .. MaxFaults

\* docs/REPLICATION.md promises automatic reconnection.  A server that has a
\* MasterInfo with a connection, of whatever state, has a goroutine that will use
\* it or replace it.  The only way to be left alone is a dial that failed.
SomeoneCares ==
    \A s \in Server : status[s] # "down" /\ node[s].conn # "nil" =>
        \/ node[s].handshakes > 0 \/ node[s].current > 0 \/ node[s].stale > 0
        \/ Timers(node[s]) > 0

============================================================================
