-------------------------- MODULE SentinelFailover --------------------------
(* What a Sentinel does to the servers it watches: internal/sentinel/sentinel.go.
   The goroutine monitorMaster pings the master and asks it for its replicas,
   monitorReplicas pings those, and performFailover runs beside them.  The
   servers are those of module ReplicaLink.  Who wins the vote is the subject of
   SentinelElection: here the vote may go either way at every Sentinel. *)
EXTENDS ReplicaLink

CONSTANT Sentinel

VARIABLES view,      \* the master a Sentinel knows, and its flags
          replicas,  \* the servers it knows as replicas
          probe,     \* what monitorMaster is doing
          failover,  \* how far performFailover is
          overtaken  \* history: the Sentinels that stored the replicas of a former master

senVars == <<view, replicas, probe, failover, overtaken>>
vars == <<linkVars, senVars>>

Unknown == [known |-> FALSE, isDown |-> FALSE, priority |-> 0]

Idle == [task |-> "none", host |-> None, ok |-> FALSE, found |-> {}]

NoFailover == [step |-> "none", blamed |-> None, new |-> None, old |-> None, todo |-> {}]

Known(n) == {s \in Server : replicas[n][s].known}

TheMaster == CHOOSE s \in Server : Config[s] = None

Init ==
    /\ LinkInit
    /\ view = [n \in Sentinel |-> [master |-> TheMaster, isDown |-> FALSE, triggered |-> FALSE,
                                   inProgress |-> FALSE]]
    /\ replicas = [n \in Sentinel |-> [s \in Server |-> Unknown]]
    /\ probe = [n \in Sentinel |-> Idle]
    /\ failover = [n \in Sentinel |-> NoFailover]
    /\ overtaken = {}

-----------------------------------------------------------------------------
(* monitorMaster: one of checkMasterHealth and discoverReplicas at a time. *)

\* Host and port are read, the master is pinged.
PingMaster(n) ==
    /\ probe[n].task = "none"
    /\ probe' = [probe EXCEPT ![n] = [Idle EXCEPT !.task = "check", !.host = view[n].master,
                                          !.ok = status[view[n].master] = "up"]]
    /\ UNCHANGED <<linkVars, view, replicas, failover, overtaken>>

\* The answer is charged to the master of this moment.
MasterUp(n) ==
    /\ probe[n].task = "check" /\ probe[n].ok
    /\ view' = [view EXCEPT ![n].isDown = FALSE,
                            ![n].triggered = IF view[n].isDown THEN FALSE ELSE @]
    /\ probe' = [probe EXCEPT ![n] = Idle]
    /\ UNCHANGED <<linkVars, replicas, failover, overtaken>>

MasterGoesDown(n) ==
    /\ probe[n].task = "check" /\ ~probe[n].ok /\ ~view[n].isDown
    /\ view' = [view EXCEPT ![n].isDown = TRUE, ![n].triggered = FALSE]
    /\ probe' = [probe EXCEPT ![n] = Idle]
    /\ UNCHANGED <<linkVars, replicas, failover, overtaken>>

\* Still down, for less than downAfter or with a failover triggered before.
MasterStillDown(n) ==
    /\ probe[n].task = "check" /\ ~probe[n].ok /\ view[n].isDown
    /\ probe' = [probe EXCEPT ![n] = Idle]
    /\ UNCHANGED <<linkVars, view, replicas, failover, overtaken>>

\* Down for downAfter: triggerFailover, which does nothing if one is running.
TriggerFailover(n) ==
    /\ probe[n].task = "check" /\ ~probe[n].ok /\ view[n].isDown /\ ~view[n].triggered
    /\ view' = [view EXCEPT ![n].triggered = TRUE, ![n].inProgress = TRUE]
    /\ failover' = IF view[n].inProgress THEN failover
                   ELSE [failover EXCEPT ![n].step = "vote", ![n].blamed = probe[n].host]
    /\ probe' = [probe EXCEPT ![n] = Idle]
    /\ UNCHANGED <<linkVars, replicas, overtaken>>

\* INFO replication: a master lists the connections of its replicas.
AskForReplicas(n) ==
    LET m == view[n].master IN
    /\ probe[n].task = "none" /\ ~view[n].isDown
    /\ status[m] = "up" /\ node[m].role = "master"
    /\ probe' = [probe EXCEPT ![n] = [Idle EXCEPT !.task = "discover", !.host = m,
                                          !.found = slaves[m]]]
    /\ UNCHANGED <<linkVars, view, replicas, failover, overtaken>>

DiscoverReplicas(n) ==
    /\ probe[n].task = "discover"
    /\ replicas' = [replicas EXCEPT ![n] = [s \in Server |->
           IF s \in probe[n].found /\ ~replicas[n][s].known
           THEN [known |-> TRUE, isDown |-> FALSE, priority |-> 100]
           ELSE replicas[n][s]]]
    /\ overtaken' = IF probe[n].host = view[n].master THEN overtaken ELSE overtaken \cup {n}
    /\ probe' = [probe EXCEPT ![n] = Idle]
    /\ UNCHANGED <<linkVars, view, failover>>

\* checkReplicasHealth, for one replica.
CheckReplica(n, s) ==
    /\ replicas[n][s].known
    /\ replicas' = [replicas EXCEPT ![n][s].isDown = status[s] # "up"]
    /\ UNCHANGED <<linkVars, view, probe, failover, overtaken>>

-----------------------------------------------------------------------------
(* performFailover. *)

Ends(n) ==
    /\ failover' = [failover EXCEPT ![n] = NoFailover]
    /\ view' = [view EXCEPT ![n].inProgress = FALSE]

Vote(n) == \E reached \in BOOLEAN :
    /\ failover[n].step = "vote"
    /\ IF reached THEN failover' = [failover EXCEPT ![n].step = "select"] /\ UNCHANGED view
       ELSE Ends(n)
    /\ UNCHANGED <<linkVars, replicas, probe, overtaken>>

\* Not down, and of the highest priority: replicas of one priority differ in an
\* offset that the master counts in bytes or, after an ACK, in commands.
BestReplicas(n) ==
    LET up == {s \in Known(n) : ~replicas[n][s].isDown}
    IN  {s \in up : \A t \in up : replicas[n][t].priority <= replicas[n][s].priority}

SelectBestReplica(n) ==
    /\ failover[n].step = "select"
    /\ \/ BestReplicas(n) = {} /\ Ends(n)
       \/ \E s \in BestReplicas(n) :
             /\ failover' = [failover EXCEPT ![n].step = "promote", ![n].new = s]
             /\ UNCHANGED view
    /\ UNCHANGED <<linkVars, replicas, probe, overtaken>>

\* REPLICAOF NO ONE; the answer may be lost on the way.
PromoteReplica(n) == \E answered \in BOOLEAN :
    LET s == failover[n].new IN
    /\ failover[n].step = "promote"
    /\ answered => Runs(s)
    /\ IF Runs(s) THEN node' = [node EXCEPT ![s] = DisconnectFromMaster(@)] ELSE UNCHANGED node
    /\ IF answered THEN failover' = [failover EXCEPT ![n].step = "switch"] /\ UNCHANGED view
       ELSE Ends(n)
    /\ UNCHANGED <<status, slaves, demoted, faults, replicas, probe, overtaken>>

\* Variant: the flags are left for the next ping to correct.
SwitchMasterDown(n) ==
    /\ failover[n].step = "switch"
    /\ view' = [view EXCEPT ![n].master = failover[n].new, ![n].triggered = FALSE]
    /\ failover' = [failover EXCEPT ![n].step = "reconfigure", ![n].old = view[n].master,
                                    ![n].todo = Known(n)]
    /\ UNCHANGED <<linkVars, replicas, probe, overtaken>>

SwitchMaster(n) ==
    /\ failover[n].step = "switch"
    /\ view' = [view EXCEPT ![n].master = failover[n].new, ![n].isDown = FALSE]
    /\ failover' = [failover EXCEPT ![n].step = "reconfigure", ![n].old = view[n].master,
                                    ![n].todo = Known(n)]
    /\ UNCHANGED <<linkVars, replicas, probe, overtaken>>

\* Variant: the promoted server is told to follow itself.
ReconfigureReplicaAny(n, s) ==
    /\ failover[n].step = "reconfigure" /\ s \in failover[n].todo
    /\ failover' = [failover EXCEPT ![n].todo = @ \ {s}]
    /\ IF ~replicas[n][s].isDown /\ Runs(s)
       THEN node' = [node EXCEPT ![s] = ConnectToMaster(@, failover[n].new)]
       ELSE UNCHANGED node
    /\ UNCHANGED <<status, slaves, demoted, faults, view, replicas, probe, overtaken>>

\* REPLICAOF for one replica; what it answers makes no difference.
ReconfigureReplica(n, s) ==
    /\ failover[n].step = "reconfigure" /\ s \in failover[n].todo
    /\ failover' = [failover EXCEPT ![n].todo = @ \ {s}]
    /\ IF s # failover[n].new /\ ~replicas[n][s].isDown /\ Runs(s)
       THEN node' = [node EXCEPT ![s] = ConnectToMaster(@, failover[n].new)]
       ELSE UNCHANGED node
    /\ UNCHANGED <<status, slaves, demoted, faults, view, replicas, probe, overtaken>>

ForgetPromoted(n) ==
    /\ failover[n].step = "reconfigure" /\ failover[n].todo = {}
    /\ replicas' = [replicas EXCEPT ![n][failover[n].new] = Unknown]
    /\ failover' = [failover EXCEPT ![n].step = "add"]
    /\ UNCHANGED <<linkVars, view, probe, overtaken>>

\* The old master is listed as a replica that is down; nothing is sent to it.
AddOldMaster(n) ==
    /\ failover[n].step = "add"
    /\ replicas' = [replicas EXCEPT ![n][failover[n].old] =
                        [known |-> TRUE, isDown |-> TRUE, priority |-> 0]]
    /\ Ends(n)
    /\ UNCHANGED <<linkVars, probe, overtaken>>

-----------------------------------------------------------------------------
MonitorMaster(n) ==
    \/ PingMaster(n) \/ MasterUp(n) \/ MasterGoesDown(n) \/ MasterStillDown(n)
    \/ TriggerFailover(n) \/ AskForReplicas(n) \/ DiscoverReplicas(n)

PerformFailover(n) ==
    \/ Vote(n) \/ SelectBestReplica(n) \/ PromoteReplica(n) \/ SwitchMaster(n)
    \/ \E s \in Server : ReconfigureReplica(n, s)
    \/ ForgetPromoted(n) \/ AddOldMaster(n)

Next ==
    \/ \E s \in Server : (ServerStep(s) \/ Fault(s)) /\ UNCHANGED senVars
    \/ \E n \in Sentinel : MonitorMaster(n) \/ PerformFailover(n)
    \/ \E n \in Sentinel, s \in Server : CheckReplica(n, s)

Spec == Init /\ [][Next]_vars

-----------------------------------------------------------------------------
\* The type invariant.
TypeOK ==
    /\ LinkTypeOK
    /\ view \in [Sentinel -> [master : Server, isDown : BOOLEAN, triggered : BOOLEAN,
                              inProgress : BOOLEAN]]
    /\ replicas \in [Sentinel -> [Server -> [known : BOOLEAN, isDown : BOOLEAN,
                                             priority : {0, 100}]]]
    /\ probe \in [Sentinel -> [task : {"none", "check", "discover"}, host : Host, ok : BOOLEAN,
                               found : SUBSET Server]]
    /\ failover \in [Sentinel -> [step : {"none", "vote", "select", "promote", "switch",
                                          "reconfigure", "add"},
                                  blamed : Host, new : Host, old : Host, todo : SUBSET Server]]

\* A failover replaces the server that did not answer: from its start to the
\* switch, the master the Sentinel would replace is the one whose ping failed,
\* although a ping is charged to the master of the moment when it ends.
BlamesTheMaster ==
    \A n \in Sentinel :
        failover[n].step \in {"vote", "select", "promote", "switch"} =>
            failover[n].blamed = view[n].master

\* Between failovers the Sentinel does not list its master among the replicas,
\* where the next failover would choose it, unless an answer of the former
\* master to INFO was stored after the failover.
MasterNotReplica ==
    \A n \in Sentinel \ overtaken :
        failover[n].step = "none" => view[n].master \notin Known(n)

\* The server that the only Sentinel has promoted is a master, whatever its old
\* reader, handshake and timers still do, unless a timer that was started before
\* the promotion connects it to the former master, or it has restarted.
PromotionHolds ==
    \A n \in Sentinel : Sentinel = {n} =>
        LET m == view[n].master IN
        m # TheMaster /\ status[m] = "up" => node[m].role = "master" \/ m \in demoted

\* No server follows, over others, itself: REPLICAOF NO ONE reaches the promoted server
\* before anyone is told to follow it, whatever reconnects in between.
NoCycle ==
    LET up == {s \in Server : status[s] = "up" /\ node[s].role = "replica" /\ node[s].conn = "open"}
    IN  \A S \in SUBSET up : S # {} => \E s \in S : node[s].host \notin S

=============================================================================
