---------------------------- MODULE MCDeployment ----------------------------
(* What a server and a Sentinel know of the other nodes of a deployment, on   *)
(* small instances: the cluster's slots, the slot of a key, or the replicas   *)
(* of a master and the failover between them.  A behaviour is one of these    *)
(* (part says which).                                                         *)
EXTENDS ClusterSlots

CONSTANTS a, b, c   \* a is the master that b and c are configured with
CONSTANTS Char, MaxKey
CONSTANTS Sentinel, None, MaxTimers, MaxReaders, MaxFaults

VARIABLES part, key
VARIABLES status, node, slaves, demoted, faults, view, replicas, probe, failover, overtaken

failoverVars == <<status, node, slaves, demoted, faults, view, replicas, probe, failover,
                  overtaken>>

Servers == {a, b, c}
MCConfig == [s \in Servers |-> IF s = a THEN None ELSE a]

F == INSTANCE SentinelFailover WITH Server <- Servers, Config <- MCConfig, Faulty <- {a}

K == INSTANCE HashSlot WITH NumSlots <- 16384

ASSUME DeploymentConstants == F!LinkConstants

DeploymentSymmetry == Permutations({b, c})

DeploymentInit ==
    /\ part \in {"cluster", "key", "failover"}
    /\ Init
    /\ K!Init
    /\ F!Init

DeploymentNext ==
    /\ UNCHANGED part
    /\ \/ part = "cluster" /\ Next /\ UNCHANGED <<key, failoverVars>>
       \/ part = "key" /\ K!Next /\ UNCHANGED <<vars, failoverVars>>
       \/ part = "failover" /\ F!Next /\ UNCHANGED <<vars, key>>

DeploymentSpec == DeploymentInit /\ [][DeploymentNext]_<<part, vars, key, failoverVars>>

\* The slot of a key: the table of crc16 gives the XMODEM remainder of every key, the keys
\* with one tag share a slot, and a key without a tag is hashed whole (slot.go).
KeySlotExact == part = "key" => K!CrcExact /\ K!SameTagSameSlot

\* A replica without a master has a handshake or a timer that will connect it again
\* (replica.go: handleMasterDisconnect and its retry).
SomeoneCares == part = "failover" => F!SomeoneCares

\* Answers that come late do not mislead a failover: it replaces the server that did not
\* answer, and between failovers the master is not listed among the replicas, unless a
\* late answer to INFO brought it back (sentinel.go: performFailover, discoverReplicas).
ViewCurrent == part = "failover" => F!BlamesTheMaster /\ F!MasterNotReplica

\* The promoted server stays a master, unless a timer started before the promotion, or a
\* restart, makes it follow the former master again (replica.go: DisconnectFromMaster).
PromotionHolds == part = "failover" => F!PromotionHolds

\* No server follows, over others, itself (sentinel.go: promoteReplicaToMaster before
\* reconfigureReplicas, and what replica.go reconnects in between).
NoCycle == part = "failover" => F!NoCycle
=============================================================================
