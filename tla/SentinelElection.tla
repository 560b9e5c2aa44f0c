-------------------------- MODULE SentinelElection --------------------------
(* How Sentinels agree on who fails over a master: the voting protocol of
   internal/server/sentinel_server.go and the failure detection of
   internal/sentinel/sentinel.go that starts it.

   A Sentinel asks for votes from two goroutines: "monitor", which goes on to
   the failover when it wins, and "timer", the election timer, which does not.
   Both use one connection per peer.  Requests and responses are byte streams:
   a response that comes after the read deadline stays in the stream and is
   read as the answer to a later request.  Voting state is not persisted. *)
EXTENDS Integers, Sequences, FiniteSets

CONSTANTS Sentinel,
          None,         \* the empty string, of votedFor
          Thread,       \* a subset of {"monitor", "timer"}
          OnePort,      \* the Sentinels whose ID, "host:port", contains ":1"
          Quorum,
          MaxEpoch,     \* bound on the epochs
          MaxRestarts   \* bound on the Sentinels that restart, each once

ASSUME ElectionAssumption ==
    /\ None \notin Sentinel
    /\ Thread \subseteq {"monitor", "timer"}
    /\ OnePort \subseteq Sentinel
    /\ IsFiniteSet(Sentinel)
    /\ Quorum \in Nat
    /\ MaxEpoch \in Nat
    /\ MaxRestarts \in Nat

VARIABLES voting,     \* SentinelVotingState of each Sentinel
          monitor,    \* its view of the master and its failover flags
          ballot,     \* the vote each of its threads is collecting
          requests,   \* requests[s][v]: the bytes from candidate s to voter v
          responses,  \* responses[s][v]: the bytes from v back to s
          granted,    \* history: votes given, <<voter, epoch, candidate>>
          won,        \* history: elections won, <<candidate, epoch>>
          restarted   \* history: the Sentinels that restarted

vars == <<voting, monitor, ballot, requests, responses, granted, won, restarted>>

NoVote == [currentEpoch |-> 0, votedEpoch |-> 0, votedFor |-> None]

Watching == [isDown |-> FALSE, triggered |-> FALSE, inProgress |-> FALSE]

NoBallot == [active |-> FALSE, epoch |-> 0, votes |-> 0, waiting |-> {}]

Init ==
    /\ voting = [s \in Sentinel |-> NoVote]
    /\ monitor = [s \in Sentinel |-> Watching]
    /\ ballot = [s \in Sentinel |-> [t \in Thread |-> NoBallot]]
    /\ requests = [s \in Sentinel |-> [v \in Sentinel |-> <<>>]]
    /\ responses = [s \in Sentinel |-> [v \in Sentinel |-> <<>>]]
    /\ granted = {}
    /\ won = {}
    /\ restarted = {}

-----------------------------------------------------------------------------
(* checkMasterHealth, by the result of the ping. *)

PingFails(s) ==
    /\ ~monitor[s].isDown
    /\ monitor' = [monitor EXCEPT ![s].isDown = TRUE, ![s].triggered = FALSE]
    /\ UNCHANGED <<voting, ballot, requests, responses, granted, won, restarted>>

PingAnswered(s) ==
    /\ monitor[s].isDown
    /\ monitor' = [monitor EXCEPT ![s].isDown = FALSE, ![s].triggered = FALSE]
    /\ UNCHANGED <<voting, ballot, requests, responses, granted, won, restarted>>

\* Down for longer than downAfter: once per down event, triggerFailover.
TriggerFailover(s) ==
    /\ "monitor" \in Thread
    /\ monitor[s].isDown /\ ~monitor[s].triggered
    /\ monitor' = [monitor EXCEPT ![s].triggered = TRUE, ![s].inProgress = TRUE]
    /\ UNCHANGED <<voting, ballot, requests, responses, granted, won, restarted>>

\* What makes a thread ask for votes.
Wants(s, t) == IF t = "monitor" THEN monitor[s].inProgress ELSE monitor[s].isDown

-----------------------------------------------------------------------------
(* voteForFailover. *)

MayStand(s) == voting[s].votedFor \in {None, s}

\* The epoch is incremented, s votes for itself and asks the peers it reaches.
StandForElection(s, t) == \E P \in SUBSET (Sentinel \ {s}) :
    LET epoch == voting[s].currentEpoch + 1 IN
    /\ Wants(s, t) /\ ~ballot[s][t].active
    /\ MayStand(s)
    /\ epoch <= MaxEpoch
    /\ voting' = [voting EXCEPT ![s] =
                    [currentEpoch |-> epoch, votedEpoch |-> epoch, votedFor |-> s]]
    /\ granted' = granted \cup {<<s, epoch, s>>}
    /\ ballot' = [ballot EXCEPT ![s][t] =
                    [active |-> TRUE, epoch |-> epoch, votes |-> 1, waiting |-> P]]
    /\ requests' = [requests EXCEPT ![s] =
                      [v \in Sentinel |-> IF v \in P THEN Append(@[v], epoch) ELSE @[v]]]
    /\ UNCHANGED <<monitor, responses, won, restarted>>

\* s has voted for another Sentinel: the failover is aborted.
CannotStand(s) ==
    /\ "monitor" \in Thread
    /\ monitor[s].inProgress /\ ~ballot[s]["monitor"].active
    /\ ~MayStand(s)
    /\ monitor' = [monitor EXCEPT ![s].inProgress = FALSE]
    /\ UNCHANGED <<voting, ballot, requests, responses, granted, won, restarted>>

\* The decimal number e begins with the digit 1.
StartsWithOne(e) == \E p \in 0 .. MaxEpoch : e \div (10 ^ p) = 1

\* requestVoteFromPeer looks for ":1" anywhere in the encoded response.
ContainsOne(r) == r.vote = 1 \/ r.leader \in OnePort \/ StartsWithOne(r.epoch)

\* One Read returns what has arrived, of one response or of several.
ReceiveVote(s, t, v) == \E n \in 1 .. Len(responses[s][v]) :
    /\ ballot[s][t].active /\ v \in ballot[s][t].waiting
    /\ ballot' = [ballot EXCEPT
            ![s][t].waiting = @ \ {v},
            ![s][t].votes = IF \E i \in 1 .. n : ContainsOne(responses[s][v][i])
                            THEN @ + 1 ELSE @]
    /\ responses' = [responses EXCEPT ![s][v] = SubSeq(@, n + 1, Len(@))]
    /\ UNCHANGED <<voting, monitor, requests, granted, won, restarted>>

\* The read deadline, or the three seconds of the vote, are over.
NoAnswer(s, t, v) ==
    /\ ballot[s][t].active /\ v \in ballot[s][t].waiting
    /\ ballot' = [ballot EXCEPT ![s][t].waiting = @ \ {v}]
    /\ UNCHANGED <<voting, monitor, requests, responses, granted, won, restarted>>

\* The tally.  The monitor's failover, if it goes through, leaves s with a new
\* master that is up; if not, or without a quorum, only inProgress is reset.
CountVotes(s, t) == \E promoted \in BOOLEAN :
    LET reached == ballot[s][t].votes >= Quorum IN
    /\ ballot[s][t].active /\ ballot[s][t].waiting = {}
    /\ promoted => reached /\ t = "monitor"
    /\ won' = IF reached THEN won \cup {<<s, ballot[s][t].epoch>>} ELSE won
    /\ ballot' = [ballot EXCEPT ![s][t] = NoBallot]
    /\ monitor' = [monitor EXCEPT
            ![s].inProgress = IF t = "monitor" THEN FALSE ELSE @,
            ![s].isDown = IF promoted THEN FALSE ELSE @]
    /\ UNCHANGED <<voting, requests, responses, granted, restarted>>

-----------------------------------------------------------------------------
(* handleVoteRequest, at v, for the next request of s. *)

\* Variant: the epoch of the vote is as good as a new one.
SeenAgain(st, e) == IF e >= st.currentEpoch
                    THEN [currentEpoch |-> e, votedEpoch |-> 0, votedFor |-> None]
                    ELSE st

\* Rule 2: a new epoch resets the vote.
Seen(st, e) == IF e > st.currentEpoch
               THEN [currentEpoch |-> e, votedEpoch |-> 0, votedFor |-> None]
               ELSE st

Response(vote, leader, epoch) == [vote |-> vote, leader |-> leader, epoch |-> epoch]

HandleVoteRequest(v, s) ==
    /\ requests[s][v] # <<>>
    /\ LET e  == Head(requests[s][v])
           st == Seen(voting[v], e)
           Answer(r) == responses' = [responses EXCEPT ![s][v] = Append(@, r)]
       IN  \/ /\ e < st.currentEpoch
              /\ Answer(Response(0, st.votedFor, st.currentEpoch))
              /\ UNCHANGED <<voting, granted>>
           \/ /\ e = st.currentEpoch /\ st.votedEpoch = e
              /\ Answer(Response(IF st.votedFor = s THEN 1 ELSE 0, st.votedFor, e))
              /\ voting' = [voting EXCEPT ![v] = st]
              /\ granted' = IF st.votedFor = s THEN granted \cup {<<v, e, s>>} ELSE granted
           \/ /\ e = st.currentEpoch /\ st.votedEpoch # e /\ ~monitor[v].isDown
              /\ Answer(Response(0, None, e))
              /\ voting' = [voting EXCEPT ![v] = st]
              /\ UNCHANGED granted
           \/ /\ e = st.currentEpoch /\ st.votedEpoch # e /\ monitor[v].isDown
              /\ Answer(Response(1, s, e))
              /\ voting' = [voting EXCEPT ![v] = [st EXCEPT !.votedEpoch = e, !.votedFor = s]]
              /\ granted' = granted \cup {<<v, e, s>>}
    /\ requests' = [requests EXCEPT ![s][v] = Tail(@)]
    /\ UNCHANGED <<monitor, ballot, won, restarted>>

-----------------------------------------------------------------------------
\* The connection of s to v breaks and is made again by connectToOtherSentinels.
Reconnect(s, v) ==
    /\ requests[s][v] # <<>> \/ responses[s][v] # <<>>
    /\ requests' = [requests EXCEPT ![s][v] = <<>>]
    /\ responses' = [responses EXCEPT ![s][v] = <<>>]
    /\ UNCHANGED <<voting, monitor, ballot, granted, won, restarted>>

\* The process of s ends and NewSentinelServer starts from epoch 0.
Restart(s) ==
    /\ s \notin restarted /\ Cardinality(restarted) < MaxRestarts
    /\ restarted' = restarted \cup {s}
    /\ voting' = [voting EXCEPT ![s] = NoVote]
    /\ monitor' = [monitor EXCEPT ![s] = Watching]
    /\ ballot' = [ballot EXCEPT ![s] = [t \in Thread |-> NoBallot]]
    /\ requests' = [c \in Sentinel |-> [v \in Sentinel |->
                       IF s \in {c, v} THEN <<>> ELSE requests[c][v]]]
    /\ responses' = [c \in Sentinel |-> [v \in Sentinel |->
                        IF s \in {c, v} THEN <<>> ELSE responses[c][v]]]
    /\ UNCHANGED <<granted, won>>

Act(s) ==
    \/ TriggerFailover(s)
    \/ CannotStand(s)
    \/ \E t \in Thread : StandForElection(s, t) \/ CountVotes(s, t)
    \/ \E t \in Thread, v \in Sentinel : ReceiveVote(s, t, v) \/ NoAnswer(s, t, v)
    \/ \E c \in Sentinel : HandleVoteRequest(s, c)

Next ==
    \E s \in Sentinel :
        \/ Act(s)
        \/ PingFails(s) \/ PingAnswered(s)
        \/ Restart(s)
        \/ \E v \in Sentinel : Reconnect(s, v)

Spec == Init /\ [][Next]_vars

\* The master has crashed for good: no ping is answered.
MasterDownNext == \E s \in Sentinel : Act(s) \/ PingFails(s)

\* The goroutines of a running Sentinel, its monitor among them, do not stop.
FairSpec ==
    /\ Init
    /\ [][MasterDownNext]_vars
    /\ \A s \in Sentinel : WF_vars(Act(s)) /\ WF_vars(PingFails(s))

-----------------------------------------------------------------------------
\* The type invariant.
TypeOK ==
    /\ voting \in [Sentinel -> [currentEpoch : Nat, votedEpoch : Nat,
                                votedFor : Sentinel \cup {None}]]
    /\ monitor \in [Sentinel -> [isDown : BOOLEAN, triggered : BOOLEAN, inProgress : BOOLEAN]]
    /\ ballot \in [Sentinel -> [Thread -> [active : BOOLEAN, epoch : Nat, votes : Nat,
                                           waiting : SUBSET Sentinel]]]
    /\ requests \in [Sentinel -> [Sentinel -> Seq(Nat)]]
    /\ responses \in [Sentinel -> [Sentinel ->
            Seq([vote : {0, 1}, leader : Sentinel \cup {None}, epoch : Nat])]]
    /\ granted \subseteq Sentinel \X Nat \X Sentinel
    /\ won \subseteq Sentinel \X Nat
    /\ restarted \subseteq Sentinel

\* docs/SENTINEL.md:1334 "Each Sentinel can vote for ONLY ONE candidate per
\* epoch": true of its own candidacies and of its answers to requests in any
\* order, as long as it has not restarted in between.
VoteOnce ==
    \A x, y \in granted :
        x[1] = y[1] /\ x[2] = y[2] /\ x[1] \notin restarted => x[3] = y[3]

VotersFor(c, e) == {v \in Sentinel : <<v, e, c>> \in granted}

\* No two candidates are given a quorum of the votes of one epoch, when the
\* quorum is a majority and no Sentinel has restarted.
OneMajority ==
    2 * Quorum > Cardinality(Sentinel) /\ restarted = {} =>
        \A x, y \in granted :
            /\ x[2] = y[2]
            /\ Cardinality(VotersFor(x[3], x[2])) >= Quorum
            /\ Cardinality(VotersFor(y[3], y[2])) >= Quorum
            => x[3] = y[3]

\* docs/SENTINEL.md:1376 "Each epoch has exactly ONE winner (mathematical
\* guarantee)": no two Sentinels find that they won the same epoch.
OneWinner == \A x, y \in won : x[2] = y[2] => x[1] = y[1]

\* docs/SENTINEL.md:994-996 "If quorum NOT reached: ... Will retry on next check
\* cycle": a Sentinel that sees the master down and has no failover under way
\* gets one under way again.
RetriesFailover ==
    \A s \in Sentinel :
        monitor[s].isDown /\ ~monitor[s].inProgress ~> monitor[s].inProgress \/ ~monitor[s].isDown

=============================================================================
