----------------------- MODULE SentinelElectionProofs -----------------------
(* Proofs about SentinelElection, for every number of Sentinels, any quorum and
   any loss, delay and misreading of responses. *)
EXTENDS SentinelElection, FiniteSetTheorems, TLAPS

VotingState == [currentEpoch : Nat, votedEpoch : Nat, votedFor : Sentinel \cup {None}]

\* The part of the state the votes depend on has its type.
VotesTyped ==
    /\ voting \in [Sentinel -> VotingState]
    /\ requests \in [Sentinel -> [Sentinel -> Seq(Nat)]]
    /\ granted \subseteq Sentinel \X Nat \X Sentinel

\* A vote given by v is of an epoch v has reached, and if that is its current
\* epoch then v remembers it.
Remembered(v, e, c) ==
    /\ e <= voting[v].currentEpoch
    /\ e = voting[v].currentEpoch => voting[v].votedEpoch = e /\ voting[v].votedFor = c

VotesRemembered ==
    \A v \in Sentinel \ restarted, e \in Nat, c \in Sentinel :
        <<v, e, c>> \in granted => Remembered(v, e, c)

OneVote ==
    \A v \in Sentinel \ restarted, e \in Nat, c, d \in Sentinel :
        <<v, e, c>> \in granted /\ <<v, e, d>> \in granted => c = d

\* VoteOnce is not inductive: it needs what Sentinels remember of their votes.
VoteInv == VotesTyped /\ VotesRemembered /\ OneVote

\* Reading one request from a stream.
LEMMA HeadTail ==
  ASSUME NEW q \in Seq(Nat), q # <<>>
  PROVE  Head(q) \in Nat /\ Tail(q) \in Seq(Nat)
  OBVIOUS

\* A Sentinel that has just started has given no vote.
LEMMA VoteInit == Init => VoteInv
  <1>. SUFFICES ASSUME Init PROVE VoteInv
    OBVIOUS
  <1>1. NoVote \in VotingState
    BY DEF NoVote, VotingState
  <1>2. <<>> \in Seq(Nat)
    OBVIOUS
  <1>. QED
    BY <1>1, <1>2 DEF Init, VoteInv, VotesTyped, VotesRemembered, OneVote

\* The steps that leave votes and requests alone.
LEMMA VotesAlone ==
  ASSUME VoteInv, UNCHANGED <<voting, granted, restarted>>,
         requests' \in [Sentinel -> [Sentinel -> Seq(Nat)]]
  PROVE  VoteInv'
  BY DEF VoteInv, VotesTyped, VotesRemembered, Remembered, OneVote

\* A step in which v moves to the voting state st and may vote for c in epoch e,
\* its new current epoch, for the first time or again.
LEMMA OneVoter ==
  ASSUME VoteInv, NEW v \in Sentinel, NEW st \in VotingState,
         voting' = [voting EXCEPT ![v] = st],
         UNCHANGED restarted,
         requests' \in [Sentinel -> [Sentinel -> Seq(Nat)]],
         NEW e \in Nat, NEW c \in Sentinel,
         \/ granted' = granted
         \/ /\ granted' = granted \cup {<<v, e, c>>}
            /\ e = st.currentEpoch /\ st.votedEpoch = e /\ st.votedFor = c,
         \/ st.currentEpoch > voting[v].currentEpoch
         \/ st.currentEpoch = voting[v].currentEpoch
            /\ \/ voting[v].votedEpoch # voting[v].currentEpoch
               \/ st = voting[v]
  PROVE  VoteInv'
  <1>. USE DEF VoteInv
  <1>1. VotesTyped'
    <2>1. voting' \in [Sentinel -> VotingState]
      BY DEF VotesTyped
    <2>2. granted' \subseteq Sentinel \X Nat \X Sentinel
      BY DEF VotesTyped
    <2>. QED
      BY <2>1, <2>2 DEF VotesTyped
  <1>2. /\ voting'[v] = st
        /\ voting[v] \in VotingState
        /\ \A w \in Sentinel \ {v} : voting'[w] = voting[w]
    BY DEF VotesTyped
  <1>3. ASSUME NEW w \in Sentinel \ restarted, NEW f \in Nat, NEW d \in Sentinel,
               <<w, f, d>> \in granted
        PROVE  Remembered(w, f, d)'
    <2>1. Remembered(w, f, d)
      BY <1>3 DEF VotesRemembered
    <2>2. CASE w # v
      BY <2>1, <2>2, <1>2 DEF Remembered
    <2>3. CASE w = v
      <3>1. st.currentEpoch \in Nat /\ voting[v].currentEpoch \in Nat
        BY <1>2 DEF VotingState
      <3>2. f <= voting[v].currentEpoch
        BY <2>1, <2>3 DEF Remembered
      <3>3. CASE st.currentEpoch > voting[v].currentEpoch
        BY <3>1, <3>2, <3>3, <2>3, <1>2 DEF Remembered
      <3>4. CASE st.currentEpoch = voting[v].currentEpoch
        BY <3>1, <3>2, <3>4, <2>1, <2>3, <1>2 DEF Remembered
      <3>. QED
        BY <3>3, <3>4
    <2>. QED
      BY <2>2, <2>3
  <1>4. ASSUME NEW w \in Sentinel, NEW f \in Nat, NEW d \in Sentinel,
               <<w, f, d>> \in granted', <<w, f, d>> \notin granted
        PROVE  /\ w = v /\ f = e /\ d = c
               /\ e = st.currentEpoch /\ st.votedEpoch = e /\ st.votedFor = c
    <2>. HIDE DEF VoteInv
    <2>1. /\ granted' = granted \cup {<<v, e, c>>}
          /\ e = st.currentEpoch /\ st.votedEpoch = e /\ st.votedFor = c
      BY <1>4
    <2>2. <<w, f, d>> = <<v, e, c>>
      BY <1>4, <2>1
    <2>. QED
      BY <2>1, <2>2
  <1>5. VotesRemembered'
    <2>. SUFFICES ASSUME NEW w \in Sentinel \ restarted, NEW f \in Nat, NEW d \in Sentinel,
                         <<w, f, d>> \in granted'
                  PROVE  Remembered(w, f, d)'
      BY DEF VotesRemembered
    <2>1. CASE <<w, f, d>> \in granted
      BY <2>1, <1>3
    <2>2. CASE <<w, f, d>> \notin granted
      BY <2>2, <1>2, <1>4 DEF Remembered
    <2>. QED
      BY <2>1, <2>2
  <1>6. OneVote'
    <2>. SUFFICES ASSUME NEW w \in Sentinel \ restarted, NEW f \in Nat,
                         NEW d1 \in Sentinel, NEW d2 \in Sentinel,
                         <<w, f, d1>> \in granted', <<w, f, d2>> \in granted'
                  PROVE  d1 = d2
      BY DEF OneVote
    <2>1. Remembered(w, f, d1)' /\ Remembered(w, f, d2)'
      BY <1>5 DEF VotesRemembered
    <2>2. CASE <<w, f, d1>> \in granted /\ <<w, f, d2>> \in granted
      BY <2>2 DEF OneVote
    <2>3. CASE <<w, f, d1>> \notin granted \/ <<w, f, d2>> \notin granted
      BY <2>1, <2>3, <1>2, <1>4 DEF Remembered
    <2>. QED
      BY <2>2, <2>3
  <1>. QED
    BY <1>1, <1>5, <1>6

\* Every step of every Sentinel keeps the invariant.
LEMMA VoteStep == VoteInv /\ [Next]_vars => VoteInv'
  <1>. SUFFICES ASSUME VoteInv, [Next]_vars PROVE VoteInv'
    OBVIOUS
  <1>0. VotesTyped
    BY DEF VoteInv
  <1>1. ASSUME NEW s \in Sentinel, NEW t \in Thread, StandForElection(s, t)
        PROVE  VoteInv'
    <2>. DEFINE e  == voting[s].currentEpoch + 1
                st == [currentEpoch |-> e, votedEpoch |-> e, votedFor |-> s]
    <2>1. e \in Nat /\ st \in VotingState /\ voting[s] \in VotingState
      BY <1>0 DEF VotesTyped, VotingState
    <2>2. PICK P \in SUBSET (Sentinel \ {s}) :
             /\ voting' = [voting EXCEPT ![s] = st]
             /\ granted' = granted \cup {<<s, e, s>>}
             /\ requests' = [requests EXCEPT ![s] =
                    [v \in Sentinel |-> IF v \in P THEN Append(@[v], e) ELSE @[v]]]
             /\ UNCHANGED restarted
      BY <1>1 DEF StandForElection
    <2>3. \A v \in Sentinel : Append(requests[s][v], e) \in Seq(Nat)
      BY <2>1, <1>0 DEF VotesTyped
    <2>4. requests' \in [Sentinel -> [Sentinel -> Seq(Nat)]]
      BY <2>2, <2>3, <1>0 DEF VotesTyped
    <2>5. st.currentEpoch = e /\ st.votedEpoch = e /\ st.votedFor = s
          /\ e > voting[s].currentEpoch
      BY <2>1 DEF VotingState
    <2>. HIDE DEF e, st
    <2>6. st.currentEpoch > voting[s].currentEpoch
      BY <2>5
    <2>7. /\ granted' = granted \cup {<<s, e, s>>}
          /\ e = st.currentEpoch /\ st.votedEpoch = e /\ st.votedFor = s
      BY <2>2, <2>5
    <2>8. e \in Nat /\ st \in VotingState /\ voting' = [voting EXCEPT ![s] = st]
          /\ UNCHANGED restarted
      BY <2>1, <2>2
    <2>. QED
      BY <2>4, <2>6, <2>7, <2>8, OneVoter
  <1>2. ASSUME NEW v \in Sentinel, NEW s \in Sentinel, HandleVoteRequest(v, s)
        PROVE  VoteInv'
    <2>. DEFINE e  == Head(requests[s][v])
                st == Seen(voting[v], e)
    <2>0. requests[s][v] \in Seq(Nat)
      BY <1>0 DEF VotesTyped
    <2>1. requests[s][v] # <<>> /\ requests' = [requests EXCEPT ![s][v] = Tail(@)]
      BY <1>2, Zenon DEF HandleVoteRequest
    <2>2. e \in Nat /\ Tail(requests[s][v]) \in Seq(Nat)
      BY <2>0, <2>1, HeadTail
    <2>3. requests' \in [Sentinel -> [Sentinel -> Seq(Nat)]]
      BY <1>0, <2>1, <2>2 DEF VotesTyped
    <2>4. voting[v] \in VotingState
      BY <1>0 DEF VotesTyped
    <2>5. /\ st \in VotingState
          /\ \/ st.currentEpoch > voting[v].currentEpoch
             \/ st = voting[v]
          /\ UNCHANGED restarted
      BY <1>2, <2>2, <2>4 DEF Seen, VotingState, HandleVoteRequest
    <2>6. \/ UNCHANGED <<voting, granted>>
          \/ /\ voting' = [voting EXCEPT ![v] = st]
             /\ \/ granted' = granted
                \/ /\ granted' = granted \cup {<<v, e, s>>}
                   /\ e = st.currentEpoch /\ st.votedEpoch = e /\ st.votedFor = s
          \/ /\ voting' = [voting EXCEPT ![v] = [st EXCEPT !.votedEpoch = e, !.votedFor = s]]
             /\ granted' = granted \cup {<<v, e, s>>}
             /\ e = st.currentEpoch /\ st.votedEpoch # e
      BY <1>2 DEF HandleVoteRequest
    <2>. HIDE DEF e, st
    <2>7. CASE UNCHANGED <<voting, granted>>
      BY <2>7, <2>3, <2>5, VotesAlone
    <2>8. CASE /\ voting' = [voting EXCEPT ![v] = st]
               /\ \/ granted' = granted
                  \/ /\ granted' = granted \cup {<<v, e, s>>}
                     /\ e = st.currentEpoch /\ st.votedEpoch = e /\ st.votedFor = s
      BY <2>8, <2>2, <2>3, <2>5, OneVoter
    <2>9. CASE /\ voting' = [voting EXCEPT ![v] = [st EXCEPT !.votedEpoch = e, !.votedFor = s]]
               /\ granted' = granted \cup {<<v, e, s>>}
               /\ e = st.currentEpoch /\ st.votedEpoch # e
      <3>. DEFINE nst == [st EXCEPT !.votedEpoch = e, !.votedFor = s]
      <3>1. /\ nst \in VotingState
            /\ nst.currentEpoch = st.currentEpoch /\ nst.votedEpoch = e /\ nst.votedFor = s
        BY <2>2, <2>5 DEF VotingState
      <3>2. \/ nst.currentEpoch > voting[v].currentEpoch
            \/ /\ nst.currentEpoch = voting[v].currentEpoch
               /\ voting[v].votedEpoch # voting[v].currentEpoch
        BY <3>1, <2>5, <2>9
      <3>3. voting' = [voting EXCEPT ![v] = nst]
        BY <2>9
      <3>. HIDE DEF nst
      <3>. QED
        BY <3>1, <3>2, <3>3, <2>2, <2>3, <2>5, <2>9, OneVoter
    <2>. QED
      BY <2>6, <2>7, <2>8, <2>9
  <1>3. ASSUME NEW s \in Sentinel, Restart(s)
        PROVE  VoteInv'
    <2>1. NoVote \in VotingState /\ <<>> \in Seq(Nat)
      BY DEF NoVote, VotingState
    <2>2. VotesTyped'
      BY <1>0, <1>3, <2>1 DEF VotesTyped, Restart
    <2>3. ASSUME NEW w \in Sentinel \ restarted' PROVE voting'[w] = voting[w] /\ w \notin restarted
      BY <1>0, <1>3 DEF VotesTyped, Restart
    <2>4. granted' = granted
      BY <1>3 DEF Restart
    <2>. QED
      BY <2>2, <2>3, <2>4 DEF VoteInv, VotesRemembered, Remembered, OneVote
  <1>4. ASSUME NEW s \in Sentinel, NEW v \in Sentinel, Reconnect(s, v)
        PROVE  VoteInv'
    <2>1. <<>> \in Seq(Nat)
      OBVIOUS
    <2>2. requests' \in [Sentinel -> [Sentinel -> Seq(Nat)]]
      BY <1>0, <1>4, <2>1 DEF VotesTyped, Reconnect
    <2>. QED
      BY <1>4, <2>2, VotesAlone DEF Reconnect
  <1>5. ASSUME UNCHANGED <<voting, granted, restarted, requests>>
        PROVE  VoteInv'
    BY <1>0, <1>5, VotesAlone DEF VotesTyped
  <1>6. ASSUME NEW s \in Sentinel,
               \/ TriggerFailover(s) \/ CannotStand(s) \/ PingFails(s) \/ PingAnswered(s)
               \/ \E t \in Thread : CountVotes(s, t)
               \/ \E t \in Thread, v \in Sentinel : ReceiveVote(s, t, v) \/ NoAnswer(s, t, v)
        PROVE  UNCHANGED <<voting, granted, restarted, requests>>
    BY <1>6 DEF TriggerFailover, CannotStand, PingFails, PingAnswered, CountVotes,
                ReceiveVote, NoAnswer
  <1>7. CASE UNCHANGED vars
    BY <1>7, <1>5 DEF vars
  <1>. QED
    BY <1>1, <1>2, <1>3, <1>4, <1>5, <1>6, <1>7 DEF Next, Act

\* Every vote ever given is remembered: the voter is in that epoch with that
\* vote, or in a later epoch (handleVoteRequest, voteForFailover).
THEOREM VoteInvariant == Spec => []VoteInv
  BY VoteInit, VoteStep, PTL DEF Spec

\* VoteOnce follows from the invariant.
LEMMA OneVoteVoteOnce == VoteInv => VoteOnce
  <1>. SUFFICES ASSUME VoteInv, NEW x \in granted, NEW y \in granted,
                       x[1] = y[1], x[2] = y[2], x[1] \notin restarted
                PROVE  x[3] = y[3]
    BY DEF VoteOnce
  <1>1. /\ x = <<x[1], x[2], x[3]>> /\ y = <<y[1], y[2], y[3]>>
        /\ x[1] \in Sentinel /\ x[2] \in Nat /\ x[3] \in Sentinel /\ y[3] \in Sentinel
    BY DEF VoteInv, VotesTyped
  <1>. QED
    BY <1>1 DEF VoteInv, OneVote

\* A Sentinel that has not restarted gives its vote in an epoch to one candidate
\* only, whatever requests handleVoteRequest gets and in whatever order.
THEOREM VoteOnceTheorem == Spec => []VoteOnce
  BY VoteInvariant, OneVoteVoteOnce, PTL

\* Two sets of voters that are each at least a quorum have a member in common.
LEMMA QuorumsMeet ==
  ASSUME NEW A \in SUBSET Sentinel, NEW B \in SUBSET Sentinel,
         2 * Quorum > Cardinality(Sentinel),
         Cardinality(A) >= Quorum, Cardinality(B) >= Quorum
  PROVE  A \cap B # {}
  <1>1. IsFiniteSet(Sentinel) /\ IsFiniteSet(A) /\ IsFiniteSet(B) /\ Quorum \in Nat
    BY ElectionAssumption, FS_Subset
  <1>2. Cardinality(A) \in Nat /\ Cardinality(B) \in Nat /\ Cardinality(Sentinel) \in Nat
        /\ Cardinality(A \cap B) \in Nat /\ Cardinality(A \cup B) \in Nat
    BY <1>1, FS_CardinalityType, FS_Intersection, FS_Union
  <1>3. Cardinality(A \cup B) = Cardinality(A) + Cardinality(B) - Cardinality(A \cap B)
    BY <1>1, FS_Union
  <1>4. Cardinality(A \cup B) <= Cardinality(Sentinel)
    BY <1>1, FS_Subset
  <1>5. Cardinality(A \cap B) # 0
    BY <1>1, <1>2, <1>3, <1>4
  <1>. QED
    BY <1>5, FS_EmptySet

\* OneMajority follows from the invariant, because quorums meet.
LEMMA OneVoteOneMajority == VoteInv => OneMajority
  <1>. SUFFICES ASSUME VoteInv, 2 * Quorum > Cardinality(Sentinel), restarted = {},
                       NEW x \in granted, NEW y \in granted, x[2] = y[2],
                       Cardinality(VotersFor(x[3], x[2])) >= Quorum,
                       Cardinality(VotersFor(y[3], y[2])) >= Quorum
                PROVE  x[3] = y[3]
    BY DEF OneMajority
  <1>1. x[2] \in Nat /\ x[3] \in Sentinel /\ y[3] \in Sentinel
    BY DEF VoteInv, VotesTyped
  <1>2. VotersFor(x[3], x[2]) \cap VotersFor(y[3], y[2]) # {}
    BY QuorumsMeet DEF VotersFor
  <1>3. PICK v \in Sentinel : <<v, x[2], x[3]>> \in granted /\ <<v, x[2], y[3]>> \in granted
    BY <1>2 DEF VotersFor
  <1>. QED
    BY <1>1, <1>3 DEF VoteInv, OneVote

\* With a majority quorum and no restart, at most one candidate is given a
\* quorum of votes in an epoch: the arithmetic of docs/SENTINEL.md:1331-1336.
THEOREM OneMajorityTheorem == Spec => []OneMajority
  BY VoteInvariant, OneVoteOneMajority, PTL

=============================================================================
