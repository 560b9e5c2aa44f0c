----------------------------- MODULE MCElection -----------------------------
(* SentinelElection on two small instances: two Sentinels with their failover *)
(* threads and a restart, or three Sentinels and their election timers (the   *)
(* instance says which).                                                      *)
EXTENDS SentinelElection, TLC

VARIABLE instance

Symmetry == Permutations(Sentinel)

ElectionInit == Init /\ instance \in {"two monitors", "three timers"}

ElectionNext == Next /\ UNCHANGED instance

ElectionSpec == ElectionInit /\ [][ElectionNext]_<<vars, instance>>

\* s takes no part.
Aside(s) ==
    /\ monitor[s] = Watching /\ voting[s] = NoVote /\ s \notin restarted
    /\ \A c \in Sentinel :
          requests[c][s] = <<>> /\ \A t \in Thread : s \notin ballot[c][t].waiting

Focus ==
    IF instance = "two monitors"
    THEN (\E s \in Sentinel : Aside(s)) /\ \A s \in Sentinel : ~ballot[s]["timer"].active
    ELSE /\ restarted = {}
         /\ \A s \in Sentinel : ~monitor[s].triggered /\ voting[s].currentEpoch <= 1
=============================================================================
