----------------------------- MODULE SortedSet -----------------------------
(***************************************************************************)
(* What a sorted set promises, without saying how: a finite map from       *)
(* members to scores, ordered by score and then by member.  ret is the     *)
(* operation under way, its arguments and its answer.  Members are numbers *)
(* that compare as the program's strings do.                               *)
(***************************************************************************)
EXTENDS Integers, FiniteSets

CONSTANTS Member, Score, Delta

VARIABLES scores, ret

vars == <<scores, ret>>

Members == DOMAIN scores

\* The set without the members of gone.
Without(gone) == [m \in Members \ gone |-> scores[m]]

With(m, s) == [n \in Members \cup {m} |-> IF n = m THEN s ELSE scores[n]]

Before(m, n) == scores[m] < scores[n] \/ (scores[m] = scores[n] /\ m < n)

RankOf(m) == Cardinality({n \in Members : Before(n, m)})

Init ==
    /\ scores = [m \in {} |-> 0]
    /\ ret = <<"none">>

\* The caller is told whether anything changed.
Add(m, s) ==
    /\ scores' = With(m, s)
    /\ ret' = <<"add", m, s, scores' # scores>>

Remove(m) ==
    /\ scores' = Without({m})
    /\ ret' = <<"remove", m, m \in Members>>

IncrBy(m, d) ==
    LET s == IF m \in Members THEN scores[m] + d ELSE d
    IN /\ scores' = With(m, s)
       /\ ret' = <<"incr", m, d, s>>

\* An end of the order leaves the set and goes to the caller with its score.
Pop(op, r) ==
    \E m \in Members :
        /\ RankOf(m) = r
        /\ scores' = Without({m})
        /\ ret' = <<op, m, scores[m]>>

PopMin == Pop("popmin", 0)
PopMax == Pop("popmax", Cardinality(Members) - 1)

RemoveAll(op, from, to, gone) ==
    /\ scores' = Without(gone)
    /\ ret' = <<op, from, to, Cardinality(gone)>>

RemoveRangeByScore(min, max) ==
    RemoveAll("by score", min, max, {m \in Members : scores[m] \in min..max})

RemoveRangeByRank(start, stop) ==
    RemoveAll("by rank", start, stop, {m \in Members : RankOf(m) \in start..stop})

\* The caller has its answer.
Return ==
    /\ ret # <<"none">>
    /\ ret' = <<"none">>
    /\ UNCHANGED scores

Operation ==
    \/ \E m \in Member, s \in Score : Add(m, s)
    \/ \E m \in Member : Remove(m)
    \/ \E m \in Member, d \in Delta : IncrBy(m, d)
    \/ PopMin
    \/ PopMax
    \/ \E min, max \in Score : RemoveRangeByScore(min, max)
    \/ \E start, stop \in 0 .. Cardinality(Member) : RemoveRangeByRank(start, stop)

Next == (ret = <<"none">> /\ Operation) \/ Return

Spec == Init /\ [][Next]_vars
=============================================================================
