------------------------------ MODULE ZSetOps -------------------------------
(* The sorted set commands of internal/storage/zset_ops.go, and GEOADD, which
   is ZADD with a geohash for a score.  A sorted set's content is the dict of
   zset.go, a function from members to scores; the skip list's order is by
   score, then by member.  Members are integers, for the sake of that order. *)
EXTENDS Keyspace

CONSTANT Score         \* the scores given to ZADD, and the range of ZINCRBY

ASSUME ZSetAssumption == Elem \subseteq Int /\ Score \subseteq Int

\* getOrCreateZSet, getExistingZSet
Scores(k) == IF HasType(k, "zset") THEN data[k].content ELSE <<>>

WithScores(new, z) ==
    [m \in DOMAIN new \cup DOMAIN z |-> IF m \in DOMAIN new THEN new[m] ELSE z[m]]

Dropping(z, M) == Restrict(z, DOMAIN z \ M)

\* The order of the skip list.
Before(z, m, n) == z[m] < z[n] \/ (z[m] = z[n] /\ m < n)

Rank(z, m) == Cardinality({n \in DOMAIN z : Before(z, n, m)})

\* ZAdd and GeoAdd: clone when a snapshot is active, add or update, save.
ZAdd(k) ==
    \/ /\ Creatable(k, "zset")
       /\ \E M \in SUBSET Elem \ {{}} : \E new \in [M -> Score] :
             CopyOnWrite(k, "zset", WithScores(new, Scores(k)))
    \/ ~Creatable(k, "zset") /\ UNCHANGED vars

ZIncrBy(k) ==
    \/ /\ Creatable(k, "zset")
       /\ \E m \in Elem, d \in Increments :
            LET old == IF m \in DOMAIN Scores(k) THEN Scores(k)[m] ELSE 0
            IN  /\ old + d \in Score
                /\ CopyOnWrite(k, "zset", WithScores([x \in {m} |-> old + d], Scores(k)))
    \/ ~Creatable(k, "zset") /\ UNCHANGED vars

ZRem(k) ==
    \/ /\ HasType(k, "zset")
       /\ \E M \in SUBSET Elem \ {{}} : CopyOnWrite(k, "zset", Dropping(Scores(k), M))
    \/ ~HasType(k, "zset") /\ LookUp({k})

\* PopMin takes the first node of the skip list, PopMax its tail.
ZPopMin(k) ==
    \/ /\ HasType(k, "zset")
       /\ \E m \in DOMAIN Scores(k) :
            /\ Rank(Scores(k), m) = 0
            /\ CopyOnWrite(k, "zset", Dropping(Scores(k), {m}))
    \/ ~HasType(k, "zset") /\ LookUp({k})

ZPopMax(k) ==
    \/ /\ HasType(k, "zset")
       /\ \E m \in DOMAIN Scores(k) :
            /\ Rank(Scores(k), m) = Cardinality(DOMAIN Scores(k)) - 1
            /\ CopyOnWrite(k, "zset", Dropping(Scores(k), {m}))
    \/ ~HasType(k, "zset") /\ LookUp({k})

ZRemRangeByScore(k) ==
    \/ /\ HasType(k, "zset")
       /\ \E lo, hi \in Score :
            CopyOnWrite(k, "zset",
                Dropping(Scores(k), {m \in DOMAIN Scores(k) : Scores(k)[m] \in lo .. hi}))
    \/ ~HasType(k, "zset") /\ LookUp({k})

\* Negative ranks count from the end; an empty range returns before the clone.
ZRemRangeByRank(k) == \E start, stop \in -Cardinality(Elem) - 1 .. Cardinality(Elem) :
    LET z    == Scores(k)
        n    == Cardinality(DOMAIN z)
        from == Max({0, IF start < 0 THEN n + start ELSE start})
        to   == Min({n - 1, IF stop < 0 THEN n + stop ELSE stop})
    IN  \/ /\ HasType(k, "zset") /\ from <= to
           /\ CopyOnWrite(k, "zset", Dropping(z, {m \in DOMAIN z : Rank(z, m) \in from .. to}))
        \/ /\ HasType(k, "zset") /\ from > to
           /\ UNCHANGED vars
        \/ ~HasType(k, "zset") /\ LookUp({k})

ZSetNext ==
    \/ \E k \in Key : ZAdd(k)
    \/ \E k \in Key : ZIncrBy(k)
    \/ \E k \in Key : ZRem(k)
    \/ \E k \in Key : ZPopMin(k)
    \/ \E k \in Key : ZPopMax(k)
    \/ \E k \in Key : ZRemRangeByScore(k)
    \/ \E k \in Key : ZRemRangeByRank(k)

=============================================================================
