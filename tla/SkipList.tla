------------------------------ MODULE SkipList ------------------------------
(***************************************************************************)
(* storage/skiplist.go and storage/zset.go: a sorted set is a map from     *)
(* members to scores (dict) and a skip list over the same pairs.  A list   *)
(* node is named by its member; its height is the outcome of randomLevel,  *)
(* so any height is possible.  sl.span[x][i] is the number of nodes that   *)
(* level i's pointer out of x jumps, which is what rank queries add up.    *)
(*                                                                         *)
(* Members are numbers that compare as the strings do, 0 being the empty   *)
(* string: the header's member is the empty string too.                    *)
(***************************************************************************)
EXTENDS Integers, Sequences, FiniteSets, SequencesExt

CONSTANTS Member,       \* numbers; 0 is the empty string
          Score,
          Delta,        \* increments of IncrBy
          Heights       \* maxLevel of the code, at least 1

SkipListConstants ==
    /\ Member \subseteq Nat
    /\ Score \subseteq Int
    /\ Delta \subseteq Int
    /\ Heights \in Nat \ {0}

VARIABLES z,            \* the ZSet: its dict and its skip list sl
          ret           \* the operation under way, its arguments and its answer

skipVars == <<z, ret>>

Header == -1
Nil == -2
Level == 0 .. Heights - 1
Place == Member \cup {Header}

newSkipList ==
    [next   |-> [x \in Place |-> [i \in Level |-> Nil]],
     span   |-> [x \in Place |-> [i \in Level |-> 0]],
     score  |-> [m \in Member |-> 0],
     tail   |-> Nil,
     length |-> 0,
     level  |-> 1]

-----------------------------------------------------------------------------
(* The descent every operation shares: from the header, at each level from  *)
(* the highest in use, step forward while Ok(node ahead, rank of it).       *)

Descend(l, Ok(_, _)) ==
    LET forward[i \in Level, x \in Place, r \in Int] ==
            LET y == l.next[x][i]
                q == r + l.span[x][i]
            IN IF y # Nil /\ Ok(y, q) THEN forward[i, y, q]
               ELSE [node |-> x, rank |-> r]
        at[i \in 0 .. l.level - 1] ==
            IF i = l.level - 1 THEN forward[i, Header, 0]
            ELSE LET above == at[i + 1] IN forward[i, above.node, above.rank]
    IN at

Less(l, y, m, s) == l.score[y] < s \/ (l.score[y] = s /\ y < m)

\* The last node before (m, s) at every level, and its rank.
Search(l, m, s) == Descend(l, LAMBDA y, q : Less(l, y, m, s))

\* The node that follows the place a descent ends at.
Following(l, at) == l.next[at[0].node][0]

\* Span of the new pointer, which takes over what the old one jumped.
SpanBehind(old, rank0, ranki) == old - (rank0 - ranki)

\* insert, for a member the list does not hold (ZSet deletes it first), with
\* the height randomLevel chose.
insert(l, m, s, height) ==
    LET at      == Search(l, m, s)
        level   == IF height > l.level THEN height ELSE l.level
        Prev(i) == IF i < l.level THEN at[i].node ELSE Header
        Rank(i) == IF i < l.level THEN at[i].rank ELSE 0
        Old(i)  == IF i < l.level THEN l.span[Prev(i)][i] ELSE l.length
        next    == [x \in Place |-> [i \in Level |->
                       IF i >= height THEN l.next[x][i]
                       ELSE IF x = m THEN l.next[Prev(i)][i]
                       ELSE IF x = Prev(i) THEN m
                       ELSE l.next[x][i]]]
        span    == [x \in Place |-> [i \in Level |->
                       IF i < height /\ x = m THEN SpanBehind(Old(i), Rank(0), Rank(i))
                       ELSE IF i < height /\ x = Prev(i) THEN Rank(0) - Rank(i) + 1
                       ELSE IF i \in height .. level - 1 /\ x = Prev(i) THEN l.span[x][i] + 1
                       ELSE l.span[x][i]]]
    IN IF Following(l, at) = m /\ l.score[m] = s THEN l
       ELSE [next |-> next, span |-> span, score |-> [l.score EXCEPT ![m] = s],
             tail |-> IF next[m][0] = Nil THEN m ELSE l.tail,
             length |-> l.length + 1, level |-> level]

\* Span of the pointer that skips the deleted node.
SpanOver(before, behind) == before + behind - 1

\* The tail after node x, which follows before, is gone: deleting the only
\* node leaves the header there.
TailWithout(l, x, before) == IF l.next[x][0] = Nil THEN before ELSE l.tail

\* deleteNode.  The deleted node is unreachable and its fields are cleared.
deleteNode(l, x, at) ==
    LET Skips(i) == l.next[at[i].node][i] = x
        next == [y \in Place |-> [i \in Level |->
                    IF y = x THEN Nil
                    ELSE IF i < l.level /\ y = at[i].node /\ Skips(i) THEN l.next[x][i]
                    ELSE l.next[y][i]]]
        span == [y \in Place |-> [i \in Level |->
                    IF y = x THEN 0
                    ELSE IF i >= l.level \/ y # at[i].node THEN l.span[y][i]
                    ELSE IF Skips(i) THEN SpanOver(l.span[y][i], l.span[x][i])
                    ELSE l.span[y][i] - 1]]
        used == {i \in 0 .. l.level - 1 : next[Header][i] # Nil}
    IN [next |-> next, span |-> span, score |-> [l.score EXCEPT ![x] = 0],
        tail |-> TailWithout(l, x, at[0].node),
        length |-> l.length - 1,
        level |-> IF used = {} THEN 1 ELSE 1 + CHOOSE i \in used : \A j \in used : j <= i]

delete(l, m, s) ==
    LET at == Search(l, m, s)
        x  == Following(l, at)
    IN IF x = m /\ l.score[x] = s THEN deleteNode(l, x, at) ELSE l

-----------------------------------------------------------------------------
(* Queries.                                                                 *)

MemberOf(x) == IF x = Header THEN 0 ELSE x

\* Variant: ties in score are not followed up to the member itself.
getRankStrict(l, m, s) ==
    LET at   == Search(l, m, s)
        hits == {i \in DOMAIN at : MemberOf(at[i].node) = m}
    IN IF hits = {} THEN -1
       ELSE at[CHOOSE i \in hits : \A j \in hits : j <= i].rank - 1

\* getRank: the highest level whose walk ends on the member decides.
getRank(l, m, s) ==
    LET at   == Descend(l, LAMBDA y, q : Less(l, y, m, s) \/ (l.score[y] = s /\ y = m))
        hits == {i \in DOMAIN at : MemberOf(at[i].node) = m}
    IN IF hits = {} THEN -1
       ELSE at[CHOOSE i \in hits : \A j \in hits : j <= i].rank - 1

\* The nodes from x on along level 0.
From(l, x) ==
    LET walk[y \in Place \cup {Nil}] ==
            IF y = Nil THEN <<>> ELSE <<y>> \o walk[l.next[y][0]]
    IN walk[x]

\* findPredecessor: the first level, from the top, that points at the node.
findPredecessor(l, x) ==
    LET at   == Descend(l, LAMBDA y, q : Less(l, y, x, l.score[x]))
        hits == {i \in DOMAIN at : l.next[at[i].node][i] = x}
    IN IF hits = {} THEN Header
       ELSE at[CHOOSE i \in hits : \A j \in hits : j <= i].node

\* The nodes from x back to the first, one findPredecessor each.
Back(l, x) ==
    LET walk[y \in Place] ==
            IF y = Header THEN <<>> ELSE <<y>> \o walk[findPredecessor(l, y)]
    IN walk[x]

\* The collecting loop over the nodes of s after the first offset: while the
\* score is In the range, and at most count of them (-1: no limit).
Collect(s, offset, count, In(_)) ==
    LET rest == SubSeq(s, offset + 1, Len(s))
        out  == {j \in 1 .. Len(rest) : ~In(rest[j])}
        run  == IF out = {} THEN Len(rest) ELSE (CHOOSE j \in out : \A k \in out : j <= k) - 1
    IN SubSeq(rest, 1, IF count = -1 \/ run < count THEN run ELSE count)

getRange(l, min, max, offset, count) ==
    LET at == Descend(l, LAMBDA y, q : l.score[y] < min)
    IN Collect(From(l, Following(l, at)), offset, count, LAMBDA y : l.score[y] <= max)

getRangeReverse(l, min, max, offset, count) ==
    LET at == Descend(l, LAMBDA y, q : l.score[y] <= max)
    IN Collect(Back(l, at[0].node), offset, count, LAMBDA y : l.score[y] >= min)

\* getRangeByRank: the descent follows spans and never looks at a score.
getRangeByRank(l, start, stop, reverse) ==
    IF start < 0 \/ start >= l.length \/ stop < start THEN <<>>
    ELSE LET last  == IF stop >= l.length THEN l.length - 1 ELSE stop
             first == IF reverse THEN l.length - 1 - last ELSE start
             at    == Descend(l, LAMBDA y, q : q <= first)
             found == Collect(From(l, Following(l, at)), 0, last - start + 1, LAMBDA y : TRUE)
         IN IF reverse THEN Reverse(found) ELSE found

-----------------------------------------------------------------------------
(* The sorted set's operations.                                             *)

Init ==
    /\ z = [dict |-> [m \in {} |-> 0], sl |-> newSkipList]
    /\ ret = <<"none">>

Held(m) == m \in DOMAIN z.dict

\* What Add and IncrBy leave: the old pair is deleted from the list before
\* the new one goes in, at a height of its own.
Stored(m, s, height) ==
    [dict |-> [n \in DOMAIN z.dict \cup {m} |-> IF n = m THEN s ELSE z.dict[n]],
     sl   |-> insert(IF Held(m) THEN delete(z.sl, m, z.dict[m]) ELSE z.sl, m, s, height)]

Add(m, s) ==
    IF Held(m) /\ z.dict[m] = s
    THEN ret' = <<"add", m, s, FALSE>> /\ UNCHANGED z
    ELSE /\ \E h \in 1 .. Heights : z' = Stored(m, s, h)
         /\ ret' = <<"add", m, s, TRUE>>

\* Remove (RemoveMember below), on a set y.
Removed(y, m) ==
    IF m \notin DOMAIN y.dict THEN y
    ELSE [dict |-> [n \in DOMAIN y.dict \ {m} |-> y.dict[n]],
          sl   |-> delete(y.sl, m, y.dict[m])]

RemoveMember(m) ==
    /\ z' = Removed(z, m)
    /\ ret' = <<"remove", m, Held(m)>>

\* Variant: the increment replaces the score.
IncrByReplaces(m, d) ==
    /\ d \in Score
    /\ \E h \in 1 .. Heights : z' = Stored(m, d, h)
    /\ ret' = <<"incr", m, d, d>>

IncrBy(m, d) ==
    LET s == IF Held(m) THEN z.dict[m] + d ELSE d
    IN /\ s \in Score
       /\ \E h \in 1 .. Heights : z' = Stored(m, s, h)
       /\ ret' = <<"incr", m, d, s>>

\* PopMin takes the header's first node, PopMax the tail.
Pop(op, x) ==
    /\ DOMAIN z.dict # {}
    /\ x # Nil
    /\ z' = Removed(z, MemberOf(x))
    /\ ret' = <<op, MemberOf(x), IF x = Header THEN Nil ELSE z.sl.score[x]>>

PopMin == Pop("popmin", z.sl.next[Header][0])
PopMax == Pop("popmax", z.sl.tail)

\* Removes the members a query found, one after the other.
RemoveAll(op, from, to, found) ==
    /\ z' = FoldLeft(Removed, z, found)
    /\ ret' = <<op, from, to, Cardinality({i \in 1 .. Len(found) : Held(found[i])})>>

RemoveRangeByScore(min, max) ==
    RemoveAll("by score", min, max, getRange(z.sl, min, max, 0, -1))

RemoveRangeByRank(start, stop) ==
    RemoveAll("by rank", start, stop, getRangeByRank(z.sl, start, stop, FALSE))

\* Clone builds the list anew from the nodes along level 0, each at a height
\* of its own; the copy-on-write caller goes on with it.
Clone ==
    /\ \E h \in [Member -> 1 .. Heights] :
          z' = [z EXCEPT !.sl =
                  FoldLeft(LAMBDA l, m : insert(l, m, z.sl.score[m], h[m]),
                           newSkipList, From(z.sl, z.sl.next[Header][0]))]
    /\ UNCHANGED ret

\* The caller has its answer.
Return ==
    /\ ret # <<"none">>
    /\ ret' = <<"none">>
    /\ UNCHANGED z

Operation ==
    \/ \E m \in Member, s \in Score : Add(m, s)
    \/ \E m \in Member : RemoveMember(m)
    \/ \E m \in Member, d \in Delta : IncrBy(m, d)
    \/ PopMin
    \/ PopMax
    \/ \E min, max \in Score : RemoveRangeByScore(min, max)
    \/ \E start, stop \in 0 .. Cardinality(Member) : RemoveRangeByRank(start, stop)
    \/ Clone

Next == (ret = <<"none">> /\ Operation) \/ Return

Spec == Init /\ [][Next]_skipVars

-----------------------------------------------------------------------------
(* Properties.                                                              *)

\* The pairs as the list itself holds them, read along level 0.
Nodes == From(z.sl, z.sl.next[Header][0])
Contents == [m \in Range(Nodes) |-> z.sl.score[m]]

\* The members of the dict in the order of the set.
Sorted ==
    SetToSortSeq(DOMAIN z.dict,
                 LAMBDA m, n : z.dict[m] < z.dict[n] \/ (z.dict[m] = z.dict[n] /\ m < n))

\* The dict maps members to scores, and every span and pointer of the list
\* is a number of nodes and a node.
SkipTypeOK ==
    /\ DOMAIN z.dict \subseteq Member
    /\ \A m \in DOMAIN z.dict : z.dict[m] \in Score
    /\ z.sl.next \in [Place -> [Level -> Member \cup {Nil}]]
    /\ z.sl.span \in [Place -> [Level -> 0 .. Cardinality(Member)]]
    /\ z.sl.tail \in Place \cup {Nil}
    /\ z.sl.level \in 1 .. Heights

\* The list holds exactly the dict's pairs in order, its length and tail say
\* so, and every level is the same list with nodes left out.
OneSet ==
    /\ Nodes = Sorted
    /\ Contents = z.dict
    /\ z.sl.length = Len(Nodes)
    /\ Nodes # <<>> => z.sl.tail = Last(Nodes)

\* ZRANK answers the position in the order for every member but the empty
\* string, whatever the heights of the nodes and the operations so far.
RankExact ==
    \A m \in DOMAIN z.dict \ {0} :
        getRank(z.sl, m, z.dict[m]) + 1 = CHOOSE i \in 1 .. Len(Sorted) : Sorted[i] = m

Cut(s, from, to) == SubSeq(s, from, IF to < Len(s) THEN to ELSE Len(s))

InRange(min, max) == SelectSeq(Sorted, LAMBDA m : z.dict[m] \in min .. max)

\* ZRANGE and ZREVRANGE by rank, and ZRANGEBYSCORE with LIMIT, answer the
\* stretch of the order that their arguments name.
RangesExact ==
    /\ \A start, stop \in 0 .. Cardinality(Member) :
          /\ getRangeByRank(z.sl, start, stop, FALSE) = Cut(Sorted, start + 1, stop + 1)
          /\ getRangeByRank(z.sl, start, stop, TRUE) =
                 Cut(Reverse(Sorted), start + 1, stop + 1)
    /\ \A min, max \in Score, offset, count \in 0 .. 2 :
          getRange(z.sl, min, max, offset, count) =
              Cut(InRange(min, max), offset + 1, offset + count)

\* zset.go:98 "RevRange returns members with scores in range [min, max] in
\* descending order": what ZREVRANGEBYSCORE answers.
ReverseRangeComplete ==
    \A min, max \in Score :
        getRangeReverse(z.sl, min, max, 0, -1) = Reverse(InRange(min, max))

\* The set seen through its list is the set of SortedSet, and every operation
\* does and answers what SortedSet says.
Promise == INSTANCE SortedSet WITH scores <- Contents
Implements == Promise!Spec

\* skiplist.go:224 "getRank returns the rank (0-based) of a member, or -1 if
\* not found": so also for the empty string.
EveryRankFound ==
    \A m \in DOMAIN z.dict : getRank(z.sl, m, z.dict[m]) # -1

\* zset.go:24 "Returns true if new member was added, false if score was
\* updated": what ZADD counts as added.
AddReportsNew ==
    [][\A m \in Member, s \in Score : Held(m) /\ z.dict[m] # s /\ Add(m, s)
           => ~ret'[4]]_skipVars
=============================================================================
