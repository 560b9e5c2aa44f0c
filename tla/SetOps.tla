------------------------------- MODULE SetOps -------------------------------
(* The set commands of internal/storage/set_ops.go over the sets of set.go.
   A set's content is the set of its members. *)
EXTENDS Keyspace

\* getExistingSet: {} also stands for nil, a missing key or a wrong type.
Members(k) == IF HasType(k, "set") THEN data[k].content ELSE {}

\* getOrCreateSet, clone when a snapshot is active, add, save.
SAdd(k) ==
    \/ /\ Creatable(k, "set")
       /\ \E M \in SUBSET Elem \ {{}} : CopyOnWrite(k, "set", Members(k) \cup M)
    \/ ~Creatable(k, "set") /\ UNCHANGED vars

SRem(k) ==
    \/ /\ HasType(k, "set")
       /\ \E M \in SUBSET Elem \ {{}} : CopyOnWrite(k, "set", Members(k) \ M)
    \/ ~HasType(k, "set") /\ LookUp({k})

\* SPop takes members out of the stored set itself and leaves the entry alone,
\* TTL included, unless the set is now empty.
SPop(k) ==
    \/ /\ HasType(k, "set")
       /\ \E M \in SUBSET Members(k) :
            LET rest == Members(k) \ M
                seen == Rewritten(snaps, k, rest)
            IN  /\ data' = [data EXCEPT ![k] =
                              IF rest = {} THEN Absent ELSE [@ EXCEPT !.content = rest]]
                /\ dataWithExpiry' = [dataWithExpiry EXCEPT ![k] =
                              IF rest = {} THEN NoTTL ELSE @]
                /\ snaps' = Unshared(seen, IF rest = {} THEN {k} ELSE {})
                /\ UNCHANGED <<snapshotCount, clock>>
    \/ ~HasType(k, "set") /\ LookUp({k})

\* SMove changes the source and the destination set in place; the source keeps
\* its TTL, the destination is saved without one.
SMoved(src, dst, m) ==
    LET from == Members(src) \ {m}
        to   == (IF src = dst THEN from ELSE Members(dst)) \cup {m}
        seen == IF src = dst
                THEN Rewritten(snaps, src, to)
                ELSE LET taken == Rewritten(snaps, src, from)
                     IN  IF Exists(dst) THEN Rewritten(taken, dst, to) ELSE taken
        gone == (IF from = {} /\ src # dst THEN {src} ELSE {})
                    \cup (IF Exists(dst) THEN {} ELSE {dst})
    IN  /\ data' = [data EXCEPT
                      ![src] = IF from = {} THEN Absent ELSE [@ EXCEPT !.content = from],
                      ![dst] = NewValue("set", to, NoTTL)]
        /\ dataWithExpiry' = [dataWithExpiry EXCEPT
                      ![src] = IF from = {} /\ src # dst THEN NoTTL ELSE @,
                      ![dst] = IF src = dst THEN @ ELSE IndexFound(dst)]
        /\ snaps' = Unshared(seen, gone)
        /\ UNCHANGED <<snapshotCount, clock>>

SMove(src, dst) == \E m \in Elem :
    \/ m \in Members(src) /\ Creatable(dst, "set") /\ SMoved(src, dst, m)
    \/ m \notin Members(src) /\ LookUp({src})
    \/ m \in Members(src) /\ ~Creatable(dst, "set") /\ UNCHANGED vars

\* The sets that SUnion, SInter and SDiff compute from two keys, and the keys
\* they look up: SInter and SDiff stop at a missing first set.
SUnion(j, k) == Members(j) \cup Members(k)
SInter(j, k) == Members(j) \cap Members(k)
SDiff(j, k)  == Members(j) \ Members(k)

Looked(j, k, stops) == IF stops /\ ~HasType(j, "set") THEN {j} ELSE {j, k}

\* The result, when there is one, is a new set at dst.
SUnionStore(dst, j, k) == StoreResult(dst, Looked(j, k, FALSE), "set", SUnion(j, k))
SInterStore(dst, j, k) == StoreResult(dst, Looked(j, k, TRUE), "set", SInter(j, k))
SDiffStore(dst, j, k)  == StoreResult(dst, Looked(j, k, TRUE), "set", SDiff(j, k))

SetNext ==
    \/ \E k \in Key : SAdd(k)
    \/ \E k \in Key : SRem(k)
    \/ \E k \in Key : SPop(k)
    \/ \E src, dst \in Key : SMove(src, dst)
    \/ \E dst, j, k \in Key : SUnionStore(dst, j, k)
    \/ \E dst, j, k \in Key : SInterStore(dst, j, k)
    \/ \E dst, j, k \in Key : SDiffStore(dst, j, k)

=============================================================================
