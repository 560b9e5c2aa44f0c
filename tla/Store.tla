-------------------------------- MODULE Store -------------------------------
(* The whole store: the key space with the commands of every value type, and
   the properties that make it correct. *)
EXTENDS SetOps, HashOps, ListOps, ZSetOps, SketchOps, BitmapOps

CONSTANT Types         \* the groups of commands of the instance, besides strings

Init == KeyspaceInit

Next ==
    \/ KeyspaceNext
    \/ "set" \in Types /\ SetNext
    \/ "hash" \in Types /\ HashNext
    \/ "list" \in Types /\ ListNext
    \/ "zset" \in Types /\ ZSetNext
    \/ "sketch" \in Types /\ SketchNext
    \/ "bitmap" \in Types /\ BitmapNext

Spec == Init /\ [][Next]_vars

\* periodicCleanup submits a cleanup every 100 ms, Processor.run executes all
\* that is submitted, and Go's map iteration starts at a random place, so that
\* no indexed key is passed over by the samples for ever.
FairSpec == Spec /\ \A k \in Key : WF_vars(CleanupSampling(k))

-----------------------------------------------------------------------------
ContentOK(t, c) ==
    /\ t = "none" => c = {}
    /\ t = "string" => c \in StrVal
    /\ t = "list" => c \in Seq(Elem)
    /\ t \in {"set", "bloom", "hll"} => c \subseteq Elem
    /\ t = "hash" => DOMAIN c \subseteq Elem /\ \A f \in DOMAIN c : c[f] \in StrVal
    /\ t = "zset" => DOMAIN c \subseteq Elem /\ \A m \in DOMAIN c : c[m] \in Int

ValueOK(v) ==
    /\ v = NewValue(v.type, v.content, v.exp)
    /\ v.type \in {"none", "string", "bloom", "hll"} \cup Collections
    /\ v.exp \in Nat \cup {NoTTL}

\* The type invariant: Value structs, index entries and snapshots are well formed
\* and a Value's Data is an object of the type its Type field names.
TypeOK ==
    /\ DOMAIN data = Key /\ DOMAIN snaps = Snap
    /\ \A k \in Key : ValueOK(data[k]) /\ ContentOK(data[k].type, data[k].content)
    /\ dataWithExpiry \in [Key -> Nat \cup {NoTTL}]
    /\ snapshotCount \in Nat
    /\ \A s \in Snap :
          /\ snaps[s].held \in BOOLEAN
          /\ snaps[s].shared \subseteq Key
          /\ \A k \in Key : ValueOK(snaps[s].view[k])
    /\ clock \in 0 .. MaxTime

\* A key with a TTL is in the expiry index with that very TTL, whatever sequence
\* of SET, EXPIRE, INCR and collection writes led to it: the cleanup cycle only
\* ever looks at keys of the index.
ExpiryIndexed ==
    \A k \in Key : data[k].exp # NoTTL => dataWithExpiry[k] = data[k].exp

\* The index never names a key that is not in data: the branch of
\* CleanupExpiredKeys for that inconsistency is never needed.
IndexWithinData ==
    \A k \in Key : dataWithExpiry[k] # NoTTL => data[k].type # "none"

\* No list, set, hash or sorted set is ever stored empty, so that an emptied
\* collection and a missing key are the same thing to EXISTS, KEYS and TYPE checks.
NoEmptyCollection ==
    \A k \in Key : ~IsEmpty(data[k].type, data[k].content)

\* snapshotCount is the number of snapshots held, so that isSnapshotActive is
\* true for as long as any background goroutine reads one.
SnapshotCountExact ==
    snapshotCount = Cardinality({s \in Snap : snaps[s].held})

SameValue(v, w) == v.type = w.type /\ v.exp = w.exp /\ v.content = w.content

\* Some snapshot that is held before and after the step reads differently.
Disturbed == \E s \in Snap :
    /\ snaps[s].held /\ snaps'[s].held
    /\ \E k \in Key : ~SameValue(snaps[s].view[k], snaps'[s].view[k])

\* store.go:51 "actual data is copied only when modified during an active
\* snapshot": what a held snapshot reads never changes.
SnapshotIsolation == [][~Disturbed]_vars

\* The writers that do not clone.
UnclonedWrite ==
    \/ \E k \in Key : HSetNX(k) \/ HIncrBy(k) \/ HIncrByFloat(k)
    \/ \E k \in Key : SPop(k) \/ BFAdd(k)
    \/ \E src, dst \in Key : SMove(src, dst)

\* Every other command leaves every held snapshot as it was taken: the writers
\* that clone when isSnapshotActive, overwriting, deleting, expiring, flushing,
\* and the snapshots other goroutines take and release meanwhile.
ClonedWritesIsolated == [][Disturbed => UnclonedWrite]_vars

\* An expired entry does not stay: lazily or by the cleanup cycle, it is
\* eventually removed or overwritten, stale index entries notwithstanding.
ExpiredReclaimed == \A k \in Key : Expired(k) ~> ~Expired(k)

=============================================================================
