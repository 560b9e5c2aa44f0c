---------------------------- MODULE StoreProofs -----------------------------
(* Proofs about Store, for every set of keys, members and snapshot holders. *)
EXTENDS Store, FiniteSetTheorems, TLAPS

\* An entry of data and the index entry of the same key agree.
EntryOK(v, ix) ==
    /\ ValueOK(v)
    /\ ix \in Nat \cup {NoTTL}
    /\ v.exp # NoTTL => ix = v.exp
    /\ ix # NoTTL => v.type # "none"
    /\ ~IsEmpty(v.type, v.content)

\* Only a held snapshot shares objects.
SnapOK(sn) ==
    /\ sn = [held |-> sn.held, view |-> sn.view, shared |-> sn.shared]
    /\ sn.held \in BOOLEAN
    /\ sn.shared \subseteq Key
    /\ sn.shared # {} => sn.held

MapsOK  == /\ data = [k \in Key |-> data[k]]
           /\ dataWithExpiry = [k \in Key |-> dataWithExpiry[k]]
           /\ \A k \in Key : EntryOK(data[k], dataWithExpiry[k])
SnapsOK == /\ snaps = [s \in Snap |-> snaps[s]]
           /\ \A s \in Snap : SnapOK(snaps[s])
           /\ SnapshotCountExact
TimeOK  == clock \in Nat

\* The inductive invariant of the store.
StoreInv == MapsOK /\ SnapsOK /\ TimeOK

\* A missing key is a good entry: no TTL, no index entry.
LEMMA AbsentEntry == EntryOK(Absent, NoTTL)
  BY DEF EntryOK, ValueOK, Absent, NewValue, NoTTL, IsEmpty, Collections

\* What a command finds after dropping an expired entry is a good entry.
LEMMA FoundEntry ==
  ASSUME MapsOK, NEW k \in Key
  PROVE  EntryOK(Found(k), IndexFound(k))
  BY AbsentEntry DEF MapsOK, Found, IndexFound

\* Ending the sharing of keys leaves who holds a snapshot and what it reads.
LEMMA UnsharedOK ==
  ASSUME NEW sn, NEW K, sn = [s \in Snap |-> sn[s]], \A s \in Snap : SnapOK(sn[s])
  PROVE  /\ Unshared(sn, K) = [s \in Snap |-> Unshared(sn, K)[s]]
         /\ \A s \in Snap : /\ SnapOK(Unshared(sn, K)[s])
                            /\ Unshared(sn, K)[s].held = sn[s].held
                            /\ Unshared(sn, K)[s].view = sn[s].view
  BY DEF Unshared, SnapOK

\* Writing a shared object changes views, never who holds a snapshot.
LEMMA RewrittenOK ==
  ASSUME NEW sn, NEW k, NEW c, sn = [s \in Snap |-> sn[s]], \A s \in Snap : SnapOK(sn[s])
  PROVE  /\ Rewritten(sn, k, c) = [s \in Snap |-> Rewritten(sn, k, c)[s]]
         /\ \A s \in Snap : /\ SnapOK(Rewritten(sn, k, c)[s])
                            /\ Rewritten(sn, k, c)[s].held = sn[s].held
  BY DEF Rewritten, SnapOK

\* Holding the same snapshots, with snapshotCount as it was, keeps it exact.
LEMMA SameHolders ==
  ASSUME SnapsOK, snapshotCount' = snapshotCount,
         snaps' = [s \in Snap |-> snaps'[s]],
         \A s \in Snap : SnapOK(snaps[s])' /\ snaps'[s].held = snaps[s].held
  PROVE  SnapsOK'
  <1>1. {s \in Snap : snaps'[s].held} = {s \in Snap : snaps[s].held}
    OBVIOUS
  <1> QED BY <1>1 DEF SnapsOK, SnapshotCountExact

\* Nothing is disturbed by a step that leaves every view alone.
LEMMA SameViews ==
  ASSUME \A s \in Snap : snaps'[s].view = snaps[s].view
  PROVE  ~Disturbed
  BY DEF Disturbed, SameValue

\* Dropping objects from the live store is invisible to the snapshots.
LEMMA UnsharedStep ==
  ASSUME SnapsOK, NEW K, snaps' = Unshared(snaps, K), snapshotCount' = snapshotCount
  PROVE  SnapsOK' /\ ~Disturbed
  <1>1. /\ snaps' = [s \in Snap |-> snaps'[s]]
        /\ \A s \in Snap : /\ SnapOK(snaps'[s])
                           /\ snaps'[s].held = snaps[s].held
                           /\ snaps'[s].view = snaps[s].view
    BY UnsharedOK DEF SnapsOK
  <1>2. SnapsOK'
    BY <1>1, SameHolders
  <1> QED BY <1>1, <1>2, SameViews

\* No object is shared while snapshotCount is 0.
LEMMA NoneHeld ==
  ASSUME SnapsOK, ~(snapshotCount > 0)
  PROVE  \A s \in Snap : ~snaps[s].held
  <1> DEFINE H == {s \in Snap : snaps[s].held}
  <1>1. IsFiniteSet(H)
    BY KeyspaceAssumption, FS_Subset
  <1>2. Cardinality(H) \in Nat /\ (Cardinality(H) = 0 <=> H = {})
    BY <1>1, FS_CardinalityType, FS_EmptySet
  <1>3. H = {}
    BY <1>2 DEF SnapsOK, SnapshotCountExact
  <1> QED BY <1>3

-----------------------------------------------------------------------------
(* The steps the commands are made of. *)

\* A read may delete expired keys; the snapshots keep theirs.
LEMMA LookUpStep ==
  ASSUME StoreInv, NEW K \in SUBSET Key, LookUp(K)
  PROVE  StoreInv' /\ ~Disturbed
  <1>1. SnapsOK' /\ ~Disturbed
    BY UnsharedStep DEF StoreInv, LookUp
  <1>2. MapsOK'
    BY FoundEntry DEF StoreInv, MapsOK, LookUp
  <1> QED BY <1>1, <1>2 DEF StoreInv, TimeOK, LookUp

\* Overwriting a map entry with a good one (SET, DEL, EXPIRE) disturbs nothing.
LEMMA ReplaceStep ==
  ASSUME StoreInv, NEW k \in Key, NEW v, NEW ix, EntryOK(v, ix), Replace(k, v, ix)
  PROVE  StoreInv' /\ ~Disturbed
  <1>1. SnapsOK' /\ ~Disturbed
    BY UnsharedStep DEF StoreInv, Replace
  <1>2. MapsOK'
    BY DEF StoreInv, MapsOK, Replace
  <1> QED BY <1>1, <1>2 DEF StoreInv, TimeOK, Replace

ValueTypes == {"string", "bloom", "hll"} \cup Collections

\* The entry that saving a collection, or any other object, leaves.
LEMMA SavedEntry ==
  ASSUME NEW v, NEW ix, EntryOK(v, ix), NEW t \in ValueTypes, NEW c
  PROVE  EntryOK(IF IsEmpty(t, c) THEN Absent ELSE NewValue(t, c, NoTTL),
                 IF IsEmpty(t, c) THEN NoTTL ELSE ix)
  BY AbsentEntry
  DEF EntryOK, ValueOK, NewValue, NoTTL, ValueTypes, IsEmpty, Collections

\* saveSet, saveHash, saveList and saveZSet leave good entries.
LEMMA SaveStep ==
  ASSUME MapsOK, NEW k \in Key, NEW t \in ValueTypes, NEW c, Save(k, t, c)
  PROVE  MapsOK'
  <1>1. EntryOK(IF IsEmpty(t, c) THEN Absent ELSE NewValue(t, c, NoTTL),
                IF IsEmpty(t, c) THEN NoTTL ELSE IndexFound(k))
    BY FoundEntry, SavedEntry
  <1> QED BY <1>1 DEF MapsOK, Save

\* The STORE commands put a fresh object at the destination.
LEMMA StoreResultStep ==
  ASSUME StoreInv, NEW dst \in Key, NEW K \in SUBSET Key, NEW t \in ValueTypes, NEW c,
         StoreResult(dst, K, t, c)
  PROVE  StoreInv' /\ ~Disturbed
  <1>1. SnapsOK' /\ ~Disturbed
    BY UnsharedStep DEF StoreInv, StoreResult
  <1>2. /\ data' = [k \in Key |-> data'[k]]
        /\ dataWithExpiry' = [k \in Key |-> dataWithExpiry'[k]]
    BY DEF StoreResult
  <1>3. ASSUME NEW k \in Key
        PROVE  EntryOK(data'[k], dataWithExpiry'[k])
    <2> DEFINE ix == IF k \in K THEN IndexFound(k) ELSE dataWithExpiry[k]
               v  == IF k \in K THEN Found(k) ELSE data[k]
    <2>1. EntryOK(v, ix)
      BY FoundEntry DEF StoreInv, MapsOK
    <2>2. CASE k = dst
      <3>1. EntryOK(IF IsEmpty(t, c) THEN Absent ELSE NewValue(t, c, NoTTL),
                    IF IsEmpty(t, c) THEN NoTTL ELSE ix)
        BY <2>1, SavedEntry
      <3>2. /\ data'[k] = IF IsEmpty(t, c) THEN Absent ELSE NewValue(t, c, NoTTL)
            /\ dataWithExpiry'[k] = IF IsEmpty(t, c) THEN NoTTL ELSE ix
        BY <2>2 DEF StoreResult
      <3> QED BY <3>1, <3>2
    <2>3. CASE k # dst
      <3>1. data'[k] = v /\ dataWithExpiry'[k] = ix
        BY <2>3 DEF StoreResult
      <3> QED BY <2>1, <3>1
    <2> QED BY <2>2, <2>3
  <1>4. MapsOK'
    BY <1>2, <1>3 DEF MapsOK
  <1> QED BY <1>1, <1>4 DEF StoreInv, TimeOK, StoreResult

\* A write in place keeps the invariant, if not the snapshots' views.
LEMMA InPlaceStep ==
  ASSUME StoreInv, NEW k \in Key, NEW t \in ValueTypes, NEW c, InPlace(k, t, c)
  PROVE  StoreInv'
  <1>1. MapsOK'
    BY SaveStep DEF StoreInv, InPlace
  <1>2. SnapsOK'
    <2>1. CASE ~Exists(k)
      BY <2>1, UnsharedStep DEF StoreInv, InPlace
    <2>2. CASE Exists(k)
      <3> DEFINE seen == Rewritten(snaps, k, c)
                 K    == IF IsEmpty(t, c) THEN {k} ELSE {}
      <3>1. /\ seen = [s \in Snap |-> seen[s]]
            /\ \A s \in Snap : SnapOK(seen[s]) /\ seen[s].held = snaps[s].held
        BY RewrittenOK DEF StoreInv, SnapsOK
      <3>2. snaps' = Unshared(seen, K)
        BY <2>2 DEF InPlace
      <3>3. /\ snaps' = [s \in Snap |-> snaps'[s]]
            /\ \A s \in Snap : SnapOK(snaps'[s]) /\ snaps'[s].held = snaps[s].held
        <4> HIDE DEF seen, K
        <4> QED BY <3>1, <3>2, UnsharedOK
      <3> QED BY <3>3, SameHolders DEF StoreInv, InPlace
    <2> QED BY <2>1, <2>2
  <1> QED BY <1>1, <1>2 DEF StoreInv, TimeOK, InPlace

\* A writer that clones while isSnapshotActive disturbs no snapshot.
LEMMA CopyOnWriteStep ==
  ASSUME StoreInv, NEW k \in Key, NEW t \in ValueTypes, NEW c, CopyOnWrite(k, t, c)
  PROVE  StoreInv' /\ ~Disturbed
  <1>1. CASE snapshotCount > 0
    <2>1. MapsOK'
      BY <1>1, SaveStep DEF StoreInv, CopyOnWrite
    <2>2. SnapsOK' /\ ~Disturbed
      BY <1>1, UnsharedStep DEF StoreInv, CopyOnWrite
    <2> QED BY <1>1, <2>1, <2>2 DEF StoreInv, TimeOK, CopyOnWrite
  <1>2. CASE ~(snapshotCount > 0)
    <2>1. StoreInv'
      BY <1>2, InPlaceStep DEF CopyOnWrite
    <2>2. ~Disturbed
      BY <1>2, NoneHeld DEF StoreInv, Disturbed
    <2> QED BY <2>1, <2>2
  <1> QED BY <1>1, <1>2

\* A step that changes nothing.
LEMMA StutterStep ==
  ASSUME StoreInv, UNCHANGED vars
  PROVE  StoreInv' /\ ~Disturbed
  BY SameViews DEF StoreInv, MapsOK, SnapsOK, TimeOK, SnapshotCountExact, vars

\* A string, filter or counter saved without a TTL.
LEMMA PlainEntry ==
  ASSUME NEW v, NEW ix, EntryOK(v, ix), NEW t \in {"string", "bloom", "hll"}, NEW c
  PROVE  EntryOK(NewValue(t, c, NoTTL), ix)
  BY DEF EntryOK, ValueOK, NewValue, NoTTL, IsEmpty, Collections

-----------------------------------------------------------------------------
(* Snapshots. *)

\* Taking a snapshot counts it and disturbs no other.
LEMMA GetAllDataStep ==
  ASSUME StoreInv, NEW s \in Snap, GetAllData(s)
  PROVE  StoreInv' /\ ~Disturbed
  <1> DEFINE H == {r \in Snap : snaps[r].held}
  <1>1. IsFiniteSet(H) /\ s \notin H
    BY KeyspaceAssumption, FS_Subset DEF GetAllData
  <1>2. Cardinality(H \cup {s}) = Cardinality(H) + 1
    BY <1>1, FS_AddElement
  <1>3. {r \in Snap : snaps'[r].held} = H \cup {s}
    BY DEF GetAllData, StoreInv, SnapsOK, SnapOK
  <1>4. SnapshotCountExact'
    BY <1>2, <1>3 DEF SnapshotCountExact, GetAllData, StoreInv, SnapsOK
  <1>5. \A r \in Snap : SnapOK(snaps'[r])
    BY DEF GetAllData, StoreInv, SnapsOK, SnapOK
  <1>6. SnapsOK'
    BY <1>4, <1>5 DEF SnapsOK, GetAllData, StoreInv
  <1>7. ~Disturbed
    BY DEF Disturbed, SameValue, GetAllData, StoreInv, SnapsOK
  <1>8. MapsOK' /\ TimeOK'
    BY DEF GetAllData, storeVars, StoreInv, MapsOK, TimeOK
  <1> QED BY <1>6, <1>7, <1>8 DEF StoreInv

\* ReleaseSnapshot takes one off the counter.
LEMMA ReleaseStep ==
  ASSUME StoreInv, NEW s \in Snap, ReleaseSnapshot(s)
  PROVE  StoreInv' /\ ~Disturbed
  <1> DEFINE H == {r \in Snap : snaps[r].held}
  <1>1. IsFiniteSet(H) /\ s \in H
    BY KeyspaceAssumption, FS_Subset DEF ReleaseSnapshot
  <1>2. Cardinality(H \ {s}) = Cardinality(H) - 1
    BY <1>1, FS_RemoveElement
  <1>3. {r \in Snap : snaps'[r].held} = H \ {s}
    BY DEF ReleaseSnapshot, NoSnap, StoreInv, SnapsOK, SnapOK
  <1>4. SnapshotCountExact'
    BY <1>2, <1>3 DEF SnapshotCountExact, ReleaseSnapshot, StoreInv, SnapsOK
  <1>5. \A r \in Snap : SnapOK(snaps'[r])
    BY DEF ReleaseSnapshot, NoSnap, StoreInv, SnapsOK, SnapOK
  <1>6. SnapsOK'
    BY <1>4, <1>5 DEF SnapsOK, ReleaseSnapshot, StoreInv
  <1>7. ~Disturbed
    BY DEF Disturbed, SameValue, ReleaseSnapshot, NoSnap, StoreInv, SnapsOK
  <1>8. MapsOK' /\ TimeOK'
    BY DEF ReleaseSnapshot, storeVars, StoreInv, MapsOK, TimeOK
  <1> QED BY <1>6, <1>7, <1>8 DEF StoreInv

-----------------------------------------------------------------------------
(* The commands of string_ops.go and the cleanup cycle. *)

\* SET and SETEX keep data and index together.
LEMMA SetStep ==
  ASSUME StoreInv, NEW k \in Key, NEW v, NEW e \in Nat \cup {NoTTL}, Set(k, v, e)
  PROVE  StoreInv' /\ ~Disturbed
  <1>1. EntryOK(NewValue("string", v, e), e)
    BY DEF EntryOK, ValueOK, NewValue, NoTTL, IsEmpty, Collections
  <1> QED BY <1>1, ReplaceStep DEF Set

\* EXPIRE sets the TTL in both maps.
LEMMA ExpireStep ==
  ASSUME StoreInv, NEW k \in Key, Expire(k)
  PROVE  StoreInv' /\ ~Disturbed
  <1>1. CASE ~Exists(k)
    BY <1>1, LookUpStep DEF Expire
  <1>2. CASE Exists(k)
    <2>1. PICK t \in Ttl : /\ data' = [data EXCEPT ![k].exp = clock + t]
                           /\ dataWithExpiry' = [dataWithExpiry EXCEPT ![k] = clock + t]
                           /\ UNCHANGED <<snapshotCount, snaps, clock>>
      BY <1>2 DEF Expire
    <2>2. clock + t \in Nat
      BY KeyspaceAssumption DEF StoreInv, TimeOK
    <2>3. data[k].type # "none"
      BY <1>2 DEF Exists, Found, Absent
    <2>4. EntryOK([data[k] EXCEPT !.exp = clock + t], clock + t)
      BY <2>2, <2>3 DEF StoreInv, MapsOK, EntryOK, ValueOK, NewValue, NoTTL
    <2>5. MapsOK'
      BY <2>1, <2>4 DEF StoreInv, MapsOK
    <2>6. SnapsOK' /\ TimeOK'
      BY <2>1 DEF StoreInv, SnapsOK, SnapshotCountExact, TimeOK
    <2>7. ~Disturbed
      BY <2>1, SameViews
    <2> QED BY <2>5, <2>6, <2>7 DEF StoreInv
  <1> QED BY <1>1, <1>2

\* FLUSHALL empties both maps.
LEMMA FlushStep ==
  ASSUME StoreInv, Flush
  PROVE  StoreInv' /\ ~Disturbed
  <1>1. SnapsOK' /\ ~Disturbed
    BY UnsharedStep DEF StoreInv, Flush
  <1>2. MapsOK'
    BY AbsentEntry DEF MapsOK, Flush
  <1> QED BY <1>1, <1>2 DEF StoreInv, TimeOK, Flush

\* INCRBY stores a string without a TTL, or deletes an expired one.
LEMMA IncrByStep ==
  ASSUME StoreInv, NEW k \in Key, IncrBy(k)
  PROVE  StoreInv' /\ ~Disturbed
  <1>1. CASE UNCHANGED vars
    BY <1>1, StutterStep
  <1>2. ASSUME NEW n, Replace(k, NewValue("string", IntStr(n), NoTTL), IndexFound(k))
        PROVE  StoreInv' /\ ~Disturbed
    <2>1. EntryOK(NewValue("string", IntStr(n), NoTTL), IndexFound(k))
      BY FoundEntry, PlainEntry DEF StoreInv
    <2> QED BY <1>2, <2>1, ReplaceStep
  <1> QED BY <1>1, <1>2 DEF IncrBy

\* However its samples fall, the cleanup cycle keeps the maps together.
LEMMA CleanupStep ==
  ASSUME StoreInv, NEW sample, CleanupSampled(sample)
  PROVE  StoreInv' /\ ~Disturbed
  <1> DEFINE gone == UNION {Reaped(sample[i]) : i \in DOMAIN sample}
  <1>1. SnapsOK' /\ ~Disturbed
    BY UnsharedStep DEF StoreInv, CleanupSampled
  <1>2. /\ data' = [k \in Key |-> IF k \in gone THEN Absent ELSE data[k]]
        /\ dataWithExpiry' = [k \in Key |-> IF k \in gone THEN NoTTL ELSE dataWithExpiry[k]]
        /\ clock' = clock
    BY DEF CleanupSampled
  <1>3. MapsOK'
    <2> HIDE DEF gone
    <2> QED BY <1>2, AbsentEntry DEF StoreInv, MapsOK
  <1> QED BY <1>1, <1>2, <1>3 DEF StoreInv, TimeOK

\* Time passes.
LEMMA TickStep ==
  ASSUME StoreInv, Tick
  PROVE  StoreInv' /\ ~Disturbed
  <1>1. MapsOK' /\ SnapsOK' /\ TimeOK'
    BY DEF StoreInv, Tick, storeVars, MapsOK, SnapsOK, SnapshotCountExact, TimeOK
  <1> QED BY <1>1, SameViews DEF StoreInv, Tick

\* Every string and key command.
LEMMA KeyspaceSteps ==
  ASSUME StoreInv, KeyspaceNext
  PROVE  StoreInv' /\ ~Disturbed
  <1>1. ASSUME NEW k \in Key, SetPlain(k) PROVE StoreInv' /\ ~Disturbed
    BY <1>1, SetStep DEF SetPlain, NoTTL
  <1>2. ASSUME NEW k \in Key, SetEx(k) PROVE StoreInv' /\ ~Disturbed
    <2>1. PICK v \in Str, t \in Ttl : Set(k, v, clock + t)
      BY <1>2 DEF SetEx
    <2>2. clock + t \in Nat
      BY KeyspaceAssumption DEF StoreInv, TimeOK
    <2> QED BY <2>1, <2>2, SetStep
  <1>3. ASSUME NEW k \in Key, Get(k) PROVE StoreInv' /\ ~Disturbed
    BY <1>3, LookUpStep DEF Get
  <1>4. ASSUME NEW k \in Key, Delete(k) PROVE StoreInv' /\ ~Disturbed
    BY <1>4, ReplaceStep, AbsentEntry DEF Delete
  <1>5. CleanupExpiredKeys => StoreInv' /\ ~Disturbed
    BY CleanupStep DEF CleanupExpiredKeys
  <1> QED BY <1>1, <1>2, <1>3, <1>4, <1>5, FlushStep, ExpireStep, IncrByStep,
             GetAllDataStep, ReleaseStep, TickStep DEF KeyspaceNext

-----------------------------------------------------------------------------
(* The set commands. *)

\* What a step does to the snapshots when it rewrites shared objects: the
\* holders stay, whatever they now read.
LEMMA RewriteStep ==
  ASSUME SnapsOK, snapshotCount' = snapshotCount,
         NEW seen, NEW K, snaps' = Unshared(seen, K),
         seen = [s \in Snap |-> seen[s]],
         \A s \in Snap : SnapOK(seen[s]) /\ seen[s].held = snaps[s].held
  PROVE  SnapsOK'
  <1>1. /\ snaps' = [s \in Snap |-> snaps'[s]]
        /\ \A s \in Snap : SnapOK(snaps'[s]) /\ snaps'[s].held = snaps[s].held
    BY UnsharedOK
  <1> QED BY <1>1, SameHolders

\* A key that is found was not expired.
LEMMA FoundLive ==
  ASSUME NEW k \in Key, NEW t, t # "none", HasType(k, t)
  PROVE  /\ Found(k) = data[k] /\ IndexFound(k) = dataWithExpiry[k]
         /\ data[k].type = t
  BY DEF HasType, Found, IndexFound, Absent

\* SPOP writes in place: it keeps the invariant.
LEMMA SPopStep ==
  ASSUME StoreInv, NEW k \in Key, SPop(k)
  PROVE  StoreInv'
  <1>1. CASE LookUp({k})
    BY <1>1, LookUpStep
  <1>2. CASE HasType(k, "set") /\ ~LookUp({k})
    <2> DEFINE Popped(rest) ==
                 /\ data' = [data EXCEPT ![k] =
                               IF rest = {} THEN Absent ELSE [data[k] EXCEPT !.content = rest]]
                 /\ dataWithExpiry' = [dataWithExpiry EXCEPT ![k] =
                               IF rest = {} THEN NoTTL ELSE dataWithExpiry[k]]
                 /\ snaps' = Unshared(Rewritten(snaps, k, rest), IF rest = {} THEN {k} ELSE {})
                 /\ UNCHANGED <<snapshotCount, clock>>
    <2>1. PICK M \in SUBSET Members(k) : Popped(Members(k) \ M)
      BY <1>2 DEF SPop
    <2> DEFINE rest == Members(k) \ M
    <2> HIDE DEF rest
    <2>2. /\ data' = [data EXCEPT ![k] =
                        IF rest = {} THEN Absent ELSE [data[k] EXCEPT !.content = rest]]
          /\ dataWithExpiry' = [dataWithExpiry EXCEPT ![k] =
                        IF rest = {} THEN NoTTL ELSE dataWithExpiry[k]]
          /\ snaps' = Unshared(Rewritten(snaps, k, rest), IF rest = {} THEN {k} ELSE {})
          /\ UNCHANGED <<snapshotCount, clock>>
      BY <2>1 DEF rest
    <2>3. rest # {} => EntryOK([data[k] EXCEPT !.content = rest], dataWithExpiry[k])
      BY <1>2, FoundLive
      DEF StoreInv, MapsOK, EntryOK, ValueOK, NewValue, IsEmpty, Collections
    <2>4. MapsOK'
      BY <2>2, <2>3, AbsentEntry DEF StoreInv, MapsOK
    <2>5. SnapsOK'
      <3> DEFINE seen == Rewritten(snaps, k, rest)
      <3>1. /\ seen = [s \in Snap |-> seen[s]]
            /\ \A s \in Snap : SnapOK(seen[s]) /\ seen[s].held = snaps[s].held
        BY RewrittenOK DEF StoreInv, SnapsOK
      <3> QED BY <2>2, <3>1, RewriteStep DEF StoreInv
    <2> QED BY <2>2, <2>4, <2>5 DEF StoreInv, TimeOK
  <1> QED BY <1>1, <1>2 DEF SPop

\* SMOVE writes both its sets in place: it keeps the invariant.
LEMMA SMovedStep ==
  ASSUME StoreInv, NEW src \in Key, NEW dst \in Key, NEW m,
         m \in Members(src), Creatable(dst, "set"), SMoved(src, dst, m)
  PROVE  StoreInv'
  <1> DEFINE from == Members(src) \ {m}
             to   == (IF src = dst THEN from ELSE Members(dst)) \cup {m}
             taken == Rewritten(snaps, src, from)
             seen == IF src = dst
                     THEN Rewritten(snaps, src, to)
                     ELSE IF Exists(dst) THEN Rewritten(taken, dst, to) ELSE taken
             gone == (IF from = {} /\ src # dst THEN {src} ELSE {})
                        \cup (IF Exists(dst) THEN {} ELSE {dst})
  <1>1. /\ data' = [data EXCEPT
                      ![src] = IF from = {} THEN Absent ELSE [@ EXCEPT !.content = from],
                      ![dst] = NewValue("set", to, NoTTL)]
        /\ dataWithExpiry' = [dataWithExpiry EXCEPT
                      ![src] = IF from = {} /\ src # dst THEN NoTTL ELSE @,
                      ![dst] = IF src = dst THEN @ ELSE IndexFound(dst)]
        /\ snaps' = Unshared(seen, gone)
        /\ UNCHANGED <<snapshotCount, clock>>
    BY DEF SMoved
  <1>2. to # {}
    OBVIOUS
  <1>3. HasType(src, "set")
    BY DEF Members
  <1>4. EntryOK(NewValue("set", to, NoTTL), IndexFound(dst))
    <2>1. EntryOK(Found(dst), IndexFound(dst))
      BY FoundEntry DEF StoreInv
    <2> HIDE DEF to
    <2> QED BY <1>2, <2>1 DEF EntryOK, ValueOK, NewValue, NoTTL, IsEmpty, Collections
  <1>5. src = dst => IndexFound(dst) = dataWithExpiry[dst]
    BY <1>3, FoundLive
  <1>6. from # {} => EntryOK([data[src] EXCEPT !.content = from], dataWithExpiry[src])
    <2> HIDE DEF from
    <2> QED BY <1>3, FoundLive
            DEF StoreInv, MapsOK, EntryOK, ValueOK, NewValue, IsEmpty, Collections
  <1>7. MapsOK'
    <2> HIDE DEF from, to
    <2>1. data' = [k \in Key |-> data'[k]] /\ dataWithExpiry' = [k \in Key |-> dataWithExpiry'[k]]
      BY <1>1 DEF StoreInv, MapsOK
    <2>2. EntryOK(data'[dst], dataWithExpiry'[dst])
      BY <1>1, <1>4, <1>5 DEF StoreInv, MapsOK
    <2>3. src # dst => EntryOK(data'[src], dataWithExpiry'[src])
      BY <1>1, <1>6, AbsentEntry DEF StoreInv, MapsOK
    <2>4. \A k \in Key \ {src, dst} : EntryOK(data'[k], dataWithExpiry'[k])
      BY <1>1 DEF StoreInv, MapsOK
    <2> QED BY <2>1, <2>2, <2>3, <2>4 DEF MapsOK
  <1>8. SnapsOK'
    <2> HIDE DEF from, to
    <2>1. /\ taken = [s \in Snap |-> taken[s]]
          /\ \A s \in Snap : SnapOK(taken[s]) /\ taken[s].held = snaps[s].held
      BY RewrittenOK DEF StoreInv, SnapsOK
    <2>2. /\ seen = [s \in Snap |-> seen[s]]
          /\ \A s \in Snap : SnapOK(seen[s]) /\ seen[s].held = snaps[s].held
      <3> HIDE DEF taken
      <3>1. CASE src = dst
        BY <3>1, RewrittenOK DEF StoreInv, SnapsOK
      <3>2. CASE src # dst /\ Exists(dst)
        BY <3>2, <2>1, RewrittenOK
      <3>3. CASE src # dst /\ ~Exists(dst)
        BY <3>3, <2>1
      <3> QED BY <3>1, <3>2, <3>3
    <2> HIDE DEF seen, gone
    <2> QED BY <1>1, <2>2, RewriteStep DEF StoreInv
  <1> QED BY <1>1, <1>7, <1>8 DEF StoreInv, TimeOK

\* Every set command; those that disturb a snapshot are listed.
LEMMA SetSteps ==
  ASSUME StoreInv, SetNext
  PROVE  StoreInv' /\ (Disturbed => UnclonedWrite)
  <1>1. ASSUME NEW k \in Key, SAdd(k) PROVE StoreInv' /\ ~Disturbed
    BY <1>1, CopyOnWriteStep, StutterStep DEF SAdd, ValueTypes, Collections
  <1>2. ASSUME NEW k \in Key, SRem(k) PROVE StoreInv' /\ ~Disturbed
    BY <1>2, CopyOnWriteStep, LookUpStep DEF SRem, ValueTypes, Collections
  <1>3. ASSUME NEW k \in Key, SPop(k) PROVE StoreInv' /\ UnclonedWrite
    BY <1>3, SPopStep DEF UnclonedWrite
  <1>4. ASSUME NEW src \in Key, NEW dst \in Key, SMove(src, dst)
        PROVE  StoreInv' /\ UnclonedWrite
    <2>1. StoreInv'
      BY <1>4, SMovedStep, LookUpStep, StutterStep DEF SMove
    <2> QED BY <1>4, <2>1 DEF UnclonedWrite
  <1>5. ASSUME NEW dst \in Key, NEW j \in Key, NEW k \in Key,
               SUnionStore(dst, j, k) \/ SInterStore(dst, j, k) \/ SDiffStore(dst, j, k)
        PROVE  StoreInv' /\ ~Disturbed
    <2>1. Looked(j, k, TRUE) \in SUBSET Key /\ Looked(j, k, FALSE) \in SUBSET Key
      BY DEF Looked
    <2>2. "set" \in ValueTypes
      BY DEF ValueTypes, Collections
    <2>3. CASE SUnionStore(dst, j, k)
      BY <2>1, <2>2, <2>3, StoreResultStep DEF SUnionStore
    <2>4. CASE SInterStore(dst, j, k)
      BY <2>1, <2>2, <2>4, StoreResultStep DEF SInterStore
    <2>5. CASE SDiffStore(dst, j, k)
      BY <2>1, <2>2, <2>5, StoreResultStep DEF SDiffStore
    <2> QED BY <1>5, <2>3, <2>4, <2>5
  <1> QED BY <1>1, <1>2, <1>3, <1>4, <1>5 DEF SetNext

-----------------------------------------------------------------------------
(* The commands of the other types. *)

\* Every hash command; those that disturb a snapshot are listed.
LEMMA HashSteps ==
  ASSUME StoreInv, HashNext
  PROVE  StoreInv' /\ (Disturbed => UnclonedWrite)
  <1>0. "hash" \in ValueTypes
    BY DEF ValueTypes, Collections
  <1>1. ASSUME NEW k \in Key, HSet(k) PROVE StoreInv' /\ ~Disturbed
    BY <1>0, <1>1, CopyOnWriteStep, StutterStep DEF HSet
  <1>2. ASSUME NEW k \in Key, HDel(k) PROVE StoreInv' /\ ~Disturbed
    BY <1>0, <1>2, CopyOnWriteStep, LookUpStep DEF HDel
  <1>3. ASSUME NEW k \in Key, HSetNX(k) PROVE StoreInv' /\ UnclonedWrite
    <2>1. StoreInv'
      BY <1>0, <1>3, InPlaceStep, StutterStep DEF HSetNX
    <2> QED BY <1>3, <2>1 DEF UnclonedWrite
  <1>4. ASSUME NEW k \in Key, HIncrBy(k) PROVE StoreInv' /\ UnclonedWrite
    <2>1. StoreInv'
      BY <1>0, <1>4, InPlaceStep, StutterStep DEF HIncrBy, SetNumber
    <2> QED BY <1>4, <2>1 DEF UnclonedWrite
  <1>5. ASSUME NEW k \in Key, HIncrByFloat(k) PROVE StoreInv' /\ UnclonedWrite
    <2>1. StoreInv'
      BY <1>0, <1>5, InPlaceStep, StutterStep DEF HIncrByFloat, SetNumber
    <2> QED BY <1>5, <2>1 DEF UnclonedWrite
  <1> QED BY <1>1, <1>2, <1>3, <1>4, <1>5 DEF HashNext

\* Every list command clones.
LEMMA ListSteps ==
  ASSUME StoreInv, ListNext
  PROVE  StoreInv' /\ ~Disturbed
  <1>1. ASSUME NEW k \in Key, NEW l, SaveList(k, l) PROVE StoreInv' /\ ~Disturbed
    BY <1>1, CopyOnWriteStep DEF SaveList, ValueTypes, Collections
  <1>2. ASSUME NEW k \in Key, LookUp({k}) PROVE StoreInv' /\ ~Disturbed
    BY <1>2, LookUpStep
  <1>3. ASSUME NEW k \in Key, LPush(k) \/ RPush(k) PROVE StoreInv' /\ ~Disturbed
    BY <1>1, <1>3, StutterStep DEF LPush, RPush
  <1>4. ASSUME NEW k \in Key, LPop(k) \/ RPop(k) PROVE StoreInv' /\ ~Disturbed
    BY <1>1, <1>2, <1>4 DEF LPop, RPop
  <1>5. ASSUME NEW k \in Key, LSet(k) PROVE StoreInv' /\ ~Disturbed
    BY <1>1, <1>2, <1>5, StutterStep DEF LSet
  <1>6. ASSUME NEW k \in Key, LRem(k) \/ LTrim(k) PROVE StoreInv' /\ ~Disturbed
    BY <1>1, <1>2, <1>6 DEF LRem, LTrim
  <1>7. ASSUME NEW k \in Key, LInsert(k) PROVE StoreInv' /\ ~Disturbed
    BY <1>1, <1>2, <1>7, StutterStep DEF LInsert
  <1> QED BY <1>3, <1>4, <1>5, <1>6, <1>7 DEF ListNext

\* Every sorted set command clones.
LEMMA ZSetSteps ==
  ASSUME StoreInv, ZSetNext
  PROVE  StoreInv' /\ ~Disturbed
  <1>1. ASSUME NEW k \in Key, NEW z, CopyOnWrite(k, "zset", z) PROVE StoreInv' /\ ~Disturbed
    BY <1>1, CopyOnWriteStep DEF ValueTypes, Collections
  <1>2. ASSUME NEW k \in Key, LookUp({k}) PROVE StoreInv' /\ ~Disturbed
    BY <1>2, LookUpStep
  <1>3. ASSUME NEW k \in Key, ZAdd(k) \/ ZIncrBy(k) PROVE StoreInv' /\ ~Disturbed
    BY <1>1, <1>3, StutterStep DEF ZAdd, ZIncrBy
  <1>4. ASSUME NEW k \in Key, ZRem(k) \/ ZPopMin(k) \/ ZPopMax(k) \/ ZRemRangeByScore(k)
        PROVE  StoreInv' /\ ~Disturbed
    BY <1>1, <1>2, <1>4 DEF ZRem, ZPopMin, ZPopMax, ZRemRangeByScore
  <1>5. ASSUME NEW k \in Key, ZRemRangeByRank(k) PROVE StoreInv' /\ ~Disturbed
    BY <1>1, <1>2, <1>5, StutterStep DEF ZRemRangeByRank
  <1> QED BY <1>3, <1>4, <1>5 DEF ZSetNext

\* BF.ADD writes in place: it keeps the invariant.
LEMMA BFAddStep ==
  ASSUME StoreInv, NEW k \in Key, BFAdd(k)
  PROVE  StoreInv'
  <1>1. CASE LookUp({k})
    BY <1>1, LookUpStep
  <1>2. ASSUME HasType(k, "bloom"), NEW c,
               data' = [data EXCEPT ![k].content = c],
               snaps' = Rewritten(snaps, k, c),
               UNCHANGED <<dataWithExpiry, snapshotCount, clock>>
        PROVE  StoreInv'
    <2>1. EntryOK([data[k] EXCEPT !.content = c], dataWithExpiry[k])
      BY <1>2, FoundLive
      DEF StoreInv, MapsOK, EntryOK, ValueOK, NewValue, IsEmpty, Collections
    <2>2. MapsOK'
      BY <1>2, <2>1 DEF StoreInv, MapsOK
    <2>3. SnapsOK'
      BY <1>2, RewrittenOK, SameHolders DEF StoreInv, SnapsOK
    <2> QED BY <1>2, <2>2, <2>3 DEF StoreInv, TimeOK
  <1> QED BY <1>1, <1>2 DEF BFAdd

\* Every filter and counter command; only BF.ADD may disturb a snapshot.
LEMMA SketchSteps ==
  ASSUME StoreInv, SketchNext
  PROVE  StoreInv' /\ (Disturbed => UnclonedWrite)
  <1>0. "hll" \in ValueTypes
    BY DEF ValueTypes
  <1>1. ASSUME NEW k \in Key, BFReserve(k) PROVE StoreInv' /\ ~Disturbed
    <2>1. EntryOK(NewValue("bloom", {}, NoTTL), dataWithExpiry[k])
      BY PlainEntry DEF StoreInv, MapsOK
    <2> QED BY <1>1, <2>1, ReplaceStep, StutterStep DEF BFReserve
  <1>2. ASSUME NEW k \in Key, BFAdd(k) PROVE StoreInv' /\ UnclonedWrite
    BY <1>2, BFAddStep DEF UnclonedWrite
  <1>3. ASSUME NEW k \in Key, PFAdd(k) PROVE StoreInv' /\ ~Disturbed
    BY <1>0, <1>3, CopyOnWriteStep, StutterStep DEF PFAdd
  <1>4. ASSUME NEW dst \in Key, NEW j \in Key, NEW k \in Key, PFMerge(dst, j, k)
        PROVE  StoreInv' /\ ~Disturbed
    BY <1>0, <1>4, StoreResultStep, LookUpStep, StutterStep DEF PFMerge
  <1> QED BY <1>1, <1>2, <1>3, <1>4 DEF SketchNext

\* The bitmap commands write new strings only.
LEMMA BitmapSteps ==
  ASSUME StoreInv, BitmapNext
  PROVE  StoreInv' /\ ~Disturbed
  <1>0. "string" \in ValueTypes
    BY DEF ValueTypes
  <1>1. ASSUME NEW k \in Key, SetBit(k) PROVE StoreInv' /\ ~Disturbed
    <2>1. ASSUME NEW v \in Str PROVE EntryOK(NewValue("string", v, NoTTL), IndexFound(k))
      BY FoundEntry, PlainEntry DEF StoreInv
    <2> QED BY <1>1, <2>1, ReplaceStep, StutterStep DEF SetBit
  <1>2. ASSUME NEW dst \in Key, NEW k \in Key, BitOpNot(dst, k) PROVE StoreInv' /\ ~Disturbed
    BY <1>0, <1>2, StoreResultStep, StutterStep DEF BitOpNot
  <1>3. ASSUME NEW dst \in Key, NEW j \in Key, NEW k \in Key, BitOp(dst, j, k)
        PROVE  StoreInv' /\ ~Disturbed
    BY <1>0, <1>3, StoreResultStep, LookUpStep, StutterStep DEF BitOp
  <1> QED BY <1>1, <1>2, <1>3 DEF BitmapNext

-----------------------------------------------------------------------------
(* The theorems. *)

\* NewStore is in the invariant.
LEMMA StoreInit == Init => StoreInv
  <1> SUFFICES ASSUME Init PROVE StoreInv
    OBVIOUS
  <1>1. MapsOK /\ TimeOK
    BY AbsentEntry DEF Init, KeyspaceInit, MapsOK, TimeOK
  <1>2. {s \in Snap : snaps[s].held} = {}
    BY DEF Init, KeyspaceInit, NoSnap
  <1>3. SnapshotCountExact
    BY <1>2, FS_EmptySet DEF SnapshotCountExact, Init, KeyspaceInit
  <1>4. \A s \in Snap : SnapOK(snaps[s])
    BY DEF Init, KeyspaceInit, NoSnap, SnapOK
  <1> QED BY <1>1, <1>3, <1>4 DEF StoreInv, SnapsOK, Init, KeyspaceInit

\* Every step keeps the invariant and disturbs a snapshot only by a writer that does not clone.
LEMMA StoreStep ==
  ASSUME StoreInv, [Next]_vars
  PROVE  StoreInv' /\ (Disturbed => UnclonedWrite)
  <1>1. CASE UNCHANGED vars
    BY <1>1, StutterStep
  <1>2. CASE Next
    BY <1>2, KeyspaceSteps, SetSteps, HashSteps, ListSteps, ZSetSteps, SketchSteps, BitmapSteps
    DEF Next
  <1> QED BY <1>1, <1>2

\* The inductive invariant holds in every reachable state of the store.
THEOREM StoreInvariant == Spec => []StoreInv
  <1>1. StoreInv /\ [Next]_vars => StoreInv'
    BY StoreStep
  <1> QED BY <1>1, StoreInit, PTL DEF Spec

\* A key with a TTL is always in the expiry index under that TTL.
THEOREM ExpiryIndexedTheorem == Spec => []ExpiryIndexed
  <1>1. StoreInv => ExpiryIndexed
    BY DEF StoreInv, MapsOK, EntryOK, ExpiryIndexed
  <1> QED BY <1>1, StoreInvariant, PTL

\* The expiry index never names a key that data does not have.
THEOREM IndexWithinDataTheorem == Spec => []IndexWithinData
  <1>1. StoreInv => IndexWithinData
    BY DEF StoreInv, MapsOK, EntryOK, IndexWithinData
  <1> QED BY <1>1, StoreInvariant, PTL

\* No command of any type leaves an empty collection behind.
THEOREM NoEmptyCollectionTheorem == Spec => []NoEmptyCollection
  <1>1. StoreInv => NoEmptyCollection
    BY DEF StoreInv, MapsOK, EntryOK, NoEmptyCollection
  <1> QED BY <1>1, StoreInvariant, PTL

\* isSnapshotActive tells the truth for any number of overlapping snapshots.
THEOREM SnapshotCountTheorem == Spec => []SnapshotCountExact
  <1>1. StoreInv => SnapshotCountExact
    BY DEF StoreInv, SnapsOK
  <1> QED BY <1>1, StoreInvariant, PTL

\* No step of the store but an uncloned write changes what a held snapshot reads.
THEOREM ClonedWritesTheorem == Spec => ClonedWritesIsolated
  <1>1. StoreInv /\ [Next]_vars => [Disturbed => UnclonedWrite]_vars
    BY StoreStep
  <1> QED BY <1>1, StoreInvariant, PTL DEF Spec, ClonedWritesIsolated

=============================================================================
