------------------------------ MODULE Keyspace ------------------------------
(* The key space of internal/storage: the two maps of a Store (data and the
   expiry index dataWithExpiry), lazy and active expiration, the string
   commands, and the copy-on-write snapshots that BGSAVE and BGREWRITEAOF hold
   while the processor goroutine goes on executing commands.

   Every command is one step, because one goroutine (Processor.run) executes
   all of them.  GetAllData runs in that goroutine too; ReleaseSnapshot does
   not, and may come between any two commands.

   A value is [type, content, exp].  A snapshot copies the Value structs (its
   view) but not the objects their Data points to: snaps[s].shared holds the
   keys whose object snapshot s still shares with the live store.  No command
   copies a Data pointer from one key to another, so sharing is per key. *)
EXTENDS Integers, Sequences, FiniteSets, FiniteSetsExt

CONSTANTS Key,          \* the keys
          Str,          \* the string values given to SET, HSET and HSETNX
          Elem,         \* list elements, set members, hash fields, sorted set members
          Snap,         \* the background goroutines that may hold a snapshot
          Ttl,          \* the times to live given to EXPIRE and SETEX
          Increments,   \* the increments given to INCRBY, DECRBY, HINCRBY, ZINCRBY
          IntHalf,      \* integers are -IntHalf..IntHalf-1: int64 has 2^63
          SampleSize,   \* keysPerSample
          MaxRounds,    \* bound on the sampling rounds of one cleanup
          MaxTime       \* bound on the clock

NoTTL  == -1            \* a nil *time.Time; no entry in dataWithExpiry

(* A string is an integer, or starts with one, or is other text (num is 0):
   what strconv.ParseInt and Sscanf("%d") tell apart. *)
StrVal == [kind : {"int", "prefix", "text"}, num : Int]

IntStr(n) == [kind |-> "int", num |-> n]

ASSUME KeyspaceAssumption ==
    /\ IsFiniteSet(Snap)
    /\ Str \subseteq StrVal
    /\ IntHalf \in Nat \ {0}
    /\ SampleSize \in Nat \ {0}
    /\ MaxRounds \in Nat \ {0}
    /\ MaxTime \in Nat
    /\ Ttl \subseteq Nat \ {0}
    /\ Increments \subseteq Int

VARIABLES data, dataWithExpiry, snapshotCount, snaps, clock

storeVars == <<data, dataWithExpiry>>
vars      == <<data, dataWithExpiry, snapshotCount, snaps, clock>>

\* The map has no entry.
Absent == [type |-> "none", content |-> {}, exp |-> NoTTL]

NewValue(t, c, e) == [type |-> t, content |-> c, exp |-> e]

NoSnap == [held |-> FALSE, view |-> [k \in Key |-> Absent], shared |-> {}]

KeyspaceInit ==
    /\ data = [k \in Key |-> Absent]
    /\ dataWithExpiry = [k \in Key |-> NoTTL]
    /\ snapshotCount = 0
    /\ snaps = [s \in Snap |-> NoSnap]
    /\ clock = 0

-----------------------------------------------------------------------------
(* Looking a key up. *)

\* val.ExpiresAt != nil && time.Now().After(*val.ExpiresAt)
Expired(k) == data[k].exp # NoTTL /\ clock > data[k].exp

\* What a command finds at k once it has dropped an expired entry ...
Found(k) == IF Expired(k) THEN Absent ELSE data[k]

\* ... and what deleteKey has left in the index.
IndexFound(k) == IF Expired(k) THEN NoTTL ELSE dataWithExpiry[k]

Exists(k) == Found(k).type # "none"

HasType(k, t) == Found(k).type = t

\* A command that creates k as a t when it is absent has no type error.
Creatable(k, t) == Found(k).type \in {"none", t}

-----------------------------------------------------------------------------
(* Snapshots and the objects they share with the live store. *)

\* The live store now holds other objects than before at the keys of K.
Unshared(sn, K) == [s \in Snap |-> [sn[s] EXCEPT !.shared = @ \ K]]

\* The object at k gets content c, and everyone who shares it sees it.
Rewritten(sn, k, c) ==
    [s \in Snap |-> IF k \in sn[s].shared
                    THEN [sn[s] EXCEPT !.view[k].content = c]
                    ELSE sn[s]]

\* Expired entries of the keys of K are deleted from both maps.
LookUp(K) ==
    /\ data' = [k \in Key |-> IF k \in K THEN Found(k) ELSE data[k]]
    /\ dataWithExpiry' = [k \in Key |-> IF k \in K THEN IndexFound(k)
                                                   ELSE dataWithExpiry[k]]
    /\ snaps' = Unshared(snaps, {k \in K : Expired(k)})
    /\ UNCHANGED <<snapshotCount, clock>>

\* k gets a new entry with an object of its own, or none at all.
Replace(k, v, ix) ==
    /\ data' = [data EXCEPT ![k] = v]
    /\ dataWithExpiry' = [dataWithExpiry EXCEPT ![k] = ix]
    /\ snaps' = Unshared(snaps, {k})
    /\ UNCHANGED <<snapshotCount, clock>>

\* Collections, unlike strings, filters and counters, are deleted when empty.
Collections == {"list", "set", "hash", "zset"}

IsEmpty(t, c) == t \in Collections /\ c = (IF t = "set" THEN {} ELSE <<>>)

\* Variant: the Type of a new entry is not set.
SaveUntyped(k, t, c) ==
    /\ data' = [data EXCEPT ![k] = IF IsEmpty(t, c) THEN Absent
                                   ELSE NewValue(Found(k).type, c, NoTTL)]
    /\ dataWithExpiry' = [dataWithExpiry EXCEPT ![k] =
                            IF IsEmpty(t, c) THEN NoTTL ELSE IndexFound(k)]

\* saveList, saveSet, saveHash, saveZSet: an empty collection is deleted, any
\* other is stored without a TTL while the index keeps the entry it has.
Save(k, t, c) ==
    /\ data' = [data EXCEPT ![k] = IF IsEmpty(t, c) THEN Absent ELSE NewValue(t, c, NoTTL)]
    /\ dataWithExpiry' = [dataWithExpiry EXCEPT ![k] =
                            IF IsEmpty(t, c) THEN NoTTL ELSE IndexFound(k)]

\* The object found at k is changed to c where it is, then saved.
InPlace(k, t, c) ==
    /\ Save(k, t, c)
    /\ snaps' = IF ~Exists(k) THEN Unshared(snaps, {k})
                ELSE Unshared(Rewritten(snaps, k, c), IF IsEmpty(t, c) THEN {k} ELSE {})
    /\ UNCHANGED <<snapshotCount, clock>>

\* Variant: the clone is made only when two snapshots are active.
CopyOnWriteLate(k, t, c) ==
    IF snapshotCount > 1
    THEN /\ Save(k, t, c)
         /\ snaps' = Unshared(snaps, {k})
         /\ UNCHANGED <<snapshotCount, clock>>
    ELSE InPlace(k, t, c)

\* The same for a writer that clones the object when isSnapshotActive().
CopyOnWrite(k, t, c) ==
    IF snapshotCount > 0
    THEN /\ Save(k, t, c)
         /\ snaps' = Unshared(snaps, {k})
         /\ UNCHANGED <<snapshotCount, clock>>
    ELSE InPlace(k, t, c)

\* The keys of K are looked up, then dst gets a new object with content c; an
\* empty collection deletes dst, and again the index is left as it is found.
StoreResult(dst, K, t, c) ==
    /\ data' = [k \in Key |->
                  CASE k = dst -> IF IsEmpty(t, c) THEN Absent ELSE NewValue(t, c, NoTTL)
                    [] k \in K \ {dst} -> Found(k)
                    [] OTHER -> data[k]]
    /\ dataWithExpiry' = [k \in Key |->
                  CASE k = dst /\ IsEmpty(t, c) -> NoTTL
                    [] k \in K /\ ~(k = dst /\ IsEmpty(t, c)) -> IndexFound(k)
                    [] OTHER -> dataWithExpiry[k]]
    /\ snaps' = Unshared(snaps, {dst} \cup {k \in K : Expired(k)})
    /\ UNCHANGED <<snapshotCount, clock>>

\* Variant: a flag where the code has a counter.
GetAllDataFlag(s) ==
    /\ ~snaps[s].held
    /\ snapshotCount' = 1
    /\ snaps' = [snaps EXCEPT ![s] = [held   |-> TRUE,
                                      view   |-> data,
                                      shared |-> {k \in Key : data[k].type # "none"}]]
    /\ UNCHANGED <<storeVars, clock>>

\* GetAllData: count, then copy every Value struct with its Data pointer.
GetAllData(s) ==
    /\ ~snaps[s].held
    /\ snapshotCount' = snapshotCount + 1
    /\ snaps' = [snaps EXCEPT ![s] = [held   |-> TRUE,
                                      view   |-> data,
                                      shared |-> {k \in Key : data[k].type # "none"}]]
    /\ UNCHANGED <<storeVars, clock>>

\* ReleaseSnapshot, called by the goroutine that is done with its snapshot.
ReleaseSnapshot(s) ==
    /\ snaps[s].held
    /\ snapshotCount' = snapshotCount - 1
    /\ snaps' = [snaps EXCEPT ![s] = NoSnap]
    /\ UNCHANGED <<storeVars, clock>>

-----------------------------------------------------------------------------
(* The commands of string_ops.go. *)

\* Set, with the expiry SETEX computes or none.
Set(k, v, e) == Replace(k, NewValue("string", v, e), e)

SetPlain(k) == \E v \in Str : Set(k, v, NoTTL)

SetEx(k) == \E v \in Str, t \in Ttl :
    /\ clock + t < MaxTime
    /\ Set(k, v, clock + t)

\* Get, Exists, TTL and every other command that only reads.
Get(k) == LookUp({k})

\* Delete succeeds on an expired entry as well.
Delete(k) ==
    /\ data[k].type # "none"
    /\ Replace(k, Absent, NoTTL)

\* Flush makes two new maps.
Flush ==
    /\ data' = [k \in Key |-> Absent]
    /\ dataWithExpiry' = [k \in Key |-> NoTTL]
    /\ snaps' = Unshared(snaps, Key)
    /\ UNCHANGED <<snapshotCount, clock>>

\* Variant: the index is left alone.
ExpireDataOnly(k) ==
    IF Exists(k)
    THEN \E t \in Ttl :
            /\ clock + t < MaxTime
            /\ data' = [data EXCEPT ![k].exp = clock + t]
            /\ UNCHANGED <<dataWithExpiry, snapshotCount, snaps, clock>>
    ELSE LookUp({k})

\* Expire changes the live Value struct, which no snapshot shares.
Expire(k) ==
    IF Exists(k)
    THEN \E t \in Ttl :
            /\ clock + t < MaxTime
            /\ data' = [data EXCEPT ![k].exp = clock + t]
            /\ dataWithExpiry' = [dataWithExpiry EXCEPT ![k] = clock + t]
            /\ UNCHANGED <<snapshotCount, snaps, clock>>
    ELSE LookUp({k})

\* int64 arithmetic wraps around.
Wrap(n) == ((n + IntHalf) % (2 * IntHalf)) - IntHalf

\* parseInt64 scans an integer and does not look at what follows it.
ParsesInt64(v) == v.kind \in {"int", "prefix"}

\* IncrBy and DecrBy, Incr and Decr being increments 1 and -1.  The new Value
\* has no TTL; the index keeps its entry.
IncrBy(k) ==
    \/ /\ Exists(k)
       /\ HasType(k, "string") => ~ParsesInt64(data[k].content)
       /\ UNCHANGED vars
    \/ /\ Creatable(k, "string")
       /\ Exists(k) => ParsesInt64(data[k].content)
       /\ \E d \in Increments :
            LET current == IF Exists(k) THEN data[k].content.num ELSE 0
            IN  Replace(k, NewValue("string", IntStr(Wrap(current + d)), NoTTL),
                        IndexFound(k))

-----------------------------------------------------------------------------
(* CleanupExpiredKeys: rounds of at most SampleSize random keys of the index,
   another round only after a full sample of which a quarter had expired, and
   at most MaxRounds of them in the time budget. *)

Indexed(K) == {k \in K : dataWithExpiry[k] # NoTTL}

\* Variant: only the entries of missing keys are dropped.
ReapedMissing(K) == {k \in K : data[k].type = "none"}

\* The keys of sample K that leave the index.
Reaped(K) == {k \in K : Expired(k) \/ data[k].type = "none"}

\* sample is a legal series of samples of one cleanup.
SampleSeries(sample) ==
    \A i \in DOMAIN sample :
       LET left == Indexed(Key) \ UNION {Reaped(sample[j]) : j \in 1 .. i - 1}
       IN  /\ sample[i] \subseteq left
           /\ \/ Cardinality(sample[i]) = SampleSize
              \/ sample[i] = left /\ Cardinality(left) < SampleSize
           /\ i > 1 => /\ Cardinality(sample[i - 1]) = SampleSize
                       /\ 4 * Cardinality({k \in sample[i - 1] : Expired(k)}) >= SampleSize

CleanupSampled(sample) ==
    LET gone == UNION {Reaped(sample[i]) : i \in DOMAIN sample}
    IN  /\ data' = [k \in Key |-> IF k \in gone THEN Absent ELSE data[k]]
        /\ dataWithExpiry' = [k \in Key |-> IF k \in gone THEN NoTTL ELSE dataWithExpiry[k]]
        /\ snaps' = Unshared(snaps, gone)
        /\ UNCHANGED <<snapshotCount, clock>>

Samples == UNION {[1 .. n -> SUBSET Key] : n \in 1 .. MaxRounds}

CleanupExpiredKeys == \E sample \in Samples :
    /\ SampleSeries(sample)
    /\ CleanupSampled(sample)

\* A cleanup that happens to sample k: map iteration order is random.
CleanupSampling(k) == \E sample \in Samples :
    /\ SampleSeries(sample)
    /\ \E i \in DOMAIN sample : k \in sample[i]
    /\ CleanupSampled(sample)

Tick ==
    /\ clock < MaxTime
    /\ clock' = clock + 1
    /\ UNCHANGED <<storeVars, snapshotCount, snaps>>

KeyspaceNext ==
    \/ \E k \in Key : SetPlain(k)
    \/ \E k \in Key : SetEx(k)
    \/ \E k \in Key : Get(k)
    \/ \E k \in Key : Delete(k)
    \/ Flush
    \/ \E k \in Key : Expire(k)
    \/ \E k \in Key : IncrBy(k)
    \/ CleanupExpiredKeys
    \/ \E s \in Snap : GetAllData(s)
    \/ \E s \in Snap : ReleaseSnapshot(s)
    \/ Tick

=============================================================================
