------------------------------ MODULE SketchOps -----------------------------
(* The Bloom filter and HyperLogLog commands of internal/storage/bloom.go and
   hyperloglog.go.  The content is the set of elements added; an element stands
   for the bits it sets or the registers it raises. *)
EXTENDS Keyspace

\* getBloomFilter, getHyperLogLog
Sketch(k, t) == IF HasType(k, t) THEN data[k].content ELSE {}

\* BFReserve does not look at the expiry of an existing key.
BFReserve(k) ==
    \/ data[k].type = "none" /\ Replace(k, NewValue("bloom", {}, NoTTL), dataWithExpiry[k])
    \/ data[k].type # "none" /\ UNCHANGED vars

\* BFAdd and BFMAdd set bits of the stored filter itself.
BFAdd(k) ==
    \/ /\ HasType(k, "bloom")
       /\ \E items \in SUBSET Elem \ {{}} :
            LET c == Sketch(k, "bloom") \cup items
            IN  /\ data' = [data EXCEPT ![k].content = c]
                /\ snaps' = Rewritten(snaps, k, c)
                /\ UNCHANGED <<dataWithExpiry, snapshotCount, clock>>
    \/ ~HasType(k, "bloom") /\ LookUp({k})

\* PFAdd: clone when a snapshot is active, add, store.
PFAdd(k) ==
    \/ /\ Creatable(k, "hll")
       /\ \E items \in SUBSET Elem \ {{}} :
             CopyOnWrite(k, "hll", Sketch(k, "hll") \cup items)
    \/ ~Creatable(k, "hll") /\ UNCHANGED vars

\* PFMerge of two sources, looked up in order; the first wrong type is an error.
PFMerge(dst, j, k) ==
    \/ /\ Creatable(j, "hll") /\ Creatable(k, "hll")
       /\ StoreResult(dst, {j, k}, "hll", Sketch(j, "hll") \cup Sketch(k, "hll"))
    \/ /\ Creatable(j, "hll") /\ ~Creatable(k, "hll")
       /\ LookUp({j})
    \/ /\ ~Creatable(j, "hll")
       /\ UNCHANGED vars

SketchNext ==
    \/ \E k \in Key : BFReserve(k)
    \/ \E k \in Key : BFAdd(k)
    \/ \E k \in Key : PFAdd(k)
    \/ \E dst, j, k \in Key : PFMerge(dst, j, k)

=============================================================================
