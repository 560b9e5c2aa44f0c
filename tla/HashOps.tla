------------------------------ MODULE HashOps -------------------------------
(* The hash commands of internal/storage/hash_ops.go over the hashes of hash.go.
   A hash's content is a function from its fields to strings. *)
EXTENDS Keyspace

NoFields == <<>>      \* the function with an empty domain

\* The fields of getOrCreateHash and getExistingHash.
Fields(k) == IF HasType(k, "hash") THEN data[k].content ELSE NoFields

\* g, overridden by f.
Override(f, g) == [x \in DOMAIN f \cup DOMAIN g |-> IF x \in DOMAIN f THEN f[x] ELSE g[x]]

\* getOrCreateHash, clone when a snapshot is active, set the fields, save.
HSet(k) ==
    \/ /\ Creatable(k, "hash")
       /\ \E F \in SUBSET Elem \ {{}} : \E new \in [F -> Str] :
             CopyOnWrite(k, "hash", Override(new, Fields(k)))
    \/ ~Creatable(k, "hash") /\ UNCHANGED vars

HDel(k) ==
    \/ /\ HasType(k, "hash")
       /\ \E F \in SUBSET Elem \ {{}} :
             CopyOnWrite(k, "hash", Restrict(Fields(k), DOMAIN Fields(k) \ F))
    \/ ~HasType(k, "hash") /\ LookUp({k})

\* HSetNX saves only when the field is new, and never clones.
HSetNX(k) == \E f \in Elem :
    \/ /\ Creatable(k, "hash")
       /\ f \notin DOMAIN Fields(k)
       /\ \E v \in Str : InPlace(k, "hash", Override([x \in {f} |-> v], Fields(k)))
    \/ /\ ~Creatable(k, "hash") \/ f \in DOMAIN Fields(k)
       /\ UNCHANGED vars

\* A missing field counts as 0; ParseInt and ParseFloat want the whole string.
Parses(k, f)  == f \in DOMAIN Fields(k) => Fields(k)[f].kind = "int"
Current(k, f) == IF f \in DOMAIN Fields(k) THEN Fields(k)[f].num ELSE 0

SetNumber(k, f, n) ==
    InPlace(k, "hash", Override([x \in {f} |-> IntStr(n)], Fields(k)))

\* HIncrBy never clones.
HIncrBy(k) == \E f \in Elem, d \in Increments :
    \/ /\ Creatable(k, "hash") /\ Parses(k, f)
       /\ SetNumber(k, f, Wrap(Current(k, f) + d))
    \/ /\ ~Creatable(k, "hash") \/ ~Parses(k, f)
       /\ UNCHANGED vars

\* HIncrByFloat: the same without wrap-around, within the modelled range.
HIncrByFloat(k) == \E f \in Elem, d \in Increments :
    \/ /\ Creatable(k, "hash") /\ Parses(k, f)
       /\ Current(k, f) + d \in -IntHalf .. IntHalf - 1
       /\ SetNumber(k, f, Current(k, f) + d)
    \/ /\ ~Creatable(k, "hash") \/ ~Parses(k, f)
       /\ UNCHANGED vars

HashNext ==
    \/ \E k \in Key : HSet(k)
    \/ \E k \in Key : HDel(k)
    \/ \E k \in Key : HSetNX(k)
    \/ \E k \in Key : HIncrBy(k)
    \/ \E k \in Key : HIncrByFloat(k)

=============================================================================
