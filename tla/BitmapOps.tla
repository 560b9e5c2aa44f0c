------------------------------ MODULE BitmapOps -----------------------------
(* The bitmap commands of internal/storage/bitmap.go, as the key space sees
   them: which keys they look up, refuse and overwrite.  The bytes they compute
   are the subject of module Bitmap; here the new string is any of Str. *)
EXTENDS Keyspace

\* SetBit: like INCR, the new Value has no TTL and the index keeps its entry.
SetBit(k) ==
    \/ /\ Creatable(k, "string")
       /\ \E v \in Str : Replace(k, NewValue("string", v, NoTTL), IndexFound(k))
    \/ ~Creatable(k, "string") /\ UNCHANGED vars

\* BitOpNot: a missing source makes an empty string, dst may have any type.
BitOpNot(dst, k) ==
    \/ /\ Creatable(k, "string")
       /\ \E v \in Str : StoreResult(dst, {k}, "string", v)
    \/ ~Creatable(k, "string") /\ UNCHANGED vars

\* bitOperation on two sources, looked up in order; the first wrong type is an
\* error and nothing is written.
BitOp(dst, j, k) ==
    \/ /\ Creatable(j, "string") /\ Creatable(k, "string")
       /\ \E v \in Str : StoreResult(dst, {j, k}, "string", v)
    \/ /\ Creatable(j, "string") /\ ~Creatable(k, "string")
       /\ LookUp({j})
    \/ /\ ~Creatable(j, "string")
       /\ UNCHANGED vars

BitmapNext ==
    \/ \E k \in Key : SetBit(k)
    \/ \E dst, k \in Key : BitOpNot(dst, k)
    \/ \E dst, j, k \in Key : BitOp(dst, j, k)

=============================================================================
