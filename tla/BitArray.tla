------------------------------ MODULE BitArray ------------------------------
(***************************************************************************)
(* What the bitmap commands promise: every key is a set of bit positions   *)
(* and a size in bytes.  ret is the operation under way, its arguments and *)
(* its answer.                                                             *)
(***************************************************************************)
EXTENDS Integers, Sequences, FiniteSets, FiniteSetsExt, SequencesExt

CONSTANTS Key, ByteBits, MaxBytes, MaxSources

VARIABLES ones, size, ret

vars == <<ones, size, ret>>

Init ==
    /\ ones = [k \in Key |-> {}]
    /\ size = [k \in Key |-> 0]
    /\ ret = <<"none">>

Positions(n) == 0 .. n * ByteBits - 1

\* The size grows to the byte of the offset; no other bit changes.
SetBit(k, offset, value) ==
    /\ ones' = [ones EXCEPT ![k] = IF value = 1 THEN @ \cup {offset} ELSE @ \ {offset}]
    /\ size' = [size EXCEPT ![k] = Max({@, offset \div ByteBits + 1})]
    /\ ret' = <<"set", k, offset, value, IF offset \in ones[k] THEN 1 ELSE 0>>

\* Bits beyond the end of a source are 0, and the result is as long as the
\* longest source.
Combine(op, srcs) ==
    LET S == {ones[srcs[i]] : i \in DOMAIN srcs}
        Holding(p) == {i \in DOMAIN srcs : p \in ones[srcs[i]]}
    IN CASE op = "AND" -> {p \in UNION S : Holding(p) = DOMAIN srcs}
         [] op = "OR"  -> UNION S
         [] op = "XOR" -> {p \in UNION S : Cardinality(Holding(p)) % 2 = 1}

BitOp(op, dst, srcs) ==
    /\ ones' = [ones EXCEPT ![dst] = Combine(op, srcs)]
    /\ size' = [size EXCEPT ![dst] = Max({size[srcs[i]] : i \in DOMAIN srcs})]
    /\ ret' = <<op, dst, srcs, size'[dst]>>

BitOpNot(dst, k) ==
    /\ ones' = [ones EXCEPT ![dst] = Positions(size[k]) \ ones[k]]
    /\ size' = [size EXCEPT ![dst] = size[k]]
    /\ ret' = <<"NOT", dst, k, size[k]>>

\* The caller has its answer.
Return ==
    /\ ret # <<"none">>
    /\ ret' = <<"none">>
    /\ UNCHANGED <<ones, size>>

Operation ==
    \/ \E k \in Key, offset \in Positions(MaxBytes), value \in {0, 1} : SetBit(k, offset, value)
    \/ \E op \in {"AND", "OR", "XOR"}, dst \in Key, srcs \in BoundedSeq(Key, MaxSources) \ {<<>>} :
          BitOp(op, dst, srcs)
    \/ \E dst, k \in Key : BitOpNot(dst, k)

Next == (ret = <<"none">> /\ Operation) \/ Return

Spec == Init /\ [][Next]_vars
=============================================================================
