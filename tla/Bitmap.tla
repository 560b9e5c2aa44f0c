------------------------------- MODULE Bitmap -------------------------------
(***************************************************************************)
(* storage/bitmap.go: strings as arrays of bits, the first bit of a byte   *)
(* being its most significant one.  A missing key is the empty string, as  *)
(* getString makes it.  A byte has ByteBits bits where the code has 8.     *)
(***************************************************************************)
EXTENDS Integers, Sequences, FiniteSets, FiniteSetsExt, SequencesExt, Bitwise

CONSTANTS Key,
          ByteBits,     \* bits of a byte
          MaxBytes,     \* bound on the length of a string
          MaxSources    \* bound on the sources of a BITOP

VARIABLES str,          \* the string at every key
          ret           \* the operation under way, its arguments and its answer

bitVars == <<str, ret>>

BitmapConstants == ByteBits \in Nat \ {0} /\ MaxBytes \in Nat /\ MaxSources \in Nat \ {0}

AllOnes == 2 ^ ByteBits - 1

ByteIndex(offset) == offset \div ByteBits

\* bitOffset: bits are numbered from left to right.
Shift(offset) == ByteBits - 1 - (offset % ByteBits)

BitOf(byte, shift) == shiftR(byte, shift) & 1

\* The byte at i of a string padded with zero bytes.
ByteAt(s, i) == IF i < Len(s) THEN s[i + 1] ELSE 0

Padded(s, n) == [i \in 1 .. n |-> ByteAt(s, i - 1)]

-----------------------------------------------------------------------------
Init ==
    /\ str = [k \in Key |-> <<>>]
    /\ ret = <<"none">>

\* Variant: bits are numbered from right to left.
SetBitMirrored(k, offset, value) ==
    LET i     == ByteIndex(offset)
        bytes == Padded(str[k], Max({Len(str[k]), i + 1}))
        mask  == 2 ^ (offset % ByteBits)
        byte  == IF value = 1 THEN bytes[i + 1] | mask ELSE bytes[i + 1] & (AllOnes - mask)
    IN /\ str' = [str EXCEPT ![k] = [bytes EXCEPT ![i + 1] = byte]]
       /\ ret' = <<"set", k, offset, value, BitOf(bytes[i + 1], offset % ByteBits)>>

\* SetBit: expand, read the old bit, set or clear it, store.
SetBit(k, offset, value) ==
    LET i     == ByteIndex(offset)
        bytes == Padded(str[k], Max({Len(str[k]), i + 1}))
        mask  == 2 ^ Shift(offset)
        byte  == IF value = 1 THEN bytes[i + 1] | mask ELSE bytes[i + 1] & (AllOnes - mask)
    IN /\ str' = [str EXCEPT ![k] = [bytes EXCEPT ![i + 1] = byte]]
       /\ ret' = <<"set", k, offset, value, BitOf(bytes[i + 1], Shift(offset))>>

GetBit(s, offset) ==
    IF ByteIndex(offset) >= Len(s) THEN 0
    ELSE BitOf(s[ByteIndex(offset) + 1], Shift(offset))

\* The bytes of BITCOUNT and BITPOS; a nil start is 0 and a nil end is -1.
ByteRange(s, start, end) ==
    LET from(i) == IF i < 0 THEN Len(s) + i ELSE i
    IN [from |-> Max({from(start), 0}), to |-> Min({from(end), Len(s) - 1})]

\* bits.OnesCount8
OnesCount(byte) == Cardinality({i \in 0 .. ByteBits - 1 : BitOf(byte, i) = 1})

BitCount(s, start, end) ==
    LET r == ByteRange(s, start, end)
    IN IF s = <<>> \/ r.from > r.to \/ r.from >= Len(s) THEN 0
       ELSE MapThenSumSet(LAMBDA i : OnesCount(ByteAt(s, i)), r.from .. r.to)

\* BitPos: the first byte of the range that has such a bit, from the left.
BitPos(s, bit, start, end) ==
    LET r       == ByteRange(s, start, end)
        hits(i) == {j \in 0 .. ByteBits - 1 : BitOf(ByteAt(s, i), ByteBits - 1 - j) = bit}
        bytes   == {i \in r.from .. r.to : hits(i) # {}}
    IN IF s = <<>> THEN (IF bit = 0 THEN 0 ELSE -1)
       ELSE IF r.from > r.to \/ r.from >= Len(s) \/ bytes = {} THEN -1
       ELSE Min(bytes) * ByteBits + Min(hits(Min(bytes)))

Apply(op, a, b) ==
    CASE op = "AND" -> a & b
      [] op = "OR"  -> a | b
      [] op = "XOR" -> a ^^ b

\* bitOperation: the first source padded to the longest, then the others.
bitOperation(op, dst, srcs) ==
    LET strs   == [j \in DOMAIN srcs |-> str[srcs[j]]]
        maxLen == Max({Len(strs[j]) : j \in DOMAIN strs})
        result == FoldLeft(LAMBDA acc, s : [i \in 1 .. maxLen |-> Apply(op, acc[i], ByteAt(s, i - 1))],
                           Padded(strs[1], maxLen), Tail(strs))
    IN /\ str' = [str EXCEPT ![dst] = result]
       /\ ret' = <<op, dst, srcs, maxLen>>

BitOpNot(dst, k) ==
    /\ str' = [str EXCEPT ![dst] = [i \in DOMAIN str[k] |-> AllOnes - str[k][i]]]
    /\ ret' = <<"NOT", dst, k, Len(str[k])>>

\* The caller has its answer.
Return ==
    /\ ret # <<"none">>
    /\ ret' = <<"none">>
    /\ UNCHANGED str

Offsets == 0 .. MaxBytes * ByteBits - 1

Operation ==
    \/ \E k \in Key, offset \in Offsets, value \in {0, 1} : SetBit(k, offset, value)
    \/ \E op \in {"AND", "OR", "XOR"}, dst \in Key, srcs \in BoundedSeq(Key, MaxSources) \ {<<>>} :
          bitOperation(op, dst, srcs)
    \/ \E dst, k \in Key : BitOpNot(dst, k)

Next == (ret = <<"none">> /\ Operation) \/ Return

Spec == Init /\ [][Next]_bitVars

-----------------------------------------------------------------------------
(* Properties.                                                              *)

BitTypeOK == \A k \in Key : Len(str[k]) <= MaxBytes /\ Range(str[k]) \subseteq 0 .. AllOnes

Ones(s) == {p \in 0 .. Len(s) * ByteBits - 1 :
               (s[p \div ByteBits + 1] \div 2 ^ (ByteBits - 1 - (p % ByteBits))) % 2 = 1}

\* GETBIT, BITCOUNT and BITPOS answer the bits of the array for every offset, byte
\* range and bit, from the end or beyond it; BITPOS of an empty string is a rule of
\* its own (GetBit, BitCount, BitPos).
BitReadsExact ==
    \A k \in Key :
      LET s      == str[k]
          Abs(i) == IF i < 0 THEN Len(s) + i ELSE i
      IN /\ \A p \in Offsets : GetBit(s, p) = IF p \in Ones(s) THEN 1 ELSE 0
         /\ \A start, end \in -(MaxBytes + 1) .. MaxBytes :
              LET within == {p \in 0 .. Len(s) * ByteBits - 1 :
                                Abs(start) <= p \div ByteBits /\ p \div ByteBits <= Abs(end)}
              IN /\ BitCount(s, start, end) = Cardinality(Ones(s) \cap within)
                 /\ s # <<>> => \A bit \in {0, 1} :
                      LET found == {p \in within : (p \in Ones(s)) = (bit = 1)}
                      IN BitPos(s, bit, start, end) = IF found = {} THEN -1 ELSE Min(found)

Bits == [k \in Key |-> Ones(str[k])]
Sizes == [k \in Key |-> Len(str[k])]

\* Seen as sets of positions the strings are the bit arrays of BitArray, and every
\* operation does and answers what BitArray says.
Promise == INSTANCE BitArray WITH ones <- Bits, size <- Sizes
Implements == Promise!Spec
=============================================================================
