----------------------------- MODULE HyperLogLog ----------------------------
(***************************************************************************)
(* storage/hyperloglog.go: the registers of the HyperLogLogs at some keys. *)
(* The FNV hash of an item is a constant.  Count, the floating-point       *)
(* estimate, is a function of the registers and is left out: PFCOUNT is    *)
(* the registers it estimates from.  Every HyperLogLog is created with     *)
(* DefaultPrecision, so that Merge never meets another precision.          *)
(***************************************************************************)
EXTENDS Integers, Sequences, FiniteSets, FiniteSetsExt, SequencesExt

CONSTANTS Key, Item,
          HashBits,     \* bits of a hash: 64
          Precision,    \* bits that choose the register: 14
          Hash,         \* the hash of an item
          MaxItems,     \* bound on the items of one PFADD
          MaxSources    \* bound on the sources of a PFMERGE or a PFCOUNT

VARIABLES regs,         \* the registers at a key, or None
          items         \* the items added to a key or merged into it

hllVars == <<regs, items>>

HyperLogLogConstants ==
    /\ HashBits \in Nat /\ Precision \in 1 .. HashBits - 1
    /\ Hash \in [Item -> 0 .. 2 ^ HashBits - 1]

None == <<>>
Register == 0 .. 2 ^ Precision - 1
Empty == [i \in Register |-> 0]

\* bits.LeadingZeros64
LeadingZeros(w) == Max({n \in 0 .. HashBits : w < 2 ^ (HashBits - n)})

\* The rank of a hash: leading zeros of what is left of it, capped, plus one.
Rank(h) ==
    Min({LeadingZeros((h * 2 ^ Precision) % 2 ^ HashBits), HashBits - Precision}) + 1

Index(h) == h \div 2 ^ (HashBits - Precision)

AddOne(r, item) ==
    [r EXCEPT ![Index(Hash[item])] = Max({@, Rank(Hash[item])})]

MergeOne(r, s) == [i \in Register |-> Max({r[i], s[i]})]

\* What PFMERGE stores and PFCOUNT estimates from: missing sources are skipped.
Merged(srcs) ==
    LET found == SelectSeq(srcs, LAMBDA k : regs[k] # None)
    IN FoldLeft(LAMBDA r, k : MergeOne(r, regs[k]), Empty, found)

-----------------------------------------------------------------------------
Init ==
    /\ regs = [k \in Key |-> None]
    /\ items = [k \in Key |-> {}]

PFAdd(k, elements) ==
    LET old == IF regs[k] = None THEN Empty ELSE regs[k]
    IN /\ regs' = [regs EXCEPT ![k] = FoldLeft(AddOne, old, elements)]
       /\ items' = [items EXCEPT ![k] = @ \cup Range(elements)]

\* The old value of dst counts only when dst is a source.
PFMerge(dst, srcs) ==
    /\ regs' = [regs EXCEPT ![dst] = Merged(srcs)]
    /\ items' = [items EXCEPT ![dst] = UNION {items[k] : k \in Range(srcs)}]

\* DEL
Delete(k) ==
    /\ regs[k] # None
    /\ regs' = [regs EXCEPT ![k] = None]
    /\ items' = [items EXCEPT ![k] = {}]

Sources == BoundedSeq(Key, MaxSources) \ {<<>>}

Next ==
    \/ \E k \in Key, elements \in BoundedSeq(Item, MaxItems) \ {<<>>} : PFAdd(k, elements)
    \/ \E dst \in Key, srcs \in Sources : PFMerge(dst, srcs)
    \/ \E k \in Key : Delete(k)

Spec == Init /\ [][Next]_hllVars

-----------------------------------------------------------------------------
(* Properties.                                                              *)

HllTypeOK ==
    \A k \in Key : regs[k] # None => regs[k] \in [Register -> 0 .. HashBits - Precision + 1]

\* The first 1 of the bits that do not choose the register, counted from the left.
FirstOne(h) ==
    LET rest == HashBits - Precision
        at   == {j \in 1 .. rest : (h \div 2 ^ (rest - j)) % 2 = 1}
    IN IF at = {} THEN rest + 1 ELSE Min(at)

\* The registers that a set of items has by definition.
RegistersOf(S) ==
    [i \in Register |->
        Max({0} \cup {FirstOne(Hash[x]) : x \in {y \in S : Index(Hash[y]) = i}})]

\* The registers of a key, and those a PFCOUNT of several keys estimates from, are those of
\* the set of items, in whatever order and however often they were added and merged (Add,
\* Merge, PFAdd, PFMerge, PFCount).
RegistersExact ==
    /\ \A k \in Key : regs[k] # None => regs[k] = RegistersOf(items[k])
    /\ \A srcs \in Sources : Merged(srcs) = RegistersOf(UNION {items[k] : k \in Range(srcs)})
=============================================================================
