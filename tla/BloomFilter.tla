----------------------------- MODULE BloomFilter ----------------------------
(***************************************************************************)
(* storage/bloom.go: the bit array of one Bloom filter in its words, with  *)
(* double hashing.  The two FNV hashes of an item are constants; a word is *)
(* the set of its bits that are 1.  calculateOptimalParams, which is       *)
(* floating-point arithmetic, only gives Words and NumHashes.              *)
(***************************************************************************)
EXTENDS Integers, Sequences, FiniteSets, SequencesExt

CONSTANTS Item,
          WordBits,     \* bits of a word: 64
          Words,        \* words of the array
          NumHashes,    \* hash functions (k)
          HashRange,    \* a hash is below this: 2^64
          Hash1, Hash2, \* the hashes of an item and of the item with the salt
          MaxItems      \* bound on the items of one BF.MADD

VARIABLES bits,         \* the words
          count,        \* the filter's own count of its items
          added         \* the items added since BF.RESERVE

filterVars == <<bits, count, added>>

BloomConstants ==
    /\ WordBits \in Nat \ {0} /\ Words \in Nat \ {0} /\ NumHashes \in Nat \ {0}
    /\ HashRange \in Nat \ {0}
    /\ Hash1 \in [Item -> 0 .. HashRange - 1]
    /\ Hash2 \in [Item -> 0 .. HashRange - 1]

\* size, a multiple of the word
Size == Words * WordBits

\* hash: uint64 arithmetic wraps before the result is reduced to the array.
hash(item) ==
    [i \in 0 .. NumHashes - 1 |-> ((Hash1[item] + i * Hash2[item]) % HashRange) % Size]

Probes(item) == {hash(item)[i] : i \in DOMAIN hash(item)}

\* setBit for all the probes of an item
setBits(b, positions) ==
    [w \in 0 .. Words - 1 |->
        b[w] \cup {p % WordBits : p \in {q \in positions : q \div WordBits = w}}]

getBit(b, position) == position % WordBits \in b[position \div WordBits]

\* BFExists and BFMExists
BFExists(b, item) == \A p \in Probes(item) : getBit(b, p)

-----------------------------------------------------------------------------
\* newBloomFilter
NewFilter == [w \in 0 .. Words - 1 |-> {}]

Init == bits = NewFilter /\ count = 0 /\ added = {}

\* One item: its bits are looked at, then all set; it counts when one was missing.
Add(f, item) ==
    [bits  |-> setBits(f.bits, Probes(item)),
     count |-> IF BFExists(f.bits, item) THEN f.count ELSE f.count + 1]

\* BFMAdd, and BFAdd with one item.
BFMAdd(items) ==
    LET f == FoldLeft(Add, [bits |-> bits, count |-> count], items)
    IN /\ bits' = f.bits
       /\ count' = f.count
       /\ added' = added \cup Range(items)

\* BFReserve, once the key is deleted.
BFReserve ==
    /\ bits' = NewFilter
    /\ count' = 0
    /\ added' = {}

Next ==
    \/ \E items \in BoundedSeq(Item, MaxItems) \ {<<>>} : BFMAdd(items)
    \/ BFReserve

Spec == Init /\ [][Next]_filterVars

-----------------------------------------------------------------------------
(* Properties.                                                              *)

FilterTypeOK == bits \in [0 .. Words - 1 -> SUBSET (0 .. WordBits - 1)] /\ count \in Nat

\* An item that was added is never said to be missing, whatever the hashes of the items
\* and the words they share (hash, setBit, getBit, BFMAdd).
NoFalseNegatives == \A item \in added : BFExists(bits, item)

\* The count of BF.INFO never exceeds the items added, however often each one was, and is
\* zero only for an empty filter (BFAdd, BFMAdd).
CountBounded == count <= Cardinality(added) /\ (count = 0 => added = {})
=============================================================================
