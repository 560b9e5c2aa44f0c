------------------------------- MODULE Deque --------------------------------
(***************************************************************************)
(* What a list promises: a sequence of values with pushes and pops at both *)
(* ends, and the operations of LSET, LINSERT, LREM and LTRIM.  ret is the  *)
(* operation under way, its arguments and its answer.                      *)
(***************************************************************************)
EXTENDS Integers, Sequences, SequencesExt

CONSTANTS Value, MaxLength

VARIABLES seq, ret

vars == <<seq, ret>>

\* An index from the end counts down from -1.
Absolute(i) == IF i < 0 THEN Len(seq) + i ELSE i

Indexes == -(MaxLength + 1) .. MaxLength

Init == seq = <<>> /\ ret = <<"none">>

\* The caller is told the new length.
Grow(s, op) ==
    /\ seq' = s
    /\ ret' = Append(op, Len(s))

Pop(op, v, s) ==
    /\ seq' = s
    /\ ret' = <<op, v>>

SetAt(i, v) ==
    LET found == Absolute(i) \in 0 .. Len(seq) - 1
    IN /\ seq' = IF found THEN [seq EXCEPT ![Absolute(i) + 1] = v] ELSE seq
       /\ ret' = <<"set", i, v, found>>

\* Next to the first occurrence of the pivot.
Insert(before, pivot, v) ==
    \E i \in 1 .. Len(seq) :
        /\ seq[i] = pivot
        /\ \A j \in 1 .. i - 1 : seq[j] # pivot
        /\ Grow(InsertAt(seq, IF before THEN i ELSE i + 1, v), <<"insert", before, pivot, v>>)

\* The occurrences of v that Remove takes: the first count of them, or the
\* last, or all.
Victims(count, v) ==
    LET at(i) == {j \in 1 .. Len(seq) : seq[j] = v /\ IF count >= 0 THEN j <= i ELSE j >= i}
        Rank(i) == Cardinality(at(i))
    IN {i \in 1 .. Len(seq) :
            seq[i] = v /\ (count = 0 \/ Rank(i) <= (IF count > 0 THEN count ELSE -count))}

RemoveOccurrences(count, v) ==
    LET gone == Victims(count, v)
        keep == SetToSortSeq((1 .. Len(seq)) \ gone, <)
    IN /\ seq' = [i \in 1 .. Len(keep) |-> seq[keep[i]]]
       /\ ret' = <<"remove", count, v, Cardinality(gone)>>

Trim(start, stop) ==
    /\ seq' = SubSeq(seq, IF Absolute(start) < 0 THEN 1 ELSE Absolute(start) + 1,
                     IF Absolute(stop) < Len(seq) THEN Absolute(stop) + 1 ELSE Len(seq))
    /\ ret' = <<"trim", start, stop>>

\* The caller has its answer.
Return ==
    /\ ret # <<"none">>
    /\ ret' = <<"none">>
    /\ UNCHANGED seq

Operation ==
    \/ \E v \in Value : Grow(<<v>> \o seq, <<"push front", v>>)
    \/ \E v \in Value : Grow(Append(seq, v), <<"push back", v>>)
    \/ seq # <<>> /\ Pop("pop front", Head(seq), Tail(seq))
    \/ seq # <<>> /\ Pop("pop back", Last(seq), Front(seq))
    \/ \E i \in Indexes, v \in Value : SetAt(i, v)
    \/ \E before \in BOOLEAN, pivot, v \in Value : Insert(before, pivot, v)
    \/ \E count \in -MaxLength .. MaxLength, v \in Value : RemoveOccurrences(count, v)
    \/ \E start, stop \in Indexes : Trim(start, stop)

Next == (ret = <<"none">> /\ Operation) \/ Return

Spec == Init /\ [][Next]_vars
=============================================================================
