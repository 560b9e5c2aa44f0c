----------------------------- MODULE LinkedList -----------------------------
(***************************************************************************)
(* storage/list.go: the doubly linked list behind the list commands, with  *)
(* the loops of LRem and LInsert (storage/list_ops.go) that work on its    *)
(* nodes.  l.node is the heap: a node nothing points at is blank, and a    *)
(* push takes the least blank one.                                         *)
(***************************************************************************)
EXTENDS Integers, Sequences, FiniteSets, SequencesExt

CONSTANTS Value, MaxLength

VARIABLES l,            \* the List: head, tail, length and the heap of nodes
          ret           \* the operation under way, its arguments and its answer

listVars == <<l, ret>>

Null == 0
Id == 1 .. MaxLength + 1
Blank == [value |-> Null, prev |-> Null, next |-> Null]

NewList == [head |-> Null, tail |-> Null, length |-> 0, node |-> [i \in Id |-> Blank]]

\* The nodes met from x on, by next or by prev.
Along(y, x, field) ==
    LET walk[i \in Id \cup {Null}, n \in 0 .. Cardinality(Id)] ==
            IF i = Null \/ n = 0 THEN <<>> ELSE <<i>> \o walk[y.node[i][field], n - 1]
    IN walk[x, Cardinality(Id)]

Forward(y) == Along(y, y.head, "next")
Backward(y) == Along(y, y.tail, "prev")

\* What the garbage collector leaves of the heap.
Swept(y) ==
    [y EXCEPT !.node = [i \in Id |->
        IF i \in Range(Forward(y)) \cup Range(Backward(y)) THEN y.node[i] ELSE Blank]]

Fresh(y) == CHOOSE i \in Id : y.node[i] = Blank /\ \A j \in 1 .. i - 1 : y.node[j] # Blank

-----------------------------------------------------------------------------
PushFront(y, v) ==
    LET n == Fresh(y)
    IN [head   |-> n,
        tail   |-> IF y.head = Null THEN n ELSE y.tail,
        length |-> y.length + 1,
        node   |-> [i \in Id |->
            IF i = n THEN [value |-> v, prev |-> Null, next |-> y.head]
            ELSE IF i = y.head THEN [y.node[i] EXCEPT !.prev = n]
            ELSE y.node[i]]]

PushBack(y, v) ==
    LET n == Fresh(y)
    IN [head   |-> IF y.tail = Null THEN n ELSE y.head,
        tail   |-> n,
        length |-> y.length + 1,
        node   |-> [i \in Id |->
            IF i = n THEN [value |-> v, prev |-> y.tail, next |-> Null]
            ELSE IF i = y.tail THEN [y.node[i] EXCEPT !.next = n]
            ELSE y.node[i]]]

PopFront(y) ==
    LET h == y.node[y.head].next
    IN [y EXCEPT !.head = h,
                 !.tail = IF h = Null THEN Null ELSE y.tail,
                 !.length = y.length - 1,
                 !.node = [i \in Id |-> IF i = h THEN [y.node[i] EXCEPT !.prev = Null]
                                        ELSE y.node[i]]]

PopBack(y) ==
    LET t == y.node[y.tail].prev
    IN [y EXCEPT !.tail = t,
                 !.head = IF t = Null THEN Null ELSE y.head,
                 !.length = y.length - 1,
                 !.node = [i \in Id |-> IF i = t THEN [y.node[i] EXCEPT !.next = Null]
                                        ELSE y.node[i]]]

Absolute(y, i) == IF i < 0 THEN y.length + i ELSE i

\* getNodeAt, from the closer end.
getNodeAt(y, index) ==
    LET i == Absolute(y, index)
    IN IF i < 0 \/ i >= y.length THEN Null
       ELSE IF i < y.length \div 2 THEN Along(y, y.head, "next")[i + 1]
       ELSE Along(y, y.tail, "prev")[y.length - i]

\* The range of a Range or a Trim after clamping.
Clamped(y, start, stop) ==
    [from |-> IF Absolute(y, start) < 0 THEN 0 ELSE Absolute(y, start),
     to   |-> IF Absolute(y, stop) >= y.length THEN y.length - 1 ELSE Absolute(y, stop)]

RangeOf(y, start, stop) ==
    LET r == Clamped(y, start, stop)
    IN IF y.length = 0 \/ r.from > r.to \/ r.from >= y.length THEN <<>>
       ELSE LET found == Along(y, getNodeAt(y, r.from), "next")
            IN [j \in 1 .. (IF Len(found) < r.to - r.from + 1 THEN Len(found)
                            ELSE r.to - r.from + 1) |-> y.node[found[j]].value]

RemoveNode(y, n) ==
    LET p == y.node[n].prev
        q == y.node[n].next
    IN [head   |-> IF p = Null THEN q ELSE y.head,
        tail   |-> IF q = Null THEN p ELSE y.tail,
        length |-> y.length - 1,
        node   |-> [i \in Id |-> IF i = p THEN [y.node[i] EXCEPT !.next = q]
                                 ELSE IF i = q THEN [y.node[i] EXCEPT !.prev = p]
                                 ELSE y.node[i]]]

InsertBefore(y, n, v) ==
    LET p == y.node[n].prev
        k == Fresh(y)
    IN [y EXCEPT !.head = IF p = Null THEN k ELSE y.head,
                 !.length = y.length + 1,
                 !.node = [i \in Id |->
                     IF i = k THEN [value |-> v, prev |-> p, next |-> n]
                     ELSE IF i = n THEN [y.node[i] EXCEPT !.prev = k]
                     ELSE IF i = p THEN [y.node[i] EXCEPT !.next = k]
                     ELSE y.node[i]]]

InsertAfter(y, n, v) ==
    LET q == y.node[n].next
        k == Fresh(y)
    IN [y EXCEPT !.tail = IF q = Null THEN k ELSE y.tail,
                 !.length = y.length + 1,
                 !.node = [i \in Id |->
                     IF i = k THEN [value |-> v, prev |-> n, next |-> q]
                     ELSE IF i = n THEN [y.node[i] EXCEPT !.next = k]
                     ELSE IF i = q THEN [y.node[i] EXCEPT !.prev = k]
                     ELSE y.node[i]]]

\* FindNode from the head; no caller looks from the tail.
FindNode(y, v) ==
    LET found == SelectSeq(Forward(y), LAMBDA i : y.node[i].value = v)
    IN IF found = <<>> THEN Null ELSE found[1]

\* Variant: the end is taken to be exclusive.
TrimShort(y, start, stop) ==
    LET r == Clamped(y, start, stop)
        h == getNodeAt(y, r.from)
        t == getNodeAt(y, r.to - 1)
    IN IF y.length = 0 THEN y
       ELSE IF r.from >= r.to \/ r.from >= y.length THEN NewList
       ELSE [head |-> h, tail |-> t, length |-> r.to - r.from,
             node |-> [i \in Id |->
                 [y.node[i] EXCEPT !.prev = IF i = h THEN Null ELSE @,
                                   !.next = IF i = t THEN Null ELSE @]]]

\* Trim: both ends are found in the old list before either link is cut.
Trim(y, start, stop) ==
    LET r == Clamped(y, start, stop)
        h == getNodeAt(y, r.from)
        t == getNodeAt(y, r.to)
    IN IF y.length = 0 THEN y
       ELSE IF r.from > r.to \/ r.from >= y.length THEN NewList
       ELSE [head |-> h, tail |-> t, length |-> r.to - r.from + 1,
             node |-> [i \in Id |->
                 [y.node[i] EXCEPT !.prev = IF i = h THEN Null ELSE @,
                                   !.next = IF i = t THEN Null ELSE @]]]

Clone(y) == FoldLeft(LAMBDA c, i : PushBack(c, y.node[i].value), NewList, Forward(y))

\* The loop of LRem: from the head for a count of 0 or more, from the tail for
\* a negative one, at most |count| nodes (0: as many as there are).
LRem(y, count, v) ==
    LET path  == IF count >= 0 THEN Forward(y) ELSE Backward(y)
        found == SelectSeq(path, LAMBDA i : y.node[i].value = v)
        most  == IF count = 0 THEN y.length ELSE IF count > 0 THEN count ELSE -count
    IN SubSeq(found, 1, IF Len(found) < most THEN Len(found) ELSE most)

-----------------------------------------------------------------------------
Init == l = NewList /\ ret = <<"none">>

\* The list has become y; a caller that grew it is told the new length.
Become(y, answer) ==
    /\ l' = Swept(y)
    /\ ret' = answer

Grow(y, op) == l.length < MaxLength /\ Become(y, Append(op, y.length))

Indexes == -(MaxLength + 1) .. MaxLength

Push(v) ==
    \/ Grow(PushFront(l, v), <<"push front", v>>)
    \/ Grow(PushBack(l, v), <<"push back", v>>)

PopHead == l.head # Null /\ Become(PopFront(l), <<"pop front", l.node[l.head].value>>)

PopTail == l.tail # Null /\ Become(PopBack(l), <<"pop back", l.node[l.tail].value>>)

SetAt(index, v) ==
    LET n == getNodeAt(l, index)
    IN Become(IF n = Null THEN l ELSE [l EXCEPT !.node[n].value = v],
              <<"set", index, v, n # Null>>)

LInsert(before, pivot, v) ==
    LET n == FindNode(l, pivot)
    IN /\ n # Null
       /\ Grow(IF before THEN InsertBefore(l, n, v) ELSE InsertAfter(l, n, v),
               <<"insert", before, pivot, v>>)

RemoveOccurrences(count, v) ==
    LET gone == LRem(l, count, v)
    IN Become(FoldLeft(RemoveNode, l, gone), <<"remove", count, v, Len(gone)>>)

TrimTo(start, stop) == Become(Trim(l, start, stop), <<"trim", start, stop>>)

\* A write while a snapshot is active goes on with a copy.
CopyOnWrite == Become(Clone(l), ret)

\* The caller has its answer.
Return ==
    /\ ret # <<"none">>
    /\ ret' = <<"none">>
    /\ UNCHANGED l

Operation ==
    \/ \E v \in Value : Push(v)
    \/ PopHead
    \/ PopTail
    \/ \E i \in Indexes, v \in Value : SetAt(i, v)
    \/ \E before \in BOOLEAN, pivot, v \in Value : LInsert(before, pivot, v)
    \/ \E count \in -MaxLength .. MaxLength, v \in Value : RemoveOccurrences(count, v)
    \/ \E start, stop \in Indexes : TrimTo(start, stop)
    \/ CopyOnWrite

Next == (ret = <<"none">> /\ Operation) \/ Return

Spec == Init /\ [][Next]_listVars

-----------------------------------------------------------------------------
(* Properties.                                                              *)

Contents == [j \in 1 .. Len(Forward(l)) |-> l.node[Forward(l)[j]].value]

ListTypeOK ==
    /\ l.head \in Id \cup {Null}
    /\ l.tail \in Id \cup {Null}
    /\ l.length \in 0 .. MaxLength

\* The list reads the same from both ends, its length counts its nodes, and
\* no pop, removal, insertion or trim leaves a link into what it cut off.
BothWays ==
    /\ Backward(l) = Reverse(Forward(l))
    /\ l.length = Len(Forward(l))

\* LINDEX and LRANGE, which start from the end closer to the index, answer
\* the elements of the sequence for every index, from the end or beyond it.
ReadsExact ==
    \A i, j \in Indexes :
        /\ LET n == Absolute(l, i) IN
           getNodeAt(l, i) = IF n \in 0 .. Len(Contents) - 1 THEN Forward(l)[n + 1] ELSE Null
        /\ RangeOf(l, i, j) =
              SubSeq(Contents, IF Absolute(l, i) < 0 THEN 1 ELSE Absolute(l, i) + 1,
                     IF Absolute(l, j) < Len(Contents) THEN Absolute(l, j) + 1 ELSE Len(Contents))

\* Seen through its forward links the list is the sequence of Deque, and every
\* operation does and answers what Deque says.
Promise == INSTANCE Deque WITH seq <- Contents
Implements == Promise!Spec
=============================================================================
