------------------------------ MODULE ListOps -------------------------------
(* The list commands of internal/storage/list_ops.go.  A list's content is the
   sequence of its elements; indices of the commands are 0-based and count from
   the end when negative, as getNodeAt, Range and Trim of list.go take them. *)
EXTENDS Keyspace, SequencesExt

CONSTANTS MaxLen,      \* bound on the length of a list
          MaxPush      \* bound on the elements of one LPUSH or RPUSH

ASSUME ListAssumption == MaxLen \in Nat /\ MaxPush \in Nat \ {0}

\* getOrCreateList, getExistingList
Elements(k) == IF HasType(k, "list") THEN data[k].content ELSE <<>>

\* Variant: an emptied list is stored.
SaveListEmpty(k, l) == Replace(k, NewValue("list", l, NoTTL), IndexFound(k))

\* clone when a snapshot is active, change, saveList
SaveList(k, l) == CopyOnWrite(k, "list", l)

Pushed == BoundedSeq(Elem, MaxPush) \ {<<>>}

\* The last element pushed to the head ends up first.
LPush(k) ==
    \/ /\ Creatable(k, "list")
       /\ \E vs \in Pushed :
            /\ Len(Elements(k)) + Len(vs) <= MaxLen
            /\ SaveList(k, Reverse(vs) \o Elements(k))
    \/ ~Creatable(k, "list") /\ UNCHANGED vars

RPush(k) ==
    \/ /\ Creatable(k, "list")
       /\ \E vs \in Pushed :
            /\ Len(Elements(k)) + Len(vs) <= MaxLen
            /\ SaveList(k, Elements(k) \o vs)
    \/ ~Creatable(k, "list") /\ UNCHANGED vars

\* count <= 0 pops one element, a count beyond the length pops them all.
PopCount(k, count) == IF count <= 0 THEN 1 ELSE Min({count, Len(Elements(k))})

LPop(k) ==
    \/ /\ HasType(k, "list")
       /\ \E count \in 0 .. MaxLen :
            SaveList(k, SubSeq(Elements(k), PopCount(k, count) + 1, Len(Elements(k))))
    \/ ~HasType(k, "list") /\ LookUp({k})

RPop(k) ==
    \/ /\ HasType(k, "list")
       /\ \E count \in 0 .. MaxLen :
            SaveList(k, SubSeq(Elements(k), 1, Len(Elements(k)) - PopCount(k, count)))
    \/ ~HasType(k, "list") /\ LookUp({k})

\* The 1-based place of index i in l; 0 when there is none (getNodeAt).
Place(l, i) ==
    LET j == IF i < 0 THEN Len(l) + i ELSE i
    IN  IF j < 0 \/ j >= Len(l) THEN 0 ELSE j + 1

LSet(k) == \E i \in -MaxLen - 1 .. MaxLen, v \in Elem :
    \/ /\ HasType(k, "list") /\ Place(Elements(k), i) # 0
       /\ SaveList(k, [Elements(k) EXCEPT ![Place(Elements(k), i)] = v])
    \/ /\ HasType(k, "list") /\ Place(Elements(k), i) = 0
       /\ UNCHANGED vars
    \/ ~HasType(k, "list") /\ LookUp({k})

\* The places of the occurrences of v that LREM takes out: all of them when
\* count is 0, the first count of them, or the last -count of them.
Removed(l, count, v) ==
    LET occ == {i \in 1 .. Len(l) : l[i] = v}
        before(i) == Cardinality({j \in occ : j < i})
        after(i)  == Cardinality({j \in occ : j > i})
    IN  {i \in occ : \/ count = 0
                     \/ count > 0 /\ before(i) < count
                     \/ count < 0 /\ after(i) < -count}

Without(l, R) ==
    LET kept == SetToSortSeq(1 .. Len(l) \ R, <)
    IN  [j \in 1 .. Len(kept) |-> l[kept[j]]]

LRem(k) ==
    \/ /\ HasType(k, "list")
       /\ \E count \in -MaxLen .. MaxLen, v \in Elem :
            SaveList(k, Without(Elements(k), Removed(Elements(k), count, v)))
    \/ ~HasType(k, "list") /\ LookUp({k})

\* Range and Trim: negative indices count from the end, then both are clamped.
Trim(l, start, stop) ==
    LET from == Max({0, IF start < 0 THEN Len(l) + start ELSE start})
        to   == Min({Len(l) - 1, IF stop < 0 THEN Len(l) + stop ELSE stop})
    IN  IF from > to THEN <<>> ELSE SubSeq(l, from + 1, to + 1)

LTrim(k) ==
    \/ /\ HasType(k, "list")
       /\ \E start, stop \in -MaxLen - 1 .. MaxLen :
            SaveList(k, Trim(Elements(k), start, stop))
    \/ ~HasType(k, "list") /\ LookUp({k})

\* LInsert saves only when the pivot is found, searching from the head.
LInsert(k) == \E pivot, v \in Elem, before \in BOOLEAN :
    LET l     == Elements(k)
        place == SelectInSeq(l, LAMBDA x : x = pivot)
    IN  \/ /\ HasType(k, "list") /\ place # 0
           /\ Len(l) < MaxLen
           /\ SaveList(k, InsertAt(l, IF before THEN place ELSE place + 1, v))
        \/ /\ HasType(k, "list") /\ place = 0
           /\ UNCHANGED vars
        \/ ~HasType(k, "list") /\ LookUp({k})

ListNext ==
    \/ \E k \in Key : LPush(k)
    \/ \E k \in Key : RPush(k)
    \/ \E k \in Key : LPop(k)
    \/ \E k \in Key : RPop(k)
    \/ \E k \in Key : LSet(k)
    \/ \E k \in Key : LRem(k)
    \/ \E k \in Key : LTrim(k)
    \/ \E k \in Key : LInsert(k)

=============================================================================
