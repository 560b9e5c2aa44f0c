---------------------------- MODULE ClusterSlots ----------------------------
(* The cluster topology kept by one node: internal/cluster/node.go and
   redirect.go, and the CLUSTER commands of handler/cluster_handlers.go.

   Every method of Cluster holds c.mu throughout and is one step, except
   CheckKeyOwnership, which takes the lock three times.  Keys are left out: a
   check is about the slot of its key. *)
EXTENDS Integers, Sequences, FiniteSets, SequencesExt

CONSTANTS NumSlots,     \* 16384 in the code
          MySelf,       \* the id of this node
          Other,        \* the ids of other nodes
          NoNode,       \* the empty string: a slot that is not assigned
          Checker,      \* goroutines that check the owner of a key
          MaxListed     \* bound on the length of a node's list of slots

Slot == 0 .. NumSlots - 1
Node == Other \cup {MySelf}

ASSUME ClusterAssumption ==
    /\ NumSlots \in Nat \ {0}
    /\ MySelf \notin Other
    /\ NoNode \notin Node
    /\ MaxListed \in Nat

VARIABLES nodes,          \* the ids in Nodes
          slots,          \* the field Slots of every Node; <<>> for an unknown one
          slotMap,
          assignedSlots,
          state,
          enabled,
          check           \* the checks under way

vars == <<nodes, slots, slotMap, assignedSlots, state, enabled, check>>

NoCheck == [pc |-> "idle", slot |-> 0, result |-> NoNode]

Init ==
    /\ nodes = {MySelf}
    /\ slots = [n \in Node |-> <<>>]
    /\ slotMap = [s \in Slot |-> NoNode]
    /\ assignedSlots = 0
    /\ state = "fail"
    /\ enabled = FALSE
    /\ check = [g \in Checker |-> NoCheck]

-----------------------------------------------------------------------------
Enable  == enabled' = TRUE /\ UNCHANGED <<nodes, slots, slotMap, assignedSlots, state, check>>
Disable == enabled' = FALSE /\ UNCHANGED <<nodes, slots, slotMap, assignedSlots, state, check>>

\* updateState, after a change of the counter.
UpdateState == state' = IF assignedSlots' = NumSlots THEN "ok" ELSE "fail"

\* Variant: every slot taken is counted.
TakeCountsAll(n, taken) ==
    /\ slotMap' = [s \in Slot |-> IF s \in taken THEN n ELSE slotMap[s]]
    /\ assignedSlots' = assignedSlots + Cardinality(taken)

\* The loops of AssignSlots and AddNode: node n takes the slots, and those that
\* nobody had are counted.
Take(n, taken) ==
    /\ slotMap' = [s \in Slot |-> IF s \in taken THEN n ELSE slotMap[s]]
    /\ assignedSlots' = assignedSlots + Cardinality({s \in taken : slotMap[s] = NoNode})

\* Variant: the list of the node is replaced.
AssignSlotsAnew(list) ==
    /\ Len(slots[MySelf] \o list) <= MaxListed
    /\ Take(MySelf, ToSet(list))
    /\ slots' = [slots EXCEPT ![MySelf] = list]
    /\ UpdateState
    /\ UNCHANGED <<nodes, enabled, check>>

\* CLUSTER ADDSLOTS refuses a slot out of range before it assigns any.
AssignSlots(list) ==
    /\ Len(slots[MySelf] \o list) <= MaxListed
    /\ Take(MySelf, ToSet(list))
    /\ slots' = [slots EXCEPT ![MySelf] = @ \o list]
    /\ UpdateState
    /\ UNCHANGED <<nodes, enabled, check>>

\* A node with its slots; one that is known already is replaced.
AddNode(n, list) ==
    /\ nodes' = nodes \cup {n}
    /\ slots' = [slots EXCEPT ![n] = list]
    /\ Take(n, ToSet(list))
    /\ UpdateState
    /\ UNCHANGED <<enabled, check>>

\* Clear the slots in the node's list that are still its own.  MySelf keeps its
\* Node, and the list, when it is removed.
RemoveNode(n) ==
    LET freed == {s \in ToSet(slots[n]) : slotMap[s] = n} IN
    /\ n \in nodes
    /\ slotMap' = [s \in Slot |-> IF s \in freed THEN NoNode ELSE slotMap[s]]
    /\ assignedSlots' = assignedSlots - Cardinality(freed)
    /\ nodes' = nodes \ {n}
    /\ slots' = [slots EXCEPT ![n] = IF n = MySelf THEN @ ELSE <<>>]
    /\ UpdateState
    /\ UNCHANGED <<enabled, check>>

-----------------------------------------------------------------------------
(* CheckKeyOwnership: IsEnabled, IsSlotOwner, GetKeyNode. *)

CheckEnabled(g) == \E s \in Slot :
    /\ check[g].pc = "idle"
    /\ enabled
    /\ check' = [check EXCEPT ![g] = [NoCheck EXCEPT !.pc = "owner", !.slot = s]]
    /\ UNCHANGED <<nodes, slots, slotMap, assignedSlots, state, enabled>>

CheckOwner(g) ==
    /\ check[g].pc = "owner"
    /\ check' = [check EXCEPT ![g].pc = IF slotMap[check[g].slot] = MySelf THEN "idle" ELSE "node"]
    /\ UNCHANGED <<nodes, slots, slotMap, assignedSlots, state, enabled>>

\* MOVED to the node, or CLUSTERDOWN if it is not known.
CheckNode(g) ==
    LET n == slotMap[check[g].slot] IN
    /\ check[g].pc = "node"
    /\ check' = [check EXCEPT ![g].pc = "answered", ![g].result = IF n \in nodes THEN n ELSE NoNode]
    /\ UNCHANGED <<nodes, slots, slotMap, assignedSlots, state, enabled>>

CheckDone(g) ==
    /\ check[g].pc = "answered"
    /\ check' = [check EXCEPT ![g] = NoCheck]
    /\ UNCHANGED <<nodes, slots, slotMap, assignedSlots, state, enabled>>

CheckStep(g) ==
    \/ CheckEnabled(g)
    \/ CheckOwner(g)
    \/ CheckNode(g)
    \/ CheckDone(g)

Next ==
    \/ Enable
    \/ Disable
    \/ \E list \in SeqOf(Slot, MaxListed) :
           AssignSlots(list) \/ \E n \in Other : AddNode(n, list)
    \/ \E n \in Node : RemoveNode(n)
    \/ \E g \in Checker : CheckStep(g)

Spec == Init /\ [][Next]_vars

-----------------------------------------------------------------------------
(* BuildSlotRanges: sort a copy, then cut it where the next number is not the
   successor of the last. *)

BuildSlotRanges(list) ==
    LET sorted == SortSeq(list, LAMBDA x, y : x < y)
        starts == {i \in DOMAIN sorted : i = 1 \/ sorted[i] # sorted[i - 1] + 1}
        End(i) == CHOOSE j \in i .. Len(sorted) :
                      /\ j = Len(sorted) \/ j + 1 \in starts
                      /\ \A k \in i + 1 .. j : k \notin starts
    IN  {<<i, sorted[i], sorted[End(i)]>> : i \in starts}

-----------------------------------------------------------------------------
(* Properties. *)

\* Every variable keeps its type.
TypeOK ==
    /\ nodes \subseteq Node
    /\ slots \in [Node -> Seq(Slot)]
    /\ slotMap \in [Slot -> Node \cup {NoNode}]
    /\ assignedSlots \in 0 .. NumSlots
    /\ state \in {"ok", "fail"}
    /\ enabled \in BOOLEAN
    /\ check \in [Checker -> [pc : {"idle", "owner", "node", "answered"}, slot : Slot,
                              result : Node \cup {NoNode}]]

\* The cached counter is the number of assigned slots, and the state is ok just
\* when every slot is assigned, whatever nodes take slots from each other, are
\* replaced or are removed.
CoverageExact ==
    /\ assignedSlots = Cardinality({s \in Slot : slotMap[s] # NoNode})
    /\ state = "ok" <=> \A s \in Slot : slotMap[s] # NoNode

\* A slot of this node is in its own list, so that removing the node frees it.
OwnSlotsListed == \A s \in Slot : slotMap[s] = MySelf => s \in ToSet(slots[MySelf])

\* "Clear slot assignments for this node" (RemoveNode): no slot is left with a
\* node that is not known.
OwnersKnown == \A s \in Slot : slotMap[s] \in Other => slotMap[s] \in nodes

\* "contiguous slot ranges owned by the current node" (GetSlotRanges): no slot
\* is in two of the ranges.
RangesDisjoint ==
    \A r, q \in BuildSlotRanges(slots[MySelf]) : r # q => r[3] < q[2] \/ q[3] < r[2]

\* "Returns nil if owned, RedirectError if not" (CheckKeyOwnership): a client is
\* not sent back to the node it asked.
NotToMyself == \A g \in Checker : check[g].result # MySelf
=============================================================================
