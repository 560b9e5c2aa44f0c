------------------------- MODULE ClusterSlotsProofs -------------------------
(* Proofs about the cluster topology: the cached counter and the state are
   exact for any number of slots and nodes. *)
EXTENDS ClusterSlots, FiniteSetTheorems, TLAPS

Assigned(map) == {s \in Slot : map[s] # NoNode}

\* The inductive invariant.  The counter is bounded because it is exact, so the
\* type invariant is proved together with it.
ClusterInv == TypeOK /\ CoverageExact /\ OwnSlotsListed

-----------------------------------------------------------------------------
(* Slots and lists of slots. *)

\* There are NumSlots slots.
LEMMA SlotsFinite == IsFiniteSet(Slot) /\ Cardinality(Slot) = NumSlots
<1>1. 0 \in Int /\ NumSlots - 1 \in Int /\ ~(0 > NumSlots - 1) /\ NumSlots - 1 - 0 + 1 = NumSlots
  BY ClusterAssumption
<1>2. IsFiniteSet(0 .. NumSlots - 1) /\ Cardinality(0 .. NumSlots - 1) = NumSlots
  BY <1>1, FS_Interval
<1> QED BY <1>2 DEF Slot

\* The slots of a list are slots.
LEMMA ListedSlots ==
    ASSUME NEW list \in SeqOf(Slot, MaxListed)
    PROVE  list \in Seq(Slot) /\ ToSet(list) \subseteq Slot
<1>1. PICK m \in 0 .. MaxListed : list \in [1 .. m -> Slot]
  BY DEF SeqOf
<1>2. m \in Nat
  BY <1>1
<1>3. list \in Seq(Slot)
  BY <1>1, <1>2
<1> QED BY <1>1, <1>3 DEF ToSet

\* What a list of slots holds after another one is appended to it.
LEMMA AppendedSlots ==
    ASSUME NEW l \in Seq(Slot), NEW m \in Seq(Slot)
    PROVE  l \o m \in Seq(Slot) /\ ToSet(l \o m) = ToSet(l) \cup ToSet(m)
<1>1. l \o m \in Seq(Slot) /\ Len(l \o m) = Len(l) + Len(m)
  OBVIOUS
<1>2. \A i \in 1 .. Len(l) : (l \o m)[i] = l[i]
  OBVIOUS
<1>3. \A i \in 1 .. Len(m) : (l \o m)[Len(l) + i] = m[i] /\ Len(l) + i \in 1 .. Len(l \o m)
  OBVIOUS
<1>4. \A i \in 1 .. Len(l \o m) : i \in 1 .. Len(l) \/ \E j \in 1 .. Len(m) : i = Len(l) + j
  <2> SUFFICES ASSUME NEW i \in 1 .. Len(l \o m), i \notin 1 .. Len(l)
               PROVE  \E j \in 1 .. Len(m) : i = Len(l) + j
    OBVIOUS
  <2>1. i - Len(l) \in 1 .. Len(m) /\ i = Len(l) + (i - Len(l))
    BY <1>1
  <2> QED BY <2>1
<1>5. ToSet(l \o m) \subseteq ToSet(l) \cup ToSet(m)
  <2> SUFFICES ASSUME NEW i \in 1 .. Len(l \o m) PROVE (l \o m)[i] \in ToSet(l) \cup ToSet(m)
    BY <1>1 DEF ToSet
  <2>1. CASE i \in 1 .. Len(l)
    BY <2>1, <1>2 DEF ToSet
  <2>2. CASE \E j \in 1 .. Len(m) : i = Len(l) + j
    BY <2>2, <1>3 DEF ToSet
  <2> QED BY <2>1, <2>2, <1>4
<1>6. ToSet(l) \subseteq ToSet(l \o m)
  BY <1>1, <1>2 DEF ToSet
<1>7. ToSet(m) \subseteq ToSet(l \o m)
  <2> SUFFICES ASSUME NEW j \in 1 .. Len(m) PROVE m[j] \in ToSet(l \o m)
    BY DEF ToSet
  <2>1. (l \o m)[Len(l) + j] = m[j] /\ Len(l) + j \in DOMAIN (l \o m)
    BY <1>1, <1>3
  <2> QED BY <2>1 DEF ToSet
<1> QED BY <1>1, <1>5, <1>6, <1>7

-----------------------------------------------------------------------------
(* The counter. *)

\* Taking slots for a node counts those that were free.
LEMMA TakeCounts ==
    ASSUME TypeOK, CoverageExact, NEW n \in Node, NEW taken \in SUBSET Slot, Take(n, taken)
    PROVE  /\ slotMap' \in [Slot -> Node \cup {NoNode}]
           /\ assignedSlots' = Cardinality(Assigned(slotMap'))
<1> DEFINE free == {s \in taken : slotMap[s] = NoNode}
<1>1. slotMap' \in [Slot -> Node \cup {NoNode}]
  BY DEF Take, TypeOK
<1>2. Assigned(slotMap') = Assigned(slotMap) \cup free
  BY ClusterAssumption DEF Take, TypeOK, Assigned
<1>3. Assigned(slotMap) \cap free = {}
  BY DEF Assigned
<1>4. IsFiniteSet(Assigned(slotMap)) /\ IsFiniteSet(free)
  <2>1. Assigned(slotMap) \in SUBSET Slot /\ free \in SUBSET Slot
    BY DEF Assigned
  <2> HIDE DEF free
  <2> QED BY <2>1, SlotsFinite, FS_Subset
<1>5. /\ Cardinality(Assigned(slotMap) \cup free) =
            Cardinality(Assigned(slotMap)) + Cardinality(free) - Cardinality(Assigned(slotMap) \cap free)
      /\ Cardinality(Assigned(slotMap)) \in Nat
      /\ Cardinality(free) \in Nat
  <2> HIDE DEF free
  <2> QED BY <1>4, FS_Union, FS_CardinalityType
<1>6. Cardinality(Assigned(slotMap) \cap free) = 0
  BY <1>3, FS_EmptySet
<1>7. assignedSlots = Cardinality(Assigned(slotMap)) /\ assignedSlots' = assignedSlots + Cardinality(free)
  BY DEF CoverageExact, Assigned, Take
<1> HIDE DEF free
<1> QED BY <1>1, <1>2, <1>5, <1>6, <1>7

\* Freeing assigned slots takes them off.
LEMMA FreeCounts ==
    ASSUME TypeOK, CoverageExact, NEW freed \in SUBSET Slot,
           \A s \in freed : slotMap[s] # NoNode,
           slotMap' = [s \in Slot |-> IF s \in freed THEN NoNode ELSE slotMap[s]],
           assignedSlots' = assignedSlots - Cardinality(freed)
    PROVE  /\ slotMap' \in [Slot -> Node \cup {NoNode}]
           /\ assignedSlots' = Cardinality(Assigned(slotMap'))
<1>1. slotMap' \in [Slot -> Node \cup {NoNode}]
  BY DEF TypeOK
<1>2. Assigned(slotMap') = Assigned(slotMap) \ freed /\ Assigned(slotMap) \cap freed = freed
  BY DEF Assigned
<1>3. IsFiniteSet(Assigned(slotMap))
  <2>1. Assigned(slotMap) \in SUBSET Slot
    BY DEF Assigned
  <2> QED BY <2>1, SlotsFinite, FS_Subset
<1>4. Cardinality(Assigned(slotMap) \ freed) =
          Cardinality(Assigned(slotMap)) - Cardinality(Assigned(slotMap) \cap freed)
  BY <1>3, FS_Difference
<1>5. assignedSlots = Cardinality(Assigned(slotMap))
  BY DEF CoverageExact, Assigned
<1> QED BY <1>1, <1>2, <1>4, <1>5

\* An exact counter bounds itself, and gives an exact state.
LEMMA StateExact ==
    ASSUME slotMap' \in [Slot -> Node \cup {NoNode}],
           assignedSlots' = Cardinality(Assigned(slotMap')),
           UpdateState
    PROVE  assignedSlots' \in 0 .. NumSlots /\ state' \in {"ok", "fail"} /\ CoverageExact'
<1>1. Assigned(slotMap') \in SUBSET Slot
  BY DEF Assigned
<1>2. /\ IsFiniteSet(Assigned(slotMap'))
      /\ Cardinality(Assigned(slotMap')) <= Cardinality(Slot)
      /\ Cardinality(Slot) = Cardinality(Assigned(slotMap')) => Slot = Assigned(slotMap')
  BY <1>1, SlotsFinite, FS_Subset
<1>3. Cardinality(Assigned(slotMap')) \in Nat
  BY <1>2, FS_CardinalityType
<1>4. assignedSlots' \in 0 .. NumSlots
  BY <1>2, <1>3, SlotsFinite, ClusterAssumption
<1>5. assignedSlots' = NumSlots <=> Slot = Assigned(slotMap')
  BY <1>2, SlotsFinite
<1>6. Slot = Assigned(slotMap') <=> \A s \in Slot : slotMap'[s] # NoNode
  BY DEF Assigned
<1>7. assignedSlots' = Cardinality({s \in Slot : slotMap'[s] # NoNode})
  BY DEF Assigned
<1> QED BY <1>4, <1>5, <1>6, <1>7 DEF UpdateState, CoverageExact

-----------------------------------------------------------------------------
\* Whatever nodes take slots from each other, are replaced or removed: the
\* counter, the state and the list of this node stay exact.
THEOREM ClusterInvariant == Spec => []ClusterInv
<1>1. Init => ClusterInv
  <2> SUFFICES ASSUME Init PROVE ClusterInv
    OBVIOUS
  <2>1. 0 \in Slot
    BY ClusterAssumption DEF Slot
  <2>2. {s \in Slot : slotMap[s] # NoNode} = {}
    BY DEF Init
  <2>3. CoverageExact
    BY <2>1, <2>2, FS_EmptySet DEF Init, CoverageExact
  <2>4. <<>> \in Seq(Slot)
    OBVIOUS
  <2>5. slots \in [Node -> Seq(Slot)]
    BY <2>4 DEF Init
  <2>6. check \in [Checker -> [pc : {"idle", "owner", "node", "answered"}, slot : Slot,
                               result : Node \cup {NoNode}]]
    <3>1. NoCheck \in [pc : {"idle", "owner", "node", "answered"}, slot : Slot, result : Node \cup {NoNode}]
      BY <2>1 DEF NoCheck
    <3> QED BY <3>1 DEF Init
  <2>7. TypeOK
    <3>1. assignedSlots \in 0 .. NumSlots
      BY ClusterAssumption DEF Init
    <3> QED BY <2>5, <2>6, <3>1 DEF Init, TypeOK, Node
  <2>8. OwnSlotsListed
    BY ClusterAssumption DEF Init, OwnSlotsListed, Node
  <2> QED BY <2>3, <2>7, <2>8 DEF ClusterInv
<1>2. ClusterInv /\ [Next]_vars => ClusterInv'
  <2> SUFFICES ASSUME ClusterInv, [Next]_vars PROVE ClusterInv'
    OBVIOUS
  <2> USE DEF ClusterInv
  <2>1. CASE Enable \/ Disable
    BY <2>1 DEF Enable, Disable, TypeOK, CoverageExact, OwnSlotsListed
  <2>2. ASSUME NEW list \in SeqOf(Slot, MaxListed), AssignSlots(list) PROVE ClusterInv'
    <3>1. list \in Seq(Slot) /\ ToSet(list) \in SUBSET Slot
      BY ListedSlots
    <3>2. Take(MySelf, ToSet(list)) /\ UpdateState /\ MySelf \in Node
      BY <2>2 DEF AssignSlots, Node
    <3>3. slotMap' \in [Slot -> Node \cup {NoNode}] /\ assignedSlots' = Cardinality(Assigned(slotMap'))
      BY <3>1, <3>2, TakeCounts
    <3>4. assignedSlots' \in 0 .. NumSlots /\ state' \in {"ok", "fail"} /\ CoverageExact'
      BY <3>2, <3>3, StateExact
    <3>5. slots[MySelf] \in Seq(Slot)
      BY <3>2 DEF TypeOK
    <3>6. /\ slots[MySelf] \o list \in Seq(Slot)
          /\ ToSet(slots[MySelf] \o list) = ToSet(slots[MySelf]) \cup ToSet(list)
      BY <3>1, <3>5, AppendedSlots
    <3>7. slots' \in [Node -> Seq(Slot)] /\ slots'[MySelf] = slots[MySelf] \o list
      BY <2>2, <3>2, <3>6 DEF AssignSlots, TypeOK
    <3>8. OwnSlotsListed'
      BY <3>2, <3>6, <3>7 DEF OwnSlotsListed, Take
    <3> QED BY <2>2, <3>3, <3>4, <3>7, <3>8 DEF AssignSlots, TypeOK
  <2>3. ASSUME NEW list \in SeqOf(Slot, MaxListed), NEW n \in Other, AddNode(n, list)
        PROVE  ClusterInv'
    <3>1. list \in Seq(Slot) /\ ToSet(list) \in SUBSET Slot
      BY ListedSlots
    <3>2. Take(n, ToSet(list)) /\ UpdateState /\ n \in Node /\ n # MySelf /\ MySelf \in Node
      BY <2>3, ClusterAssumption DEF AddNode, Node
    <3>3. slotMap' \in [Slot -> Node \cup {NoNode}] /\ assignedSlots' = Cardinality(Assigned(slotMap'))
      BY <3>1, <3>2, TakeCounts
    <3>4. assignedSlots' \in 0 .. NumSlots /\ state' \in {"ok", "fail"} /\ CoverageExact'
      BY <3>2, <3>3, StateExact
    <3>5. slots' \in [Node -> Seq(Slot)] /\ slots'[MySelf] = slots[MySelf]
      BY <2>3, <3>1, <3>2 DEF AddNode, TypeOK
    <3>6. OwnSlotsListed'
      BY <3>2, <3>5 DEF OwnSlotsListed, Take
    <3> QED BY <2>3, <3>2, <3>3, <3>4, <3>5, <3>6 DEF AddNode, TypeOK
  <2>4. ASSUME NEW n \in Node, RemoveNode(n) PROVE ClusterInv'
    <3> DEFINE freed == {s \in ToSet(slots[n]) : slotMap[s] = n}
    <3>1. freed \in SUBSET Slot
      BY DEF TypeOK, ToSet
    <3>2. \A s \in freed : slotMap[s] # NoNode
      BY ClusterAssumption
    <3>3. /\ slotMap' = [s \in Slot |-> IF s \in freed THEN NoNode ELSE slotMap[s]]
          /\ assignedSlots' = assignedSlots - Cardinality(freed)
          /\ UpdateState
      BY <2>4 DEF RemoveNode
    <3>4. slotMap' \in [Slot -> Node \cup {NoNode}] /\ assignedSlots' = Cardinality(Assigned(slotMap'))
      <4> HIDE DEF freed
      <4> QED BY <3>1, <3>2, <3>3, FreeCounts
    <3>5. assignedSlots' \in 0 .. NumSlots /\ state' \in {"ok", "fail"} /\ CoverageExact'
      BY <3>3, <3>4, StateExact
    <3>6. <<>> \in Seq(Slot)
      OBVIOUS
    <3>7. slots' \in [Node -> Seq(Slot)] /\ slots'[MySelf] = slots[MySelf]
      BY <2>4, <3>6, ClusterAssumption DEF RemoveNode, TypeOK, Node
    <3>8. OwnSlotsListed'
      BY <3>3, <3>7, ClusterAssumption DEF OwnSlotsListed, Node
    <3> QED BY <2>4, <3>4, <3>5, <3>7, <3>8 DEF RemoveNode, TypeOK
  <2>5. ASSUME NEW g \in Checker, CheckStep(g) PROVE ClusterInv'
    <3>1. UNCHANGED <<nodes, slots, slotMap, assignedSlots, state, enabled>>
      BY <2>5 DEF CheckStep, CheckEnabled, CheckOwner, CheckNode, CheckDone
    <3>2. 0 \in Slot /\ slotMap[check[g].slot] \in Node \cup {NoNode}
      BY ClusterAssumption DEF Slot, TypeOK
    <3> DEFINE Checks == [pc : {"idle", "owner", "node", "answered"}, slot : Slot,
                          result : Node \cup {NoNode}]
    <3>3. check[g] \in Checks /\ NoCheck \in Checks
      BY <3>2 DEF TypeOK, NoCheck
    <3>4. check' \in [Checker -> Checks]
      <4>1. CASE CheckEnabled(g)
        <5>1. PICK s \in Slot : check' = [check EXCEPT ![g] = [NoCheck EXCEPT !.pc = "owner", !.slot = s]]
          BY <4>1 DEF CheckEnabled
        <5>2. [NoCheck EXCEPT !.pc = "owner", !.slot = s] \in Checks
          BY <3>3
        <5> QED BY <5>1, <5>2 DEF TypeOK
      <4>2. CASE CheckOwner(g)
        BY <4>2, <3>3 DEF CheckOwner, TypeOK
      <4>3. CASE CheckNode(g)
        BY <4>3, <3>2, <3>3 DEF CheckNode, TypeOK
      <4>4. CASE CheckDone(g)
        BY <4>4, <3>3 DEF CheckDone, TypeOK
      <4> QED BY <2>5, <4>1, <4>2, <4>3, <4>4 DEF CheckStep
    <3> QED BY <3>1, <3>4 DEF TypeOK, CoverageExact, OwnSlotsListed
  <2>6. CASE UNCHANGED vars
    BY <2>6 DEF vars, TypeOK, CoverageExact, OwnSlotsListed
  <2> QED BY <2>1, <2>2, <2>3, <2>4, <2>5, <2>6 DEF Next
<1> QED BY <1>1, <1>2, PTL DEF Spec

\* The cached counter is the number of assigned slots, and the state is ok just
\* when all are assigned (AssignSlots, AddNode, RemoveNode, updateState).
THEOREM CoverageTheorem == Spec => []CoverageExact
<1>1. ClusterInv => CoverageExact
  BY DEF ClusterInv
<1> QED BY <1>1, ClusterInvariant, PTL

\* A slot of this node is in its list, however often others take it.
THEOREM OwnSlotsTheorem == Spec => []OwnSlotsListed
<1>1. ClusterInv => OwnSlotsListed
  BY DEF ClusterInv
<1> QED BY <1>1, ClusterInvariant, PTL
=============================================================================
