-------------------------- MODULE FlitQueue_proofs --------------------------
(***************************************************************************)
(* Proofs about FlitQueue for every depth, every number of priorities and  *)
(* every set of flits.  The inductive invariant is the conjunction of the  *)
(* type invariant, the assertions of the code and the headroom of every    *)
(* priority; that a flit is only blocked by its peers follows from it, and *)
(* so does each step of the abstract buffer.  The simulator's queue keeps  *)
(* the same slots and masks and calls a queue full as the hardware does.   *)
(***************************************************************************)
EXTENDS CosimFlitQueue, FiniteSetTheorems, WellFoundedInduction, TLAPS

\* A nonempty set of naturals has a least member: the priority encoders of
\* the code select a member of their argument.
LEMMA LeastMember ==
    ASSUME NEW T \in SUBSET Nat, T # {}
    PROVE  Lowest(T) \in T /\ \A j \in T : Lowest(T) <= j
<1> DEFINE LT == {ss \in Nat \X Nat : ss[1] < ss[2]}
<1>1. IsWellFoundedOn(LT, Nat)
  BY NatLessThanWellFounded DEF OpToRel
<1>2. PICK i \in T : \A j \in T : ~ (<<j, i>> \in LT)
  BY <1>1, WFMin
<1>3. ASSUME NEW j \in T, j < i
      PROVE  FALSE
  <2>1. <<j, i>> \in Nat \X Nat /\ <<j, i>>[1] < <<j, i>>[2]
    BY <1>3
  <2>2. <<j, i>> \in LT
    BY <2>1
  <2>3. QED  BY <1>2, <2>2
<1>4. \A j \in T : i <= j
  BY <1>3
<1>5. QED  BY <1>4 DEF Lowest

\* One element may leave a finite set while another one enters it.
LEMMA CardChange ==
    ASSUME NEW U, IsFiniteSet(U), NEW D, NEW E,
           D = {} \/ \E d \in U : D = {d},
           E = {} \/ \E e : e \notin U /\ E = {e}
    PROVE  /\ IsFiniteSet((U \ D) \cup E)
           /\ Cardinality((U \ D) \cup E) = Cardinality(U) + Cardinality(E) - Cardinality(D)
           /\ Cardinality(U) \in Nat /\ Cardinality(D) \in {0, 1} /\ Cardinality(E) \in {0, 1}
<1>1. /\ Cardinality(U) \in Nat
      /\ D = {} => Cardinality(D) = 0
      /\ D # {} => Cardinality(D) = 1
      /\ E = {} => Cardinality(E) = 0
      /\ E # {} => Cardinality(E) = 1
  BY FS_CardinalityType, FS_EmptySet, FS_Singleton
<1>2. /\ IsFiniteSet(U \ D)
      /\ Cardinality(U \ D) = Cardinality(U) - Cardinality(D)
  <2>1. CASE D = {}
    <3>1. U \ D = U
      BY <2>1
    <3>2. QED  BY <1>1, <2>1, <3>1
  <2>2. CASE \E d \in U : D = {d}
    BY <1>1, <2>2, FS_RemoveElement
  <2>3. QED  BY <2>1, <2>2
<1>3. /\ IsFiniteSet((U \ D) \cup E)
      /\ Cardinality((U \ D) \cup E) = Cardinality(U \ D) + Cardinality(E)
  <2>1. CASE E = {}
    <3>1. (U \ D) \cup E = U \ D
      BY <2>1
    <3>2. Cardinality(U \ D) \in Nat
      BY <1>2, FS_CardinalityType
    <3>3. QED  BY <1>1, <1>2, <2>1, <3>1, <3>2
  <2>2. CASE \E e : e \notin U /\ E = {e}
    <3>1. PICK e : e \notin U /\ E = {e}
      BY <2>2
    <3>2. PICK T : T = U \ D /\ IsFiniteSet(T) /\ e \notin T
      BY <1>2, <3>1
    <3>3. IsFiniteSet(T \cup {e}) /\ Cardinality(T \cup {e}) = Cardinality(T) + 1
      BY <3>2, FS_AddElement
    <3>4. Cardinality(E) = 1
      BY <1>1, <3>1
    <3>5. QED  BY <3>1, <3>2, <3>3, <3>4
  <2>3. QED  BY <2>1, <2>2
<1>4. QED  BY <1>1, <1>2, <1>3


----------------------------------------------------------------------------
(* The inductive invariant *)

Occupied == {i \in Slots : valid[i]}

IInv == TypeOK /\ SlotsConsistent /\ Headroom

LEMMA SlotsFinite ==
    /\ IsFiniteSet(Slots) /\ Slots \subseteq Nat
    /\ \A T \in SUBSET Slots : IsFiniteSet(T) /\ Cardinality(T) \in Nat
<1>1. IsFiniteSet(Slots) /\ Slots \subseteq Nat
  BY FlitQueueAssumption, FS_Interval DEF Slots
<1>2. QED  BY <1>1, FS_Subset, FS_CardinalityType

\* Where a cycle writes and what it clears: at most one slot each, the
\* written one free and the cleared one occupied.
LEMMA SlotsTouched ==
    ASSUME IInv, NEW f \in Flits \cup {NoFlit}, NEW out \in BOOLEAN
    PROVE  /\ \/ EnqAt(f) = {}
              \/ /\ f \in Flits
                 /\ cnt + PrioOf[f] < Depth
                 /\ \E a \in Slots : ~valid[a] /\ EnqAt(f) = {a}
           /\ \/ DeqAt(out) = {}
              \/ \E d \in DeqCandidates : valid[d] /\ DeqAt(out) = {d}
<1>1. EnqAt(f) = {} \/ (/\ f \in Flits
                         /\ cnt + PrioOf[f] < Depth
                         /\ \E a \in Slots : ~valid[a] /\ EnqAt(f) = {a})
  <2>1. FreeSlots \in SUBSET Nat
    BY SlotsFinite DEF FreeSlots
  <2>2. FreeSlots # {} => Lowest(FreeSlots) \in FreeSlots
    BY <2>1, LeastMember
  <2>3. QED  BY <2>2 DEF EnqAt, EnqReady, CanAlloc, FreeSlots
<1>2. DeqAt(out) = {} \/ \E d \in DeqCandidates : valid[d] /\ DeqAt(out) = {d}
  <2>1. SUFFICES ASSUME DeqValid
                 PROVE  LET d == Lowest(DeqCandidates) IN d \in DeqCandidates /\ valid[d]
    BY DEF DeqAt
  <2>2. DeqCandidates # {}
    <3> DEFINE Q == {p \in Prios : \E i \in Slots : p \in prio[i]}
    <3>1. Q \in SUBSET Nat /\ Q # {}
      BY <2>1, FlitQueueAssumption DEF DeqValid, IInv, TypeOK, Prios
    <3>2. Lowest(Q) \in Q /\ \A q \in Q : Lowest(Q) <= q
      BY <3>1, LeastMember
    <3>3. \A j \in Slots : \A q \in prio[j] : q \in Q
      BY DEF IInv, TypeOK
    <3>. HIDE DEF Q
    <3>4. PICK i \in Slots : Lowest(Q) \in prio[i]
      BY <3>2 DEF Q
    <3>5. QED  BY <3>2, <3>3, <3>4 DEF DeqCandidates
  <2>3. Lowest(DeqCandidates) \in DeqCandidates
    BY <2>2, SlotsFinite, LeastMember DEF DeqCandidates
  <2>4. \A i \in DeqCandidates : valid[i]
    BY DEF DeqCandidates, IInv, SlotsConsistent
  <2>5. QED  BY <2>3, <2>4
<1>3. QED  BY <1>1, <1>2

----------------------------------------------------------------------------
(* One step per conjunct of the invariant *)

LEMMA InitInv == Init => IInv
<1> SUFFICES ASSUME Init PROVE IInv
  OBVIOUS
<1>1. TypeOK
  BY FlitQueueAssumption DEF Init, TypeOK
<1>2. SlotsConsistent
  <2>1. {i \in Slots : valid[i]} = {}
    BY DEF Init
  <2>2. QED  BY <2>1, FS_EmptySet DEF Init, SlotsConsistent
<1>3. Headroom
  <2>1. \A p : AtLeast(p) = {}
    BY DEF Init, AtLeast
  <2>2. QED  BY <2>1, FS_EmptySet, FlitQueueAssumption DEF Headroom
<1>4. QED  BY <1>1, <1>2, <1>3 DEF IInv

LEMMA CycleInv ==
    ASSUME IInv, NEW f \in Flits \cup {NoFlit}, NEW out \in BOOLEAN, Cycle(f, out)
    PROVE  IInv'
<1> DEFINE enq == EnqAt(f)
           deq == DeqAt(out)
<1>1. /\ enq = {} \/ (/\ f \in Flits
                      /\ cnt + PrioOf[f] < Depth
                      /\ \E a \in Slots : ~valid[a] /\ enq = {a})
      /\ deq = {} \/ \E d \in Slots : valid[d] /\ deq = {d}
  BY SlotsTouched DEF DeqCandidates
<1>2. f \in Flits => PrioOf[f] \in Prios
  BY FlitQueueAssumption
<1>3. /\ cnt' = cnt + Cardinality(enq) - Cardinality(deq)
      /\ valid' = [i \in Slots |-> (valid[i] /\ i \notin deq) \/ i \in enq]
      /\ prio' = [i \in Slots |-> CASE i \in enq -> {PrioOf[f]}
                                    [] i \in deq \ enq -> {}
                                    [] OTHER -> prio[i]]
      /\ buffer' = [i \in Slots |-> IF i \in enq THEN f ELSE buffer[i]]
  BY DEF Cycle, Count, PrioNext
<1>. HIDE DEF enq, deq
<1>4. Occupied' = (Occupied \ deq) \cup enq
  BY <1>1, <1>3 DEF Occupied
<1>5. /\ Cardinality(Occupied') = Cardinality(Occupied) + Cardinality(enq) - Cardinality(deq)
      /\ Cardinality(Occupied) \in Nat
      /\ Cardinality(enq) \in {0, 1} /\ Cardinality(deq) \in {0, 1}
  <2>1. IsFiniteSet(Occupied)
    BY SlotsFinite DEF Occupied
  <2>2. /\ deq = {} \/ \E d \in Occupied : deq = {d}
        /\ enq = {} \/ \E e : e \notin Occupied /\ enq = {e}
    BY <1>1 DEF Occupied
  <2>3. Cardinality((Occupied \ deq) \cup enq)
          = Cardinality(Occupied) + Cardinality(enq) - Cardinality(deq)
    BY <2>1, <2>2, CardChange
  <2>4. /\ Cardinality(Occupied) \in Nat
        /\ Cardinality(enq) \in {0, 1} /\ Cardinality(deq) \in {0, 1}
    BY <2>1, <2>2, CardChange
  <2>5. QED  BY <1>4, <2>3, <2>4
<1>6. cnt = Cardinality(Occupied) /\ cnt' = Cardinality(Occupied')
  BY <1>3, <1>5 DEF IInv, SlotsConsistent, Occupied
<1>7. TypeOK'
  <2>1. prio' \in [Slots -> SUBSET Prios]
    BY <1>1, <1>2, <1>3 DEF IInv, TypeOK
  <2>2. Occupied' \in SUBSET Slots
    BY DEF Occupied
  <2>3. Cardinality(Occupied') <= Depth
    <3>1. IsFiniteSet(Slots) /\ Cardinality(Slots) = Depth
      BY FS_Interval, FlitQueueAssumption DEF Slots
    <3>2. QED  BY <2>2, <3>1, FS_Subset
  <2>4. cnt' \in 0 .. Depth
    BY <1>6, <2>2, <2>3, SlotsFinite, FlitQueueAssumption
  <2>5. buffer' \in [Slots -> Flits \cup {NoFlit}] /\ valid' \in [Slots -> BOOLEAN]
    BY <1>1, <1>3 DEF IInv, TypeOK
  <2>6. QED  BY <2>1, <2>4, <2>5 DEF TypeOK
<1>8. SlotsConsistent'
  <2>1. \A i \in Slots : valid'[i] <=> prio'[i] # {}
    BY <1>1, <1>3 DEF IInv, SlotsConsistent
  <2>2. \A i \in Slots : Cardinality(prio'[i]) <= 1
    <3>1. Cardinality({PrioOf[f]}) = 1 /\ Cardinality({}) = 0
      BY FS_Singleton, FS_EmptySet
    <3>2. SUFFICES ASSUME NEW i \in Slots
                   PROVE  Cardinality(prio'[i]) <= 1
      OBVIOUS
    <3>3. \/ prio'[i] = {PrioOf[f]}
          \/ prio'[i] = {}
          \/ prio'[i] = prio[i]
      BY <1>3
    <3>4. Cardinality(prio[i]) <= 1
      BY DEF IInv, SlotsConsistent
    <3>5. QED  BY <3>1, <3>3, <3>4
  <2>3. \A i \in Slots : valid'[i] => prio'[i] = {PrioOf[buffer'[i]]}
    BY <1>1, <1>3 DEF IInv, SlotsConsistent
  <2>4. QED  BY <1>6, <2>1, <2>2, <2>3 DEF SlotsConsistent, Occupied
<1>9. Headroom'
  <2> SUFFICES ASSUME NEW p \in 0 .. NumPrio
               PROVE  Cardinality(AtLeast(p)') <= Depth - p
    BY DEF Headroom
  <2>1. AtLeast(p) \in SUBSET Slots /\ AtLeast(p)' \in SUBSET Slots
    BY DEF AtLeast
  <2>2. /\ IsFiniteSet(AtLeast(p)) /\ Cardinality(AtLeast(p)) \in Nat
        /\ IsFiniteSet(AtLeast(p)') /\ Cardinality(AtLeast(p)') \in Nat
        /\ IsFiniteSet(Occupied) /\ Cardinality(Occupied) \in Nat
    BY <2>1, SlotsFinite DEF Occupied
  <2>3. Cardinality(AtLeast(p)) <= Depth - p
    BY DEF IInv, Headroom
  <2>4. CASE AtLeast(p)' \subseteq AtLeast(p)
    <3>1. Cardinality(AtLeast(p)') <= Cardinality(AtLeast(p))
      BY <2>2, <2>4, FS_Subset
    <3>2. QED  BY <2>2, <2>3, <3>1, FlitQueueAssumption
  <2>5. CASE ~(AtLeast(p)' \subseteq AtLeast(p))
    <3>1. PICK a \in Slots : /\ enq = {a} /\ ~valid[a] /\ f \in Flits
                             /\ cnt + PrioOf[f] < Depth /\ PrioOf[f] >= p
      BY <1>1, <1>3, <2>5 DEF AtLeast
    <3>2. AtLeast(p)' \subseteq Occupied \cup {a}
      BY <1>3, <3>1 DEF AtLeast, Occupied, IInv, SlotsConsistent
    <3>3. IsFiniteSet(Occupied \cup {a}) /\ Cardinality(Occupied \cup {a}) <= cnt + 1
      <4>1. /\ IsFiniteSet(Occupied \cup {a})
            /\ \/ Cardinality(Occupied \cup {a}) = Cardinality(Occupied)
               \/ Cardinality(Occupied \cup {a}) = Cardinality(Occupied) + 1
        BY <2>2, FS_AddElement
      <4>2. QED  BY <1>6, <2>2, <4>1
    <3>4. Cardinality(AtLeast(p)') <= Cardinality(Occupied \cup {a})
      BY <3>2, <3>3, FS_Subset
    <3>5. Cardinality(Occupied \cup {a}) \in Nat
      BY <3>3, FS_CardinalityType
    <3>6. QED
      BY <1>2, <2>2, <3>1, <3>3, <3>4, <3>5, FlitQueueAssumption DEF IInv, TypeOK, Prios
  <2>6. QED  BY <2>4, <2>5
<1>10. QED  BY <1>7, <1>8, <1>9 DEF IInv

LEMMA NextInv == IInv /\ [Next]_vars => IInv'
<1>1. IInv /\ Next => IInv'
  BY CycleInv DEF Next
<1>2. IInv /\ UNCHANGED vars => IInv'
  BY DEF vars, IInv, TypeOK, SlotsConsistent, Headroom, AtLeast
<1>3. QED  BY <1>1, <1>2

----------------------------------------------------------------------------
(* Theorems *)

\* The registers hold what their widths allow: in particular the counter
\* never exceeds the depth nor falls below zero.
THEOREM TypeCorrect == Spec => []TypeOK
<1>1. IInv => TypeOK
  BY DEF IInv
<1>2. QED  BY <1>1, InitInv, NextInv, PTL DEF Spec

\* The counter, the valid bits and the one-hot masks stay consistent with
\* each other and with the flits stored, and the counter within the depth:
\* the assertions of FlitQueue.scala hold in every state.
THEOREM Consistent == Spec => [](TypeOK /\ SlotsConsistent)
<1>1. IInv => TypeOK /\ SlotsConsistent
  BY DEF IInv
<1>2. QED  BY <1>1, InitInv, NextInv, PTL DEF Spec

\* Flits of priority p or less urgent never hold more than Depth - p slots.
THEOREM HeadroomKept == Spec => []Headroom
<1>1. IInv => Headroom
  BY DEF IInv
<1>2. QED  BY <1>1, InitInv, NextInv, PTL DEF Spec

\* A queue that refuses a flit holds one at least as urgent: the claim of
\* doc/deadlock.md for queues of any depth and number of priorities.
THEOREM OnlyPeersBlock == Spec => []BlockedOnlyByPeers
<1>1. IInv => BlockedOnlyByPeers
  <2> SUFFICES ASSUME IInv, NEW p \in Prios, ~EnqReady(p),
                      \A i \in Slots : \A q \in prio[i] : q > p
               PROVE  FALSE
    BY FlitQueueAssumption DEF BlockedOnlyByPeers, IInv, TypeOK, Prios
  <2>1. /\ p \in Nat /\ p + 1 \in 0 .. NumPrio /\ NumPrio \in Nat
        /\ Depth \in Nat /\ Depth >= NumPrio /\ cnt \in Nat
    BY FlitQueueAssumption DEF Prios, IInv, TypeOK
  <2>2. Occupied = AtLeast(p + 1)
    <3>1. \A i \in Slots : \A q \in prio[i] : q \in Nat
      BY FlitQueueAssumption DEF IInv, TypeOK, Prios
    <3>2. QED  BY <2>1, <3>1 DEF Occupied, AtLeast, IInv, SlotsConsistent
  <2>3. cnt <= Depth - (p + 1)
    BY <2>1, <2>2 DEF IInv, Headroom, SlotsConsistent, Occupied
  <2>4. FreeSlots = {}
    BY <2>1, <2>3 DEF EnqReady, CanAlloc
  <2>5. Occupied = Slots
    BY <2>4 DEF FreeSlots, Occupied, IInv, TypeOK
  <2>6. cnt = Depth
    <3>1. Cardinality(Slots) = Depth
      BY <2>1, FS_Interval DEF Slots
    <3>2. cnt = Cardinality(Occupied)
      BY DEF IInv, SlotsConsistent, Occupied
    <3>3. QED  BY <2>5, <3>1, <3>2
  <2>7. QED  BY <2>1, <2>3, <2>6
<1>2. QED  BY <1>1, InitInv, NextInv, PTL DEF Spec

----------------------------------------------------------------------------
(* Refinement.  The slots forget nothing: no two of them hold the same     *)
(* flit, so that the flit written to the free slot and the one read from   *)
(* the chosen slot are all that changes in the set held.                   *)

Distinct ==
    /\ \A i \in Slots : valid[i] => buffer[i] \in Flits
    /\ \A i, j \in Slots : valid[i] /\ valid[j] /\ buffer[i] = buffer[j] => i = j

RInv == IInv /\ Distinct

\* The flit that enters and the one that leaves in a cycle, as sets.
Entering(f) == IF EnqAt(f) = {} THEN {} ELSE {f}
Leaving(out) == {buffer[i] : i \in DeqAt(out)}

LEMMA CycleHeld ==
    ASSUME RInv, NEW f \in (Flits \ Held) \cup {NoFlit}, NEW out \in BOOLEAN,
           Cycle(f, out)
    PROVE  /\ Distinct'
           /\ Held' = (Held \cup Entering(f)) \ Leaving(out)
           /\ \/ Entering(f) = {}
              \/ Entering(f) = {f} /\ cnt + PrioOf[f] < Depth /\ f \in Flits \ Held
           /\ \/ Leaving(out) = {}
              \/ \E g \in Held : /\ Leaving(out) = {g}
                                 /\ \A h \in Held : PrioOf[g] <= PrioOf[h]
<1> DEFINE enq == EnqAt(f)
           deq == DeqAt(out)
<1>1. /\ enq = {} \/ (/\ f \in Flits
                      /\ cnt + PrioOf[f] < Depth
                      /\ \E a \in Slots : ~valid[a] /\ enq = {a})
      /\ deq = {} \/ \E d \in DeqCandidates : valid[d] /\ deq = {d}
  BY SlotsTouched DEF RInv
<1>2. /\ valid' = [i \in Slots |-> (valid[i] /\ i \notin deq) \/ i \in enq]
      /\ buffer' = [i \in Slots |-> IF i \in enq THEN f ELSE buffer[i]]
  BY DEF Cycle
<1>. HIDE DEF enq, deq
<1>3. deq \subseteq Slots /\ enq \subseteq Slots
  BY <1>1 DEF DeqCandidates
<1>4. \A i \in Slots : valid[i] => buffer[i] \in Held /\ buffer[i] # f
  BY FlitQueueAssumption DEF Held, RInv, Distinct
<1>5. Distinct'
  <2>1. \A i \in Slots : valid'[i] => buffer'[i] \in Flits
    BY <1>1, <1>2 DEF RInv, Distinct
  <2>2. ASSUME NEW i \in Slots, NEW j \in Slots,
               valid'[i], valid'[j], buffer'[i] = buffer'[j]
        PROVE  i = j
    BY <1>1, <1>2, <1>4, <2>2 DEF RInv, Distinct
  <2>3. QED  BY <2>1, <2>2 DEF Distinct
<1> DEFINE new == Entering(f)
           old == Leaving(out)
<1>6. new = IF enq = {} THEN {} ELSE {f}
  BY DEF Entering, enq
<1>7. old = {buffer[i] : i \in deq}
  BY DEF Leaving, deq
<1>. HIDE DEF new, old
<1>8. Held' = {buffer'[i] : i \in {j \in Slots : valid'[j]}}
  BY DEF Held
<1>9. Held' = (Held \cup new) \ old
  <2>1. ASSUME NEW i \in Slots, valid'[i]
        PROVE  buffer'[i] \in (Held \cup new) \ old
    <3>1. CASE i \in enq
      BY <1>1, <1>2, <1>3, <1>4, <1>6, <1>7, <3>1
    <3>2. CASE i \notin enq
      <4>1. valid[i] /\ i \notin deq /\ buffer'[i] = buffer[i]
        BY <1>2, <2>1, <3>2
      <4>2. \A d \in deq : d \in Slots /\ valid[d]
        BY <1>1, <1>3
      <4>3. QED  BY <1>4, <1>7, <4>1, <4>2 DEF RInv, Distinct
    <3>3. QED  BY <3>1, <3>2
  <2>2. ASSUME NEW g \in (Held \cup new) \ old
        PROVE  \E i \in Slots : valid'[i] /\ buffer'[i] = g
    <3>1. CASE g \in new
      BY <1>1, <1>2, <1>6, <3>1
    <3>2. CASE g \in Held
      <4>1. PICK i \in Slots : valid[i] /\ buffer[i] = g
        BY <3>2 DEF Held
      <4>2. i \notin deq /\ i \notin enq
        BY <1>1, <1>7, <2>2, <4>1
      <4>3. QED  BY <1>2, <4>1, <4>2
    <3>3. QED  BY <2>2, <3>1, <3>2
  <2>3. QED  BY <1>8, <2>1, <2>2
<1>10. old = {} \/ \E g \in Held : /\ old = {g}
                                   /\ \A h \in Held : PrioOf[g] <= PrioOf[h]
  <2>1. SUFFICES ASSUME NEW d \in DeqCandidates, valid[d], deq = {d}
                 PROVE  /\ old = {buffer[d]} /\ buffer[d] \in Held
                        /\ \A h \in Held : PrioOf[buffer[d]] <= PrioOf[h]
    BY <1>1, <1>7
  <2>2. \A i \in Slots : valid[i] => prio[i] = {PrioOf[buffer[i]]}
    BY DEF RInv, IInv, SlotsConsistent
  <2>3. d \in Slots /\ \E p \in prio[d] : \A j \in Slots : \A q \in prio[j] : p <= q
    BY <2>1 DEF DeqCandidates
  <2>4. QED  BY <1>4, <1>7, <2>1, <2>2, <2>3 DEF Held
<1>11. new = {} \/ (new = {f} /\ cnt + PrioOf[f] < Depth /\ f \in Flits \ Held)
  BY <1>1, <1>6, FlitQueueAssumption
<1>12. QED  BY <1>5, <1>9, <1>10, <1>11 DEF new, old

\* The counter of the code is the number of flits held.
LEMMA HeldCounted ==
    ASSUME RInv
    PROVE  cnt = Cardinality(Held) /\ Held \in SUBSET Flits
<1> DEFINE content == [i \in Occupied |-> buffer[i]]
<1>1. Held = {buffer[i] : i \in Occupied} /\ Held \in SUBSET Flits
  BY DEF Held, Occupied, RInv, Distinct
<1>2. content \in Bijection(Occupied, Held)
  <2>1. content \in [Occupied -> Held]
    BY <1>1
  <2>2. \A i, j \in Occupied : content[i] = content[j] => i = j
    BY DEF Occupied, RInv, Distinct
  <2>3. \A g \in Held : \E i \in Occupied : content[i] = g
    BY <1>1
  <2>. HIDE DEF content
  <2>4. QED
    BY <2>1, <2>2, <2>3 DEF Bijection, Injection, Surjection, IsInjective
<1>3. IsFiniteSet(Occupied) /\ cnt = Cardinality(Occupied)
  BY SlotsFinite DEF Occupied, RInv, IInv, SlotsConsistent
<1>4. ExistsBijection(Occupied, Held)
  BY <1>2 DEF ExistsBijection
<1>5. QED  BY <1>1, <1>3, <1>4, FS_Bijection

LEMMA RNextInv == RInv /\ [Next]_vars => RInv'
<1>1. RInv /\ Next => RInv'
  BY CycleInv, CycleHeld DEF Next, RInv
<1>2. RInv /\ UNCHANGED vars => RInv'
  BY NextInv DEF vars, RInv, Distinct
<1>3. QED  BY <1>1, <1>2

\* A cycle is a flit entering, one leaving, both at once, or none.
LEMMA StepRefined == RInv /\ [Next]_vars => [Buffer!Next]_Held
<1>1. ASSUME RInv, NEW f \in (Flits \ Held) \cup {NoFlit}, NEW out \in BOOLEAN,
             Cycle(f, out)
      PROVE  Buffer!Next \/ Held' = Held
  <2> DEFINE new == Entering(f)
             old == Leaving(out)
  <2>1. /\ Held' = (Held \cup new) \ old
        /\ new = {} \/ (new = {f} /\ cnt + PrioOf[f] < Depth /\ f \in Flits \ Held)
        /\ old = {} \/ \E g \in Held : /\ old = {g}
                                       /\ \A h \in Held : PrioOf[g] <= PrioOf[h]
    BY <1>1, CycleHeld
  <2>. HIDE DEF new, old
  <2>2. cnt = Cardinality(Held) /\ Held \in SUBSET Flits
    BY <1>1, HeldCounted
  <2>3. new = {} \/ (new = {f} /\ f \in Flits /\ Buffer!MayEnter(f))
    <3>1. Buffer!Cardinality(Held) = Cardinality(Held)
      BY DEF Cardinality, Buffer!Cardinality
    <3>2. QED  BY <2>1, <2>2, <3>1 DEF Buffer!MayEnter
  <2>4. old = {} \/ \E g \in Flits : old = {g} /\ Buffer!MayLeave(g)
    BY <2>1, <2>2 DEF Buffer!MayLeave
  <2>5. CASE new = {} /\ old = {}
    BY <2>1, <2>5
  <2>6. CASE new # {} /\ old = {}
    <3>1. Buffer!Enter
      BY <2>1, <2>3, <2>6 DEF Buffer!Enter
    <3>2. QED  BY <3>1 DEF Buffer!Next
  <2>7. CASE new = {} /\ old # {}
    <3>1. Buffer!Leave
      BY <2>1, <2>4, <2>7 DEF Buffer!Leave
    <3>2. QED  BY <3>1 DEF Buffer!Next
  <2>8. CASE new # {} /\ old # {}
    <3>1. Buffer!Pass
      BY <2>1, <2>3, <2>4, <2>8 DEF Buffer!Pass
    <3>2. QED  BY <3>1 DEF Buffer!Next
  <2>9. QED  BY <2>5, <2>6, <2>7, <2>8
<1>2. ASSUME UNCHANGED vars
      PROVE  Held' = Held
  BY <1>2 DEF vars, Held
<1>3. QED  BY <1>1, <1>2 DEF Next

\* Nothing is lost, duplicated or altered, and a most urgent flit leaves,
\* also when a slot is freed and another filled in one cycle: the slots,
\* masks and counter implement a bounded set of flits.
THEOREM QueueImplementsBuffer == Spec => ImplementsBuffer
<1>1. Init => RInv
  BY InitInv DEF RInv, Distinct, Init
<1>2. Init => Buffer!Init
  BY DEF Init, Held, Buffer!Init
<1>3. QED
  BY <1>1, <1>2, RNextInv, StepRefined, PTL
  DEF Spec, ImplementsBuffer, Buffer!Spec

----------------------------------------------------------------------------
(* The simulator's queue.  Its record is a function of the registers of    *)
(* the hardware: the invariant says which.                                 *)

SoftOf ==
    [buffer |-> [i \in Slots |-> IF valid[i] THEN buffer[i] ELSE NoFlit],
     occupied |-> Occupied]

CosimInv == RInv /\ soft = SoftOf

LEMMA SoftLowest == \A T : S!Lowest(T) = Lowest(T)
  BY DEF S!Lowest, Lowest

LEMMA SoftThe == \A x : S!The({x}) = x
  BY DEF S!The

\* The decisions of the simulator, from the bits of its mask, are those the
\* hardware makes from its masks, valid bits and counter.
LEMMA SoftDecides ==
    ASSUME CosimInv
    PROVE  /\ \A p \in Prios : S!CanEnq(soft, p) <=> EnqReady(p)
           /\ S!FirstFreeSlot(soft) = IF FreeSlots = {} THEN {} ELSE {Lowest(FreeSlots)}
           /\ S!PeekIdx(soft) = IF DeqValid THEN {Lowest(DeqCandidates)} ELSE {}
<1>1. /\ soft.occupied = Occupied /\ DOMAIN soft.buffer = Slots
      /\ \A i \in Occupied : soft.buffer[i] = buffer[i]
  BY DEF CosimInv, SoftOf, Occupied
<1>2. /\ IsFiniteSet(Slots) /\ Cardinality(Slots) = Depth
      /\ IsFiniteSet(Occupied) /\ Cardinality(Occupied) = cnt
      /\ Occupied \subseteq Slots
  BY SMTT(30), SlotsFinite, FS_Interval, FlitQueueAssumption
  DEF Slots, Occupied, CosimInv, RInv, IInv, SlotsConsistent
<1>3. \A p \in Prios : S!CanEnq(soft, p) <=> EnqReady(p)
  <2>1. S!Cardinality(DOMAIN soft.buffer) = Depth /\ S!Cardinality(soft.occupied) = cnt
    BY <1>1, <1>2 DEF S!Cardinality, Cardinality
  <2>2. FreeSlots = {} => cnt = Depth
    <3>1. FreeSlots = {} => Occupied = Slots
      BY <1>2 DEF FreeSlots, Occupied, CosimInv, RInv, IInv, TypeOK
    <3>2. QED  BY <1>2, <3>1
  <2>3. QED
    BY <2>1, <2>2, FlitQueueAssumption
    DEF S!CanEnq, S!QueueSize, EnqReady, CanAlloc, Prios, CosimInv, RInv, IInv, TypeOK
<1>4. S!FirstFreeSlot(soft) = IF FreeSlots = {} THEN {} ELSE {Lowest(FreeSlots)}
  <2>1. DOMAIN soft.buffer \ soft.occupied = FreeSlots
    BY <1>1 DEF FreeSlots, Occupied, CosimInv, RInv, IInv, TypeOK
  <2>2. QED  BY <2>1, SoftLowest DEF S!FirstFreeSlot
<1>5. S!PeekIdx(soft) = IF DeqValid THEN {Lowest(DeqCandidates)} ELSE {}
  <2>1. \A i \in Slots : IF valid[i] THEN prio[i] = {PrioOf[buffer[i]]} ELSE prio[i] = {}
    BY DEF CosimInv, RInv, IInv, SlotsConsistent
  <2>2. DeqValid <=> Occupied # {}
    BY <2>1 DEF DeqValid, Occupied
  <2>3. DeqCandidates = {i \in soft.occupied : \A j \in soft.occupied :
                            PrioOf[soft.buffer[i]] <= PrioOf[soft.buffer[j]]}
    BY <1>1, <2>1 DEF DeqCandidates, Occupied
  <2>4. QED  BY <1>1, <2>2, <2>3, SoftLowest DEF S!PeekIdx
<1>6. QED  BY <1>3, <1>4, <1>5

LEMMA SoftStep ==
    ASSUME CosimInv, NEW f \in (Flits \ Held) \cup {NoFlit}, NEW out \in BOOLEAN,
           Both(f, out)
    PROVE  soft' = SoftOf'
<1> DEFINE enq == EnqAt(f)
           deq == DeqAt(out)
           placed == IF enq = {} THEN soft ELSE S!PlaceIn(soft, S!The(enq), f)
           taken == IF deq = {} THEN placed ELSE S!TakeFrom(placed, S!The(deq))
<1>1. /\ enq = {} \/ \E a \in Slots : ~valid[a] /\ enq = {a}
      /\ deq = {} \/ \E d \in Slots : valid[d] /\ deq = {d}
  BY SlotsTouched DEF CosimInv, RInv, DeqCandidates
<1>2. soft' = S!Commit(taken, deq, enq)
  <2>1. enq = IF f # NoFlit /\ S!CanEnq(soft, PrioOf[f]) THEN S!FirstFreeSlot(soft) ELSE {}
    BY SoftDecides, FlitQueueAssumption DEF EnqAt, EnqReady
  <2>2. deq = IF out THEN S!PeekIdx(soft) ELSE {}
    BY SoftDecides DEF DeqAt
  <2>3. QED  BY <2>1, <2>2 DEF Both, SoftCycle
<1>3. /\ valid' = [i \in Slots |-> (valid[i] /\ i \notin deq) \/ i \in enq]
      /\ buffer' = [i \in Slots |-> IF i \in enq THEN f ELSE buffer[i]]
  BY DEF Both, Cycle
<1>. HIDE DEF enq, deq
<1>4. placed = [buffer |-> [i \in Slots |-> IF i \in enq THEN f
                                            ELSE IF valid[i] THEN buffer[i] ELSE NoFlit],
                occupied |-> Occupied]
  <2>1. CASE enq = {}
    BY <2>1 DEF CosimInv, SoftOf
  <2>2. CASE enq # {}
    BY <1>1, <2>2, SoftThe DEF CosimInv, SoftOf, S!PlaceIn
  <2>3. QED  BY <2>1, <2>2
<1>. HIDE DEF placed
<1>5. taken = [buffer |-> [i \in Slots |-> IF i \in deq THEN NoFlit ELSE placed.buffer[i]],
               occupied |-> Occupied]
  <2>1. CASE deq = {}
    BY <1>4, <2>1
  <2>2. CASE deq # {}
    BY <1>1, <1>4, <2>2, SoftThe DEF S!TakeFrom
  <2>3. QED  BY <2>1, <2>2
<1>. HIDE DEF taken
<1>6. soft' = [buffer |-> taken.buffer, occupied |-> (Occupied \ deq) \cup enq]
  BY <1>2, <1>5 DEF S!Commit
<1>7. Occupied' = (Occupied \ deq) \cup enq
  BY <1>1, <1>3 DEF Occupied
<1>8. taken.buffer = [i \in Slots |-> IF valid'[i] THEN buffer'[i] ELSE NoFlit]
  BY <1>1, <1>3, <1>4, <1>5
<1>9. QED  BY <1>6, <1>7, <1>8 DEF SoftOf

LEMMA CosimNextInv == CosimInv /\ [CosimNext]_cosimVars => CosimInv'
<1>1. CosimInv /\ CosimNext => CosimInv'
  <2>1. CosimInv /\ CosimNext => soft' = SoftOf'
    BY SoftStep DEF CosimNext
  <2>2. CosimNext => Next
    BY DEF CosimNext, Both, Next
  <2>3. QED  BY <2>1, <2>2, RNextInv DEF CosimInv
<1>2. CosimInv /\ UNCHANGED cosimVars => CosimInv'
  <2>1. UNCHANGED cosimVars => UNCHANGED vars /\ soft' = soft
    BY DEF cosimVars
  <2>2. UNCHANGED vars => SoftOf' = SoftOf
    BY DEF vars, SoftOf, Occupied
  <2>3. QED  BY <2>1, <2>2, RNextInv DEF CosimInv
<1>3. QED  BY <1>1, <1>2

\* The simulator's queue, one mask whose bits are counted, and the
\* hardware's, three copies and a counter, hold the same flits in the same
\* slots and accept the same ones, cycle by cycle, for ever.
THEOREM SimulatorAgrees == CosimSpec => []QueuesAgree
<1>1. CosimInit => CosimInv
  <2>1. Init => RInv
    BY InitInv DEF RInv, Distinct, Init
  <2>2. ASSUME Init
        PROVE  S!NewQueue(Depth) = SoftOf
    BY <2>2 DEF Init, S!NewQueue, SoftOf, Occupied, Slots
  <2>3. QED  BY <2>1, <2>2 DEF CosimInit, CosimInv
<1>2. CosimInv => QueuesAgree
  <2> SUFFICES ASSUME CosimInv PROVE QueuesAgree
    OBVIOUS
  <2>1. \A p \in Prios : S!CanEnq(soft, p) <=> EnqReady(p)
    BY SoftDecides
  <2>2. QED  BY <2>1 DEF QueuesAgree, CosimInv, SoftOf, Occupied
<1>3. QED  BY <1>1, <1>2, CosimNextInv, PTL DEF CosimSpec

=============================================================================
