---------------------------- MODULE MemIf_proofs ----------------------------
(***************************************************************************)
(* Proofs about the memory interface for every number of MSHRs, ports and  *)
(* requests.                                                               *)
(*                                                                         *)
(* To make the type invariant and the assertions of the code inductive,    *)
(* two facts are added (IInv): an MSHR that is answered was issued (the    *)
(* flags have no reset, but a new MSHR clears both), and an empty bulk     *)
(* queue leaves no line counted.  That it implements MemoryService takes   *)
(* five more (Placed): a request is in one place at a time, and a line     *)
(* that is still queued has no MSHR.                                       *)
(*                                                                         *)
(* For the simulator's interface the invariant (Mirror) gives its table    *)
(* exactly.  Its queue is a ring of cells (Holding), its arbiters keep the *)
(* number after the last grant, and it has no flag of a free MSHR.         *)
(***************************************************************************)
EXTENDS CosimMemIf, FiniteSetTheorems, WellFoundedInduction, TLAPS

\* A nonempty set of naturals has a least member: the priority encoders of
\* the code select a member of their argument.
LEMMA LeastMember ==
    ASSUME NEW T \in SUBSET Nat, T # {}
    PROVE  Lowest(T) \in T /\ \A j \in T : Lowest(T) <= j
<1> DEFINE LT == {ss \in Nat \X Nat : ss[1] < ss[2]}
<1>1. IsWellFoundedOn(LT, Nat)
  BY NatLessThanWellFounded DEF OpToRel
<1>2. PICK i \in T : \A j \in T : ~ (<<j, i>> \in LT)
  BY <1>1, WFMin
<1>3. ASSUME NEW j \in T, j < i
      PROVE  FALSE
  <2>1. <<j, i>> \in Nat \X Nat /\ <<j, i>>[1] < <<j, i>>[2]
    BY <1>3
  <2>2. <<j, i>> \in LT
    BY <2>1
  <2>3. QED  BY <1>2, <2>2
<1>4. \A j \in T : i <= j
  BY <1>3
<1>5. QED  BY <1>4 DEF Lowest

\* So does the round robin, whatever was granted last.
LEMMA RoundRobinMember ==
    ASSUME NEW T \in SUBSET Nat, T # {}, NEW last \in Nat
    PROVE  RoundRobin(last, T) \in T
<1>1. {i \in T : i > last} # {} => Lowest({i \in T : i > last}) \in {i \in T : i > last}
  BY LeastMember
<1>2. QED  BY <1>1, LeastMember DEF RoundRobin

\* One element may leave a finite set while another one enters it.
LEMMA CardChange ==
    ASSUME NEW U, IsFiniteSet(U), NEW D, NEW E,
           D = {} \/ \E d \in U : D = {d},
           E = {} \/ \E e : e \notin U /\ E = {e}
    PROVE  /\ IsFiniteSet((U \ D) \cup E)
           /\ Cardinality((U \ D) \cup E) = Cardinality(U) + Cardinality(E) - Cardinality(D)
           /\ Cardinality(U) \in Nat /\ Cardinality(D) \in {0, 1} /\ Cardinality(E) \in {0, 1}
<1>1. /\ Cardinality(U) \in Nat
      /\ D = {} => Cardinality(D) = 0
      /\ D # {} => Cardinality(D) = 1
      /\ E = {} => Cardinality(E) = 0
      /\ E # {} => Cardinality(E) = 1
  BY FS_CardinalityType, FS_EmptySet, FS_Singleton
<1>2. /\ IsFiniteSet(U \ D)
      /\ Cardinality(U \ D) = Cardinality(U) - Cardinality(D)
  <2>1. CASE D = {}
    <3>1. U \ D = U
      BY <2>1
    <3>2. QED  BY <1>1, <2>1, <3>1
  <2>2. CASE \E d \in U : D = {d}
    BY <1>1, <2>2, FS_RemoveElement
  <2>3. QED  BY <2>1, <2>2
<1>3. /\ IsFiniteSet((U \ D) \cup E)
      /\ Cardinality((U \ D) \cup E) = Cardinality(U \ D) + Cardinality(E)
  <2>1. CASE E = {}
    <3>1. (U \ D) \cup E = U \ D
      BY <2>1
    <3>2. Cardinality(U \ D) \in Nat
      BY <1>2, FS_CardinalityType
    <3>3. QED  BY <1>1, <1>2, <2>1, <3>1, <3>2
  <2>2. CASE \E e : e \notin U /\ E = {e}
    <3>1. PICK e : e \notin U /\ E = {e}
      BY <2>2
    <3>2. PICK T : T = U \ D /\ IsFiniteSet(T) /\ e \notin T
      BY <1>2, <3>1
    <3>3. IsFiniteSet(T \cup {e}) /\ Cardinality(T \cup {e}) = Cardinality(T) + 1
      BY <3>2, FS_AddElement
    <3>4. Cardinality(E) = 1
      BY <1>1, <3>1
    <3>5. QED  BY <3>1, <3>2, <3>3, <3>4
  <2>3. QED  BY <2>1, <2>2
<1>4. QED  BY <1>1, <1>2, <1>3

\* The turn of input i in the search of the simulator's arbiter.
LEMMA TurnOf ==
    ASSUME NEW n \in Nat \ {0}, NEW last \in 0 .. n - 1, NEW i \in 0 .. n - 1
    PROVE  (i - (IF last + 1 = n THEN 0 ELSE last + 1)) % n
             = IF i > last THEN i - last - 1 ELSE i - last - 1 + n
<1>1. CASE last + 1 = n
  BY <1>1
<1>2. CASE last + 1 # n
  BY <1>2
<1>3. QED  BY <1>1, <1>2

\* The round robin of the hardware chooses the input whose turn is first.
LEMMA FirstInTurn ==
    ASSUME NEW n \in Nat \ {0}, NEW last \in 0 .. n - 1, NEW next,
           next = IF last + 1 = n THEN 0 ELSE last + 1,
           NEW T \in SUBSET Nat, \A i \in T : i < n, T # {}
    PROVE  /\ RoundRobin(last, T) \in T
           /\ \A i \in T : (\A j \in T : (i - next) % n <= (j - next) % n)
                             <=> i = RoundRobin(last, T)
<1> DEFINE turn(i) == IF i > last THEN i - last - 1 ELSE i - last - 1 + n
           above == {i \in T : i > last}
           m == RoundRobin(last, T)
<1>1. last \in Nat /\ last < n /\ \A i \in T : i \in Nat /\ i < n
  OBVIOUS
<1>2. \A i \in T : (i - next) % n = turn(i)
  <2> SUFFICES ASSUME NEW i \in T PROVE (i - next) % n = turn(i)
    OBVIOUS
  <2>1. i \in 0 .. n - 1
    BY <1>1
  <2>2. QED  BY <2>1, TurnOf
<1>3. \A i, j \in T : turn(i) = turn(j) => i = j
  BY <1>1
<1>4. m \in T
  BY <1>1, RoundRobinMember
<1>5. \A j \in T : IF m > last THEN j > last => m <= j ELSE j <= last /\ m <= j
  <2>1. CASE above # {}
    <3>1. m = Lowest(above)
      BY <2>1 DEF RoundRobin
    <3>2. above \in SUBSET Nat
      OBVIOUS
    <3>3. m \in above /\ \A j \in above : m <= j
      BY <2>1, <3>1, <3>2, LeastMember
    <3>4. QED  BY <1>1, <3>3
  <2>2. CASE above = {}
    <3>1. m = Lowest(T)
      BY <2>2 DEF RoundRobin
    <3>2. \A j \in T : m <= j
      BY <3>1, LeastMember
    <3>3. \A j \in T : ~(j > last)
      BY <2>2
    <3>4. QED  BY <1>1, <1>4, <3>2, <3>3
  <2>3. QED  BY <2>1, <2>2
<1>. HIDE DEF above, m
<1>6. \A j \in T : turn(m) <= turn(j)
  BY <1>1, <1>4, <1>5
<1>7. \A i \in T : turn(i) \in Int
  BY <1>1
<1>. HIDE DEF turn
<1>8. \A i \in T : (\A j \in T : turn(i) <= turn(j)) <=> i = m
  BY <1>3, <1>4, <1>6, <1>7
<1>9. QED  BY <1>2, <1>4, <1>8 DEF m

\* Cells of a ring of n: b places after cell a, and the k-th from cell a.
LEMMA WrapAround ==
    \A n \in Nat \ {0} : \A a \in 0 .. n - 1 :
        /\ \A b \in 0 .. n : (a + b) % n = IF a + b < n THEN a + b ELSE a + b - n
        /\ \A k \in 1 .. n : (a + k - 1) % n = IF a + k - 1 < n THEN a + k - 1 ELSE a + k - 1 - n
  OBVIOUS

AnsweredIssued == \A s \in Allocated \cap fulfilled : s \in issued
NoneCounted == bulkQueue = <<>> => bulkCnt = 0

IInv == TypeOK /\ AnswersMatch /\ AnsweredIssued /\ NoneCounted

----------------------------------------------------------------------------
(* The selection circuits *)

LEMMA SlotsFinite ==
    /\ IsFiniteSet(Slots) /\ Slots \subseteq Nat /\ Ports \subseteq Nat
    /\ \A T \in SUBSET Slots : IsFiniteSet(T) /\ Cardinality(T) \in Nat
<1>1. IsFiniteSet(Slots) /\ Slots \subseteq Nat /\ Ports \subseteq Nat
  BY MemIfAssumption, FS_Interval DEF Slots, Ports
<1>2. QED  BY <1>1, FS_Subset, FS_CardinalityType

LEMMA LowestOfOne == \A x \in Nat : Lowest({x}) = x
  BY LeastMember

LEMMA Picked ==
    ASSUME NEW last \in Slots, NEW T \in SUBSET Slots
    PROVE  Pick(last, T) = {} \/ \E s \in T : Pick(last, T) = {s}
  BY SlotsFinite, RoundRobinMember DEF Pick

\* The arbiter grants one of the ports where a request waits.
LEMMA PortGranted ==
    ASSUME TypeOK
    PROVE  Granted = {} \/ \E p \in Ports : /\ nocIn[p] # None /\ Granted = {p}
                                            /\ Flit = {nocIn[p]}
<1> DEFINE waiting == {p \in Ports : nocIn[p] # None}
           urgency == [p \in Ports |-> IF nocIn[p] = None THEN 0 ELSE Prio[nocIn[p]]]
           best == {urgency[p] : p \in waiting}
<1>1. SUFFICES ASSUME waiting # {}
               PROVE  \E p \in waiting : Granted = {p}
  BY DEF Granted, Grant, Flit
<1>2. best \in SUBSET Nat /\ best # {}
  BY <1>1, MemIfAssumption DEF TypeOK
<1>3. Lowest(best) \in best /\ \A n \in best : Lowest(best) <= n
  BY <1>2, LeastMember
<1>4. PICK p \in waiting : urgency[p] = Lowest(best)
  BY <1>3
<1>5. \A q \in waiting : urgency[q] \in best
  OBVIOUS
<1>. HIDE DEF waiting, urgency, best
<1>6. p \in Candidates(waiting, urgency)
  BY <1>3, <1>4, <1>5 DEF Candidates
<1>7. Candidates(waiting, urgency) \in SUBSET Nat /\ lastGrant \in Nat
  BY SlotsFinite DEF Candidates, waiting, TypeOK
<1>8. RoundRobin(lastGrant, Candidates(waiting, urgency)) \in waiting
  BY <1>6, <1>7, RoundRobinMember DEF Candidates
<1>9. QED  BY <1>1, <1>8 DEF Granted, Grant, waiting, urgency

\* At most one line gets an MSHR in a cycle, and it gets a free one; the line
\* of a scatter only while the bound is not reached.
LEMMA Allocation ==
    ASSUME IInv
    PROVE  \/ NewPart = {} /\ NewSlot = {} /\ ~BulkAlloc
           \/ \E a \in Free, x \in Parts :
                 /\ NewPart = {x} /\ NewSlot = {a}
                 /\ IsScatter(x) <=> (BulkAlloc /\ Head(bulkQueue) \in Scatters)
                 /\ IsScatter(x) => bcstInflight < BcstBound
                 /\ BulkAlloc => bulkQueue # <<>> /\ x = <<Head(bulkQueue), bulkCnt>>
                 /\ ~BulkAlloc => x[1] \in ScalarAccepted /\ x = <<x[1], 0>>
<1>1. Free \in SUBSET Nat
  BY SlotsFinite DEF Free
<1>2. Free # {} => Lowest(Free) \in Free
  BY <1>1, LeastMember
<1>3. bulkQueue # <<>> => /\ Head(bulkQueue) \in Requests \ Scalars
                          /\ bulkCnt \in 0 .. Lines[Head(bulkQueue)] - 1
  BY MemIfAssumption DEF IInv, TypeOK
<1>4. CASE BulkAlloc
  <2>1. ScalarAccepted = {} /\ bulkQueue # <<>> /\ Free # {}
    BY <1>4 DEF BulkAlloc, ScalarAccepted
  <2>2. NewPart = {<<Head(bulkQueue), bulkCnt>>} /\ NewSlot = {Lowest(Free)}
    BY <1>4, <2>1 DEF NewPart, NewSlot
  <2>3. <<Head(bulkQueue), bulkCnt>> \in Parts
    BY <1>3, <2>1 DEF Parts
  <2>4. Head(bulkQueue) \in Scatters => bcstInflight < BcstBound
    BY <1>4, MemIfAssumption DEF BulkAlloc, BcstBlocked, IInv, TypeOK
  <2>5. QED  BY <1>2, <1>4, <2>1, <2>2, <2>3, <2>4 DEF IsScatter
<1>5. CASE ~BulkAlloc /\ ScalarAccepted = {}
  BY <1>5 DEF NewPart, NewSlot
<1>6. CASE ~BulkAlloc /\ ScalarAccepted # {}
  <2>1. PICK r \in Scalars : ScalarAccepted = {r} /\ Free # {}
    <3>1. Granted = {} \/ \E p \in Ports : Flit = {nocIn[p]}
      BY PortGranted DEF IInv
    <3>2. QED  BY <1>6, <3>1 DEF ScalarAccepted, Flit
  <2>2. NewPart = {<<r, 0>>} /\ NewSlot = {Lowest(Free)}
    BY <1>6, <2>1 DEF NewPart, NewSlot
  <2>3. <<r, 0>> \in Parts /\ r \notin Scatters
    BY MemIfAssumption DEF Parts
  <2>4. QED  BY <1>2, <1>6, <2>1, <2>2, <2>3 DEF IsScatter
<1>7. QED  BY <1>4, <1>5, <1>6

\* What is issued, answered and sent in a cycle.
LEMMA Choices ==
    ASSUME IInv, NEW issue \in Taken(Issue), NEW ucst \in Taken(Ucst),
           NEW bcst \in Taken(Bcst), NEW answer \in OneOf(Asked \cup issue)
    PROVE  /\ issue = {} \/ \E s \in Allocated \ issued : issue = {s}
           /\ ucst = {} \/ \E s \in Done : ~IsScatter(mshrs[s]) /\ ucst = {s}
           /\ bcst = {} \/ \E s \in Done : IsScatter(mshrs[s]) /\ bcst = {s}
           /\ answer = {} \/ \E s \in Asked \cup issue : answer = {s}
           /\ issue \subseteq Slots /\ ucst \subseteq Slots /\ bcst \subseteq Slots
           /\ answer \subseteq Slots
<1>1. /\ Allocated \subseteq Slots /\ Done \subseteq Slots /\ Asked \subseteq Slots
      /\ issueLast \in Slots /\ ucstLast \in Slots /\ bcstLast \in Slots
  BY DEF Allocated, Done, Asked, IInv, TypeOK
<1>2. issue = {} \/ \E s \in Allocated \ issued : issue = {s}
  BY <1>1, Picked DEF Taken, Issue
<1>3. ucst = {} \/ \E s \in Done : ~IsScatter(mshrs[s]) /\ ucst = {s}
  BY <1>1, Picked DEF Taken, Ucst
<1>4. bcst = {} \/ \E s \in Done : IsScatter(mshrs[s]) /\ bcst = {s}
  BY <1>1, Picked DEF Taken, Bcst
<1>5. answer = {} \/ \E s \in Asked \cup issue : answer = {s}
  BY DEF OneOf
<1>6. QED  BY <1>1, <1>2, <1>3, <1>4, <1>5

----------------------------------------------------------------------------
(* One cycle *)

LEMMA CycleAnswers ==
    ASSUME IInv, NEW issue \in Taken(Issue), NEW ucst \in Taken(Ucst),
           NEW bcst \in Taken(Bcst), NEW answer \in OneOf(Asked \cup issue),
           NEW arrive \in Arrivals, Cycle(arrive, issue, answer, ucst, bcst)
    PROVE  AnswersMatch' /\ AnsweredIssued' /\ bcstInflight' \in 0 .. BcstBound
<1>1. /\ issue = {} \/ \E s \in Allocated \ issued : issue = {s}
      /\ ucst = {} \/ \E s \in Done : ~IsScatter(mshrs[s]) /\ ucst = {s}
      /\ bcst = {} \/ \E s \in Done : IsScatter(mshrs[s]) /\ bcst = {s}
      /\ answer \subseteq Asked \cup issue
      /\ answer \subseteq Slots
  BY Choices
<1>2. /\ mshrs' = [s \in Slots |->
             IF s \in NewSlot THEN CHOOSE x \in NewPart : TRUE
             ELSE IF s \in ucst \cup bcst THEN None ELSE mshrs[s]]
      /\ issued' = (issued \ NewSlot) \cup issue
      /\ fulfilled' = (fulfilled \ NewSlot) \cup answer
      /\ atMem' = [s \in Slots |->
             IF s \in answer THEN None ELSE IF s \in issue THEN mshrs[s] ELSE atMem[s]]
      /\ bcstInflight' = BcstCount(bcst)
  BY DEF Cycle, FlagsNext
<1>3. \A s \in NewSlot : s \in Slots /\ mshrs[s] = None
  BY Allocation DEF Free, Allocated
<1>4. /\ \A s \in Slots : atMem[s] = IF mshrs[s] # None /\ s \in issued /\ s \notin fulfilled
                                     THEN mshrs[s] ELSE None
      /\ \A s \in Slots : mshrs[s] # None /\ s \in fulfilled => s \in issued
  BY DEF IInv, AnswersMatch, AnsweredIssued, Allocated
<1>5. /\ \A s \in issue : s \in Slots /\ mshrs[s] # None /\ s \notin issued
      /\ \A s \in ucst \cup bcst : s \in Slots /\ mshrs[s] # None /\ s \in fulfilled
      /\ \A s \in answer : s \in issue \/ atMem[s] # None
  BY <1>1 DEF Done, Allocated, Asked
<1>6. \A s \in Slots : \/ s \in NewSlot /\ mshrs'[s] \in Parts
                       \/ s \notin NewSlot /\ s \in ucst \cup bcst /\ mshrs'[s] = None
                       \/ s \notin NewSlot /\ s \notin ucst \cup bcst /\ mshrs'[s] = mshrs[s]
  BY <1>2, Allocation
<1>7. None \notin Parts
  BY MemIfAssumption
<1>8. \A s \in Slots : atMem'[s] = IF mshrs'[s] # None /\ s \in issued' /\ s \notin fulfilled'
                                   THEN mshrs'[s] ELSE None
  <2> SUFFICES ASSUME NEW s \in Slots
               PROVE  atMem'[s] = IF mshrs'[s] # None /\ s \in issued' /\ s \notin fulfilled'
                                  THEN mshrs'[s] ELSE None
    OBVIOUS
  <2>1. CASE s \in NewSlot
    BY <1>2, <1>3, <1>4, <1>5, <2>1
  <2>2. CASE s \notin NewSlot
    BY <1>2, <1>4, <1>5, <1>6, <2>2
  <2>3. QED  BY <2>1, <2>2
<1>9. AnsweredIssued'
  <2> SUFFICES ASSUME NEW s \in Slots, mshrs'[s] # None, s \in fulfilled'
               PROVE  s \in issued'
    BY DEF AnsweredIssued, Allocated
  <2>1. CASE s \in NewSlot
    BY <1>2, <1>3, <1>4, <1>5, <2>1
  <2>2. CASE s \notin NewSlot
    BY <1>2, <1>4, <1>5, <1>6, <2>2
  <2>3. QED  BY <2>1, <2>2
<1> DEFINE scat == {s \in Allocated : IsScatter(mshrs[s])}
           new == IF BulkAlloc /\ Head(bulkQueue) \in Scatters THEN NewSlot ELSE {}
<1>10. /\ IsFiniteSet(scat) /\ bcstInflight = Cardinality(scat)
       /\ scat = {s \in Slots : mshrs[s] # None /\ IsScatter(mshrs[s])}
  BY SlotsFinite DEF IInv, AnswersMatch, Allocated
<1>11. /\ bcst = {} \/ \E s \in scat : bcst = {s}
       /\ new = {} \/ \E a : a \notin scat /\ new = {a}
       /\ new = {} <=> ~(BulkAlloc /\ Head(bulkQueue) \in Scatters)
       /\ new # {} => bcstInflight < BcstBound
  <2>1. bcst = {} \/ \E s \in scat : bcst = {s}
    BY <1>1 DEF Done
  <2>2. BulkAlloc /\ Head(bulkQueue) \in Scatters
          => bcstInflight < BcstBound /\ \E a \in Free : NewSlot = {a}
    BY Allocation
  <2>3. \A a \in Free : a \notin scat
    BY DEF Free
  <2>4. QED  BY <2>1, <2>2, <2>3
<1>12. {s \in Slots : mshrs'[s] # None /\ IsScatter(mshrs'[s])} = (scat \ bcst) \cup new
  <2> SUFFICES ASSUME NEW s \in Slots
               PROVE  mshrs'[s] # None /\ IsScatter(mshrs'[s])
                        <=> (s \in scat /\ s \notin bcst) \/ s \in new
    BY <1>3, <1>10
  <2>1. CASE s \in NewSlot
    <3>1. mshrs[s] = None /\ s \notin scat
      BY <1>3, <1>10, <2>1
    <3>2. PICK x \in Parts : /\ NewPart = {x}
                             /\ IsScatter(x) <=> (BulkAlloc /\ Head(bulkQueue) \in Scatters)
      BY <2>1, Allocation
    <3>3. mshrs'[s] = x
      BY <1>2, <2>1, <3>2
    <3>4. QED  BY <1>7, <2>1, <3>1, <3>2, <3>3
  <2>2. CASE s \notin NewSlot /\ s \in ucst \cup bcst
    BY <1>1, <1>6, <1>10, <2>2
  <2>3. CASE s \notin NewSlot /\ s \notin ucst \cup bcst
    BY <1>6, <1>10, <2>3
  <2>4. QED  BY <2>1, <2>2, <2>3
<1>13. {s \in Allocated : IsScatter(mshrs[s])}'
         = {s \in Slots : mshrs'[s] # None /\ IsScatter(mshrs'[s])}
  BY DEF Allocated, IsScatter
<1>. HIDE DEF scat, new
<1>14. /\ Cardinality((scat \ bcst) \cup new)
            = Cardinality(scat) + Cardinality(new) - Cardinality(bcst)
       /\ Cardinality(scat) \in Nat
       /\ Cardinality((scat \ bcst) \cup new) \in Nat
       /\ Cardinality(new) = IF new = {} THEN 0 ELSE 1
       /\ Cardinality(bcst) = IF bcst = {} THEN 0 ELSE 1
  <2>1. /\ Cardinality((scat \ bcst) \cup new)
             = Cardinality(scat) + Cardinality(new) - Cardinality(bcst)
        /\ IsFiniteSet((scat \ bcst) \cup new) /\ Cardinality(scat) \in Nat
    <3>1. IsFiniteSet(scat)
      BY <1>10
    <3>2. bcst = {} \/ \E s \in scat : bcst = {s}
      BY <1>11
    <3>3. new = {} \/ \E a : a \notin scat /\ new = {a}
      BY <1>11
    <3>4. Cardinality((scat \ bcst) \cup new)
            = Cardinality(scat) + Cardinality(new) - Cardinality(bcst)
      BY <3>1, <3>2, <3>3, CardChange
    <3>5. IsFiniteSet((scat \ bcst) \cup new)
      BY <3>1, <3>2, <3>3, CardChange
    <3>6. QED  BY <3>1, <3>4, <3>5, FS_CardinalityType
  <2>2. QED  BY <1>11, <2>1, FS_CardinalityType, FS_EmptySet, FS_Singleton
<1>15. bcstInflight' = Cardinality((scat \ bcst) \cup new)
  BY <1>2, <1>10, <1>11, <1>14 DEF BcstCount
<1>16. bcstInflight' \in 0 .. BcstBound
  <2>1. bcstInflight \in 0 .. BcstBound /\ BcstBound \in Nat
    BY MemIfAssumption DEF IInv, TypeOK
  <2>2. QED  BY <1>10, <1>11, <1>14, <1>15, <2>1
<1>17. AnswersMatch'
  BY <1>8, <1>12, <1>13, <1>15 DEF AnswersMatch, Allocated
<1>18. QED  BY <1>9, <1>16, <1>17

\* The bulk queue keeps its members in order, and the lines counted are
\* always those of its head.
LEMMA CycleQueue ==
    ASSUME IInv, NEW arrive, NEW issue, NEW answer, NEW ucst, NEW bcst,
           Cycle(arrive, issue, answer, ucst, bcst)
    PROVE  /\ bulkQueue' \in Seq({r \in Requests \ Scalars : Lines[r] > 0})
           /\ Len(bulkQueue') <= BulkDepth
           /\ bulkCnt' \in Nat
           /\ bulkQueue' # <<>> => bulkCnt' < Lines[Head(bulkQueue')]
           /\ NoneCounted'
<1> DEFINE Bulks == {r \in Requests \ Scalars : Lines[r] > 0}
           rest == IF BulkDone THEN Tail(bulkQueue) ELSE bulkQueue
           more == {r \in BulkAccepted : Lines[r] # 0}
<1>1. /\ bulkQueue' = IF more = {} THEN rest ELSE Append(rest, CHOOSE r \in more : TRUE)
      /\ bulkCnt' = IF BulkDone THEN 0 ELSE IF BulkAlloc THEN bulkCnt + 1 ELSE bulkCnt
  BY DEF Cycle
<1>2. /\ bulkQueue \in Seq(Bulks) /\ Len(bulkQueue) <= BulkDepth /\ bulkCnt \in Nat
      /\ bulkQueue # <<>> => bulkCnt < Lines[Head(bulkQueue)]
      /\ bulkQueue = <<>> => bulkCnt = 0
  BY DEF IInv, TypeOK, NoneCounted
<1>3. \A r \in more : r \in Bulks /\ Len(bulkQueue) < BulkDepth
  <2>1. \A r \in Flit : r \in Requests
    BY PortGranted DEF Flit, IInv, TypeOK
  <2>2. QED  BY <2>1, MemIfAssumption DEF BulkAccepted
<1>4. BulkAlloc => bulkQueue # <<>>
  BY DEF BulkAlloc
<1>5. BulkDone <=> BulkAlloc /\ bulkCnt + 1 = Lines[Head(bulkQueue)]
  BY DEF BulkDone
<1>6. bulkQueue # <<>> => Head(bulkQueue) \in Bulks
  BY <1>2
<1>7. \A r \in Bulks : Lines[r] \in Nat \ {0}
  BY MemIfAssumption
<1>. HIDE DEF Bulks, rest, more
<1>8. /\ rest \in Seq(Bulks) /\ Len(rest) <= Len(bulkQueue)
      /\ ~BulkDone => rest = bulkQueue
  BY <1>2, <1>4, <1>5 DEF rest
<1>9. /\ bulkCnt' \in Nat
      /\ rest # <<>> => bulkCnt' < Lines[Head(rest)]
      /\ rest = <<>> => bulkCnt' = 0
  <2>1. CASE BulkDone
    <3>1. rest # <<>> => Head(rest) \in Bulks
      BY <1>8
    <3>2. QED  BY <1>1, <1>7, <2>1, <3>1
  <2>2. CASE ~BulkDone
    BY <1>1, <1>2, <1>4, <1>5, <1>6, <1>7, <1>8, <2>2
  <2>3. QED  BY <2>1, <2>2
<1>10. CASE more = {}
  BY <1>1, <1>2, <1>8, <1>9, <1>10, MemIfAssumption DEF NoneCounted, Bulks
<1>11. CASE more # {}
  <2>1. PICK r \in Bulks : bulkQueue' = Append(rest, r)
    BY <1>1, <1>3, <1>11
  <2>2. /\ bulkQueue' \in Seq(Bulks) /\ bulkQueue' # <<>> /\ Len(bulkQueue') = Len(rest) + 1
        /\ Head(bulkQueue') = IF rest = <<>> THEN r ELSE Head(rest)
    BY <1>8, <2>1
  <2>3. Len(bulkQueue') <= BulkDepth
    BY <1>2, <1>3, <1>8, <1>11, <2>2, MemIfAssumption
  <2>4. bulkCnt' < Lines[Head(bulkQueue')]
    BY <1>7, <1>9, <2>2
  <2>5. QED  BY <1>9, <2>2, <2>3, <2>4 DEF NoneCounted, Bulks
<1>12. QED  BY <1>10, <1>11

LEMMA CycleInv ==
    ASSUME IInv, NEW issue \in Taken(Issue), NEW ucst \in Taken(Ucst),
           NEW bcst \in Taken(Bcst), NEW answer \in OneOf(Asked \cup issue),
           NEW arrive \in Arrivals, Cycle(arrive, issue, answer, ucst, bcst)
    PROVE  IInv'
<1>1. /\ issue = {} \/ \E s \in Allocated \ issued : issue = {s}
      /\ ucst = {} \/ \E s \in Done : ~IsScatter(mshrs[s]) /\ ucst = {s}
      /\ bcst = {} \/ \E s \in Done : IsScatter(mshrs[s]) /\ bcst = {s}
      /\ issue \subseteq Slots /\ ucst \subseteq Slots /\ bcst \subseteq Slots
      /\ answer \subseteq Slots
  BY Choices
<1>2. nocIn' \in [Ports -> Requests \cup {None}]
  <2>1. arrive \in SUBSET Requests
    BY DEF Arrivals, MayArrive, Absent
  <2>2. nocIn' = [p \in Ports |->
           IF \E r \in arrive : Port[r] = p THEN CHOOSE r \in arrive : Port[r] = p
           ELSE IF nocIn[p] \in Accepted THEN None ELSE nocIn[p]]
    BY DEF Cycle
  <2>3. \A p \in Ports : (\E r \in arrive : Port[r] = p)
                            => (CHOOSE r \in arrive : Port[r] = p) \in arrive
    OBVIOUS
  <2>4. QED  BY <2>1, <2>2, <2>3 DEF IInv, TypeOK
<1>3. lastGrant' \in Ports
  <2>1. lastGrant' = IF Accepted = {} THEN lastGrant ELSE Lowest(Granted)
    BY DEF Cycle
  <2>2. Accepted # {} => Granted # {}
    BY DEF Accepted, ScalarAccepted, BulkAccepted, Flit
  <2>3. Accepted # {} => \E p \in Ports : Granted = {p}
    BY <2>2, PortGranted DEF IInv
  <2>4. QED  BY <2>1, <2>3, LowestOfOne, SlotsFinite DEF IInv, TypeOK
<1>4. mshrs' \in [Slots -> Parts \cup {None}]
  <2>1. mshrs' = [s \in Slots |->
           IF s \in NewSlot THEN CHOOSE x \in NewPart : TRUE
           ELSE IF s \in ucst \cup bcst THEN None ELSE mshrs[s]]
    BY DEF Cycle
  <2>2. NewSlot # {} => (CHOOSE x \in NewPart : TRUE) \in Parts
    BY Allocation
  <2>3. QED  BY <2>1, <2>2 DEF IInv, TypeOK
<1>5. atMem' \in [Slots -> Parts \cup {None}]
  BY <1>1 DEF Cycle, IInv, TypeOK
<1>6. issued' \subseteq Slots /\ fulfilled' \subseteq Slots
  BY <1>1 DEF Cycle, FlagsNext, IInv, TypeOK
<1>7. ucstLast' \in Slots /\ bcstLast' \in Slots /\ issueLast' \in Slots
  <2>1. /\ ucstLast' = Last(ucstLast, ucst)
        /\ bcstLast' = Last(bcstLast, bcst)
        /\ issueLast' = Last(issueLast, issue)
    BY DEF Cycle
  <2>2. /\ Last(ucstLast, ucst) \in Slots
        /\ Last(bcstLast, bcst) \in Slots
        /\ Last(issueLast, issue) \in Slots
    BY <1>1, LowestOfOne, SlotsFinite DEF Last, IInv, TypeOK
  <2>3. QED  BY <2>1, <2>2
<1>8. TypeOK'
  <2>1. bcstInflight' \in 0 .. BcstBound
    BY CycleAnswers
  <2>2. QED  BY <1>2, <1>3, <1>4, <1>5, <1>6, <1>7, <2>1, CycleQueue DEF TypeOK
<1>9. QED  BY <1>8, CycleAnswers, CycleQueue DEF IInv

LEMMA InitInv == Init => IInv
<1> SUFFICES ASSUME Init PROVE IInv
  OBVIOUS
<1>1. TypeOK
  <2>1. 0 \in Slots /\ 0 \in Ports
    BY MemIfAssumption DEF Slots, Ports
  <2>2. QED  BY <2>1, MemIfAssumption DEF Init, TypeOK
<1>2. Allocated = {}
  BY DEF Init, Allocated
<1>3. AnswersMatch
  <2>1. {s \in Allocated : IsScatter(mshrs[s])} = {}
    BY <1>2
  <2>2. QED  BY <1>2, <2>1, FS_EmptySet DEF Init, AnswersMatch
<1>4. AnsweredIssued /\ NoneCounted
  BY <1>2 DEF Init, AnsweredIssued, NoneCounted
<1>5. QED  BY <1>1, <1>3, <1>4 DEF IInv

LEMMA NextInv == IInv /\ [Next]_vars => IInv'
<1>1. IInv /\ Next => IInv'
  BY CycleInv DEF Next
<1>2. IInv /\ UNCHANGED vars => IInv'
  <2>1. UNCHANGED vars => Allocated' = Allocated
    BY DEF vars, queues, table, lasts, Allocated
  <2>2. QED
    BY <2>1
    DEF vars, queues, table, lasts, IInv, TypeOK, AnswersMatch, AnsweredIssued,
        NoneCounted, IsScatter
<1>3. QED  BY <1>1, <1>2

----------------------------------------------------------------------------
(* One place for each line.  MemoryService speaks of sets of lines, so that *)
(* a line that two MSHRs, or an MSHR and the bulk queue, held at once would *)
(* be answered twice and seen once.                                         *)

Bulks == {r \in Requests \ Scalars : Lines[r] > 0}

PortsDistinct == \A p, q \in Ports : nocIn[p] # None /\ nocIn[p] = nocIn[q] => p = q
PortsFresh ==
    \A p \in Ports : nocIn[p] # None =>
        /\ \A i \in DOMAIN bulkQueue : bulkQueue[i] # nocIn[p]
        /\ \A s \in Allocated : mshrs[s][1] # nocIn[p]
QueueDistinct == \A i, j \in DOMAIN bulkQueue : bulkQueue[i] = bulkQueue[j] => i = j
LinesAhead ==
    \A i \in DOMAIN bulkQueue, s \in Allocated :
        mshrs[s][1] = bulkQueue[i] => i = 1 /\ mshrs[s][2] < bulkCnt
MshrsDistinct == \A s, t \in Allocated : mshrs[s] = mshrs[t] => s = t

Placed == PortsDistinct /\ PortsFresh /\ QueueDistinct /\ LinesAhead /\ MshrsDistinct

RInv == IInv /\ Placed

\* The bulk queue after its first line is allocated, and the requests it takes.
Rest == IF BulkDone THEN Tail(bulkQueue) ELSE bulkQueue
Counted == IF BulkDone THEN 0 ELSE IF BulkAlloc THEN bulkCnt + 1 ELSE bulkCnt
More == {r \in BulkAccepted : Lines[r] # 0}

LEMMA QueueMoves ==
    ASSUME IInv, NEW arrive, NEW issue, NEW answer, NEW ucst, NEW bcst,
           Cycle(arrive, issue, answer, ucst, bcst)
    PROVE  /\ bulkQueue \in Seq(Bulks) /\ Rest \in Seq(Bulks)
           /\ \/ More = {} /\ bulkQueue' = Rest
              \/ \E r \in Bulks : r \in Flit /\ More = {r} /\ bulkQueue' = Append(Rest, r)
           /\ bulkCnt' = Counted /\ Counted \in Nat
           /\ BulkDone => BulkAlloc
           /\ BulkAlloc => bulkQueue # <<>> /\ bulkCnt < Lines[Head(bulkQueue)]
           /\ Rest = <<>> => Counted = 0
<1>1. /\ bulkQueue' = IF More = {} THEN Rest ELSE Append(Rest, CHOOSE r \in More : TRUE)
      /\ bulkCnt' = Counted
  BY DEF Cycle, Rest, Counted, More
<1>2. /\ bulkQueue \in Seq(Bulks) /\ bulkCnt \in Nat
      /\ bulkQueue # <<>> => bulkCnt < Lines[Head(bulkQueue)]
      /\ bulkQueue = <<>> => bulkCnt = 0
  BY DEF IInv, TypeOK, NoneCounted, Bulks
<1>3. /\ BulkDone => BulkAlloc
      /\ BulkAlloc => bulkQueue # <<>>
  BY DEF BulkDone, BulkAlloc
<1>4. More = {} \/ \E r \in Bulks : r \in Flit /\ More = {r}
  <2>1. Flit = {} \/ \E p \in Ports : nocIn[p] \in Requests /\ Flit = {nocIn[p]}
    BY PortGranted DEF Flit, IInv, TypeOK
  <2>2. \A r \in More : r \in Flit /\ r \notin Scalars /\ Lines[r] # 0
    BY DEF More, BulkAccepted
  <2>3. \A r \in More : r \in Bulks
    BY <2>1, <2>2, MemIfAssumption DEF Bulks
  <2>4. QED  BY <2>1, <2>2, <2>3
<1>5. Rest \in Seq(Bulks) /\ Counted \in Nat
  BY <1>2, <1>3 DEF Rest, Counted
<1>6. Rest = <<>> => Counted = 0
  BY <1>2, <1>3 DEF Rest, Counted
<1>7. QED  BY <1>1, <1>2, <1>3, <1>4, <1>5, <1>6

\* What a cycle does to an MSHR.
LEMMA MshrMoves ==
    ASSUME IInv, NEW issue, NEW ucst, NEW bcst, NEW answer, NEW arrive,
           Cycle(arrive, issue, answer, ucst, bcst)
    PROVE  /\ \A s \in Slots :
                 \/ s \in NewSlot /\ mshrs[s] = None /\ NewPart = {mshrs'[s]} /\ mshrs'[s] \in Parts
                 \/ s \notin NewSlot /\ s \in ucst \cup bcst /\ mshrs'[s] = None
                 \/ s \notin NewSlot /\ s \notin ucst \cup bcst /\ mshrs'[s] = mshrs[s]
           /\ NewSlot \subseteq Slots /\ (NewSlot = {} <=> NewPart = {})
           /\ \A s, t \in NewSlot : s = t
<1>1. mshrs' = [s \in Slots |->
           IF s \in NewSlot THEN CHOOSE x \in NewPart : TRUE
           ELSE IF s \in ucst \cup bcst THEN None ELSE mshrs[s]]
  BY DEF Cycle
<1>2. CASE NewPart = {} /\ NewSlot = {}
  BY <1>1, <1>2
<1>3. CASE \E a \in Free, x \in Parts : NewPart = {x} /\ NewSlot = {a}
  BY <1>1, <1>3 DEF Free, Allocated
<1>4. QED  BY <1>2, <1>3, Allocation

\* The line that is allocated is a scalar request's or the next bulk line,
\* and the request that leaves its port goes to one place.
LEMMA NewLine ==
    ASSUME RInv, NEW x \in NewPart
    PROVE  /\ BulkAlloc => x = <<bulkQueue[1], bulkCnt>> /\ 1 \in DOMAIN bulkQueue
           /\ ~BulkAlloc => x = <<x[1], 0>> /\ x[1] \in ScalarAccepted /\ x[1] \in Flit
           /\ \A s \in Allocated : mshrs[s] # x
           /\ \A p \in Ports : nocIn[p] = x[1] => ~BulkAlloc /\ nocIn[p] \in Accepted
<1>1. PICK a \in Free, y \in Parts :
           /\ NewPart = {y}
           /\ BulkAlloc => bulkQueue # <<>> /\ y = <<Head(bulkQueue), bulkCnt>>
           /\ ~BulkAlloc => y[1] \in ScalarAccepted /\ y = <<y[1], 0>>
  BY Allocation DEF RInv
<1>2. x = y
  BY <1>1
<1>3. bulkQueue \in Seq(Requests) /\ bulkCnt \in Nat
  BY DEF RInv, IInv, TypeOK
<1>4. BulkAlloc => x = <<bulkQueue[1], bulkCnt>> /\ 1 \in DOMAIN bulkQueue
  <2>1. bulkQueue # <<>> => Head(bulkQueue) = bulkQueue[1] /\ 1 \in DOMAIN bulkQueue
    BY <1>3
  <2>2. QED  BY <1>1, <1>2, <2>1
<1>5. ~BulkAlloc => x = <<x[1], 0>> /\ x[1] \in ScalarAccepted /\ x[1] \in Flit
  BY <1>1, <1>2 DEF ScalarAccepted
<1>6. \A r \in Flit : \E p \in Ports : nocIn[p] = r /\ nocIn[p] # None
  BY PortGranted DEF RInv, IInv, Flit
<1>7. \A s \in Allocated : mshrs[s] # x
  <2>1. CASE BulkAlloc
    BY <1>3, <1>4, <2>1 DEF RInv, Placed, LinesAhead
  <2>2. CASE ~BulkAlloc
    BY <1>5, <1>6, <2>2 DEF RInv, Placed, PortsFresh
  <2>3. QED  BY <2>1, <2>2
<1>8. \A p \in Ports : nocIn[p] = x[1] => ~BulkAlloc /\ nocIn[p] \in Accepted
  <2>1. CASE BulkAlloc
    <3>1. x[1] = bulkQueue[1] /\ bulkQueue[1] \in Requests
      BY <1>3, <1>4, <2>1
    <3>2. QED
      BY <1>4, <2>1, <3>1, MemIfAssumption DEF RInv, Placed, PortsFresh
  <2>2. CASE ~BulkAlloc
    BY <1>5, <2>2 DEF Accepted
  <2>3. QED  BY <2>1, <2>2
<1>9. QED  BY <1>4, <1>5, <1>7, <1>8

LEMMA CyclePlaced ==
    ASSUME RInv, NEW issue \in Taken(Issue), NEW ucst \in Taken(Ucst),
           NEW bcst \in Taken(Bcst), NEW answer \in OneOf(Asked \cup issue),
           NEW arrive \in Arrivals, Cycle(arrive, issue, answer, ucst, bcst)
    PROVE  Placed'
<1>1. /\ bulkQueue \in Seq(Bulks) /\ Rest \in Seq(Bulks)
      /\ \/ More = {} /\ bulkQueue' = Rest
         \/ \E r \in Bulks : r \in Flit /\ More = {r} /\ bulkQueue' = Append(Rest, r)
      /\ bulkCnt' = Counted /\ Counted \in Nat
      /\ BulkDone => BulkAlloc
      /\ BulkAlloc => bulkQueue # <<>> /\ bulkCnt < Lines[Head(bulkQueue)]
      /\ Rest = <<>> => Counted = 0
  BY QueueMoves DEF RInv
<1>2. /\ \A s \in Slots :
            \/ s \in NewSlot /\ mshrs[s] = None /\ NewPart = {mshrs'[s]} /\ mshrs'[s] \in Parts
            \/ s \notin NewSlot /\ s \in ucst \cup bcst /\ mshrs'[s] = None
            \/ s \notin NewSlot /\ s \notin ucst \cup bcst /\ mshrs'[s] = mshrs[s]
      /\ \A s, t \in NewSlot : s = t
  BY MshrMoves DEF RInv
<1>3. \A x \in NewPart :
           /\ BulkAlloc => x = <<bulkQueue[1], bulkCnt>> /\ 1 \in DOMAIN bulkQueue
           /\ ~BulkAlloc => x = <<x[1], 0>> /\ x[1] \in Flit
           /\ \A s \in Allocated : mshrs[s] # x
           /\ \A p \in Ports : nocIn[p] = x[1] => ~BulkAlloc /\ nocIn[p] \in Accepted
  BY NewLine
<1>4. \A p \in Ports : nocIn'[p] # None =>
           \/ nocIn'[p] \in Absent /\ Port[nocIn'[p]] = p
           \/ nocIn'[p] = nocIn[p] /\ nocIn[p] \notin Accepted
  <2>1. arrive \in SUBSET Absent
    BY DEF Arrivals, MayArrive
  <2>2. nocIn' = [p \in Ports |->
           IF \E r \in arrive : Port[r] = p THEN CHOOSE r \in arrive : Port[r] = p
           ELSE IF nocIn[p] \in Accepted THEN None ELSE nocIn[p]]
    BY DEF Cycle
  <2>3. \A p \in Ports : (\E r \in arrive : Port[r] = p)
           => LET q == CHOOSE r \in arrive : Port[r] = p IN q \in arrive /\ Port[q] = p
    OBVIOUS
  <2>4. QED  BY <2>1, <2>2, <2>3
<1>5. \A r \in Absent : /\ \A p \in Ports : nocIn[p] # r
                        /\ \A i \in DOMAIN bulkQueue : bulkQueue[i] # r
                        /\ \A s \in Allocated : mshrs[s][1] # r
  BY DEF Absent
<1>6. \A r \in Flit : \E p \in Ports : nocIn[p] = r /\ nocIn[p] # None
  BY PortGranted DEF RInv, IInv, Flit
<1>7. \A r \in More : r \in Flit /\ r \in Accepted /\ r \notin ScalarAccepted
  BY DEF More, Accepted, BulkAccepted, ScalarAccepted
<1> DEFINE d == IF BulkDone THEN 1 ELSE 0
<1>8. /\ DOMAIN Rest \subseteq Nat /\ DOMAIN bulkQueue \subseteq Nat
      /\ \A i \in DOMAIN Rest : i + d \in DOMAIN bulkQueue /\ Rest[i] = bulkQueue[i + d]
  BY <1>1 DEF Rest
<1>9. \A i \in DOMAIN bulkQueue' :
           \/ i \in DOMAIN Rest /\ bulkQueue'[i] = Rest[i]
           \/ i \notin DOMAIN Rest /\ bulkQueue'[i] \in More /\ i = Len(Rest) + 1
  BY <1>1
<1>10. \A s \in Allocated' :
           /\ s \in Slots
           /\ \/ s \in NewSlot /\ mshrs'[s] \in NewPart /\ mshrs[s] = None
              \/ s \notin NewSlot /\ s \in Allocated /\ mshrs'[s] = mshrs[s]
  <2>1. Allocated' = {s \in Slots : mshrs'[s] # None}
    BY DEF Allocated
  <2>2. QED  BY <1>2, <2>1 DEF Allocated
<1>11. \A p \in Ports : nocIn[p] # None =>
           /\ \A i \in DOMAIN bulkQueue : bulkQueue[i] # nocIn[p]
           /\ \A s \in Allocated : mshrs[s][1] # nocIn[p]
  BY DEF RInv, Placed, PortsFresh
<1>12. \A i, j \in DOMAIN bulkQueue : bulkQueue[i] = bulkQueue[j] => i = j
  BY DEF RInv, Placed, QueueDistinct
<1>. HIDE DEF d
<1>13. PortsDistinct'
  <2> SUFFICES ASSUME NEW p \in Ports, NEW q \in Ports, nocIn'[p] # None, nocIn'[p] = nocIn'[q]
               PROVE  p = q
    BY DEF PortsDistinct
  <2>1. QED  BY <1>4, <1>5 DEF RInv, Placed, PortsDistinct
<1>14. PortsFresh'
  <2> SUFFICES ASSUME NEW p \in Ports, nocIn'[p] # None
               PROVE  /\ \A i \in DOMAIN bulkQueue' : bulkQueue'[i] # nocIn'[p]
                      /\ \A s \in Allocated' : mshrs'[s][1] # nocIn'[p]
    BY DEF PortsFresh
  <2>1. \A r \in Flit : r = nocIn'[p] => nocIn'[p] = nocIn[p] /\ nocIn[p] \notin Accepted
    BY <1>4, <1>5, <1>6
  <2>2. \A i \in DOMAIN bulkQueue : bulkQueue[i] # nocIn'[p]
    BY <1>4, <1>5, <1>11
  <2>3. \A i \in DOMAIN bulkQueue' : bulkQueue'[i] # nocIn'[p]
    BY <1>7, <1>8, <1>9, <2>1, <2>2
  <2>4. \A x \in NewPart : x[1] # nocIn'[p]
    BY <1>3, <2>1, <2>2
  <2>5. \A s \in Allocated : mshrs[s][1] # nocIn'[p]
    BY <1>4, <1>5, <1>11
  <2>6. QED  BY <1>10, <2>3, <2>4, <2>5
<1>15. QueueDistinct'
  <2>1. \A r \in More, i \in DOMAIN Rest : Rest[i] # r
    BY <1>6, <1>7, <1>8, <1>11
  <2>2. \A i, j \in DOMAIN Rest : Rest[i] = Rest[j] => i = j
    BY <1>8, <1>12 DEF d
  <2>3. QED  BY <1>9, <2>1, <2>2 DEF QueueDistinct
<1>16. LinesAhead'
  <2> SUFFICES ASSUME NEW i \in DOMAIN bulkQueue', NEW s \in Allocated',
                      mshrs'[s][1] = bulkQueue'[i]
               PROVE  i = 1 /\ mshrs'[s][2] < bulkCnt'
    BY DEF LinesAhead
  <2>1. i \in DOMAIN Rest /\ bulkQueue'[i] = Rest[i]
    <3>1. SUFFICES ASSUME bulkQueue'[i] \in More PROVE FALSE
      BY <1>9
    <3>2. PICK p \in Ports : nocIn[p] = bulkQueue'[i] /\ nocIn[p] # None
      BY <1>6, <1>7, <3>1
    <3>3. \A x \in NewPart : x[1] # bulkQueue'[i]
      <4>1. CASE BulkAlloc
        BY <1>3, <3>2, <4>1
      <4>2. CASE ~BulkAlloc
        <5>1. \A x \in NewPart : x[1] \in ScalarAccepted
          BY <4>2, NewLine
        <5>2. QED  BY <1>7, <3>1, <5>1
      <4>3. QED  BY <4>1, <4>2
    <3>4. QED  BY <1>10, <1>11, <3>2, <3>3
  <2>2. CASE s \in NewSlot
    <3>1. PICK x \in NewPart : mshrs'[s] = x
      BY <1>10, <2>2
    <3>2. BulkAlloc /\ x = <<bulkQueue[1], bulkCnt>> /\ 1 \in DOMAIN bulkQueue
      <4>1. SUFFICES ASSUME ~BulkAlloc PROVE FALSE
        BY <1>3
      <4>2. x[1] \in Flit
        BY <1>3, <4>1
      <4>3. QED  BY <1>6, <1>8, <1>11, <2>1, <3>1, <4>2
    <3>3. i + d = 1
      BY <1>8, <1>12, <2>1, <3>1, <3>2
    <3>4. i = 1 /\ ~BulkDone
      BY <1>8, <2>1, <3>3, <1>1 DEF d
    <3>5. bulkCnt' = bulkCnt + 1 /\ bulkCnt \in Nat
      BY <1>1, <3>2, <3>4 DEF Counted, RInv, IInv, TypeOK
    <3>6. QED  BY <3>1, <3>2, <3>4, <3>5
  <2>3. CASE s \notin NewSlot
    <3>1. s \in Allocated /\ mshrs'[s] = mshrs[s]
      BY <1>10, <2>3
    <3>2. i + d = 1 /\ mshrs[s][2] < bulkCnt
      BY <1>8, <2>1, <3>1 DEF RInv, Placed, LinesAhead
    <3>3. i = 1 /\ ~BulkDone
      BY <1>1, <1>8, <2>1, <3>2 DEF d
    <3>4. s \in Slots /\ mshrs[s] # None /\ bulkCnt \in Nat
      BY <1>10, <3>1 DEF Allocated, RInv, IInv, TypeOK
    <3>5. mshrs[s][2] \in Int
      BY <3>4, MemIfAssumption DEF RInv, IInv, TypeOK, Parts
    <3>6. bulkCnt' = bulkCnt \/ bulkCnt' = bulkCnt + 1
      BY <1>1, <3>3 DEF Counted
    <3>7. QED  BY <3>1, <3>2, <3>3, <3>4, <3>5, <3>6
  <2>4. QED  BY <2>2, <2>3
<1>17. MshrsDistinct'
  <2> SUFFICES ASSUME NEW s \in Allocated', NEW t \in Allocated', mshrs'[s] = mshrs'[t]
               PROVE  s = t
    BY DEF MshrsDistinct
  <2>1. QED  BY <1>2, <1>3, <1>10 DEF RInv, Placed, MshrsDistinct
<1>18. QED  BY <1>13, <1>14, <1>15, <1>16, <1>17 DEF Placed

----------------------------------------------------------------------------
(* The lines of a bulk queue that have no MSHR yet *)

LinesFrom(q, c) ==
    UNION {{<<q[i], n>> : n \in (IF i = 1 THEN c ELSE 0) .. Lines[q[i]] - 1} : i \in DOMAIN q}

LEMMA CountLine ==
    ASSUME NEW q \in Seq(Bulks), NEW c \in Nat, q # <<>>, c < Lines[Head(q)]
    PROVE  LinesFrom(q, c) = LinesFrom(q, c + 1) \cup {<<Head(q), c>>}
<1>1. /\ 1 \in DOMAIN q /\ Head(q) = q[1]
      /\ \A i \in DOMAIN q : Lines[q[i]] \in Nat
  BY MemIfAssumption DEF Bulks
<1>2. QED  BY <1>1 DEF LinesFrom

LEMMA CountLast ==
    ASSUME NEW q \in Seq(Bulks), NEW c \in Nat, q # <<>>, c + 1 = Lines[Head(q)]
    PROVE  LinesFrom(q, c + 1) = LinesFrom(Tail(q), 0)
<1>1. /\ Head(q) = q[1]
      /\ DOMAIN q = 1 .. Len(q) /\ Len(q) \in Nat \ {0}
      /\ DOMAIN Tail(q) = 1 .. Len(q) - 1
      /\ \A i \in DOMAIN Tail(q) : Tail(q)[i] = q[i + 1]
  OBVIOUS
<1>2. \A i \in DOMAIN q : Lines[q[i]] \in Nat
  BY MemIfAssumption DEF Bulks
<1>3. ASSUME NEW x \in LinesFrom(q, c + 1) PROVE x \in LinesFrom(Tail(q), 0)
  <2>1. PICK i \in DOMAIN q : x \in {<<q[i], n>> : n \in (IF i = 1 THEN c + 1 ELSE 0) .. Lines[q[i]] - 1}
    BY <1>3 DEF LinesFrom
  <2>2. i # 1
    BY <1>1, <1>2, <2>1
  <2>3. i - 1 \in DOMAIN Tail(q) /\ Tail(q)[i - 1] = q[i]
    BY <1>1, <2>1, <2>2
  <2>4. x \in {<<Tail(q)[i - 1], n>> : n \in (IF i - 1 = 1 THEN 0 ELSE 0) .. Lines[Tail(q)[i - 1]] - 1}
    BY <2>1, <2>2, <2>3
  <2>5. QED  BY <2>3, <2>4 DEF LinesFrom
<1>4. ASSUME NEW x \in LinesFrom(Tail(q), 0) PROVE x \in LinesFrom(q, c + 1)
  <2>1. PICK i \in DOMAIN Tail(q) :
             x \in {<<Tail(q)[i], n>> : n \in (IF i = 1 THEN 0 ELSE 0) .. Lines[Tail(q)[i]] - 1}
    BY <1>4 DEF LinesFrom
  <2>2. i + 1 \in DOMAIN q /\ Tail(q)[i] = q[i + 1] /\ i + 1 # 1
    BY <1>1
  <2>3. x \in {<<q[i + 1], n>> : n \in (IF i + 1 = 1 THEN c + 1 ELSE 0) .. Lines[q[i + 1]] - 1}
    BY <2>1, <2>2
  <2>4. QED  BY <2>2, <2>3 DEF LinesFrom
<1>5. QED  BY <1>3, <1>4

LEMMA AppendLines ==
    ASSUME NEW q \in Seq(Bulks), NEW c \in Nat, NEW r \in Bulks, q = <<>> => c = 0
    PROVE  LinesFrom(Append(q, r), c) = LinesFrom(q, c) \cup Service!LinesOf(r)
<1>1. /\ DOMAIN q = 1 .. Len(q) /\ Len(q) \in Nat
      /\ DOMAIN Append(q, r) = 1 .. Len(q) + 1
      /\ \A i \in DOMAIN q : Append(q, r)[i] = q[i]
      /\ Append(q, r)[Len(q) + 1] = r
  OBVIOUS
<1> DEFINE n == Len(q) + 1
           of(s, i) == {<<s[i], k>> : k \in (IF i = 1 THEN c ELSE 0) .. Lines[s[i]] - 1}
<1>2. of(Append(q, r), n) = Service!LinesOf(r)
  <2>1. (IF n = 1 THEN c ELSE 0) = 0
    BY <1>1
  <2>2. QED  BY <1>1, <2>1 DEF Service!LinesOf
<1>3. \A i \in DOMAIN q : of(Append(q, r), i) = of(q, i)
  BY <1>1
<1>4. LinesFrom(q, c) = UNION {of(q, i) : i \in DOMAIN q}
      /\ LinesFrom(Append(q, r), c) = UNION {of(Append(q, r), i) : i \in DOMAIN Append(q, r)}
  BY DEF LinesFrom
<1>5. DOMAIN Append(q, r) = DOMAIN q \cup {n}
  BY <1>1
<1>. HIDE DEF n, of
<1>6. QED  BY <1>2, <1>3, <1>4, <1>5

----------------------------------------------------------------------------
(* The refinement *)

Owed == {mshrs[s] : s \in Allocated} \cup Unallocated
Read == {mshrs[s] : s \in Done}

\* The lines of the request that is taken in this cycle.
TakenLines == {<<r, 0>> : r \in ScalarAccepted} \cup UNION {Service!LinesOf(r) : r \in More}

\* The lines without an MSHR: one gets it, those of a new bulk request come.
LEMMA BulkLines ==
    ASSUME IInv, NEW arrive, NEW issue, NEW answer, NEW ucst, NEW bcst,
           Cycle(arrive, issue, answer, ucst, bcst)
    PROVE  Unallocated' \cup NewPart = Unallocated \cup TakenLines
<1>1. /\ bulkQueue \in Seq(Bulks) /\ Rest \in Seq(Bulks)
      /\ \/ More = {} /\ bulkQueue' = Rest
         \/ \E r \in Bulks : r \in Flit /\ More = {r} /\ bulkQueue' = Append(Rest, r)
      /\ bulkCnt' = Counted /\ Counted \in Nat
      /\ BulkDone => BulkAlloc
      /\ BulkAlloc => bulkQueue # <<>> /\ bulkCnt < Lines[Head(bulkQueue)]
      /\ Rest = <<>> => Counted = 0
  BY QueueMoves
<1>2. /\ Unallocated = LinesFrom(bulkQueue, bulkCnt)
      /\ Unallocated' = LinesFrom(bulkQueue', bulkCnt')
      /\ bulkCnt \in Nat
  BY DEF Unallocated, LinesFrom, IInv, TypeOK
<1> DEFINE bulkPart == IF BulkAlloc THEN {<<Head(bulkQueue), bulkCnt>>} ELSE {}
           bulkLines == UNION {Service!LinesOf(r) : r \in More}
<1>3. LinesFrom(Rest, Counted) \cup bulkPart = LinesFrom(bulkQueue, bulkCnt)
  <2>1. CASE ~BulkAlloc
    BY <1>1, <2>1 DEF Rest, Counted
  <2>2. CASE BulkAlloc
    <3>1. LinesFrom(bulkQueue, bulkCnt)
            = LinesFrom(bulkQueue, bulkCnt + 1) \cup {<<Head(bulkQueue), bulkCnt>>}
      BY <1>1, <1>2, <2>2, CountLine
    <3>2. BulkDone => LinesFrom(bulkQueue, bulkCnt + 1) = LinesFrom(Tail(bulkQueue), 0)
      BY <1>1, <1>2, CountLast DEF BulkDone
    <3>3. QED  BY <2>2, <3>1, <3>2 DEF Rest, Counted
  <2>3. QED  BY <2>1, <2>2
<1>4. LinesFrom(bulkQueue', bulkCnt') = LinesFrom(Rest, Counted) \cup bulkLines
  <2>1. CASE More = {}
    BY <1>1, <2>1
  <2>2. CASE More # {}
    <3>1. PICK r \in Bulks : More = {r} /\ bulkQueue' = Append(Rest, r)
      BY <1>1, <2>2
    <3>2. LinesFrom(Append(Rest, r), Counted) = LinesFrom(Rest, Counted) \cup Service!LinesOf(r)
      BY <1>1, AppendLines
    <3>3. bulkLines = Service!LinesOf(r)
      BY <3>1
    <3>4. QED  BY <1>1, <3>1, <3>2, <3>3
  <2>3. QED  BY <2>1, <2>2
<1>5. NewPart = {<<r, 0>> : r \in ScalarAccepted} \cup bulkPart
  BY DEF NewPart
<1>6. TakenLines = {<<r, 0>> : r \in ScalarAccepted} \cup bulkLines
  BY DEF TakenLines
<1>. HIDE DEF bulkPart, bulkLines
<1>7. QED  BY <1>2, <1>3, <1>4, <1>5, <1>6

\* What is taken is one request, and none of its lines is owed already.
LEMMA TakenFresh ==
    ASSUME RInv, NEW arrive, NEW issue, NEW answer, NEW ucst, NEW bcst,
           Cycle(arrive, issue, answer, ucst, bcst)
    PROVE  TakenLines \in Service!Taken /\ TakenLines \cap Owed = {}
<1>1. Flit = {} \/ \E p \in Ports : nocIn[p] # None /\ nocIn[p] \in Requests /\ Flit = {nocIn[p]}
  BY PortGranted DEF Flit, RInv, IInv, TypeOK
<1>2. /\ More \subseteq Flit \ Scalars /\ ScalarAccepted \subseteq Flit \cap Scalars
      /\ \A r \in Scalars : Lines[r] = 1
  BY MemIfAssumption DEF More, BulkAccepted, ScalarAccepted
<1>3. CASE ScalarAccepted = {} /\ More = {}
  BY <1>3 DEF TakenLines, Service!Taken
<1>4. ASSUME NEW p \in Ports, nocIn[p] # None, nocIn[p] \in Requests,
             \/ ScalarAccepted = {nocIn[p]} /\ More = {}
             \/ ScalarAccepted = {} /\ More = {nocIn[p]}
      PROVE  TakenLines \in Service!Taken /\ TakenLines \cap Owed = {}
  <2>1. TakenLines = Service!LinesOf(nocIn[p])
    <3>1. CASE ScalarAccepted = {nocIn[p]} /\ More = {}
      <4>1. TakenLines = {<<nocIn[p], 0>>}
        BY <3>1 DEF TakenLines
      <4>2. 0 .. Lines[nocIn[p]] - 1 = {0}
        BY <1>2, <3>1
      <4>3. QED  BY <4>1, <4>2 DEF Service!LinesOf
    <3>2. CASE ScalarAccepted = {} /\ More = {nocIn[p]}
      BY <3>2 DEF TakenLines
    <3>3. QED  BY <1>4, <3>1, <3>2
  <2>2. \A x \in Service!LinesOf(nocIn[p]) : x[1] = nocIn[p]
    BY DEF Service!LinesOf
  <2>3. \A x \in Owed : x[1] # nocIn[p]
    <3>1. \A s \in Allocated : mshrs[s][1] # nocIn[p]
      BY <1>4 DEF RInv, Placed, PortsFresh
    <3>2. \A x \in Unallocated : \E i \in DOMAIN bulkQueue : x[1] = bulkQueue[i]
      BY DEF Unallocated
    <3>3. \A i \in DOMAIN bulkQueue : bulkQueue[i] # nocIn[p]
      BY <1>4 DEF RInv, Placed, PortsFresh
    <3>4. QED  BY <3>1, <3>2, <3>3 DEF Owed
  <2>4. QED  BY <1>4, <2>1, <2>2, <2>3 DEF Service!Taken
<1>5. QED  BY <1>1, <1>2, <1>3, <1>4

\* What is sent leaves, and what the memory answers has been read.
LEMMA CycleLines ==
    ASSUME RInv, NEW issue \in Taken(Issue), NEW ucst \in Taken(Ucst),
           NEW bcst \in Taken(Bcst), NEW answer \in OneOf(Asked \cup issue),
           NEW arrive \in Arrivals, Cycle(arrive, issue, answer, ucst, bcst)
    PROVE  LET sent == {mshrs[s] : s \in ucst \cup bcst}
               got == {mshrs[s] : s \in answer}
           IN  /\ Owed' = (Owed \cup TakenLines) \ sent
               /\ Read' = (Read \ sent) \cup got
               /\ sent \subseteq Read
               /\ got \in {{}} \cup {{x} : x \in Owed \ Read}
               /\ Service!AtMostOne({x \in sent : x[1] \in Scatters})
               /\ Service!AtMostOne({x \in sent : x[1] \notin Scatters})
<1> DEFINE sent == {mshrs[s] : s \in ucst \cup bcst}
           got == {mshrs[s] : s \in answer}
           held == {mshrs[s] : s \in Allocated}
<1>1. /\ issue = {} \/ \E s \in Allocated \ issued : issue = {s}
      /\ ucst = {} \/ \E s \in Done : ~IsScatter(mshrs[s]) /\ ucst = {s}
      /\ bcst = {} \/ \E s \in Done : IsScatter(mshrs[s]) /\ bcst = {s}
      /\ answer = {} \/ \E s \in Asked \cup issue : answer = {s}
  BY Choices DEF RInv
<1>2. /\ \A s \in Slots :
            \/ s \in NewSlot /\ mshrs[s] = None /\ NewPart = {mshrs'[s]} /\ mshrs'[s] \in Parts
            \/ s \notin NewSlot /\ s \in ucst \cup bcst /\ mshrs'[s] = None
            \/ s \notin NewSlot /\ s \notin ucst \cup bcst /\ mshrs'[s] = mshrs[s]
      /\ NewSlot \subseteq Slots /\ (NewSlot = {} <=> NewPart = {})
  BY MshrMoves DEF RInv
<1>3. /\ ucst \cup bcst \subseteq Done /\ Done \subseteq Allocated
      /\ Allocated = {s \in Slots : mshrs[s] # None}
      /\ Allocated' = {s \in Slots : mshrs'[s] # None}
      /\ None \notin Parts
  BY <1>1, MemIfAssumption DEF Done, Allocated
<1>4. \A s, t \in Allocated : mshrs[s] = mshrs[t] => s = t
  BY DEF RInv, Placed, MshrsDistinct
<1>5. /\ answer \subseteq Allocated \ Done
      /\ answer = {} \/ \E s \in Allocated : answer = {s}
  <2>1. /\ Asked \subseteq Allocated \ Done
        /\ Allocated \ issued \subseteq Allocated \ Done
    BY DEF Asked, Done, RInv, IInv, AnswersMatch, AnsweredIssued
  <2>2. QED  BY <1>1, <2>1
<1>6. Allocated' = (Allocated \ (ucst \cup bcst)) \cup NewSlot
  BY <1>2, <1>3
<1>7. {mshrs'[s] : s \in Allocated'} = (held \ sent) \cup NewPart
  <2>1. \A s \in Allocated \ (ucst \cup bcst) : mshrs[s] \notin sent /\ mshrs'[s] = mshrs[s]
    BY <1>2, <1>3, <1>4
  <2>2. \A s \in NewSlot : NewPart = {mshrs'[s]}
    BY <1>2
  <2>3. ASSUME NEW x \in {mshrs'[s] : s \in Allocated'} PROVE x \in (held \ sent) \cup NewPart
    <3>1. PICK s \in Allocated' : x = mshrs'[s]
      BY <2>3
    <3>2. QED  BY <1>6, <2>1, <2>2, <3>1
  <2>4. ASSUME NEW x \in (held \ sent) \cup NewPart PROVE x \in {mshrs'[s] : s \in Allocated'}
    <3>1. CASE x \in held /\ x \notin sent
      BY <1>3, <1>6, <2>1, <3>1
    <3>2. CASE x \in NewPart
      <4>1. PICK s \in NewSlot : TRUE
        BY <1>2, <3>2
      <4>2. QED  BY <1>6, <2>2, <3>2, <4>1
    <3>3. QED  BY <2>4, <3>1, <3>2
  <2>5. QED  BY <2>3, <2>4
<1>8. sent \subseteq held /\ sent \cap TakenLines = {} /\ sent \cap Unallocated = {}
  <2>1. sent \subseteq held
    BY <1>3
  <2>2. held \subseteq Owed
    BY DEF Owed
  <2>3. held \cap TakenLines = {}
    BY <2>2, TakenFresh
  <2>4. held \cap Unallocated = {}
    <3> SUFFICES ASSUME NEW s \in Allocated, NEW i \in DOMAIN bulkQueue,
                        mshrs[s] \in {<<bulkQueue[i], n>> :
                            n \in (IF i = 1 THEN bulkCnt ELSE 0) .. Lines[bulkQueue[i]] - 1}
                 PROVE  FALSE
      BY DEF Unallocated
    <3>1. mshrs[s][1] = bulkQueue[i]
      OBVIOUS
    <3>2. i = 1 /\ mshrs[s][2] < bulkCnt /\ bulkCnt \in Nat
      BY <3>1 DEF RInv, Placed, LinesAhead, IInv, TypeOK
    <3>3. mshrs[s][2] \in bulkCnt .. Lines[bulkQueue[i]] - 1
      BY <3>2
    <3>4. Lines[bulkQueue[i]] \in Nat
      BY MemIfAssumption DEF RInv, IInv, TypeOK
    <3>5. QED  BY <3>2, <3>3, <3>4
  <2>5. QED  BY <2>1, <2>3, <2>4
<1>9. Unallocated' \cup NewPart = Unallocated \cup TakenLines
  BY BulkLines DEF RInv
<1>10. Owed = held \cup Unallocated
       /\ Owed' = {mshrs'[s] : s \in Allocated'} \cup Unallocated'
  BY DEF Owed
<1>11. Done' = (Done \ (ucst \cup bcst)) \cup answer
  <2>1. fulfilled' = (fulfilled \ NewSlot) \cup answer
    BY DEF Cycle, FlagsNext
  <2>2. Done' = {s \in Allocated' : s \in fulfilled'} /\ Done = {s \in Allocated : s \in fulfilled}
    BY DEF Done
  <2>3. NewSlot \cap Allocated = {}
    BY <1>2, <1>3
  <2>4. answer \subseteq Allocated \ (ucst \cup bcst)
    BY <1>3, <1>5
  <2>5. QED  BY <1>6, <2>1, <2>2, <2>3, <2>4
<1>12. Read = {mshrs[s] : s \in Done} /\ Read' = {mshrs'[s] : s \in Done'}
  BY DEF Read
<1>13. \A s \in Allocated \ (ucst \cup bcst) : s \notin NewSlot /\ mshrs'[s] = mshrs[s]
  BY <1>2, <1>3
<1>14. Read' = (Read \ sent) \cup got
  <2>1. \A s \in Done' : mshrs'[s] = mshrs[s]
    BY <1>3, <1>5, <1>11, <1>13
  <2>2. \A s \in Done \ (ucst \cup bcst) : mshrs[s] \notin sent
    BY <1>3, <1>4
  <2>3. ASSUME NEW x \in Read' PROVE x \in (Read \ sent) \cup got
    BY <1>11, <1>12, <2>1, <2>2, <2>3
  <2>4. ASSUME NEW x \in (Read \ sent) \cup got PROVE x \in Read'
    <3>1. PICK s \in Done' : x = mshrs[s]
      BY <1>11, <1>12, <2>4
    <3>2. QED  BY <1>12, <2>1, <3>1
  <2>5. QED  BY <2>3, <2>4
<1>15. sent \subseteq Read
  BY <1>3, <1>12
<1>16. got \in {{}} \cup {{x} : x \in Owed \ Read}
  <2>1. CASE answer = {}
    BY <2>1
  <2>2. CASE answer # {}
    <3>1. PICK s \in Allocated : answer = {s} /\ s \notin Done
      BY <1>5, <2>2
    <3>2. got = {mshrs[s]}
      BY <3>1
    <3>3. mshrs[s] \in Owed /\ mshrs[s] \notin Read
      BY <1>3, <1>4, <1>10, <1>12, <3>1
    <3>4. QED  BY <3>2, <3>3
  <2>3. QED  BY <2>1, <2>2
<1>17. /\ Service!AtMostOne({x \in sent : x[1] \in Scatters})
       /\ Service!AtMostOne({x \in sent : x[1] \notin Scatters})
  <2>1. \A s, t \in ucst \cup bcst : (IsScatter(mshrs[s]) <=> IsScatter(mshrs[t])) => s = t
    BY <1>1
  <2>2. \A x \in sent : \E s \in ucst \cup bcst : x = mshrs[s]
    OBVIOUS
  <2>. HIDE DEF sent
  <2>3. \A x, y \in sent : (x[1] \in Scatters <=> y[1] \in Scatters) => x = y
    BY <2>1, <2>2 DEF IsScatter
  <2>4. QED  BY <2>3 DEF Service!AtMostOne
<1>. HIDE DEF sent, got, held
<1>18. Owed' = (Owed \cup TakenLines) \ sent
  BY <1>7, <1>8, <1>9, <1>10
<1>19. QED  BY <1>14, <1>15, <1>16, <1>17, <1>18 DEF sent, got

LEMMA StepRefined == RInv /\ [Next]_vars => [Service!Next]_<<Owed, Read>>
<1>1. ASSUME RInv, Next PROVE Service!Next
  <2>1. PICK arrive \in Arrivals, issue \in Taken(Issue), ucst \in Taken(Ucst),
             bcst \in Taken(Bcst) :
             \E answer \in OneOf(Asked \cup issue) : Cycle(arrive, issue, answer, ucst, bcst)
    BY <1>1 DEF Next
  <2>2. PICK answer \in OneOf(Asked \cup issue) : Cycle(arrive, issue, answer, ucst, bcst)
    BY <2>1
  <2> DEFINE sent == {mshrs[s] : s \in ucst \cup bcst}
             got == {mshrs[s] : s \in answer}
  <2>3. /\ Owed' = (Owed \cup TakenLines) \ sent
        /\ Read' = (Read \ sent) \cup got
        /\ sent \subseteq Read
        /\ got \in {{}} \cup {{x} : x \in Owed \ Read}
        /\ Service!AtMostOne({x \in sent : x[1] \in Scatters})
        /\ Service!AtMostOne({x \in sent : x[1] \notin Scatters})
    BY <1>1, <2>2, CycleLines
  <2>4. TakenLines \in Service!Taken /\ TakenLines \cap Owed = {}
    BY <1>1, <2>2, TakenFresh
  <2>. HIDE DEF sent, got
  <2>5. QED  BY <2>3, <2>4 DEF Service!Next, Owed, Read
<1>2. ASSUME UNCHANGED vars PROVE UNCHANGED <<Owed, Read>>
  <2>1. Allocated' = Allocated
    BY <1>2 DEF vars, queues, table, lasts, Allocated
  <2>2. Done' = Done /\ Unallocated' = Unallocated
    BY <1>2, <2>1 DEF vars, queues, table, lasts, Done, Unallocated
  <2>3. QED  BY <1>2, <2>1, <2>2 DEF vars, queues, table, lasts, Owed, Read
<1>3. QED  BY <1>1, <1>2

LEMMA PlacedInit == Init => RInv /\ Service!Init
<1> SUFFICES ASSUME Init PROVE RInv /\ Service!Init
  OBVIOUS
<1>1. Allocated = {} /\ DOMAIN bulkQueue = {} /\ \A p \in Ports : nocIn[p] = None
  BY DEF Init, Allocated
<1>2. Placed
  BY <1>1 DEF Placed, PortsDistinct, PortsFresh, QueueDistinct, LinesAhead, MshrsDistinct
<1>3. Service!Init
  BY <1>1 DEF Service!Init, Unallocated, Done
<1>4. QED  BY <1>2, <1>3, InitInv DEF RInv

LEMMA RNextInv == RInv /\ [Next]_vars => RInv'
<1>1. RInv /\ Next => Placed'
  BY CyclePlaced DEF Next
<1>2. RInv /\ UNCHANGED vars => Placed'
  <2>1. UNCHANGED vars => Allocated' = Allocated
    BY DEF vars, queues, table, lasts, Allocated
  <2>2. QED
    BY <2>1
    DEF vars, queues, table, lasts, RInv, Placed, PortsDistinct, PortsFresh,
        QueueDistinct, LinesAhead, MshrsDistinct
<1>3. QED  BY <1>1, <1>2, NextInv DEF RInv

----------------------------------------------------------------------------
(* The simulator's bulk queue is a ring of cells *)

Cells == 0 .. BulkDepth - 1
RingQueue ==
    [head : Cells, tail : Cells, maybeFull : BOOLEAN, data : [Cells -> Requests \cup {None}]]

LEMMA RangeSize == \A n \in Nat \ {0} : S!Cardinality(0 .. n - 1) = n
<1>1. \A n \in Nat \ {0} : Cardinality(0 .. n - 1) = n
  BY FS_Interval
<1>2. \A T : S!Cardinality(T) = Cardinality(T)
  BY DEF S!Cardinality, Cardinality
<1>3. QED  BY <1>1, <1>2

LEMMA RingSize ==
    ASSUME NEW q \in RingQueue
    PROVE  /\ S!Capacity(q) = BulkDepth
           /\ S!QSize(q) \in 0 .. BulkDepth
           /\ S!QEmpty(q) <=> S!QSize(q) = 0
           /\ S!QFull(q) <=> S!QSize(q) = BulkDepth
           /\ q.tail = IF q.head + S!QSize(q) < BulkDepth THEN q.head + S!QSize(q)
                       ELSE q.head + S!QSize(q) - BulkDepth
<1>1. q.head \in Cells /\ q.tail \in Cells /\ DOMAIN q.data = Cells
  BY DEF RingQueue
<1>2. S!Capacity(q) = BulkDepth
  BY <1>1, RangeSize, MemIfAssumption DEF S!Capacity, Cells
<1>3. BulkDepth \in Nat \ {0}
  BY MemIfAssumption
<1>4. CASE q.maybeFull
  <2>1. S!QSize(q) = IF q.head = q.tail THEN BulkDepth
                     ELSE IF q.tail > q.head THEN q.tail - q.head ELSE BulkDepth - q.head + q.tail
    BY <1>2, <1>4 DEF S!QSize
  <2>2. ~S!QEmpty(q) /\ (S!QFull(q) <=> q.head = q.tail)
    BY <1>4 DEF S!QEmpty, S!QFull
  <2>3. S!QSize(q) \in 0 .. BulkDepth
    BY <1>1, <1>3, <2>1 DEF Cells
  <2>5. q.tail = IF q.head + S!QSize(q) < BulkDepth THEN q.head + S!QSize(q)
                 ELSE q.head + S!QSize(q) - BulkDepth
    BY <1>1, <1>3, <2>1 DEF Cells
  <2>4. QED  BY <1>1, <1>2, <1>3, <2>1, <2>2, <2>3, <2>5 DEF Cells
<1>5. CASE ~q.maybeFull
  <2>1. S!QSize(q) = IF q.head = q.tail THEN 0
                     ELSE IF q.tail > q.head THEN q.tail - q.head ELSE BulkDepth - q.head + q.tail
    BY <1>2, <1>5 DEF S!QSize
  <2>2. ~S!QFull(q) /\ (S!QEmpty(q) <=> q.head = q.tail)
    BY <1>5 DEF S!QEmpty, S!QFull
  <2>3. S!QSize(q) \in 0 .. BulkDepth
    BY <1>1, <1>3, <2>1 DEF Cells
  <2>5. q.tail = IF q.head + S!QSize(q) < BulkDepth THEN q.head + S!QSize(q)
                 ELSE q.head + S!QSize(q) - BulkDepth
    BY <1>1, <1>3, <2>1 DEF Cells
  <2>4. QED  BY <1>1, <1>2, <1>3, <2>1, <2>2, <2>3, <2>5 DEF Cells
<1>6. QED  BY <1>4, <1>5

\* The queue holds the members of s, oldest first.
Holding(q, s) ==
    /\ q \in RingQueue /\ s \in Seq(Requests) /\ S!QSize(q) = Len(s)
    /\ \A k \in 1 .. Len(s) : q.data[(q.head + k - 1) % BulkDepth] = s[k]

LEMMA ItemsHeld ==
    ASSUME NEW q, NEW s, Holding(q, s)
    PROVE  /\ S!QItems(q) = s
           /\ S!QEmpty(q) <=> s = <<>>
           /\ S!QFull(q) <=> Len(s) = BulkDepth
           /\ Len(s) <= BulkDepth
<1>1. /\ q \in RingQueue /\ s \in Seq(Requests) /\ S!QSize(q) = Len(s)
      /\ \A k \in 1 .. Len(s) : q.data[(q.head + k - 1) % BulkDepth] = s[k]
  BY DEF Holding
<1>2. /\ S!Capacity(q) = BulkDepth /\ Len(s) \in 0 .. BulkDepth
      /\ S!QEmpty(q) <=> Len(s) = 0
      /\ S!QFull(q) <=> Len(s) = BulkDepth
  BY <1>1, RingSize
<1>3. S!QItems(q) = [k \in 1 .. Len(s) |-> q.data[(q.head + k - 1) % BulkDepth]]
  BY <1>1, <1>2 DEF S!QItems
<1>4. S!QItems(q) = [k \in 1 .. Len(s) |-> s[k]]
  BY <1>1, <1>3
<1>5. s = [k \in 1 .. Len(s) |-> s[k]]
  BY <1>1
<1>6. QED  BY <1>1, <1>2, <1>4, <1>5, MemIfAssumption

LEMMA PushHeld ==
    ASSUME NEW q, NEW s, Holding(q, s), ~S!QFull(q), NEW x \in Requests
    PROVE  Holding(S!QPush(q, x), Append(s, x))
<1> DEFINE p == S!QPush(q, x)
           n == Len(s)
           D == BulkDepth
           cell(k) == (q.head + k - 1) % D
<1>1. /\ q \in RingQueue /\ s \in Seq(Requests) /\ S!QSize(q) = n
      /\ \A k \in 1 .. n : q.data[cell(k)] = s[k]
      /\ q.head \in Cells /\ q.tail \in Cells /\ q.data \in [Cells -> Requests \cup {None}]
  BY DEF Holding, RingQueue
<1>2. D \in Nat \ {0} /\ S!Capacity(q) = D /\ n \in 0 .. D - 1
      /\ q.tail = IF q.head + n < D THEN q.head + n ELSE q.head + n - D
  BY <1>1, RingSize, MemIfAssumption
<1>3. p = [head |-> q.head, tail |-> IF q.tail + 1 = D THEN 0 ELSE q.tail + 1,
           maybeFull |-> TRUE, data |-> [q.data EXCEPT ![q.tail] = x]]
  BY <1>1, <1>2 DEF S!QPush, S!Advance, RingQueue
<1>4. p \in RingQueue
  BY SMTT(30), <1>1, <1>2, <1>3 DEF RingQueue, Cells
<1>5. S!QSize(p) = n + 1
  <2>1. S!Capacity(p) = D
    BY <1>4, RingSize
  <2>2. S!QSize(p) = IF p.head = p.tail THEN D
                     ELSE IF p.tail > p.head THEN p.tail - p.head ELSE D - p.head + p.tail
    BY <1>3, <2>1 DEF S!QSize
  <2>3. p.head = q.head /\ p.tail = IF q.tail + 1 = D THEN 0 ELSE q.tail + 1
    BY <1>3
  <2>. HIDE DEF p, n, D
  <2>4. /\ D \in Nat \ {0} /\ n \in 0 .. D - 1
        /\ q.head \in 0 .. D - 1 /\ q.tail \in 0 .. D - 1
    BY <1>1, <1>2 DEF Cells, D
  <2>5. CASE q.head + n < D
    <3>1. q.tail = q.head + n
      BY <1>2, <2>5
    <3>2. QED  BY <2>2, <2>3, <2>4, <2>5, <3>1
  <2>6. CASE ~(q.head + n < D)
    <3>1. q.tail = q.head + n - D
      BY <1>2, <2>6
    <3>2. QED  BY <2>2, <2>3, <2>4, <2>6, <3>1
  <2>7. QED  BY <2>5, <2>6
<1>6. \A k \in 1 .. D : cell(k) = IF q.head + k - 1 < D THEN q.head + k - 1 ELSE q.head + k - 1 - D
  BY <1>1, <1>2, WrapAround DEF Cells
<1>7. p.head = q.head /\ p.data = [q.data EXCEPT ![q.tail] = x]
  BY <1>3
<1>. HIDE DEF p, n, D, cell
<1>8. \A k \in 1 .. n + 1 : cell(k) \in Cells /\ (cell(k) = q.tail <=> k = n + 1)
  <2> SUFFICES ASSUME NEW k \in 1 .. n + 1
               PROVE  cell(k) \in Cells /\ (cell(k) = q.tail <=> k = n + 1)
    OBVIOUS
  <2>1. cell(k) = IF q.head + k - 1 < D THEN q.head + k - 1 ELSE q.head + k - 1 - D
    BY <1>2, <1>6
  <2>2. QED  BY SMTT(30), <1>1, <1>2, <2>1 DEF Cells, D
<1>9. \A k \in 1 .. n + 1 : p.data[cell(k)] = IF k = n + 1 THEN x ELSE s[k]
  BY <1>1, <1>2, <1>7, <1>8
<1>10. /\ Append(s, x) \in Seq(Requests) /\ Len(Append(s, x)) = n + 1
       /\ \A k \in 1 .. n + 1 : Append(s, x)[k] = IF k = n + 1 THEN x ELSE s[k]
  BY <1>1 DEF n
<1>11. QED  BY <1>4, <1>5, <1>7, <1>9, <1>10 DEF Holding, cell, D, p

LEMMA PopHeld ==
    ASSUME NEW q, NEW s, Holding(q, s), s # <<>>
    PROVE  /\ Holding(S!QPop(q), Tail(s))
           /\ ~S!QFull(S!QPop(q))
           /\ S!QFront(q) = {Head(s)}
<1> DEFINE p == S!QPop(q)
           n == Len(s)
           D == BulkDepth
           cell(k) == (q.head + k - 1) % D
           next(k) == (p.head + k - 1) % D
<1>1. /\ q \in RingQueue /\ s \in Seq(Requests) /\ S!QSize(q) = n
      /\ \A k \in 1 .. n : q.data[cell(k)] = s[k]
      /\ q.head \in Cells /\ q.tail \in Cells /\ q.data \in [Cells -> Requests \cup {None}]
  BY DEF Holding, RingQueue
<1>2. D \in Nat \ {0} /\ S!Capacity(q) = D /\ n \in 1 .. D /\ ~S!QEmpty(q)
      /\ q.tail = IF q.head + n < D THEN q.head + n ELSE q.head + n - D
  BY <1>1, RingSize, MemIfAssumption
<1>3. p = [head |-> IF q.head + 1 = D THEN 0 ELSE q.head + 1, tail |-> q.tail,
           maybeFull |-> FALSE, data |-> [q.data EXCEPT ![q.head] = None]]
  BY <1>1, <1>2 DEF S!QPop, S!Advance, RingQueue
<1>4. p \in RingQueue /\ ~S!QFull(p)
  BY <1>1, <1>2, <1>3 DEF RingQueue, Cells, S!QFull
<1>5. S!QSize(p) = n - 1
  <2>1. S!Capacity(p) = D
    BY <1>4, RingSize
  <2>2. S!QSize(p) = IF p.head = p.tail THEN 0
                     ELSE IF p.tail > p.head THEN p.tail - p.head ELSE D - p.head + p.tail
    BY <1>3, <2>1 DEF S!QSize
  <2>3. p.tail = q.tail /\ p.head = IF q.head + 1 = D THEN 0 ELSE q.head + 1
    BY <1>3
  <2>. HIDE DEF p, n, D
  <2>4. /\ D \in Nat \ {0} /\ n \in 1 .. D
        /\ q.head \in 0 .. D - 1 /\ q.tail \in 0 .. D - 1
    BY <1>1, <1>2 DEF Cells, D
  <2>5. CASE q.head + n < D
    <3>1. q.tail = q.head + n
      BY <1>2, <2>5
    <3>2. QED  BY <2>2, <2>3, <2>4, <2>5, <3>1
  <2>6. CASE ~(q.head + n < D)
    <3>1. q.tail = q.head + n - D
      BY <1>2, <2>6
    <3>2. QED  BY SMTT(30), <2>2, <2>3, <2>4, <2>6, <3>1
  <2>7. QED  BY <2>5, <2>6
<1>6. /\ p.head = IF q.head + 1 = D THEN 0 ELSE q.head + 1
      /\ p.data = [q.data EXCEPT ![q.head] = None]
      /\ p.head \in Cells
  BY <1>3, <1>4 DEF RingQueue
<1>7. \A k \in 1 .. D : cell(k) = IF q.head + k - 1 < D THEN q.head + k - 1 ELSE q.head + k - 1 - D
  BY <1>1, <1>2, WrapAround DEF Cells
<1>8. \A k \in 1 .. D : next(k) = IF p.head + k - 1 < D THEN p.head + k - 1 ELSE p.head + k - 1 - D
  BY <1>2, <1>6, WrapAround DEF Cells
<1>. HIDE DEF p, n, D, cell, next
<1>9. /\ \A k \in 1 .. n : cell(k) \in Cells
      /\ \A k \in 1 .. n - 1 : next(k) = cell(k + 1) /\ next(k) # q.head
      /\ cell(1) = q.head
  <2>1. cell(1) = q.head
    BY <1>1, <1>2, <1>7 DEF Cells, D
  <2>2. ASSUME NEW k \in 1 .. n PROVE cell(k) \in Cells
    <3>1. cell(k) = IF q.head + k - 1 < D THEN q.head + k - 1 ELSE q.head + k - 1 - D
      BY <1>2, <1>7
    <3>2. QED  BY SMTT(30), <1>1, <1>2, <3>1 DEF Cells, D
  <2>3. ASSUME NEW k \in 1 .. n - 1 PROVE next(k) = cell(k + 1) /\ next(k) # q.head
    <3>1. cell(k + 1) = IF q.head + k < D THEN q.head + k ELSE q.head + k - D
      <4>1. k + 1 \in 1 .. D /\ q.head + (k + 1) - 1 = q.head + k
        BY <1>1, <1>2 DEF Cells, D
      <4>2. QED  BY <1>7, <4>1
    <3>2. next(k) = IF p.head + k - 1 < D THEN p.head + k - 1 ELSE p.head + k - 1 - D
      BY <1>2, <1>8
    <3>3. /\ q.head \in Nat /\ q.head < D /\ D \in Nat /\ k \in Nat /\ 1 <= k /\ k < D
      BY <1>1, <1>2 DEF Cells, D
    <3>4. CASE q.head + 1 = D
      BY <1>6, <3>1, <3>2, <3>3, <3>4
    <3>5. CASE q.head + 1 # D
      <4>1. p.head = q.head + 1
        BY <1>6, <3>5
      <4>2. QED  BY SMTT(30), <3>1, <3>2, <3>3, <4>1
    <3>6. QED  BY <3>4, <3>5
  <2>4. QED  BY <2>1, <2>2, <2>3
<1>10. \A k \in 1 .. n - 1 : p.data[next(k)] = s[k + 1]
  BY <1>1, <1>2, <1>6, <1>9
<1>11. /\ Tail(s) \in Seq(Requests) /\ Len(Tail(s)) = n - 1
       /\ \A k \in 1 .. n - 1 : Tail(s)[k] = s[k + 1]
  BY <1>1, <1>2 DEF n
<1>12. S!QFront(q) = {Head(s)}
  <2>1. q.data[q.head] = s[1] /\ Head(s) = s[1]
    BY <1>1, <1>2, <1>9 DEF n
  <2>2. QED  BY <1>2, <2>1 DEF S!QFront
<1>13. Holding(p, Tail(s))
  BY <1>4, <1>5, <1>10, <1>11 DEF Holding, next, D
<1>14. QED  BY <1>4, <1>12, <1>13 DEF p

----------------------------------------------------------------------------
\* The simulator keeps the number after the last grant.
After(last, n) == IF last + 1 = n THEN 0 ELSE last + 1
Turn(arb, slot) == IF slot = {} THEN arb ELSE After(Lowest(slot), Inflight)

Table(m, a, i, f, x, u, b) ==
    [mshrs |-> m, allocated |-> a, issued |-> i, fulfilled |-> f,
     issueArb |-> x, unicastArb |-> u, broadcastArb |-> b]
Cleared(m, slot) == [s \in Slots |-> IF s \in slot THEN None ELSE m[s]]

LEMMA TheOne == \A x : S!The({x}) = x
  BY DEF S!The

IsTable(m) == m = [s \in Slots |-> m[s]]
AtMostOne(slot) == slot = {} \/ \E s \in Slots : slot = {s}
Put(m, slot, new) == [s \in Slots |-> IF s \in slot THEN new ELSE m[s]]
Responses(answer) == {[id |-> s, data |-> S!Fill(0)] : s \in answer}

UnicastLeaves(t, slot) == S!ReturnCommit(t, slot, FALSE)
BroadcastLeaves(t, slot) == S!ReturnCommit(t, slot, TRUE)

LEMMA TableSize ==
    ASSUME NEW t, IsTable(t.mshrs)
    PROVE  S!TableSize(t) = Inflight
<1>1. DOMAIN t.mshrs = 0 .. Inflight - 1
  BY DEF IsTable, Slots
<1>2. QED  BY <1>1, RangeSize, MemIfAssumption DEF S!TableSize

LEMMA TheSlot ==
    ASSUME NEW slot, AtMostOne(slot), slot # {}
    PROVE  /\ S!The(slot) = Lowest(slot) /\ Lowest(slot) \in Slots
           /\ slot = {Lowest(slot)}
           /\ S!ArbCommit(Inflight, S!The(slot)) = After(Lowest(slot), Inflight)
<1>1. PICK n \in Slots : slot = {n} /\ S!The(slot) = n /\ Lowest(slot) = n
  BY TheOne, LowestOfOne, SlotsFinite DEF AtMostOne
<1>2. QED  BY <1>1 DEF S!ArbCommit, After

LEMMA SameTable ==
    ASSUME NEW m, IsTable(m), NEW slot, slot = {}, NEW new
    PROVE  Cleared(m, slot) = m /\ Put(m, slot, new) = m
BY DEF IsTable, Cleared, Put

LEMMA Dealloc ==
    ASSUME NEW m, IsTable(m), NEW a, NEW i, NEW f, NEW x, NEW u, NEW b, NEW slot
    PROVE  S!DeallocCommit(Table(m, a, i, f, x, u, b), slot)
             = Table(Cleared(m, slot), a \ slot, i \ slot, f \ slot, x, u, b)
<1>1. [s \in DOMAIN m |-> IF s \in slot THEN None ELSE m[s]] = Cleared(m, slot)
  BY DEF Cleared, IsTable
<1> DEFINE d == Table(m, a, i, f, x, u, b)
<1>2. /\ d.mshrs = m /\ d.allocated = a /\ d.issued = i /\ d.fulfilled = f
      /\ S!DeallocCommit(d, slot)
           = [d EXCEPT !.mshrs = Cleared(m, slot), !.allocated = a \ slot,
                       !.issued = i \ slot, !.fulfilled = f \ slot]
  BY <1>1 DEF S!DeallocCommit, Table
<1>3. QED  BY <1>2 DEF Table

LEMMA UnicastReturns ==
    ASSUME NEW m, IsTable(m), NEW a, NEW i, NEW f, NEW x, NEW u, NEW b,
           NEW slot, AtMostOne(slot)
    PROVE  UnicastLeaves(Table(m, a, i, f, x, u, b), slot)
             = Table(Cleared(m, slot), a \ slot, i \ slot, f \ slot, x, Turn(u, slot), b)
<1> DEFINE t == Table(m, a, i, f, x, u, b)
<1>1. CASE slot = {}
  BY <1>1, SameTable DEF S!ReturnCommit, UnicastLeaves, BroadcastLeaves, Turn
<1>2. CASE slot # {}
  <2> DEFINE next == Turn(u, slot)
             ut == [t EXCEPT !.unicastArb = next]
  <2>1. S!TableSize(t) = Inflight
    BY TableSize DEF Table
  <2>2. next = S!ArbCommit(S!TableSize(t), S!The(slot))
    BY <1>2, <2>1, TheSlot DEF Turn
  <2>3. t = Table(m, a, i, f, x, u, b)
    OBVIOUS
  <2>. HIDE DEF t, next
  <2>4. ut = Table(m, a, i, f, x, next, b)
    BY <2>3 DEF Table
  <2>5. UnicastLeaves(t, slot) = S!DeallocCommit(ut, slot)
    BY <1>2, <2>2 DEF S!ReturnCommit, UnicastLeaves, BroadcastLeaves
  <2>. HIDE DEF ut
  <2>6. UnicastLeaves(t, slot) = S!DeallocCommit(Table(m, a, i, f, x, next, b), slot)
    BY <2>4, <2>5
  <2>7. UnicastLeaves(t, slot)
          = Table(Cleared(m, slot), a \ slot, i \ slot, f \ slot, x, next, b)
    BY <2>6, Dealloc
  <2>8. QED  BY <2>7 DEF next, t
<1>3. QED  BY <1>1, <1>2

LEMMA BroadcastReturns ==
    ASSUME NEW m, IsTable(m), NEW a, NEW i, NEW f, NEW x, NEW u, NEW b,
           NEW slot, AtMostOne(slot)
    PROVE  BroadcastLeaves(Table(m, a, i, f, x, u, b), slot)
             = Table(Cleared(m, slot), a \ slot, i \ slot, f \ slot, x, u, Turn(b, slot))
<1> DEFINE t == Table(m, a, i, f, x, u, b)
<1>1. CASE slot = {}
  BY <1>1, SameTable DEF S!ReturnCommit, UnicastLeaves, BroadcastLeaves, Turn
<1>2. CASE slot # {}
  <2> DEFINE next == Turn(b, slot)
             bt == [t EXCEPT !.broadcastArb = next]
  <2>1. S!TableSize(t) = Inflight
    BY TableSize DEF Table
  <2>2. next = S!ArbCommit(S!TableSize(t), S!The(slot))
    BY <1>2, <2>1, TheSlot DEF Turn
  <2>3. t = Table(m, a, i, f, x, u, b)
    OBVIOUS
  <2>. HIDE DEF t, next
  <2>4. bt = Table(m, a, i, f, x, u, next)
    BY <2>3 DEF Table
  <2>5. BroadcastLeaves(t, slot) = S!DeallocCommit(bt, slot)
    BY <1>2, <2>2 DEF S!ReturnCommit, UnicastLeaves, BroadcastLeaves
  <2>. HIDE DEF bt
  <2>6. BroadcastLeaves(t, slot) = S!DeallocCommit(Table(m, a, i, f, x, u, next), slot)
    BY <2>4, <2>5
  <2>7. BroadcastLeaves(t, slot)
          = Table(Cleared(m, slot), a \ slot, i \ slot, f \ slot, x, u, next)
    BY <2>6, Dealloc
  <2>8. QED  BY <2>7 DEF next, t
<1>3. QED  BY <1>1, <1>2

LEMMA RequestLeaves ==
    ASSUME NEW m, IsTable(m), NEW a, NEW i, NEW f, NEW x, NEW u, NEW b,
           NEW slot, AtMostOne(slot)
    PROVE  S!ReqCommit(Table(m, a, i, f, x, u, b), slot)
             = Table(m, a, i \cup slot, f, Turn(x, slot), u, b)
<1> DEFINE t == Table(m, a, i, f, x, u, b)
<1>1. CASE slot = {}
  BY <1>1 DEF S!ReqCommit, Turn
<1>2. CASE slot # {}
  <2> DEFINE next == Turn(x, slot)
             set == i \cup slot
  <2>1. S!TableSize(t) = Inflight
    BY TableSize DEF Table
  <2>2. next = S!ArbCommit(S!TableSize(t), S!The(slot))
    BY <1>2, <2>1, TheSlot DEF Turn
  <2>3. t = Table(m, a, i, f, x, u, b) /\ t.issued = i
    BY DEF Table
  <2>. HIDE DEF t, next
  <2> DEFINE r == S!ReqCommit(t, slot)
  <2>4. r = [t EXCEPT !.issued = set, !.issueArb = next]
    BY <1>2, <2>2, <2>3 DEF S!ReqCommit
  <2>. HIDE DEF set, r
  <2>5. r = Table(m, a, set, f, next, u, b)
    BY <2>3, <2>4 DEF Table
  <2>6. QED  BY <2>5 DEF next, set, r, t
<1>3. QED  BY <1>1, <1>2

LEMMA SlotFilled ==
    ASSUME NEW m, IsTable(m), NEW a, NEW i, NEW f, NEW x, NEW u, NEW b,
           NEW slot, AtMostOne(slot), NEW new
    PROVE  S!AllocCommit(Table(m, a, i, f, x, u, b), slot, new)
             = Table(Put(m, slot, new), a \cup slot, i \ slot, f \ slot, x, u, b)
<1> DEFINE t == Table(m, a, i, f, x, u, b)
<1>1. CASE slot = {}
  BY <1>1, SameTable DEF S!AllocCommit
<1>2. CASE slot # {}
  <2> DEFINE put == Put(m, slot, new)
             as == a \cup slot
             is == i \ slot
             fs == f \ slot
  <2>1. [m EXCEPT ![S!The(slot)] = new] = put
    BY <1>2, TheSlot DEF IsTable, Put
  <2>2. /\ t = Table(m, a, i, f, x, u, b)
        /\ t.mshrs = m /\ t.allocated = a /\ t.issued = i /\ t.fulfilled = f
    BY DEF Table
  <2>. HIDE DEF t, put
  <2> DEFINE r == S!AllocCommit(t, slot, new)
  <2>3. r = [t EXCEPT !.mshrs = put, !.allocated = as, !.issued = is, !.fulfilled = fs]
    BY <1>2, <2>1, <2>2 DEF S!AllocCommit
  <2>. HIDE DEF as, is, fs, r
  <2>4. r = Table(put, as, is, fs, x, u, b)
    BY <2>2, <2>3 DEF Table
  <2>5. QED  BY <2>4 DEF put, as, is, fs, r, t
<1>3. QED  BY <1>1, <1>2


\* Without priorities the simulator's arbiter is the round robin.
LEMMA SoftPicks ==
    ASSUME NEW last \in Slots, NEW T \in SUBSET Slots, NEW t, S!TableSize(t) = Inflight
    PROVE  S!First(t, After(last, Inflight), T) = Pick(last, T)
<1> DEFINE n == Inflight
           next == After(last, n)
           zero == [s \in T |-> 0]
<1>1. S!First(t, next, T) = S!ArbPeek(n, next, zero)
  BY DEF S!First
<1>2. DOMAIN zero = T /\ \A s \in T : zero[s] = 0
  OBVIOUS
<1>. HIDE DEF zero, next
<1>3. S!ArbPeek(n, next, zero) = {s \in T : \A j \in T : (s - next) % n <= (j - next) % n}
  BY <1>2 DEF S!ArbPeek
<1>4. CASE T = {}
  BY <1>1, <1>3, <1>4 DEF Pick, next
<1>5. CASE T # {}
  <2>1. n \in Nat \ {0} /\ last \in 0 .. n - 1 /\ T \in SUBSET Nat /\ \A s \in T : s < n
    BY MemIfAssumption DEF Slots
  <2>2. next = IF last + 1 = n THEN 0 ELSE last + 1
    BY DEF next, After
  <2>. HIDE DEF n
  <2>3. /\ RoundRobin(last, T) \in T
        /\ \A s \in T : (\A j \in T : (s - next) % n <= (j - next) % n)
                          <=> s = RoundRobin(last, T)
    BY <1>5, <2>1, <2>2, FirstInTurn
  <2>4. {s \in T : \A j \in T : (s - next) % n <= (j - next) % n} = {RoundRobin(last, T)}
    BY <2>3
  <2>5. QED  BY <1>1, <1>3, <1>5, <2>4 DEF Pick, next, n
<1>6. QED  BY <1>4, <1>5

\* With priorities it is the arbiter in front of the interface.
LEMMA SoftGrants ==
    ASSUME TypeOK
    PROVE  LET wants == {p \in Ports : nocIn[p] # None}
           IN  S!ArbPeek(NumPorts, After(lastGrant, NumPorts), [p \in wants |-> Prio[nocIn[p]]])
                 = Granted
<1> DEFINE wants == {p \in Ports : nocIn[p] # None}
           urgency == [p \in wants |-> Prio[nocIn[p]]]
           valid == [p \in Ports |-> IF nocIn[p] = None THEN 0 ELSE Prio[nocIn[p]]]
           n == NumPorts
           next == After(lastGrant, n)
           T == Candidates(wants, valid)
           turn(i) == (i - next) % n
<1>1. /\ DOMAIN urgency = wants
      /\ \A p \in wants : urgency[p] = valid[p] /\ urgency[p] \in Nat
  BY MemIfAssumption DEF TypeOK
<1>2. /\ n \in Nat \ {0} /\ lastGrant \in 0 .. n - 1 /\ wants \in SUBSET Nat
      /\ \A p \in wants : p < n
  BY MemIfAssumption DEF TypeOK, Ports
<1>3. T = {i \in wants : \A j \in wants : urgency[i] <= urgency[j]}
  BY <1>1 DEF Candidates
<1>4. Granted = IF wants = {} THEN {} ELSE {RoundRobin(lastGrant, T)}
  BY DEF Granted, Grant
<1>. HIDE DEF urgency, wants
<1>5. wants # {} => T # {}
  <2> DEFINE best == {urgency[p] : p \in wants}
  <2>1. SUFFICES ASSUME wants # {} PROVE T # {}
    OBVIOUS
  <2>2. best \in SUBSET Nat /\ best # {}
    <3>1. \A p \in wants : urgency[p] \in Nat
      BY <1>1
    <3>. HIDE DEF urgency, wants
    <3>2. QED  BY <2>1, <3>1
  <2>3. Lowest(best) \in best /\ \A m \in best : Lowest(best) <= m
    BY <2>2, LeastMember
  <2>4. PICK p \in wants : urgency[p] = Lowest(best)
    BY <2>3
  <2>5. \A q \in wants : urgency[q] \in best
    OBVIOUS
  <2>. HIDE DEF best
  <2>6. QED  BY <1>3, <2>3, <2>4, <2>5
<1>. HIDE DEF wants, urgency, valid, next, T
<1>6. S!ArbPeek(n, next, urgency)
        = {i \in wants : \A j \in wants : \/ urgency[i] < urgency[j]
                                          \/ urgency[i] = urgency[j] /\ turn(i) <= turn(j)}
  BY <1>1 DEF S!ArbPeek
<1>7. CASE wants = {}
  BY <1>4, <1>6, <1>7 DEF wants, urgency, next
<1>8. CASE wants # {}
  <2>1. T \in SUBSET Nat /\ \A i \in T : i < n
    BY <1>2, <1>3
  <2>2. {i \in T : \A j \in T : turn(i) <= turn(j)} = {RoundRobin(lastGrant, T)}
    <3>1. next = IF lastGrant + 1 = n THEN 0 ELSE lastGrant + 1
      BY DEF next, After
    <3>3. T # {} /\ n \in Nat \ {0} /\ lastGrant \in 0 .. n - 1
      BY <1>2, <1>5, <1>8
    <3>. HIDE DEF n
    <3>2. /\ RoundRobin(lastGrant, T) \in T
          /\ \A i \in T : (\A j \in T : (i - next) % n <= (j - next) % n)
                            <=> i = RoundRobin(lastGrant, T)
      BY <2>1, <3>1, <3>3, FirstInTurn
    <3>4. QED  BY <3>2
  <2>3. {i \in wants : \A j \in wants : \/ urgency[i] < urgency[j]
                                        \/ urgency[i] = urgency[j] /\ turn(i) <= turn(j)}
          = {i \in T : \A j \in T : turn(i) <= turn(j)}
    <3>. HIDE DEF turn
    <3>1. PICK m \in T : TRUE
      BY <1>5, <1>8
    <3>2. ASSUME NEW i \in wants,
                 \A j \in wants : \/ urgency[i] < urgency[j]
                                  \/ urgency[i] = urgency[j] /\ turn(i) <= turn(j)
          PROVE  i \in T /\ \A j \in T : turn(i) <= turn(j)
      <4>1. \A j \in wants : urgency[i] <= urgency[j]
        BY <1>1, <3>2
      <4>2. i \in T
        BY <1>3, <4>1
      <4>3. \A j \in T : j \in wants /\ urgency[j] <= urgency[i]
        BY <1>3
      <4>4. QED  BY <1>1, <3>2, <4>2, <4>3
    <3>3. ASSUME NEW i \in T, \A j \in T : turn(i) <= turn(j), NEW j \in wants
          PROVE  i \in wants /\ ( \/ urgency[i] < urgency[j]
                                  \/ urgency[i] = urgency[j] /\ turn(i) <= turn(j))
      <4>1. i \in wants /\ urgency[i] <= urgency[j]
        BY <1>3
      <4>2. urgency[i] = urgency[j] => j \in T
        BY <1>3
      <4>3. QED  BY <1>1, <3>3, <4>1, <4>2
    <3>4. T \subseteq wants
      BY <1>3
    <3>5. QED  BY <3>1, <3>2, <3>3, <3>4
  <2>4. QED  BY <1>4, <1>6, <1>8, <2>2, <2>3 DEF wants, urgency, next
<1>9. QED  BY <1>7, <1>8 DEF wants

----------------------------------------------------------------------------
\* The MSHR of the simulator for a line.
SoftMshr(x) ==
    IF x = None THEN None
    ELSE [addr |-> x[2], src |-> IF IsScatter(x) THEN 0 ELSE Port[x[1]] + 1, id |-> x[1],
          rwdata |-> S!Fill(0),
          carried |-> IF IsScatter(x) \/ x[1] \in Scalars THEN 0 ELSE x[2],
          size |-> 1, write |-> FALSE]
SoftMshrs == [s \in Slots |-> SoftMshr(mshrs[s])]

\* The simulator keeps no flag of an MSHR that is not allocated.
Mirror ==
    /\ soft.table = Table(SoftMshrs, Allocated, issued \cap Allocated, fulfilled \cap Allocated,
                          After(issueLast, Inflight), After(ucstLast, Inflight),
                          After(bcstLast, Inflight))
    /\ Holding(soft.bulk.queue, bulkQueue)
    /\ soft.bulk.count = bulkCnt /\ soft.bulk.inflight = bcstInflight
    /\ soft.reqArb = After(lastGrant, NumPorts)

CosimInv == IInv /\ Mirror

LEMMA FlitKinds ==
    \A r \in Requests :
        /\ S!IsScalar(r) <=> r \in Scalars
        /\ S!IsBulk(r) <=> r \notin Scalars
        /\ ~S!IsIdle(r)
        /\ FlitOf[r].count = Lines[r]
        /\ FlitOf[r].kind = "scatter" <=> r \in Scatters
<1> SUFFICES ASSUME NEW r \in Requests
             PROVE  /\ S!IsScalar(r) <=> r \in Scalars
                    /\ S!IsBulk(r) <=> r \notin Scalars
                    /\ ~S!IsIdle(r)
                    /\ FlitOf[r].count = Lines[r]
                    /\ FlitOf[r].kind = "scatter" <=> r \in Scatters
  OBVIOUS
<1>1. FlitOf[r].kind = KindOf(r) /\ FlitOf[r].count = Lines[r]
  BY DEF FlitOf
<1>2. /\ KindOf(r) = "scatter" <=> r \in Scatters
      /\ KindOf(r) = "load" <=> r \in Scalars
      /\ KindOf(r) = "bulk" <=> r \notin Scalars /\ r \notin Scatters
      /\ KindOf(r) \in {"scatter", "load", "bulk"}
      /\ r \in Scatters => r \notin Scalars
  BY MemIfAssumption DEF KindOf
<1>3. QED  BY <1>1, <1>2 DEF S!IsScalar, S!IsBulk, S!IsIdle

LEMMA SameLowest == \A T : S!Lowest(T) = Lowest(T)
  BY DEF S!Lowest, Lowest

\* The MSHRs that the simulator makes of a request are those of its lines.
LEMMA SoftLines ==
    ASSUME NEW r \in Requests, NEW n \in Nat
    PROVE  /\ r \in Scalars => S!FromScalarFlit(r) = SoftMshr(<<r, 0>>)
           /\ r \notin Scalars /\ <<r, n>> \in Parts => S!Dispatch(r, n) = SoftMshr(<<r, n>>)
<1>1. /\ FlitOf[r].kind = KindOf(r) /\ FlitOf[r].src = Port[r] + 1 /\ FlitOf[r].id = r
      /\ FlitOf[r].addr = 0 /\ FlitOf[r].size = 1 /\ FlitOf[r].data = 0
  BY DEF FlitOf
<1>2. KindOf(r) # "store" /\ (KindOf(r) = "scatter" <=> r \in Scatters)
  BY MemIfAssumption DEF KindOf
<1>3. ASSUME r \in Scalars PROVE S!FromScalarFlit(r) = SoftMshr(<<r, 0>>)
  <2>1. <<r, 0>> \in Parts /\ r \notin Scatters
    BY <1>3, MemIfAssumption DEF Parts
  <2>2. <<r, 0>> # None
    BY <2>1, MemIfAssumption
  <2>3. QED  BY <1>1, <1>2, <1>3, <2>1, <2>2 DEF S!FromScalarFlit, SoftMshr, IsScatter
<1>4. ASSUME r \notin Scalars, <<r, n>> \in Parts PROVE S!Dispatch(r, n) = SoftMshr(<<r, n>>)
  <2>1. <<r, n>> # None
    BY <1>4, MemIfAssumption
  <2>2. 0 + n * 1 = n
    OBVIOUS
  <2>3. QED  BY <1>1, <1>2, <1>4, <2>1, <2>2 DEF S!Dispatch, SoftMshr, IsScatter
<1>5. QED  BY <1>3, <1>4

\* The simulator chooses the same slots before the edge.
LEMMA SoftChoices ==
    ASSUME CosimInv
    PROVE  /\ S!ReqSlot(soft.table) = Issue
           /\ S!ReturnSlot(soft.table, FALSE) = Ucst
           /\ S!ReturnSlot(soft.table, TRUE) = Bcst
           /\ S!AllocSlot(soft.table) = IF Free = {} THEN {} ELSE {Lowest(Free)}
           /\ \A s \in Allocated : /\ mshrs[s] \in Parts /\ mshrs[s] # None
                                   /\ soft.table.mshrs[s] = SoftMshr(mshrs[s])
                                   /\ S!IsBroadcast(soft.table, s) <=> IsScatter(mshrs[s])
<1> DEFINE t == soft.table
<1>1. /\ t.mshrs = SoftMshrs /\ t.allocated = Allocated /\ t.issued = issued \cap Allocated
      /\ t.fulfilled = fulfilled \cap Allocated
      /\ t.issueArb = After(issueLast, Inflight) /\ t.unicastArb = After(ucstLast, Inflight)
      /\ t.broadcastArb = After(bcstLast, Inflight)
  BY DEF CosimInv, Mirror, Table
<1>2. S!TableSize(t) = Inflight
  <2>1. DOMAIN t.mshrs = 0 .. Inflight - 1
    BY <1>1 DEF SoftMshrs, Slots
  <2>2. QED  BY <2>1, RangeSize, MemIfAssumption DEF S!TableSize
<1>3. /\ issueLast \in Slots /\ ucstLast \in Slots /\ bcstLast \in Slots
      /\ Allocated \subseteq Slots /\ Done \subseteq Slots
      /\ \A s \in Allocated : mshrs[s] \in Parts /\ mshrs[s] # None
  BY DEF CosimInv, IInv, TypeOK, Allocated, Done
<1>4. \A s \in Allocated : t.mshrs[s] = SoftMshr(mshrs[s])
  BY <1>1, <1>3 DEF SoftMshrs
<1>5. \A s \in Allocated : S!IsBroadcast(t, s) <=> IsScatter(mshrs[s])
  <2> SUFFICES ASSUME NEW s \in Allocated
               PROVE  S!IsBroadcast(t, s) <=> IsScatter(mshrs[s])
    OBVIOUS
  <2>1. PICK r \in Requests, n \in Int : mshrs[s] = <<r, n>>
    BY <1>3, MemIfAssumption DEF Parts
  <2>2. Port[r] \in Nat
    BY MemIfAssumption, SlotsFinite
  <2>3. t.mshrs[s].src = IF IsScatter(mshrs[s]) THEN 0 ELSE Port[r] + 1
    <3>1. t.mshrs[s] = SoftMshr(mshrs[s]) /\ mshrs[s] # None /\ mshrs[s][1] = r
      BY <1>3, <1>4, <2>1
    <3>. HIDE DEF t
    <3>2. QED  BY <3>1 DEF SoftMshr
  <2>4. QED  BY <2>2, <2>3 DEF S!IsBroadcast
<1>. HIDE DEF t
<1>6. S!ReqSlot(t) = Issue
  <2>1. t.allocated \ t.issued = Allocated \ issued
    BY <1>1
  <2>2. QED  BY <1>1, <1>2, <1>3, <2>1, SoftPicks DEF S!ReqSlot, Issue
<1>7. S!ReturnSlot(t, FALSE) = Ucst
  <2>1. {s \in t.allocated \cap t.fulfilled : S!IsBroadcast(t, s) = FALSE}
          = {s \in Done : ~IsScatter(mshrs[s])}
    BY <1>1, <1>5 DEF Done
  <2>2. QED  BY <1>1, <1>2, <1>3, <2>1, SoftPicks DEF S!ReturnSlot, Ucst
<1>8. S!ReturnSlot(t, TRUE) = Bcst
  <2>1. {s \in t.allocated \cap t.fulfilled : S!IsBroadcast(t, s) = TRUE}
          = {s \in Done : IsScatter(mshrs[s])}
    BY <1>1, <1>5 DEF Done
  <2>2. QED  BY <1>1, <1>2, <1>3, <2>1, SoftPicks DEF S!ReturnSlot, Bcst
<1>9. S!AllocSlot(t) = IF Free = {} THEN {} ELSE {Lowest(Free)}
  <2>1. DOMAIN t.mshrs \ t.allocated = Free
    BY <1>1 DEF SoftMshrs, Free
  <2>2. QED  BY <2>1, SameLowest DEF S!AllocSlot
<1>10. QED  BY <1>3, <1>4, <1>5, <1>6, <1>7, <1>8, <1>9 DEF t

LEMMA SoftRequests ==
    ASSUME CosimInv
    PROVE  /\ SoftPort = {p \in Granted : nocIn[p] \in Accepted}
           /\ {nocIn[p] : p \in SoftPort} = Accepted
           /\ S!BulkAlloc(soft.table, soft.bulk, Accepted) <=> BulkAlloc
           /\ bulkQueue # <<>> => S!The(S!QFront(soft.bulk.queue)) = Head(bulkQueue)
           /\ ~S!QFull(soft.bulk.queue) <=> Len(bulkQueue) < BulkDepth
           /\ Accepted = {} \/ \E r \in Requests : Accepted = {r} /\ Flit = {r}
<1>1. /\ Holding(soft.bulk.queue, bulkQueue)
      /\ soft.bulk.inflight = bcstInflight /\ soft.reqArb = After(lastGrant, NumPorts)
      /\ TypeOK
  BY DEF CosimInv, Mirror, IInv
<1>2. /\ S!QEmpty(soft.bulk.queue) <=> bulkQueue = <<>>
      /\ S!QFull(soft.bulk.queue) <=> Len(bulkQueue) = BulkDepth
      /\ Len(bulkQueue) <= BulkDepth
      /\ bulkQueue # <<>> => /\ S!QFront(soft.bulk.queue) = {Head(bulkQueue)}
                             /\ S!The(S!QFront(soft.bulk.queue)) = Head(bulkQueue)
  BY <1>1, ItemsHeld, PopHeld, TheOne
<1>3. Len(bulkQueue) \in Nat /\ BulkDepth \in Nat /\ (bulkQueue # <<>> => Head(bulkQueue) \in Requests)
  BY <1>1, MemIfAssumption DEF TypeOK
<1>4. ~S!QFull(soft.bulk.queue) <=> Len(bulkQueue) < BulkDepth
  BY <1>2, <1>3
<1>5. Granted = {} \/ \E p \in Ports : /\ nocIn[p] # None /\ nocIn[p] \in Requests
                                       /\ Granted = {p} /\ Flit = {nocIn[p]}
  BY <1>1, PortGranted DEF TypeOK
<1>6. Granted = {} => Flit = {}
  BY DEF Flit
<1>7. S!AllocSlot(soft.table) # {} <=> Free # {}
  BY SoftChoices
<1> DEFINE acceptable == {f \in Requests : S!NocCanAccept(soft.table, soft.bulk, S!ResetIdle, f)}
<1>8. \A f \in Flit : f \in acceptable <=> f \in Accepted
  <2> SUFFICES ASSUME NEW f \in Flit PROVE f \in acceptable <=> f \in Accepted
    OBVIOUS
  <2>1. f \in Requests
    BY <1>5, <1>6
  <2>2. f \in acceptable <=> \/ f \notin Scalars /\ (Lines[f] = 0 \/ ~S!QFull(soft.bulk.queue))
                             \/ f \in Scalars /\ S!AllocSlot(soft.table) # {}
    BY <2>1, FlitKinds DEF S!NocCanAccept
  <2>3. f \in Accepted <=> \/ f \in Scalars /\ Free # {}
                           \/ f \notin Scalars /\ (Lines[f] = 0 \/ Len(bulkQueue) < BulkDepth)
    BY DEF Accepted, ScalarAccepted, BulkAccepted
  <2>4. QED  BY <1>4, <1>7, <2>2, <2>3
<1>9. SoftPort = {p \in Granted : nocIn[p] \in acceptable}
  <2>1. DOMAIN nocIn = Ports /\ S!Cardinality(Ports) = NumPorts
    BY <1>1, RangeSize, MemIfAssumption DEF TypeOK, Ports
  <2> DEFINE wants == {p \in Ports : nocIn[p] # None}
  <2>2. S!ArbPeek(NumPorts, soft.reqArb, [p \in wants |-> Prio[nocIn[p]]]) = Granted
    BY <1>1, SoftGrants
  <2>. HIDE DEF acceptable
  <2>3. S!NocAcceptMultiple(soft.reqArb, nocIn, acceptable) = {p \in Granted : nocIn[p] \in acceptable}
    BY <2>1, <2>2 DEF S!NocAcceptMultiple
  <2>4. QED  BY <2>3 DEF SoftPort, acceptable
<1>. HIDE DEF acceptable
<1>10. SoftPort = {p \in Granted : nocIn[p] \in Accepted}
  BY <1>5, <1>8, <1>9
<1>11. Accepted \subseteq Flit
  BY DEF Accepted, ScalarAccepted, BulkAccepted
<1>12. {nocIn[p] : p \in SoftPort} = Accepted
  BY <1>5, <1>6, <1>10, <1>11
<1>13. Accepted = {} \/ \E r \in Requests : Accepted = {r} /\ Flit = {r}
  BY <1>5, <1>6, <1>11
<1>14. S!BulkAlloc(soft.table, soft.bulk, Accepted) <=> BulkAlloc
  <2>1. S!BroadcastBlocked(soft.bulk)
          <=> bcstInflight = BcstBound /\ bulkQueue # <<>> /\ Head(bulkQueue) \in Scatters
    BY <1>1, <1>2, <1>3, FlitKinds DEF S!BroadcastBlocked, S!QFront
  <2>2. (\A f \in Accepted : ~S!IsScalar(f)) <=> Accepted \cap Scalars = {}
    BY <1>13, FlitKinds
  <2>3. Free # {} => (Accepted \cap Scalars = {} <=> Flit \cap Scalars = {})
    BY DEF Accepted, ScalarAccepted, BulkAccepted
  <2>4. QED  BY <1>2, <1>7, <2>1, <2>2, <2>3 DEF S!BulkAlloc, BulkAlloc, BcstBlocked
<1>15. QED  BY <1>2, <1>4, <1>10, <1>12, <1>13, <1>14

\* After a cycle: the invariant is what the run checks.
LEMMA MirrorAgrees == CosimInv => MemIfsAgree
<1> SUFFICES ASSUME CosimInv PROVE MemIfsAgree
  OBVIOUS
<1>1. MshrsAgree
  <2>1. \A s \in Allocated :
           <<soft.table.mshrs[s].id, soft.table.mshrs[s].addr>> = mshrs[s]
    <3> SUFFICES ASSUME NEW s \in Allocated
                 PROVE  <<soft.table.mshrs[s].id, soft.table.mshrs[s].addr>> = mshrs[s]
      OBVIOUS
    <3>1. mshrs[s] \in Parts /\ mshrs[s] # None /\ soft.table.mshrs[s] = SoftMshr(mshrs[s])
      BY SoftChoices
    <3>2. PICK r \in Requests, n \in Int : mshrs[s] = <<r, n>>
      BY <3>1, MemIfAssumption DEF Parts
    <3>3. soft.table.mshrs[s].id = mshrs[s][1] /\ soft.table.mshrs[s].addr = mshrs[s][2]
      BY <3>1 DEF SoftMshr
    <3>4. QED  BY <3>2, <3>3
  <2>2. /\ soft.table.allocated = Allocated /\ soft.table.issued = issued \cap Allocated
        /\ soft.table.fulfilled = fulfilled \cap Allocated
    BY DEF CosimInv, Mirror, Table
  <2>3. QED  BY <2>1, <2>2, SoftChoices DEF MshrsAgree
<1>2. BulkAgrees
  BY ItemsHeld DEF CosimInv, Mirror, BulkAgrees
<1>3. PortAgrees
  BY SoftRequests DEF PortAgrees
<1>4. QED  BY <1>1, <1>2, <1>3 DEF MemIfsAgree

----------------------------------------------------------------------------
(* The simulator's cycle *)

\* An answer changes nothing but the flag: the data are those of the request.
LEMMA SameData == \A y : SoftMshr(y) # None => [SoftMshr(y) EXCEPT !.rwdata = S!Fill(0)] = SoftMshr(y)
<1> SUFFICES ASSUME NEW y, SoftMshr(y) # None
             PROVE  [SoftMshr(y) EXCEPT !.rwdata = S!Fill(0)] = SoftMshr(y)
  OBVIOUS
<1> DEFINE src == IF IsScatter(y) THEN 0 ELSE Port[y[1]] + 1
           carried == IF IsScatter(y) \/ y[1] \in Scalars THEN 0 ELSE y[2]
           data == S!Fill(0)
           one == 1
           no == FALSE
           r == SoftMshr(y)
           same == [r EXCEPT !.rwdata = data]
<1>1. r = [addr |-> y[2], src |-> src, id |-> y[1], rwdata |-> data,
           carried |-> carried, size |-> one, write |-> no]
  BY DEF SoftMshr
<1>2. same = [r EXCEPT !.rwdata = data]
  OBVIOUS
<1>. HIDE DEF r, src, carried, data, one, no, same
<1>3. same = r
  BY <1>1, <1>2
<1>4. QED  BY <1>3 DEF r, data, same

LEMMA AnswerCommit ==
    ASSUME NEW m, IsTable(m),
           NEW a, NEW i, NEW f, NEW x, NEW u, NEW b,
           NEW answer, AtMostOne(answer), \A s \in answer : \E y : m[s] = SoftMshr(y)
    PROVE  S!RespAccept(Table(m, a, i, f, x, u, b), Responses(answer))
             = Table(m, a, i, f \cup answer, x, u, b)
<1> DEFINE t == Table(m, a, i, f, x, u, b)
           resp == Responses(answer)
<1>1. CASE answer = {}
  <2>1. resp = {} /\ f \cup answer = f
    BY <1>1 DEF Responses
  <2>. HIDE DEF resp
  <2>2. S!RespAccept(t, resp) = t
    BY <2>1 DEF S!RespAccept
  <2>3. QED  BY <2>1, <2>2 DEF resp
<1>2. CASE answer # {}
  <2>1. PICK n \in Slots : answer = {n} /\ \E y : m[n] = SoftMshr(y)
    BY <1>2 DEF AtMostOne
  <2> DEFINE data == S!Fill(0)
             new == [id |-> n, data |-> data]
             same == IF m[n] = None THEN m[n] ELSE [m[n] EXCEPT !.rwdata = data]
             fs == f \cup answer
  <2>2. resp = {new}
    BY <2>1 DEF Responses
  <2>3. new.id = n /\ new.data = data
    OBVIOUS
  <2>4. same = m[n]
    BY <2>1, SameData
  <2>5. /\ t = Table(m, a, i, f, x, u, b)
        /\ t.mshrs = m /\ t.fulfilled = f
    BY DEF Table
  <2>. HIDE DEF t, resp, new, data
  <2>6. S!The(resp) = new /\ resp # {}
    BY <2>2, TheOne
  <2> DEFINE r == S!RespAccept(t, resp)
  <2>7. r = [t EXCEPT !.mshrs = [m EXCEPT ![n] = same], !.fulfilled = fs]
    BY <2>1, <2>3, <2>5, <2>6 DEF S!RespAccept
  <2>8. [m EXCEPT ![n] = same] = m
    BY <2>4 DEF IsTable
  <2>. HIDE DEF fs, same, r
  <2>9. r = Table(m, a, i, fs, x, u, b)
    BY <2>5, <2>7, <2>8 DEF Table
  <2>10. QED  BY <2>9 DEF t, resp, fs, r
<1>3. QED  BY <1>1, <1>2

\* The commits one after the other.
LEMMA TableNext ==
    ASSUME CosimInv, NEW issue \in Taken(Issue), NEW ucst \in Taken(Ucst),
           NEW bcst \in Taken(Bcst), NEW answer \in OneOf(Asked \cup issue)
    PROVE  S!TableStep(soft.table, soft.bulk, Accepted, ucst, issue, Responses(answer), bcst)
                 = Table(Put(Cleared(Cleared(SoftMshrs, ucst), bcst), NewSlot,
                             SoftMshr(CHOOSE x \in NewPart : TRUE)),
                         (Allocated \ (ucst \cup bcst)) \cup NewSlot,
                         (((issued \cap Allocated) \cup issue) \ (ucst \cup bcst)) \ NewSlot,
                         (((fulfilled \cap Allocated) \cup answer) \ (ucst \cup bcst)) \ NewSlot,
                         Turn(After(issueLast, Inflight), issue),
                         Turn(After(ucstLast, Inflight), ucst),
                         Turn(After(bcstLast, Inflight), bcst))
<1> DEFINE resp == Responses(answer)
           A == Allocated
           I == issued \cap Allocated
           F == fulfilled \cap Allocated
           x0 == After(issueLast, Inflight)
           u0 == After(ucstLast, Inflight)
           b0 == After(bcstLast, Inflight)
           m1 == Cleared(SoftMshrs, ucst)
           m2 == Cleared(m1, bcst)
           t1 == UnicastLeaves(soft.table, ucst)
           t2 == S!ReqCommit(t1, issue)
           t3 == S!RespAccept(t2, resp)
           t4 == BroadcastLeaves(t3, bcst)
<1>1. /\ issue = {} \/ \E s \in Allocated \ issued : issue = {s}
      /\ ucst = {} \/ \E s \in Done : ~IsScatter(mshrs[s]) /\ ucst = {s}
      /\ bcst = {} \/ \E s \in Done : IsScatter(mshrs[s]) /\ bcst = {s}
      /\ answer = {} \/ \E s \in Asked \cup issue : answer = {s}
      /\ issue \subseteq Slots /\ ucst \subseteq Slots /\ bcst \subseteq Slots
      /\ answer \subseteq Slots
  BY Choices DEF CosimInv
<1>2. AtMostOne(issue) /\ AtMostOne(ucst) /\ AtMostOne(bcst) /\ AtMostOne(answer)
  BY <1>1 DEF AtMostOne
<1>3. answer \cap Done = {} /\ issue \cap Done = {} /\ Done \subseteq Allocated
  BY <1>1 DEF Asked, Done, CosimInv, IInv, AnswersMatch, AnsweredIssued
<1>4. soft.table = Table(SoftMshrs, A, I, F, x0, u0, b0)
  BY DEF CosimInv, Mirror
<1>5. IsTable(SoftMshrs)
  BY DEF SoftMshrs, IsTable
<1>6. t1 = Table(m1, A \ ucst, I \ ucst, F \ ucst, x0, Turn(u0, ucst), b0)
  BY <1>2, <1>4, <1>5, UnicastReturns
<1>7. IsTable(m1) /\ \A s \in Slots \ ucst : m1[s] = SoftMshr(mshrs[s])
  BY DEF Cleared, SoftMshrs, IsTable
<1>. HIDE DEF A, I, F, x0, u0, b0, m1, t1
<1>8. t2 = Table(m1, A \ ucst, (I \ ucst) \cup issue, F \ ucst, Turn(x0, issue), Turn(u0, ucst), b0)
  BY <1>2, <1>6, <1>7, RequestLeaves
<1>. HIDE DEF t2
<1>9. t3 = Table(m1, A \ ucst, (I \ ucst) \cup issue, (F \ ucst) \cup answer,
                 Turn(x0, issue), Turn(u0, ucst), b0)
  <2>1. \A s \in answer : \E y : m1[s] = SoftMshr(y)
    BY <1>1, <1>3, <1>7
  <2>2. QED  BY <1>2, <1>7, <1>8, <2>1, AnswerCommit
<1>. HIDE DEF t3
<1>10. t4 = Table(m2, (A \ ucst) \ bcst, ((I \ ucst) \cup issue) \ bcst, ((F \ ucst) \cup answer) \ bcst,
                  Turn(x0, issue), Turn(u0, ucst), Turn(b0, bcst))
  BY <1>2, <1>7, <1>9, BroadcastReturns
<1>11. IsTable(m2)
  BY DEF Cleared, m1, IsTable
<1>12. /\ ((I \ ucst) \cup issue) \ bcst = (I \cup issue) \ (ucst \cup bcst)
       /\ ((F \ ucst) \cup answer) \ bcst = (F \cup answer) \ (ucst \cup bcst)
       /\ (A \ ucst) \ bcst = A \ (ucst \cup bcst)
  <2>1. ucst \subseteq Done
    BY <1>1
  <2>2. QED  BY <1>3, <2>1
<1>. HIDE DEF t4, m2
<1> DEFINE t5 == S!TableStep(soft.table, soft.bulk, Accepted, ucst, issue, resp, bcst)
           scalar == {f \in Accepted : S!IsScalar(f)}
           new == CHOOSE x \in NewPart : TRUE
<1>13. t5 = IF scalar # {}
            THEN S!AllocCommit(t4, S!AllocSlot(soft.table), S!FromScalarFlit(S!The(scalar)))
            ELSE IF S!BulkAlloc(soft.table, soft.bulk, Accepted)
            THEN S!AllocCommit(t4, S!AllocSlot(soft.table),
                               S!Dispatch(S!The(S!QFront(soft.bulk.queue)), soft.bulk.count))
            ELSE t4
  BY DEF S!TableStep, UnicastLeaves, BroadcastLeaves, t1, t2, t3, t4
<1>14. scalar = ScalarAccepted
  <2>1. Accepted \subseteq Requests
    BY SoftRequests
  <2>2. QED  BY <2>1, FlitKinds DEF Accepted, ScalarAccepted, BulkAccepted
<1>15. t5 = IF NewSlot = {} THEN t4 ELSE S!AllocCommit(t4, NewSlot, SoftMshr(new))
  <2>1. S!AllocSlot(soft.table) = IF Free = {} THEN {} ELSE {Lowest(Free)}
    BY SoftChoices
  <2>2. S!BulkAlloc(soft.table, soft.bulk, Accepted) <=> BulkAlloc
    BY SoftRequests
  <2>3. CASE ScalarAccepted # {}
    <3>1. PICK r \in Scalars : ScalarAccepted = {r} /\ Free # {}
      <4>1. Accepted = {} \/ \E r \in Requests : Accepted = {r}
        BY SoftRequests
      <4>2. QED  BY <2>3, <4>1 DEF Accepted, ScalarAccepted
    <3>2. ~BulkAlloc
      BY <3>1 DEF BulkAlloc, ScalarAccepted
    <3>3. NewPart = {<<r, 0>>} /\ NewSlot = {Lowest(Free)}
      BY <3>1, <3>2 DEF NewPart, NewSlot
    <3>4. S!FromScalarFlit(S!The(scalar)) = SoftMshr(<<r, 0>>)
      BY <1>14, <3>1, TheOne, SoftLines, MemIfAssumption
    <3>5. new = <<r, 0>>
      BY <3>3
    <3>. HIDE DEF t5, new, scalar
    <3>6. QED  BY <1>13, <1>14, <2>1, <2>3, <3>1, <3>3, <3>4, <3>5
  <2>4. CASE ScalarAccepted = {} /\ BulkAlloc
    <3>1. bulkQueue # <<>> /\ Free # {}
      BY <2>4 DEF BulkAlloc
    <3>2. NewPart = {<<Head(bulkQueue), bulkCnt>>} /\ NewSlot = {Lowest(Free)}
      BY <2>4, <3>1 DEF NewPart, NewSlot
    <3>3. /\ Head(bulkQueue) \in Requests \ Scalars /\ bulkCnt \in Nat
          /\ <<Head(bulkQueue), bulkCnt>> \in Parts
      <4>1. \E x \in Parts : NewPart = {x}
        BY <3>2, Allocation DEF CosimInv
      <4>2. QED  BY <3>1, <3>2, <4>1 DEF CosimInv, IInv, TypeOK
    <3>4. S!Dispatch(S!The(S!QFront(soft.bulk.queue)), soft.bulk.count)
            = SoftMshr(<<Head(bulkQueue), bulkCnt>>)
      <4>1. S!The(S!QFront(soft.bulk.queue)) = Head(bulkQueue) /\ soft.bulk.count = bulkCnt
        BY <3>1, SoftRequests DEF CosimInv, Mirror
      <4>2. QED  BY <3>3, <4>1, SoftLines
    <3>5. new = <<Head(bulkQueue), bulkCnt>>
      BY <3>2
    <3>. HIDE DEF t5, new, scalar
    <3>6. QED  BY <1>13, <1>14, <2>1, <2>2, <2>4, <3>1, <3>2, <3>4, <3>5
  <2>5. CASE ScalarAccepted = {} /\ ~BulkAlloc
    <3>1. NewSlot = {}
      BY <2>5 DEF NewPart, NewSlot
    <3>. HIDE DEF t5, new, scalar
    <3>2. QED  BY <1>13, <1>14, <2>2, <2>5, <3>1
  <2>6. QED  BY <2>3, <2>4, <2>5
<1>. HIDE DEF t5, new
<1> DEFINE m3 == Put(m2, NewSlot, SoftMshr(new))
           x1 == Turn(x0, issue)
           u1 == Turn(u0, ucst)
           b1 == Turn(b0, bcst)
           a4 == A \ (ucst \cup bcst)
           i4 == (I \cup issue) \ (ucst \cup bcst)
           f4 == (F \cup answer) \ (ucst \cup bcst)
<1>16. t5 = Table(m3, a4 \cup NewSlot, i4 \ NewSlot, f4 \ NewSlot, x1, u1, b1)
  <2>1. t4 = Table(m2, a4, i4, f4, x1, u1, b1)
    BY <1>10, <1>12
  <2>2. AtMostOne(NewSlot)
    BY Allocation DEF CosimInv, Free, AtMostOne
  <2>. HIDE DEF x1, u1, b1, a4, i4, f4
  <2>3. CASE NewSlot = {}
    <3>1. m3 = m2
      BY <1>11, <2>3, SameTable
    <3>2. a4 \cup NewSlot = a4 /\ i4 \ NewSlot = i4 /\ f4 \ NewSlot = f4
      BY <2>3
    <3>. HIDE DEF m3
    <3>3. QED  BY <1>15, <2>1, <2>3, <3>1, <3>2
  <2>4. CASE NewSlot # {}
    <3>1. S!AllocCommit(t4, NewSlot, SoftMshr(new))
            = Table(m3, a4 \cup NewSlot, i4 \ NewSlot, f4 \ NewSlot, x1, u1, b1)
      BY <1>11, <2>1, <2>2, SlotFilled
    <3>2. QED  BY <1>15, <2>4, <3>1
  <2>5. QED  BY <2>3, <2>4
<1>17. QED
  BY <1>16 DEF t5, m3, m2, m1, new, A, I, F, x0, u0, b0, x1, u1, b1, a4, i4, f4

\* What is chosen and taken before the edge is the hardware's.
LEMMA SameStep ==
    ASSUME CosimInv, NEW issue \in Taken(Issue), NEW ucst \in Taken(Ucst),
           NEW bcst \in Taken(Bcst), NEW answer \in OneOf(Asked \cup issue),
           SoftCycle(issue, answer, ucst, bcst)
    PROVE  soft' = [table |-> S!TableStep(soft.table, soft.bulk, Accepted, ucst, issue,
                                          Responses(answer), bcst),
                    bulk |-> S!BulkStep(soft.table, soft.bulk, Accepted, bcst),
                    reqArb |-> S!NocAcceptCommit(NumPorts, soft.reqArb, SoftPort)]
<1> DEFINE flit == {nocIn[p] : p \in SoftPort}
           taken(leaves, slot) == IF leaves = {} THEN {} ELSE slot
           dealloc == taken(ucst, S!ReturnSlot(soft.table, FALSE))
           eject == taken(bcst, S!ReturnSlot(soft.table, TRUE))
           req == taken(issue, S!ReqSlot(soft.table))
           resp == {[id |-> s, data |-> S!Fill(0)] : s \in answer}
<1>1. soft' = [table |-> S!TableStep(soft.table, soft.bulk, flit, dealloc, req, resp, eject),
               bulk |-> S!BulkStep(soft.table, soft.bulk, flit, eject),
               reqArb |-> S!NocAcceptCommit(NumPorts, soft.reqArb, SoftPort)]
  BY DEF SoftCycle
<1>2. dealloc = ucst /\ eject = bcst /\ req = issue
  BY SoftChoices DEF Taken
<1>3. resp = Responses(answer)
  BY DEF Responses
<1>4. flit = Accepted
  BY SoftRequests
<1>. HIDE DEF flit, dealloc, eject, req, resp
<1>5. QED  BY <1>1, <1>2, <1>3, <1>4

LEMMA TableMirrors ==
    ASSUME CosimInv, NEW arrive, NEW issue \in Taken(Issue), NEW ucst \in Taken(Ucst),
           NEW bcst \in Taken(Bcst), NEW answer \in OneOf(Asked \cup issue),
           Both(arrive, issue, answer, ucst, bcst)
    PROVE  soft.table' = Table(SoftMshrs', Allocated', issued' \cap Allocated',
                               fulfilled' \cap Allocated', After(issueLast', Inflight),
                               After(ucstLast', Inflight), After(bcstLast', Inflight))
<1> DEFINE new == CHOOSE x \in NewPart : TRUE
           gone == ucst \cup bcst
           m == Put(Cleared(Cleared(SoftMshrs, ucst), bcst), NewSlot, SoftMshr(new))
<1>1. Cycle(arrive, issue, answer, ucst, bcst) /\ IInv
  BY DEF Both, CosimInv
<1>2. soft.table' = S!TableStep(soft.table, soft.bulk, Accepted, ucst, issue, Responses(answer), bcst)
  BY SameStep DEF Both
<1>3. /\ mshrs' = [s \in Slots |-> IF s \in NewSlot THEN new
                                   ELSE IF s \in gone THEN None ELSE mshrs[s]]
      /\ issued' = (issued \ NewSlot) \cup issue /\ fulfilled' = (fulfilled \ NewSlot) \cup answer
      /\ issueLast' = Last(issueLast, issue) /\ ucstLast' = Last(ucstLast, ucst)
      /\ bcstLast' = Last(bcstLast, bcst)
  BY <1>1 DEF Cycle, FlagsNext
<1>4. SoftMshrs' = m
  <2>1. SoftMshrs' = [s \in Slots |-> SoftMshr(mshrs'[s])]
    BY DEF SoftMshrs
  <2>2. SoftMshr(None) = None
    BY DEF SoftMshr
  <2>. HIDE DEF new
  <2>3. \A s \in Slots : SoftMshr(mshrs'[s]) = IF s \in NewSlot THEN SoftMshr(new)
                                   ELSE IF s \in gone THEN None ELSE SoftMshr(mshrs[s])
    BY <1>3, <2>2
  <2>4. m = [s \in Slots |-> IF s \in NewSlot THEN SoftMshr(new)
                                   ELSE IF s \in gone THEN None ELSE SoftMshr(mshrs[s])]
    BY DEF Put, Cleared, SoftMshrs
  <2>. HIDE DEF m
  <2>5. QED  BY <2>1, <2>3, <2>4
<1>5. Allocated' = (Allocated \ gone) \cup NewSlot
  <2>1. \A s \in Slots : mshrs'[s] # None <=> s \in NewSlot \/ (s \notin gone /\ mshrs[s] # None)
    BY <1>1, MshrMoves, MemIfAssumption
  <2>2. NewSlot \subseteq Slots
    BY <1>1, MshrMoves
  <2>3. QED  BY <2>1, <2>2 DEF Allocated
<1>6. /\ NewSlot \cap Allocated = {} /\ gone \subseteq Allocated
      /\ issue \subseteq Allocated /\ answer \subseteq Allocated
      /\ issue \cap Done = {} /\ answer \cap Done = {} /\ gone \subseteq Done
  <2>1. /\ issue = {} \/ \E s \in Allocated \ issued : issue = {s}
        /\ ucst = {} \/ \E s \in Done : ~IsScatter(mshrs[s]) /\ ucst = {s}
        /\ bcst = {} \/ \E s \in Done : IsScatter(mshrs[s]) /\ bcst = {s}
        /\ answer = {} \/ \E s \in Asked \cup issue : answer = {s}
    BY <1>1, Choices
  <2>2. NewSlot \cap Allocated = {}
    BY <1>1, Allocation DEF Free
  <2>3. \A s \in Asked : s \in (Allocated \cap issued) \ fulfilled
    BY <1>1 DEF Asked, IInv, AnswersMatch
  <2>4. \A s \in Done : s \in Allocated /\ s \in issued /\ s \in fulfilled
    BY <1>1 DEF Done, IInv, AnsweredIssued
  <2>5. QED  BY <2>1, <2>2, <2>3, <2>4
<1>7. (((issued \cap Allocated) \cup issue) \ gone) \ NewSlot = issued' \cap Allocated'
  BY <1>3, <1>5, <1>6
<1>8. (((fulfilled \cap Allocated) \cup answer) \ gone) \ NewSlot = fulfilled' \cap Allocated'
  BY <1>3, <1>5, <1>6
<1>9. /\ Turn(After(issueLast, Inflight), issue) = After(issueLast', Inflight)
      /\ Turn(After(ucstLast, Inflight), ucst) = After(ucstLast', Inflight)
      /\ Turn(After(bcstLast, Inflight), bcst) = After(bcstLast', Inflight)
  BY <1>3 DEF Turn, Last
<1>10. soft.table'
         = Table(m, (Allocated \ gone) \cup NewSlot,
                 (((issued \cap Allocated) \cup issue) \ gone) \ NewSlot,
                 (((fulfilled \cap Allocated) \cup answer) \ gone) \ NewSlot,
                 Turn(After(issueLast, Inflight), issue), Turn(After(ucstLast, Inflight), ucst),
                 Turn(After(bcstLast, Inflight), bcst))
  BY <1>2, TableNext
<1>. HIDE DEF m
<1>11. QED  BY <1>4, <1>5, <1>7, <1>8, <1>9, <1>10

LEMMA BulkMirrors ==
    ASSUME CosimInv, NEW arrive, NEW issue \in Taken(Issue), NEW ucst \in Taken(Ucst),
           NEW bcst \in Taken(Bcst), NEW answer \in OneOf(Asked \cup issue),
           Both(arrive, issue, answer, ucst, bcst)
    PROVE  /\ Holding(soft.bulk.queue', bulkQueue')
           /\ soft.bulk.count' = bulkCnt' /\ soft.bulk.inflight' = bcstInflight'
<1> DEFINE b == soft.bulk
           q == b.queue
           alloc == S!BulkAlloc(soft.table, b, Accepted)
           head == S!The(S!QFront(q))
           done == alloc /\ b.count + 1 = FlitOf[head].count
           popped == IF done THEN S!QPop(q) ELSE q
           more == {f \in Accepted : S!IsBulk(f) /\ FlitOf[f].count # 0}
           broadcast == alloc /\ FlitOf[head].kind = "scatter"
           next == S!BulkStep(soft.table, b, Accepted, bcst)
<1>1. Cycle(arrive, issue, answer, ucst, bcst) /\ IInv
  BY DEF Both, CosimInv
<1>2. soft.bulk' = next
  BY SameStep DEF Both
<1>3. next = [queue |-> IF more = {} THEN popped ELSE S!QPush(popped, S!The(more)),
              count |-> IF done THEN 0 ELSE IF alloc THEN b.count + 1 ELSE b.count,
              inflight |-> S!InflightNext(b, broadcast, bcst)]
  BY DEF S!BulkStep
<1>4. Holding(q, bulkQueue) /\ b.count = bulkCnt /\ b.inflight = bcstInflight
  BY DEF CosimInv, Mirror
<1>5. /\ bulkQueue \in Seq(Bulks) /\ Rest \in Seq(Bulks)
      /\ \/ More = {} /\ bulkQueue' = Rest
         \/ \E r \in Bulks : r \in Flit /\ More = {r} /\ bulkQueue' = Append(Rest, r)
      /\ bulkCnt' = Counted
      /\ BulkDone => BulkAlloc
      /\ BulkAlloc => bulkQueue # <<>>
  BY <1>1, QueueMoves
<1>6. alloc <=> BulkAlloc
  BY SoftRequests
<1>7. BulkAlloc => /\ head = Head(bulkQueue) /\ Head(bulkQueue) \in Requests
                   /\ FlitOf[head].count = Lines[Head(bulkQueue)]
                   /\ (FlitOf[head].kind = "scatter" <=> Head(bulkQueue) \in Scatters)
  <2>1. SUFFICES ASSUME BulkAlloc
                 PROVE  /\ head = Head(bulkQueue) /\ Head(bulkQueue) \in Requests
                        /\ FlitOf[head].count = Lines[Head(bulkQueue)]
                        /\ (FlitOf[head].kind = "scatter" <=> Head(bulkQueue) \in Scatters)
    OBVIOUS
  <2>2. head = Head(bulkQueue)
    BY <1>5, <2>1, SoftRequests
  <2>3. Head(bulkQueue) \in Requests
    BY <1>5, <2>1 DEF Bulks
  <2>. HIDE DEF head
  <2>4. QED  BY <2>2, <2>3, FlitKinds
<1>8. more = More
  <2>1. Accepted \subseteq Requests
    BY SoftRequests
  <2>2. QED  BY <2>1, FlitKinds DEF More, Accepted, ScalarAccepted, BulkAccepted
<1>9. done <=> BulkDone
  BY <1>4, <1>6, <1>7 DEF BulkDone
<1>. HIDE DEF alloc, head, more
<1>10. Holding(popped, Rest) /\ (done => ~S!QFull(popped))
  <2>1. CASE done
    BY <1>4, <1>5, <1>9, <2>1, PopHeld DEF Rest
  <2>2. CASE ~done
    BY <1>4, <1>9, <2>2 DEF Rest
  <2>3. QED  BY <2>1, <2>2
<1>11. More # {} => ~S!QFull(popped)
  <2>1. \A f \in More : f \in BulkAccepted /\ Lines[f] # 0
    BY DEF More
  <2>2. More # {} => Len(bulkQueue) < BulkDepth
    BY <2>1 DEF BulkAccepted
  <2>3. More # {} => ~S!QFull(q)
    BY <2>2, SoftRequests
  <2>4. QED  BY <1>10, <2>3
<1>. HIDE DEF popped
<1>12. Holding(next.queue, bulkQueue')
  <2>1. CASE More = {}
    BY <1>3, <1>5, <1>8, <1>10, <2>1
  <2>2. CASE More # {}
    <3>1. PICK r \in Bulks : More = {r} /\ bulkQueue' = Append(Rest, r)
      BY <1>5, <2>2
    <3>2. r \in Requests /\ S!The(more) = r
      BY <1>8, <3>1, TheOne DEF Bulks
    <3>3. next.queue = S!QPush(popped, r)
      BY <1>3, <1>8, <2>2, <3>2
    <3>. HIDE DEF next
    <3>4. QED  BY <1>10, <1>11, <2>2, <3>1, <3>2, <3>3, PushHeld
  <2>3. QED  BY <2>1, <2>2
<1>13. next.count = bulkCnt'
  BY <1>3, <1>4, <1>5, <1>6, <1>9 DEF Counted
<1>14. next.inflight = bcstInflight'
  <2>1. bcstInflight' = BcstCount(bcst) /\ bcstInflight \in Int
    BY <1>1 DEF Cycle, IInv, TypeOK
  <2>2. broadcast <=> BulkAlloc /\ Head(bulkQueue) \in Scatters
    BY <1>6, <1>7
  <2>3. next.inflight = S!InflightNext(b, broadcast, bcst)
    BY <1>3
  <2>. HIDE DEF next, broadcast, b
  <2>4. QED
    BY <1>4, <2>1, <2>2, <2>3 DEF BcstCount, S!InflightNext
<1>. HIDE DEF next
<1>15. QED  BY <1>2, <1>12, <1>13, <1>14

LEMMA CosimNextInv == CosimInv /\ [CosimNext]_cosimVars => CosimInv'
<1>1. ASSUME CosimInv, CosimNext PROVE CosimInv'
  <2>1. PICK arrive \in Arrivals, issue \in Taken(Issue), ucst \in Taken(Ucst), bcst \in Taken(Bcst) :
            \E answer \in OneOf(Asked \cup issue) : Both(arrive, issue, answer, ucst, bcst)
    BY <1>1 DEF CosimNext
  <2>2. PICK answer \in OneOf(Asked \cup issue) : Both(arrive, issue, answer, ucst, bcst)
    BY <2>1
  <2>3. IInv'
    <3>1. Next
      BY <2>1, <2>2 DEF Next, Both
    <3>2. QED  BY <1>1, <3>1, NextInv DEF CosimInv
  <2>4. soft.reqArb' = After(lastGrant', NumPorts)
    <3>1. soft.reqArb' = S!NocAcceptCommit(NumPorts, soft.reqArb, SoftPort)
      BY <1>1, <2>2, SameStep DEF Both
    <3>2. lastGrant' = IF Accepted = {} THEN lastGrant ELSE Lowest(Granted)
      BY <2>2 DEF Both, Cycle
    <3>3. SoftPort = {p \in Granted : nocIn[p] \in Accepted}
          /\ {nocIn[p] : p \in SoftPort} = Accepted
      BY <1>1, SoftRequests
    <3>4. soft.reqArb = After(lastGrant, NumPorts) /\ TypeOK
      BY <1>1 DEF CosimInv, Mirror, IInv
    <3>5. CASE SoftPort = {}
      <4>1. Accepted = {}
        BY <3>3, <3>5
      <4>2. QED  BY <3>1, <3>2, <3>4, <3>5, <4>1 DEF S!NocAcceptCommit
    <3>6. CASE SoftPort # {}
      <4>1. Accepted # {}
        BY <3>3, <3>6
      <4>2. PICK p \in Ports : Granted = {p}
        BY <3>3, <3>4, <3>6, PortGranted
      <4>3. SoftPort = {p}
        BY <3>3, <3>6, <4>2
      <4>4. S!The(SoftPort) = p /\ Lowest(Granted) = p
        BY <4>2, <4>3, TheOne, LowestOfOne, SlotsFinite
      <4>5. QED
        BY <3>1, <3>2, <3>6, <4>1, <4>4 DEF S!NocAcceptCommit, S!ArbCommit, After
    <3>7. QED  BY <3>5, <3>6
  <2>5. Mirror'
    <3>1. /\ soft.table' = Table(SoftMshrs', Allocated', issued' \cap Allocated',
                               fulfilled' \cap Allocated', After(issueLast', Inflight),
                               After(ucstLast', Inflight), After(bcstLast', Inflight))
      BY <1>1, <2>2, TableMirrors
    <3>2. /\ Holding(soft.bulk.queue', bulkQueue')
          /\ soft.bulk.count' = bulkCnt' /\ soft.bulk.inflight' = bcstInflight'
      BY <1>1, <2>2, BulkMirrors
    <3>3. QED  BY <2>4, <3>1, <3>2 DEF Mirror
  <2>6. QED  BY <2>3, <2>5 DEF CosimInv
<1>2. ASSUME CosimInv, UNCHANGED cosimVars PROVE CosimInv'
  <2>1. IInv'
    BY <1>2, NextInv DEF CosimInv, cosimVars
  <2>2. Mirror'
    BY <1>2 DEF cosimVars, vars, queues, table, lasts, CosimInv, Mirror, SoftMshrs, Allocated
  <2>3. QED  BY <2>1, <2>2 DEF CosimInv
<1>3. QED  BY <1>1, <1>2

LEMMA CosimInitInv == CosimInit => CosimInv
<1> SUFFICES ASSUME CosimInit PROVE CosimInv
  OBVIOUS
<1>1. Init /\ IInv
  BY InitInv DEF CosimInit
<1>2. soft.table = S!NewTable(Inflight) /\ soft.bulk = S!NewBulk /\ soft.reqArb = S!ArbStart(NumPorts)
  BY DEF CosimInit
<1>3. /\ S!ArbStart(Inflight) = After(0, Inflight) /\ S!ArbStart(NumPorts) = After(0, NumPorts)
  BY MemIfAssumption DEF S!ArbStart, After
<1>4. Allocated = {}
  BY <1>1 DEF Init, Allocated
<1>5. SoftMshrs = [s \in 0 .. Inflight - 1 |-> None]
  BY <1>1 DEF Init, SoftMshrs, SoftMshr, Slots
<1>6. soft.table = Table(SoftMshrs, Allocated, issued \cap Allocated, fulfilled \cap Allocated,
                         After(issueLast, Inflight), After(ucstLast, Inflight),
                         After(bcstLast, Inflight))
  <2>1. issued \cap Allocated = {} /\ fulfilled \cap Allocated = {}
    BY <1>4
  <2>2. issueLast = 0 /\ ucstLast = 0 /\ bcstLast = 0
    BY <1>1 DEF Init
  <2>3. QED  BY <1>2, <1>3, <1>4, <1>5, <2>1, <2>2 DEF S!NewTable, Table
<1>7. Holding(soft.bulk.queue, bulkQueue)
  <2> DEFINE q == soft.bulk.queue
  <2>1. q = [head |-> 0, tail |-> 0, maybeFull |-> FALSE, data |-> [i \in 0 .. BulkDepth - 1 |-> None]]
    BY <1>2 DEF S!NewBulk, S!FixedLenQueue
  <2>2. q \in RingQueue
    BY <2>1, MemIfAssumption DEF RingQueue, Cells
  <2>3. S!QSize(q) = 0
    BY <2>1 DEF S!QSize
  <2>4. bulkQueue = <<>>
    BY <1>1 DEF Init
  <2>5. QED  BY <2>2, <2>3, <2>4 DEF Holding
<1>8. QED
  BY <1>1, <1>2, <1>3, <1>6, <1>7 DEF CosimInv, Mirror, Init, S!NewBulk

----------------------------------------------------------------------------
(* Theorems *)

\* Registers and queues stay within what the hardware has: the bulk queue
\* within its depth, the line counter below the length of the request it
\* counts for, and the broadcast counter between 0 and its bound.
THEOREM TypeCorrect == Spec => []TypeOK
<1>1. IInv => TypeOK
  BY DEF IInv
<1>2. QED  BY <1>1, InitInv, NextInv, PTL DEF Spec

\* The assertions of MemIf.scala:294-296 hold for ever: an answer of the
\* memory meets the MSHR it was asked for, issued and not yet answered, and
\* never one that has taken over its number; and the counter that keeps
\* scatters from using every MSHR is exact.
THEOREM AnswersMeetRequests == Spec => []AnswersMatch
<1>1. IInv => AnswersMatch
  BY DEF IInv
<1>2. QED  BY <1>1, InitInv, NextInv, PTL DEF Spec

\* The interface does what MemoryService promises: every line of every request
\* it takes is read by the memory once and answered once, after it was read.
THEOREM MemIfImplementsService == Spec => ImplementsService
<1>1. RInv /\ [Next]_vars => [Service!Next]_<<Owed, Read>>
  BY StepRefined
<1>2. [Service!Next]_<<Owed, Read>> <=> [Service!Next]_<<{mshrs[s] : s \in Allocated} \cup Unallocated, {mshrs[s] : s \in Done}>>
  BY DEF Owed, Read
<1>3. QED
  BY <1>1, <1>2, PlacedInit, RNextInv, PTL DEF Spec, ImplementsService, Service!Spec

\* The simulator's memory interface is the hardware's, cycle by cycle: the
\* same MSHRs with the same flags, the same requests queued and counted, the
\* same choices of every round robin, although it commits its slots one after
\* the other.
THEOREM SimulatorAgrees == CosimSpec => []MemIfsAgree
BY CosimInitInv, CosimNextInv, MirrorAgrees, PTL DEF CosimSpec

=============================================================================
