------------------------- MODULE ResponseRing_proofs -------------------------
(***************************************************************************)
(* Proofs about ResponseRing for every number of memory controllers,       *)
(* clusters and responses.                                                 *)
(*                                                                         *)
(* The type invariant carries the argument: no queue ever holds more than  *)
(* one response, so each head finds room in the next queue, is taken in    *)
(* the same cycle, and leaves room behind it.  Implementing the service    *)
(* needs in addition that a response is in one place only.                 *)
(*                                                                         *)
(* For the simulator's ring the invariant says what each node sees in its  *)
(* cell.  A node decides from two cells what the hardware decides from two *)
(* queues, and turning the numbering of the cells moves every response.    *)
(***************************************************************************)
EXTENDS CosimRing, Encoders, FiniteSetTheorems, SequenceTheorems, WellFoundedInduction, TLAPS

\* A nonempty set of naturals has a least member.
LEMMA LeastMember ==
    ASSUME NEW T \in SUBSET Nat, T # {}
    PROVE  Lowest(T) \in T /\ \A j \in T : Lowest(T) <= j
<1> DEFINE LT == {ss \in Nat \X Nat : ss[1] < ss[2]}
<1>1. IsWellFoundedOn(LT, Nat)
  BY NatLessThanWellFounded DEF OpToRel
<1>2. PICK i \in T : \A j \in T : ~ (<<j, i>> \in LT)
  BY <1>1, WFMin
<1>3. ASSUME NEW j \in T, j < i
      PROVE  FALSE
  <2>1. <<j, i>> \in Nat \X Nat /\ <<j, i>>[1] < <<j, i>>[2]
    BY <1>3
  <2>2. <<j, i>> \in LT
    BY <2>1
  <2>3. QED  BY <1>2, <2>2
<1>4. \A j \in T : i <= j
  BY <1>3
<1>5. QED  BY <1>4 DEF Lowest

\* Cells of a ring of n: b places after cell a, and the k-th from cell a.
LEMMA WrapAround ==
    \A n \in Nat \ {0} : \A a \in 0 .. n - 1 :
        /\ \A b \in 0 .. n : (a + b) % n = IF a + b < n THEN a + b ELSE a + b - n
        /\ \A k \in 1 .. n : (a + k - 1) % n = IF a + k - 1 < n THEN a + k - 1 ELSE a + k - 1 - n
  OBVIOUS

\* A response is the head of one queue at most, and in a distributor only
\* when it has left the ring.
OnePlace ==
    /\ \A j, k \in Nodes : \A r \in Heads(j) : r \in Heads(k) => j = k
    /\ OnRing \cap Arrived = {}

Inv == TypeOK /\ OnePlace

----------------------------------------------------------------------------

LEMMA Neighbours ==
    ASSUME NEW k \in Nodes
    PROVE  /\ Succ(k) \in Nodes /\ Pred(k) \in Nodes
           /\ Succ(Pred(k)) = k /\ Pred(Succ(k)) = k
BY RingAssumption DEF Nodes, Succ, Pred

\* With queues of one response the heads are all there is.
LEMMA HeadsAreAll ==
    ASSUME TypeOK
    PROVE  /\ \A k \in Nodes : Heads(k) = Entries(fwd[k]) /\ Heads(k) \subseteq Responses
           /\ OnRing = UNION {Heads(k) : k \in Nodes}
           /\ \A k \in Nodes : \A r, s \in Heads(k) : r = s
<1>1. ASSUME NEW k \in Nodes
      PROVE  Heads(k) = Entries(fwd[k]) /\ Heads(k) \subseteq Responses
  <2>1. fwd[k] \in Seq(Responses) /\ Len(fwd[k]) <= 1
    BY DEF TypeOK
  <2>2. CASE fwd[k] = <<>>
    BY <2>2 DEF Heads, Entries
  <2>3. CASE fwd[k] # <<>>
    <3>1. Len(fwd[k]) = 1
      <4>1. Len(fwd[k]) \in Nat \ {0}
        BY <2>1, <2>3, EmptySeq
      <4>2. Len(fwd[k]) <= 1
        BY <2>1
      <4>3. \A n \in Nat \ {0} : n <= 1 => n = 1
        OBVIOUS
      <4>4. QED  BY <4>1, <4>2, <4>3
    <3>2. DOMAIN fwd[k] = {1} /\ Head(fwd[k]) = fwd[k][1] /\ fwd[k][1] \in Responses
      BY <2>1, <2>3, <3>1
    <3>3. QED  BY <2>3, <3>2 DEF Heads, Entries
  <2>4. QED  BY <2>2, <2>3
<1>2. OnRing = UNION {Heads(k) : k \in Nodes}
  BY <1>1 DEF OnRing
<1>3. QED  BY <1>1, <1>2 DEF Heads

LEMMA RingIsHeads == TypeOK => OnRing = UNION {Heads(k) : k \in Nodes}
BY HeadsAreAll

LEMMA RingIsHeadsNext == TypeOK' => (OnRing = UNION {Heads(k) : k \in Nodes})'
BY RingIsHeads, PTL

\* Every response that is to be passed on finds room.
LEMMA RoomAhead ==
    ASSUME TypeOK, NEW k \in Nodes
    PROVE  /\ Forwards(k) = RecvFwd(k)
           /\ Takes(k) = Heads(k)
<1>1. \A j \in Nodes : Forwards(j) = RecvFwd(j)
  BY DEF TypeOK, Forwards, RingDepth
<1>2. Succ(k) \in Nodes /\ Pred(Succ(k)) = k
  BY Neighbours
<1>3. RecvLocal(Succ(k)) \cup RecvFwd(Succ(k)) = Heads(k)
  BY <1>2 DEF RecvLocal, RecvFwd
<1>4. QED  BY <1>1, <1>2, <1>3 DEF Takes

\* What a cycle leaves in a queue.
LEMMA QueueStep ==
    ASSUME TypeOK, NEW own \in Offers, Cycle(own), NEW k \in Nodes
    PROVE  /\ fwd'[k] \in Seq(Responses) /\ Len(fwd'[k]) <= 1
           /\ Heads(k)' = RecvFwd(k) \cup Injects(k, own)
<1> DEFINE into == RecvFwd(k) \cup Injects(k, own)
<1>1. fwd[k] \in Seq(Responses) /\ Len(fwd[k]) <= 1
  BY DEF TypeOK
<1>2. (IF Takes(k) = {} THEN fwd[k] ELSE Tail(fwd[k])) = <<>>
  <2>1. fwd[k] # <<>> => Tail(fwd[k]) = <<>>
    BY <1>1
  <2>2. QED  BY <2>1, RoomAhead DEF Heads
<1>3. fwd'[k] = Appended(<<>>, into)
  BY <1>2, RoomAhead DEF Cycle, FwdNext
<1>4. into \subseteq Responses
  BY Neighbours, HeadsAreAll DEF RecvFwd, Injects, Offers, Idle
<1>5. \A r, s \in into : r = s
  BY Neighbours, HeadsAreAll DEF RecvFwd, Injects, Offers
<1>6. CASE into = {}
  <2>1. fwd'[k] = <<>>
    BY <1>3, <1>6 DEF Appended
  <2>2. QED  BY <1>6, <2>1 DEF Heads
<1>7. CASE into # {}
  <2> DEFINE r == CHOOSE x \in into : TRUE
  <2>1. r \in into
    BY <1>7
  <2>2. fwd'[k] = Append(<<>>, r)
    BY <1>3, <1>7 DEF Appended
  <2>3. into = {r}
    BY <1>5, <2>1
  <2>. HIDE DEF r, into
  <2>4. r \in Responses
    BY <1>4, <2>1
  <2>5. fwd'[k] \in Seq(Responses) /\ Len(fwd'[k]) = 1 /\ fwd'[k] # <<>> /\ Head(fwd'[k]) = r
    BY <2>2, <2>4
  <2>6. QED  BY <2>3, <2>5 DEF Heads, into
<1>8. QED  BY <1>6, <1>7

\* What a cycle leaves in a distributor.
LEMMA PortStep ==
    ASSUME TypeOK, NEW own \in Offers, Cycle(own), NEW c \in Clusters
    PROVE  /\ port'[c] \in Responses \cup {None}
           /\ \A r \in Responses : port'[c] = r <=> r \in FromRing(c) \cup FromOwn(c, own)
<1> DEFINE into == FromRing(c) \cup FromOwn(c, own)
<1>1. port'[c] = IF into = {} THEN None ELSE CHOOSE r \in into : TRUE
  BY DEF Cycle, PortNext
<1>2. Zone[c] \in Nodes
  BY RingAssumption DEF Nodes
<1>3. into \subseteq Responses
  BY <1>2, Neighbours, HeadsAreAll DEF FromRing, RecvLocal, FromOwn, Offers, Idle
<1>4. \A r, s \in into : r = s
  BY <1>2, Neighbours, HeadsAreAll DEF FromRing, RecvLocal, FromOwn, Offers
<1>. HIDE DEF into
<1>5. CASE into = {}
  BY <1>1, <1>5, RingAssumption DEF into
<1>6. CASE into # {}
  <2>1. port'[c] \in into
    BY <1>1, <1>6
  <2>2. QED  BY <1>3, <1>4, <2>1 DEF into
<1>7. QED  BY <1>5, <1>6

LEMMA CycleType ==
    ASSUME TypeOK, NEW own \in Offers, Cycle(own)
    PROVE  TypeOK'
<1>1. fwd' \in [Nodes -> Seq(Responses)]
  BY QueueStep DEF Cycle
<1>2. \A k \in Nodes : Len(fwd'[k]) <= 1
  BY QueueStep
<1>3. port' \in [Clusters -> Responses \cup {None}]
  BY PortStep DEF Cycle
<1>4. QED  BY <1>1, <1>2, <1>3 DEF TypeOK

----------------------------------------------------------------------------
(* The places of a response, before and after a cycle *)

LEMMA CycleOnePlace ==
    ASSUME Inv, NEW own \in Offers, Cycle(own)
    PROVE  OnePlace'
<1>1. TypeOK /\ OnePlace
  BY DEF Inv
<1>2. TypeOK'
  BY <1>1, CycleType
<1>3. (OnRing = UNION {Heads(k) : k \in Nodes})'
  BY <1>2, RingIsHeadsNext
<1>4. \A k \in Nodes : Heads(k)' = RecvFwd(k) \cup Injects(k, own)
  BY <1>1, QueueStep
<1>5. \A r \in own : r \notin OnRing
  BY DEF Offers, Idle
<1>6. \A k \in Nodes : RecvFwd(k) \subseteq Heads(Pred(k)) /\ Heads(Pred(k)) \subseteq OnRing
  BY <1>1, Neighbours, HeadsAreAll DEF RecvFwd
<1>7. ASSUME NEW j \in Nodes, NEW k \in Nodes, NEW r, r \in Heads(j)', r \in Heads(k)'
      PROVE  j = k
  <2>1. CASE r \in own
    <3>1. r \in Injects(j, own) /\ r \in Injects(k, own)
      BY <1>4, <1>5, <1>6, <1>7, <2>1
    <3>2. QED  BY <3>1 DEF Injects
  <2>2. CASE r \notin own
    <3>1. r \in Heads(Pred(j)) /\ r \in Heads(Pred(k))
      BY <1>4, <1>6, <1>7, <2>2 DEF Injects
    <3>2. Pred(j) = Pred(k)
      BY <1>1, <3>1, Neighbours DEF OnePlace
    <3>3. QED  BY <3>2, Neighbours
  <2>3. QED  BY <2>1, <2>2
<1>8. ASSUME NEW r, r \in OnRing', r \in Arrived'
      PROVE  FALSE
  <2>1. PICK k \in Nodes : r \in Heads(k)'
    BY <1>8, <1>3
  <2>2. PICK c \in Clusters : r \in Responses /\ port'[c] = r
    BY <1>8 DEF Arrived
  <2>3. r \in FromRing(c) \cup FromOwn(c, own)
    BY <1>1, <2>2, PortStep
  <2>4. Dst[r] = c /\ Zone[c] \in Nodes
    BY <2>3, RingAssumption DEF FromRing, FromOwn, Nodes
  <2>5. CASE r \in own
    <3>1. Src[r] = Zone[c]
      <4>1. r \notin FromRing(c)
        BY <1>1, <1>5, <2>4, <2>5, Neighbours, HeadsAreAll DEF FromRing, RecvLocal
      <4>2. QED  BY <2>3, <4>1 DEF FromOwn
    <3>2. r \in Injects(k, own)
      BY <1>4, <1>5, <1>6, <2>1, <2>5
    <3>3. QED  BY <2>4, <3>1, <3>2 DEF Injects, LocalTo
  <2>6. CASE r \notin own
    <3>1. r \in RecvLocal(Zone[c]) /\ r \in RecvFwd(k)
      BY <1>4, <2>1, <2>3, <2>6 DEF FromRing, FromOwn, Injects
    <3>2. r \in Heads(Pred(Zone[c])) /\ r \in Heads(Pred(k))
      BY <3>1 DEF RecvLocal, RecvFwd
    <3>3. Zone[c] = k
      BY <1>1, <2>4, <3>2, Neighbours DEF OnePlace
    <3>4. QED  BY <3>1, <3>3 DEF RecvFwd
  <2>7. QED  BY <2>5, <2>6
<1>9. QED  BY <1>7, <1>8 DEF OnePlace

LEMMA InitInv == Init => Inv
<1> SUFFICES ASSUME Init PROVE Inv
  OBVIOUS
<1>1. TypeOK
  BY DEF Init, TypeOK
<1>2. \A k \in Nodes : Heads(k) = {}
  BY DEF Init, Heads
<1>3. OnRing = {}
  BY <1>1, <1>2, HeadsAreAll
<1>4. QED  BY <1>1, <1>2, <1>3 DEF Inv, OnePlace

LEMMA NextInv == Inv /\ [Next]_vars => Inv'
<1> SUFFICES ASSUME Inv, [Next]_vars PROVE Inv'
  OBVIOUS
<1>1. CASE Next
  <2>1. PICK own \in Offers : Cycle(own)
    BY <1>1 DEF Next
  <2>2. QED  BY <2>1, CycleType, CycleOnePlace DEF Inv
<1>2. CASE UNCHANGED vars
  BY <1>2 DEF vars, Inv, TypeOK, OnePlace, OnRing, Arrived, Heads
<1>3. QED  BY <1>1, <1>2

\* No ring queue holds more than one response and no distributor anything but
\* a response, for every number of interfaces.
THEOREM TypeCorrect == Spec => []TypeOK
<1>1. Inv => TypeOK
  BY DEF Inv
<1>2. QED  BY <1>1, InitInv, NextInv, PTL DEF Spec

\* The response ring never blocks: with any number of memory interfaces, any
\* traffic and any pattern of injection each response on it advances in every
\* cycle (the deadlock avoidance of MemIf.scala:13-15).
THEOREM RingNeverBlocks == Spec => []NeverBlocked
<1>1. TypeOK => NeverBlocked
  BY RoomAhead DEF NeverBlocked, Heads
<1>2. QED  BY <1>1, TypeCorrect, PTL

\* The response path implements the service: nothing it accepts is lost,
\* duplicated or sent to another cluster, for every topology.
THEOREM RingImplementsService == Spec => ImplementsService
<1>1. Init => Service!Init
  <2> SUFFICES ASSUME Init PROVE Service!Init
    OBVIOUS
  <2>1. OnRing = {}
    BY DEF Init, OnRing, Entries
  <2>2. QED  BY <2>1 DEF Init, Service!Init
<1>2. Inv /\ Inv' /\ [Next]_vars => [Service!Next]_<<OnRing, port>>
  <2> SUFFICES ASSUME Inv, Inv', [Next]_vars
               PROVE  [Service!Next]_<<OnRing, port>>
    OBVIOUS
  <2>1. CASE UNCHANGED vars
    BY <2>1 DEF vars, OnRing
  <2>2. CASE Next
    <3>1. PICK own \in Offers : Cycle(own)
      BY <2>2 DEF Next
    <3> DEFINE enter == own \cap (OnRing' \cup Arrived')
    <3>2. TypeOK /\ OnePlace /\ TypeOK' /\ OnePlace'
      BY DEF Inv
    <3>3. enter \in SUBSET (Responses \ (OnRing \cup Arrived))
      BY DEF Offers, Idle
    <3>4. port' \in [Clusters -> Responses \cup {None}]
      BY <3>2 DEF TypeOK
    <3>5. ASSUME NEW c \in Clusters, port'[c] # None
          PROVE  port'[c] \in OnRing \cup enter /\ Dst[port'[c]] = c
      <4>1. port'[c] \in Responses
        BY <3>4, <3>5
      <4>2. port'[c] \in FromRing(c) \cup FromOwn(c, own)
        BY <3>1, <3>2, <4>1, PortStep
      <4>3. Zone[c] \in Nodes
        BY RingAssumption DEF Nodes
      <4>4. FromRing(c) \subseteq OnRing
        BY <3>2, <4>3, Neighbours, HeadsAreAll DEF FromRing, RecvLocal
      <4>5. port'[c] \in Arrived'
        BY <4>1 DEF Arrived
      <4>6. QED  BY <4>2, <4>4, <4>5 DEF FromRing, FromOwn
    <3>6. \A k \in Nodes : Heads(k)' = RecvFwd(k) \cup Injects(k, own)
      BY <3>1, <3>2, QueueStep
    <3>7. (OnRing = UNION {Heads(k) : k \in Nodes})'
      BY <3>2, RingIsHeadsNext
    <3>8. OnRing = UNION {Heads(k) : k \in Nodes} /\ OnRing \subseteq Responses
      BY <3>2, HeadsAreAll
    <3>9. ASSUME NEW r \in OnRing'
          PROVE  r \in OnRing \cup enter /\ \A c \in Clusters : port'[c] # r
      <4>1. PICK k \in Nodes : r \in RecvFwd(k) \cup Injects(k, own)
        BY <3>6, <3>7
      <4>2. r \in OnRing \cup own
        BY <3>8, <4>1, Neighbours DEF RecvFwd, Injects
      <4>3. r \in Responses
        BY <3>8, <4>2 DEF Offers, Idle
      <4>4. r \notin Arrived'
        BY <3>2 DEF OnePlace
      <4>5. QED  BY <4>2, <4>3, <4>4 DEF Arrived
    <3>10. ASSUME NEW r \in OnRing, \A c \in Clusters : port'[c] # r
           PROVE  r \in OnRing'
      <4>1. PICK k \in Nodes : r \in Heads(k)
        BY <3>8
      <4>2. Succ(k) \in Nodes /\ Pred(Succ(k)) = k
        BY Neighbours
      <4>3. r \in Responses /\ Dst[r] \in Clusters
        BY <3>8, RingAssumption
      <4>4. CASE r \in RecvLocal(Succ(k))
        <5>1. r \in FromRing(Dst[r])
          BY <4>4 DEF FromRing, RecvLocal, LocalTo
        <5>2. port'[Dst[r]] = r
          BY <3>1, <3>2, <4>3, <5>1, PortStep
        <5>3. QED  BY <3>10, <4>3, <5>2
      <4>5. CASE r \in RecvFwd(Succ(k))
        BY <3>6, <3>7, <4>2, <4>5
      <4>6. QED  BY <4>1, <4>2, <4>4, <4>5 DEF RecvFwd
    <3>11. ASSUME NEW r \in enter, \A c \in Clusters : port'[c] # r
           PROVE  r \in OnRing'
      BY <3>11 DEF Arrived
    <3>. HIDE DEF enter
    <3>12. OnRing' = {r \in OnRing \cup enter : \A c \in Clusters : port'[c] # r}
      BY <3>9, <3>10, <3>11
    <3>13. Service!Next
      BY <3>3, <3>4, <3>5, <3>12 DEF Service!Next, Service!Arrived, Arrived
    <3>14. QED  BY <3>13
  <2>3. QED  BY <2>1, <2>2
<1>3. QED  BY <1>1, <1>2, InitInv, NextInv, PTL DEF Spec, ImplementsService, Service!Spec

----------------------------------------------------------------------------
(* The simulator's ring *)

Messages(T) == {Response(r) : r \in T}
Ring == [offset : Nodes, valid : SUBSET Nodes, buffers : [Nodes -> Messages(Responses) \cup {None}]]

InPipes(k) == UNION {pipes[k][d] : d \in DOMAIN pipes[k]}
InPorts(k) == Messages({port[c] : c \in {d \in Clusters : Zone[d] = k}} \ {None})

CosimInv ==
    /\ Inv
    /\ ring \in Ring
    /\ \A k \in Nodes : S!PeekAt(ring, Memif(k)) = Messages(Heads(Pred(k)))
    /\ \A k \in MC : InPipes(k) = InPorts(k)

\* Cells of the ring: where node i looks when the numbering is turned by n.
Place(i, n) == IF i + n <= Last THEN i + n ELSE i + n - Last - 1

LEMMA Places ==
    ASSUME NEW r \in Ring
    PROVE  /\ S!RingSize(r) = Last + 1
           /\ \A i \in Nodes : S!Cell(r, i) = Place(i, r.offset) /\ S!Cell(r, i) \in Nodes
           /\ \A i, j \in Nodes : S!Cell(r, i) = S!Cell(r, j) => i = j
<1>1. Last \in Nat \ {0} /\ r.offset \in 0 .. Last
  BY RingAssumption DEF Ring, Nodes
<1>2. S!RingSize(r) = Last + 1
  <2>1. \A T : S!Cardinality(T) = Cardinality(T)
    BY DEF S!Cardinality, Cardinality
  <2>2. Cardinality(0 .. Last) = Last + 1
    BY <1>1, FS_Interval
  <2>3. DOMAIN r.buffers = 0 .. Last
    BY DEF Ring, Nodes
  <2>4. QED  BY <2>1, <2>2, <2>3 DEF S!RingSize
<1>3. ASSUME NEW i \in Nodes
      PROVE  S!Cell(r, i) = Place(i, r.offset) /\ S!Cell(r, i) \in Nodes
  <2>1. i \in 0 .. Last
    BY DEF Nodes
  <2>2. S!Cell(r, i) = (i + r.offset) % (Last + 1)
    BY <1>2 DEF S!Cell
  <2>3. (i + r.offset) % (Last + 1) = Place(i, r.offset)
    <3>1. Last + 1 \in Nat \ {0} /\ i \in 0 .. (Last + 1) - 1 /\ r.offset \in 0 .. Last + 1
      BY <1>1, <2>1
    <3>2. (i + r.offset) % (Last + 1) = IF i + r.offset < Last + 1 THEN i + r.offset ELSE i + r.offset - (Last + 1)
      BY <3>1, WrapAround
    <3>3. QED  BY <1>1, <2>1, <3>2 DEF Place
  <2>4. Place(i, r.offset) \in 0 .. Last
    BY <1>1, <2>1 DEF Place
  <2>5. QED  BY <2>2, <2>3, <2>4 DEF Nodes
<1>4. ASSUME NEW i \in Nodes, NEW j \in Nodes, Place(i, r.offset) = Place(j, r.offset)
      PROVE  i = j
  BY <1>1, <1>4 DEF Nodes, Place
<1>5. QED  BY <1>2, <1>3, <1>4

\* When the ring turns, each node sees what its predecessor saw.
LEMMA Turned ==
    ASSUME NEW r \in Ring
    PROVE  S!Progress(r) \in Ring /\ \A i \in Nodes : S!PeekAt(S!Progress(r), Succ(i)) = S!PeekAt(r, i)
<1> DEFINE p == S!Progress(r)
           n == IF r.offset = 0 THEN Last ELSE r.offset - 1
<1>1. Last \in Nat \ {0} /\ r.offset \in 0 .. Last
  BY RingAssumption DEF Ring, Nodes
<1>2. (r.offset + (Last + 1) - 1) % (Last + 1) = n
  <2>1. Last + 1 \in Nat \ {0} /\ r.offset \in 0 .. (Last + 1) - 1 /\ Last \in 0 .. Last + 1
    BY <1>1
  <2>2. (r.offset + Last) % (Last + 1) = IF r.offset + Last < Last + 1 THEN r.offset + Last ELSE r.offset + Last - (Last + 1)
    BY <2>1, WrapAround
  <2>3. r.offset + (Last + 1) - 1 = r.offset + Last
    BY <1>1
  <2>4. (IF r.offset + Last < Last + 1 THEN r.offset + Last ELSE r.offset + Last - (Last + 1)) = n
    BY <1>1
  <2>. HIDE DEF n
  <2>5. QED  BY <2>2, <2>3, <2>4, Zenon
<1>3. n \in Nodes
  BY <1>1 DEF Nodes
<1>4. p = [r EXCEPT !.offset = n]
  BY <1>2, Places DEF S!Progress
<1>. HIDE DEF p
<1>5. p \in Ring /\ p.offset = n /\ p.valid = r.valid /\ p.buffers = r.buffers
  <2>. HIDE DEF n
  <2>. QED  BY <1>3, <1>4 DEF Ring
<1>6. ASSUME NEW i \in Nodes
      PROVE  S!PeekAt(p, Succ(i)) = S!PeekAt(r, i)
  <2>1. Place(Succ(i), n) = Place(i, r.offset)
    BY <1>1 DEF Place, Succ, Nodes
  <2>. HIDE DEF n
  <2>2. S!Cell(p, Succ(i)) = S!Cell(r, i)
    BY <1>5, <2>1, Places, Neighbours
  <2>3. QED  BY <1>5, <2>2 DEF S!PeekAt, S!ValidAt
<1>7. QED  BY <1>5, <1>6 DEF p

AtMostOneEach(injected) == \A x, y \in injected : x[1] = y[1] => x = y
Untouched(injected, i) == \A x \in injected : x[1] # i

\* What the nodes see when some have injected a response and some have taken
\* theirs.
LEMMA Updated ==
    ASSUME NEW r \in Ring, NEW ejected \in SUBSET Nodes,
           NEW injected \in SUBSET (Nodes \X Messages(Responses)),
           AtMostOneEach(injected)
    PROVE  /\ S!UpdateValid(r, injected, ejected) \in Ring
           /\ \A x \in injected : S!PeekAt(S!UpdateValid(r, injected, ejected), x[1]) = {x[2]}
           /\ \A i \in Nodes : Untouched(injected, i) =>
                  S!PeekAt(S!UpdateValid(r, injected, ejected), i)
                      = IF i \in ejected THEN {} ELSE S!PeekAt(r, i)
<1> DEFINE gone == {S!Cell(r, i) : i \in ejected}
           come == {<<S!Cell(r, x[1]), x[2]>> : x \in injected}
           at(c) == {x \in come : x[1] = c}
           valid == (r.valid \ gone) \cup {x[1] : x \in come}
           buffers == [c \in Nodes |-> IF at(c) # {} THEN S!The(at(c))[2]
                                       ELSE IF c \in gone THEN None ELSE r.buffers[c]]
           u == S!UpdateValid(r, injected, ejected)
<1>1. DOMAIN r.buffers = Nodes
  BY DEF Ring
<1>2. u = [r EXCEPT !.valid = valid, !.buffers = buffers]
  BY <1>1 DEF S!UpdateValid
<1>3. \A x \in injected : x[1] \in Nodes /\ x[2] \in Messages(Responses) /\ x = <<x[1], x[2]>>
  OBVIOUS
<1>4. /\ \A i \in Nodes : S!Cell(r, i) \in Nodes
      /\ \A i, j \in Nodes : S!Cell(r, i) = S!Cell(r, j) => i = j
  BY Places
<1>5. ASSUME NEW x \in injected
      PROVE  at(S!Cell(r, x[1])) = {<<S!Cell(r, x[1]), x[2]>>}
  BY <1>3, <1>4 DEF AtMostOneEach
<1>6. ASSUME NEW c \in Nodes, at(c) # {}
      PROVE  S!The(at(c))[2] \in Messages(Responses)
  <2>1. PICK x \in injected : c = S!Cell(r, x[1])
    BY <1>6
  <2>2. S!The(at(c)) = <<c, x[2]>>
    BY <1>5, <2>1 DEF S!The
  <2>3. QED  BY <1>3, <2>2
<1>7. ASSUME NEW i \in Nodes, \A x \in injected : x[1] # i
      PROVE  at(S!Cell(r, i)) = {} /\ (S!Cell(r, i) \in valid <=> i \notin ejected /\ S!Cell(r, i) \in r.valid)
  <2>1. \A x \in injected : S!Cell(r, x[1]) # S!Cell(r, i)
    BY <1>3, <1>4, <1>7
  <2>2. S!Cell(r, i) \in gone <=> i \in ejected
    BY <1>4
  <2>3. QED  BY <2>1, <2>2
<1>8. valid \in SUBSET Nodes
  BY <1>3, <1>4 DEF Ring
<1>9. buffers \in [Nodes -> Messages(Responses) \cup {None}]
  BY <1>6 DEF Ring
<1>10. \A x \in injected : S!Cell(r, x[1]) \in valid /\ buffers[S!Cell(r, x[1])] = x[2]
  <2>1. SUFFICES ASSUME NEW x \in injected
                 PROVE  S!Cell(r, x[1]) \in valid /\ buffers[S!Cell(r, x[1])] = x[2]
    OBVIOUS
  <2>2. S!Cell(r, x[1]) \in Nodes
    BY <1>3, <1>4
  <2>3. at(S!Cell(r, x[1])) # {} /\ S!The(at(S!Cell(r, x[1])))[2] = x[2]
    <3> DEFINE w == <<S!Cell(r, x[1]), x[2]>>
               A == at(S!Cell(r, x[1]))
    <3>1. A = {w} /\ w[2] = x[2]
      BY <1>5
    <3> HIDE DEF w, A
    <3>2. A # {} /\ S!The(A)[2] = x[2]
      BY <3>1 DEF S!The
    <3>3. QED  BY <3>2 DEF A
  <2>4. S!Cell(r, x[1]) \in valid
    <3> DEFINE w == <<S!Cell(r, x[1]), x[2]>>
    <3>1. w \in come /\ w[1] = S!Cell(r, x[1])
      OBVIOUS
    <3> HIDE DEF come, gone, w
    <3>2. w[1] \in valid
      BY <3>1
    <3>3. QED  BY <3>1, <3>2
  <2>5. QED  BY <2>2, <2>3, <2>4
<1>11. \A i \in Nodes : (\A x \in injected : x[1] # i) /\ i \notin ejected =>
           buffers[S!Cell(r, i)] = r.buffers[S!Cell(r, i)]
  BY <1>4, <1>7
<1>. HIDE DEF valid, buffers, at, u
<1>12. u \in Ring /\ u.offset = r.offset /\ u.valid = valid /\ u.buffers = buffers
  BY <1>2, <1>8, <1>9 DEF Ring
<1>13. \A i \in Nodes : S!Cell(u, i) = S!Cell(r, i)
  BY <1>12, Places
<1>14. \A x \in injected : S!PeekAt(u, x[1]) = {x[2]}
  BY <1>3, <1>10, <1>12, <1>13 DEF S!PeekAt, S!ValidAt
<1>15. \A i \in Nodes : (\A x \in injected : x[1] # i) =>
           S!PeekAt(u, i) = IF i \in ejected THEN {} ELSE S!PeekAt(r, i)
  BY <1>7, <1>11, <1>12, <1>13 DEF S!PeekAt, S!ValidAt
<1>16. QED  BY <1>12, <1>14, <1>15 DEF u, Untouched

\* A cluster belongs to the zone whose PUs its own is among.
LEMMA OwnPUs ==
    ASSUME NEW r \in Responses
    PROVE  /\ Dst[r] \in Clusters /\ Response(r).dst = PU[Dst[r]]
           /\ \A k \in Nodes : Response(r).dst \in Domain(k) <=> LocalTo(k, r)
           /\ ~LocalTo(Last, r)
<1>1. Dst[r] \in Clusters /\ Response(r).dst = PU[Dst[r]] /\ Zone[Dst[r]] \in 0 .. Last - 1
  BY RingAssumption DEF Response
<1>2. \A k \in Nodes : PU[Dst[r]] \in Domain(k) <=> Zone[Dst[r]] = k
  BY <1>1, PUAssumption DEF Domain
<1>3. QED  BY <1>1, <1>2, RingAssumption DEF LocalTo

Mine(k, own) == {r \in own : Src[r] = k}
Peek(k, own) == S!UnicastPeek(Domain(k), S!PeekAt(ring, Memif(k)), Messages(Mine(k, own)))
Remote(k, own) == IF k = Last THEN Messages(Mine(k, own)) ELSE Peek(k, own).mshrRemote
Ejected == {Memif(k) : k \in {n \in Nodes : RingAccept(n)}}
Injected(own) ==
    UNION {{<<Memif(k), r>> : r \in Remote(k, own)} :
           k \in {n \in Nodes : S!RingCanInject(ring, Memif(n), Ejected)}}

\* Who takes a response from the ring and who injects one, in the terms of
\* the hardware.
LEMMA RingDecisions ==
    ASSUME CosimInv, NEW own \in Offers, NEW k \in Nodes
    PROVE  /\ RingAccept(k) <=> RecvLocal(k) # {}
           /\ Memif(k) \in Ejected <=> RecvLocal(k) # {}
           /\ S!RingCanInject(ring, Memif(k), Ejected) <=> (fwd[k] = <<>> /\ RecvFwd(k) = {})
           /\ Remote(k, own) = Messages({r \in Mine(k, own) : ~LocalTo(k, r)})
<1>1. TypeOK /\ ring \in Ring /\ \A j \in Nodes : S!PeekAt(ring, Memif(j)) = Messages(Heads(Pred(j)))
  BY DEF CosimInv, Inv
<1>2. \A j \in Nodes : /\ Succ(j) \in Nodes /\ Pred(j) \in Nodes
                       /\ Succ(Pred(j)) = j /\ Pred(Succ(j)) = j
  BY Neighbours
<1>3. \A j \in Nodes : Heads(j) \subseteq Responses /\ \A r, s \in Heads(j) : r = s
  BY <1>1, HeadsAreAll
<1>4. \A j \in Nodes : RingAccept(j) <=> RecvLocal(j) # {}
  <2> SUFFICES ASSUME NEW j \in Nodes PROVE RingAccept(j) <=> RecvLocal(j) # {}
    OBVIOUS
  <2>1. RingAccept(j) <=> j # Last /\ \E r \in Heads(Pred(j)) : Response(r).dst \in Domain(j)
    BY <1>1 DEF RingAccept, Messages
  <2>2. RingAccept(j) <=> j # Last /\ \E r \in Heads(Pred(j)) : LocalTo(j, r)
    BY <1>2, <1>3, <2>1, OwnPUs
  <2>3. j = Last => \A r \in Heads(Pred(j)) : ~LocalTo(j, r)
    BY <1>2, <1>3, OwnPUs
  <2>4. QED  BY <2>2, <2>3 DEF RecvLocal
<1>5. \A j \in Nodes : Memif(j) \in Ejected <=> RecvLocal(j) # {}
  BY <1>2, <1>4 DEF Ejected, Memif
<1>6. S!RingCanInject(ring, Memif(k), Ejected) <=> (fwd[k] = <<>> /\ RecvFwd(k) = {})
  <2>1. \A j \in Nodes : S!ValidAt(ring, Memif(j)) <=> Heads(Pred(j)) # {}
    <3>1. \A j \in Nodes : S!ValidAt(ring, Memif(j)) <=> S!PeekAt(ring, Memif(j)) # {}
      BY DEF S!PeekAt
    <3>2. QED  BY <1>1, <3>1 DEF Messages
  <2>2. (Memif(k) + 1) % S!RingSize(ring) = Memif(Succ(k))
    <3>1. S!RingSize(ring) = Last + 1 /\ Last \in Nat \ {0} /\ Memif(k) \in 0 .. Last
      BY <1>1, <1>2, Places, RingAssumption DEF Memif, Nodes
    <3>2. (Memif(k) + 1) % (Last + 1) = IF Memif(k) + 1 < Last + 1 THEN Memif(k) + 1 ELSE Memif(k) + 1 - (Last + 1)
      <4>1. Last + 1 \in Nat \ {0} /\ Memif(k) \in 0 .. (Last + 1) - 1 /\ 1 \in 0 .. Last + 1
        BY <3>1
      <4>2. QED  BY <4>1, WrapAround
    <3>3. Memif(Succ(k)) = IF Memif(k) = Last THEN 0 ELSE Memif(k) + 1
      BY DEF Memif, Succ
    <3>4. QED  BY <3>1, <3>2, <3>3
  <2>3. S!ValidAt(ring, (Memif(k) + 1) % S!RingSize(ring)) <=> Heads(k) # {}
    BY <1>2, <2>1, <2>2
  <2>4. (Heads(Pred(k)) = {} \/ RecvLocal(k) # {}) <=> RecvFwd(k) = {}
    BY <1>2, <1>3 DEF RecvLocal, RecvFwd
  <2>5. QED  BY <1>5, <2>1, <2>3, <2>4 DEF S!RingCanInject, Heads
<1>7. Remote(k, own) = Messages({r \in Mine(k, own) : ~LocalTo(k, r)})
  <2>1. Mine(k, own) \subseteq Responses
    BY DEF Mine, Offers, Idle
  <2>2. CASE k = Last
    <3>1. Mine(k, own) = {r \in Mine(k, own) : ~LocalTo(k, r)}
      BY <2>1, <2>2, OwnPUs
    <3>2. QED  BY <2>2, <3>1 DEF Remote
  <2>3. CASE k # Last
    <3> DEFINE M == Messages(Mine(k, own))
    <3>1. Remote(k, own) = M \ {r \in M : r.dst \in Domain(k)}
      BY <2>3 DEF Remote, Peek, S!UnicastPeek
    <3>2. \A r \in Mine(k, own) : Response(r).dst \in Domain(k) <=> LocalTo(k, r)
      BY <2>1, OwnPUs
    <3>3. QED  BY <3>1, <3>2 DEF Messages
  <2>4. QED  BY <2>2, <2>3
<1>8. QED  BY <1>4, <1>5, <1>6, <1>7

\* The ring after a cycle holds what the hardware's queues hold.
LEMMA RingMirrors ==
    ASSUME CosimInv, NEW own \in Offers, Both(own)
    PROVE  ring' \in Ring /\ \A k \in Nodes : S!PeekAt(ring', Memif(k)) = Messages(Heads(Pred(k))')
<1> DEFINE u == S!UpdateValid(ring, Injected(own), Ejected)
<1>1. TypeOK /\ ring \in Ring /\ \A j \in Nodes : S!PeekAt(ring, Memif(j)) = Messages(Heads(Pred(j)))
  BY DEF CosimInv, Inv
<1>2. \A j \in Nodes : /\ Succ(j) \in Nodes /\ Pred(j) \in Nodes
                       /\ Succ(Pred(j)) = j /\ Pred(Succ(j)) = j
  BY Neighbours
<1>3. ring' = S!Progress(u)
  BY DEF Both, SoftCycle, Injected, Remote, Peek, Mine, Ejected, Messages
<1>4. \A k \in Nodes : Heads(k)' = RecvFwd(k) \cup Injects(k, own)
  <2>1. Cycle(own)
    BY DEF Both
  <2>2. QED  BY <1>1, <2>1, QueueStep
<1>5. own \subseteq Responses /\ \A r, s \in own : Src[r] = Src[s] => r = s
  BY DEF Offers, Idle
<1>6. \A x : x \in Injected(own) <=>
          \E k \in Nodes, r \in own : r \in Injects(k, own) /\ x = <<Memif(k), Response(r)>>
  <2>1. ASSUME NEW x
        PROVE  x \in Injected(own) <=>
                 \E k \in Nodes : /\ S!RingCanInject(ring, Memif(k), Ejected)
                                  /\ \E m \in Remote(k, own) : x = <<Memif(k), m>>
    BY DEF Injected
  <2>2. ASSUME NEW k \in Nodes
        PROVE  /\ S!RingCanInject(ring, Memif(k), Ejected) <=> (fwd[k] = <<>> /\ RecvFwd(k) = {})
               /\ \A m : m \in Remote(k, own) <=>
                           \E r \in own : Src[r] = k /\ ~LocalTo(k, r) /\ m = Response(r)
    BY RingDecisions DEF Messages, Mine
  <2>3. QED  BY <2>1, <2>2 DEF Injects
<1>7. /\ Injected(own) \in SUBSET (Nodes \X Messages(Responses))
      /\ AtMostOneEach(Injected(own))
  <2>1. \A k \in Nodes : \A r \in Injects(k, own) :
            Memif(k) \in Nodes /\ Response(r) \in Messages(Responses)
    BY <1>2, <1>5 DEF Memif, Injects, Messages
  <2>2. \A j, k \in Nodes : Memif(j) = Memif(k) => j = k
    BY <1>2 DEF Memif
  <2>3. \A k \in Nodes : \A r, s \in Injects(k, own) : r = s
    BY <1>5 DEF Injects
  <2>4. \A x \in Injected(own) : x \in Nodes \X Messages(Responses)
    BY <1>6, <2>1
  <2>5. ASSUME NEW x \in Injected(own), NEW y \in Injected(own), x[1] = y[1]
        PROVE  x = y
    <3>1. PICK j \in Nodes, r \in own : r \in Injects(j, own) /\ x = <<Memif(j), Response(r)>>
      BY <1>6
    <3>2. PICK k \in Nodes, s \in own : s \in Injects(k, own) /\ y = <<Memif(k), Response(s)>>
      BY <1>6
    <3>3. Memif(j) = Memif(k)
      BY <2>5, <3>1, <3>2
    <3>4. j = k
      BY <2>2, <3>3
    <3>5. r = s
      BY <2>3, <3>1, <3>2, <3>4
    <3>6. QED  BY <3>1, <3>2, <3>4, <3>5
  <2>6. QED  BY <2>4, <2>5 DEF AtMostOneEach
<1>8. Ejected \in SUBSET Nodes
  BY <1>2 DEF Ejected, Memif
<1>9. /\ u \in Ring
      /\ \A x \in Injected(own) : S!PeekAt(u, x[1]) = {x[2]}
      /\ \A i \in Nodes : Untouched(Injected(own), i) =>
             S!PeekAt(u, i) = IF i \in Ejected THEN {} ELSE S!PeekAt(ring, i)
  BY <1>1, <1>7, <1>8, Updated
<1>. HIDE DEF u
<1>10. ASSUME NEW k \in Nodes
       PROVE  S!PeekAt(u, Memif(k)) = Messages(Heads(k)')
  <2>1. CASE Injects(k, own) # {}
    <3>1. PICK r \in own : r \in Injects(k, own)
      BY <2>1 DEF Injects
    <3>2. <<Memif(k), Response(r)>> \in Injected(own)
      BY <1>6, <3>1
    <3>3. S!PeekAt(u, Memif(k)) = {Response(r)}
      <4> DEFINE x == <<Memif(k), Response(r)>>
      <4>1. x \in Injected(own) /\ x[1] = Memif(k) /\ x[2] = Response(r)
        BY <3>2
      <4> HIDE DEF x
      <4>2. QED  BY <1>9, <4>1
    <3>4. RecvFwd(k) = {} /\ \A s \in Injects(k, own) : s = r
      BY <1>5, <3>1 DEF Injects
    <3>5. Heads(k)' = {r}
      BY <1>4, <3>1, <3>4
    <3>6. Messages({r}) = {Response(r)}
      BY DEF Messages
    <3>7. QED  BY <3>3, <3>5, <3>6
  <2>2. CASE Injects(k, own) = {}
    <3>1. Untouched(Injected(own), Memif(k))
      <4>1. ASSUME NEW x \in Injected(own), x[1] = Memif(k)
            PROVE  FALSE
        <5>1. PICK j \in Nodes, r \in own : r \in Injects(j, own) /\ x = <<Memif(j), Response(r)>>
          BY <1>6
        <5>2. Memif(j) = Memif(k)
          BY <4>1, <5>1
        <5>3. j = k
          BY <1>2, <5>2 DEF Memif
        <5>4. QED  BY <2>2, <5>1, <5>3
      <4>2. QED  BY <4>1 DEF Untouched
    <3>2. S!PeekAt(u, Memif(k)) = IF RecvLocal(k) # {} THEN {} ELSE Messages(Heads(Pred(k)))
      <4>1. Memif(k) \in Nodes
        BY <1>2 DEF Memif
      <4>2. Memif(k) \in Ejected <=> RecvLocal(k) # {}
        BY RingDecisions
      <4>3. QED  BY <1>1, <1>9, <3>1, <4>1, <4>2
    <3>3. RecvFwd(k) = IF RecvLocal(k) # {} THEN {} ELSE Heads(Pred(k))
      <4>1. \A r, s \in Heads(Pred(k)) : r = s
        BY <1>1, <1>2, HeadsAreAll
      <4>2. QED  BY <4>1 DEF RecvFwd, RecvLocal
    <3>4. Heads(k)' = RecvFwd(k)
      BY <1>4, <2>2
    <3>5. Messages({}) = {}
      BY DEF Messages
    <3>6. QED  BY <3>2, <3>3, <3>4, <3>5
  <2>3. QED  BY <2>1, <2>2
<1>11. ring' \in Ring /\ \A i \in Nodes : S!PeekAt(ring', Succ(i)) = S!PeekAt(u, i)
  BY <1>3, <1>9, Turned
<1>12. ASSUME NEW k \in Nodes
       PROVE  S!PeekAt(ring', Memif(k)) = Messages(Heads(Pred(k))')
  <2>1. Pred(k) \in Nodes /\ Memif(k) = Succ(Memif(Pred(k))) /\ Memif(Pred(k)) \in Nodes
    BY <1>2 DEF Memif
  <2>2. QED  BY <1>10, <1>11, <2>1
<1>13. QED  BY <1>11, <1>12

\* The PUs of an interface follow each other, so that each has a pipe.
LEMMA PipeNumbers ==
    ASSUME NEW k \in Nodes, NEW p \in Domain(k)
    PROVE  (p - S!Lowest(Domain(k))) \div 1 \in 0 .. S!Cardinality(Domain(k)) \div 1 - 1
<1> DEFINE low == Lowest(Domain(k))
<1>1. Domain(k) \in SUBSET Nat
  BY PUAssumption DEF Domain
<1>2. low \in Domain(k) /\ low <= p /\ low \in Nat /\ p \in Nat
  BY <1>1, LeastMember
<1>3. IsFiniteSet(Domain(k))
  <2> DEFINE C == {c \in Clusters : Zone[c] = k}
  <2>1. IsFiniteSet(C)
    BY PUAssumption, FS_Subset
  <2>2. Domain(k) = {PU[c] : c \in C}
    BY DEF Domain
  <2>3. [c \in C |-> PU[c]] \in Surjection(C, Domain(k))
    BY <2>2 DEF Surjection
  <2> HIDE DEF C
  <2>4. QED  BY <2>1, <2>3, FS_Surjection
<1>4. low .. p \subseteq Domain(k)
  <2>1. PICK c \in Clusters : Zone[c] = k /\ low = PU[c]
    BY <1>2 DEF Domain
  <2>2. PICK d \in Clusters : Zone[d] = k /\ p = PU[d]
    BY DEF Domain
  <2>3. QED  BY <2>1, <2>2, PUAssumption
<1>5. p - low + 1 <= Cardinality(Domain(k)) /\ Cardinality(Domain(k)) \in Nat
  <2>1. Cardinality(low .. p) = p - low + 1
    BY <1>2, FS_Interval
  <2>2. QED  BY <1>3, <1>4, <2>1, FS_Subset, FS_CardinalityType
<1>6. S!Lowest(Domain(k)) = low /\ S!Cardinality(Domain(k)) = Cardinality(Domain(k))
  <2>1. \A T : S!Cardinality(T) = Cardinality(T)
    BY DEF S!Cardinality, Cardinality
  <2>2. QED  BY <2>1 DEF Lowest, S!Lowest
<1>. HIDE DEF low
<1>7. \A n \in Nat : n \div 1 = n
  OBVIOUS
<1>8. (p - low) \div 1 = p - low /\ Cardinality(Domain(k)) \div 1 = Cardinality(Domain(k))
  BY <1>2, <1>5, <1>7
<1>9. QED  BY <1>2, <1>5, <1>6, <1>8

Delivering(k, own) == Peek(k, own).ringLocal \cup Peek(k, own).mshrLocal

\* What an interface hands to its distributors, in the terms of the hardware.
LEMMA LocalDecisions ==
    ASSUME CosimInv, NEW own \in Offers, NEW k \in MC
    PROVE  /\ \A m \in Delivering(k, own) : m.dst \in Domain(k)
           /\ \A m : m \in Delivering(k, own) <=>
                  \E c \in Clusters, r \in Responses :
                      Zone[c] = k /\ r \in FromRing(c) \cup FromOwn(c, own) /\ m = Response(r)
<1> DEFINE dist(m) == (m.dst - S!Lowest(Domain(k))) \div 1
           at == Messages(Heads(Pred(k)))
           mine == Messages(Mine(k, own))
           arriving == {m \in at : m.dst \in Domain(k)}
           answered == {m \in mine : m.dst \in Domain(k)}
           waits == {m \in answered : \A n \in arriving : dist(n) # dist(m)}
<1>1. k \in Nodes /\ Pred(k) \in Nodes
  BY Neighbours DEF MC
<1>2. TypeOK /\ S!PeekAt(ring, Memif(k)) = at
  BY <1>1 DEF CosimInv, Inv
<1>3. Heads(Pred(k)) \subseteq Responses /\ Mine(k, own) \subseteq Responses
  BY <1>1, <1>2, HeadsAreAll DEF Mine, Offers, Idle
<1>4. Delivering(k, own) = arriving \cup waits
  BY <1>2 DEF Delivering, Peek, S!UnicastPeek
<1>5. \A m : m \in arriving <=> \E r \in RecvLocal(k) : m = Response(r)
  <2>1. \A r \in Heads(Pred(k)) : Response(r).dst \in Domain(k) <=> LocalTo(k, r)
    BY <1>1, <1>3, OwnPUs
  <2>2. QED  BY <2>1 DEF RecvLocal, Messages
<1>6. \A m : m \in answered <=> \E r \in Mine(k, own) : LocalTo(k, r) /\ m = Response(r)
  <2>1. \A r \in Mine(k, own) : Response(r).dst \in Domain(k) <=> LocalTo(k, r)
    BY <1>1, <1>3, OwnPUs
  <2>2. QED  BY <2>1 DEF Messages
<1>7. \A m, n \in arriving \cup answered : dist(m) = dist(n) <=> m.dst = n.dst
  <2> SUFFICES ASSUME NEW m \in arriving \cup answered, NEW n \in arriving \cup answered
               PROVE  dist(m) = dist(n) <=> m.dst = n.dst
    OBVIOUS
  <2> DEFINE low == S!Lowest(Domain(k))
             p == m.dst
             q == n.dst
  <2>1. p \in Domain(k) /\ q \in Domain(k)
    OBVIOUS
  <2>2. p \in Nat /\ q \in Nat
    BY <2>1, PUAssumption DEF Domain
  <2>3. low \in Nat
    <3>1. Domain(k) \in SUBSET Nat
      BY PUAssumption DEF Domain
    <3>2. Lowest(Domain(k)) \in Nat
      BY <2>1, <3>1, LeastMember
    <3>3. QED  BY <3>2 DEF Lowest, S!Lowest
  <2>. HIDE DEF p, q, low
  <2>4. (p - low) \div 1 = p - low /\ (q - low) \div 1 = q - low
    BY <2>2, <2>3
  <2>5. (p - low) \div 1 = (q - low) \div 1 <=> p = q
    BY <2>2, <2>3, <2>4
  <2>6. QED  BY <2>5 DEF p, q, low
<1>. HIDE DEF at, mine, dist, arriving
<1>8. \A m : m \in waits <=> m \in answered /\ \A n \in arriving : n.dst # m.dst
  BY <1>7
<1>. HIDE DEF answered, waits
<1>9. ASSUME NEW r \in Responses, LocalTo(k, r)
      PROVE  /\ Dst[r] \in Clusters /\ Zone[Dst[r]] = k
             /\ \A s \in Responses : Response(s).dst = Response(r).dst <=> Dst[s] = Dst[r]
  BY <1>9, OwnPUs, PUAssumption DEF LocalTo
<1>10. ASSUME NEW m, m \in Delivering(k, own)
       PROVE  \E c \in Clusters, r \in Responses :
                  Zone[c] = k /\ r \in FromRing(c) \cup FromOwn(c, own) /\ m = Response(r)
  <2>1. CASE m \in arriving
    <3>1. PICK r \in RecvLocal(k) : m = Response(r)
      BY <1>5, <2>1
    <3>2. r \in Responses /\ LocalTo(k, r)
      BY <1>3, <3>1 DEF RecvLocal
    <3>3. Zone[Dst[r]] = k /\ Dst[r] \in Clusters
      BY <1>9, <3>2
    <3>4. r \in FromRing(Dst[r])
      BY <3>1, <3>3 DEF FromRing
    <3>5. QED  BY <3>1, <3>2, <3>3, <3>4
  <2>2. CASE m \in waits
    <3>1. PICK r \in Mine(k, own) : LocalTo(k, r) /\ m = Response(r)
      BY <1>6, <1>8, <2>2
    <3>2. r \in Responses /\ Zone[Dst[r]] = k /\ Dst[r] \in Clusters
      BY <1>3, <1>9, <3>1
    <3>3. ASSUME NEW s \in RecvLocal(k), Dst[s] = Dst[r]
          PROVE  FALSE
      <4>1. s \in Responses /\ Response(s) \in arriving
        BY <1>3, <1>5, <3>3 DEF RecvLocal
      <4>2. Response(s).dst = m.dst
        BY <1>9, <3>1, <3>2, <3>3, <4>1
      <4>3. QED  BY <1>8, <2>2, <4>1, <4>2
    <3>4. r \in FromOwn(Dst[r], own)
      BY <3>1, <3>2, <3>3 DEF FromOwn, FromRing, Mine
    <3>5. QED  BY <3>1, <3>2, <3>4
  <2>3. QED  BY <1>4, <1>10, <2>1, <2>2
<1>11. ASSUME NEW c \in Clusters, NEW r \in Responses, Zone[c] = k,
              r \in FromRing(c) \cup FromOwn(c, own)
       PROVE  Response(r) \in Delivering(k, own)
  <2>1. Dst[r] = c /\ LocalTo(k, r)
    BY <1>11 DEF FromRing, FromOwn, LocalTo
  <2>2. CASE r \in FromRing(c)
    BY <1>4, <1>5, <1>11, <2>2 DEF FromRing
  <2>3. CASE r \in FromOwn(c, own)
    <3>1. r \in Mine(k, own) /\ FromRing(c) = {}
      BY <1>11, <2>3 DEF FromOwn, Mine
    <3>2. Response(r) \in answered
      BY <1>6, <2>1, <3>1
    <3>3. ASSUME NEW n \in arriving, n.dst = Response(r).dst
          PROVE  FALSE
      <4>1. PICK s \in RecvLocal(k) : n = Response(s)
        BY <1>5
      <4>2. s \in Responses
        BY <1>3 DEF RecvLocal
      <4>3. Dst[s] = c
        BY <1>9, <2>1, <3>3, <4>1, <4>2
      <4>4. s \in FromRing(c)
        BY <1>11, <4>3 DEF FromRing
      <4>5. QED  BY <3>1, <4>4
    <3>4. QED  BY <1>4, <1>8, <3>2, <3>3
  <2>4. QED  BY <1>11, <2>2, <2>3
<1>12. ASSUME NEW m \in Delivering(k, own)
       PROVE  m.dst \in Domain(k)
  BY <1>4, <1>12 DEF arriving, answered, waits
<1>13. QED  BY <1>10, <1>11, <1>12

LEMMA PipesMirror ==
    ASSUME CosimInv, NEW own \in Offers, Both(own), NEW k \in MC
    PROVE  InPipes(k)' = InPorts(k)'
<1>1. k \in Nodes /\ TypeOK /\ Cycle(own)
  BY DEF MC, CosimInv, Inv, Both
<1>2. pipes'[k] = S!Pipes(Domain(k), Peek(k, own))
  BY DEF Both, SoftCycle, Peek, Mine, Messages
<1>3. InPipes(k)' = Delivering(k, own)
  <2> DEFINE D == Delivering(k, own)
             n == S!Cardinality(Domain(k)) \div 1 - 1
             num(m) == (m.dst - S!Lowest(Domain(k))) \div 1
  <2>1. pipes'[k] = [d \in 0 .. n |-> {m \in D : num(m) = d}]
    BY <1>2 DEF S!Pipes, Delivering
  <2>2. \A m \in D : num(m) \in 0 .. n
    <3> SUFFICES ASSUME NEW m \in D PROVE num(m) \in 0 .. n
      OBVIOUS
    <3>1. m.dst \in Domain(k)
      BY LocalDecisions
    <3>2. QED  BY <1>1, <3>1, PipeNumbers
  <2>. HIDE DEF D, n, num
  <2>3. DOMAIN pipes'[k] = 0 .. n /\ \A d \in 0 .. n : pipes'[k][d] = {m \in D : num(m) = d}
    BY <2>1
  <2>4. UNION {pipes'[k][d] : d \in DOMAIN pipes'[k]} = D
    BY <2>2, <2>3
  <2>5. QED  BY <2>4 DEF InPipes, D
<1>4. \A m : m \in InPorts(k)' <=>
          \E c \in Clusters, r \in Responses : Zone[c] = k /\ port'[c] = r /\ m = Response(r)
  <2>1. \A c \in Clusters : port'[c] \in Responses \cup {None}
    BY <1>1, PortStep
  <2>2. None \notin Responses
    BY RingAssumption
  <2>3. QED  BY <2>1, <2>2 DEF InPorts, Messages
<1>5. \A c \in Clusters : \A r \in Responses :
          port'[c] = r <=> r \in FromRing(c) \cup FromOwn(c, own)
  BY <1>1, PortStep
<1>6. \A m : m \in Delivering(k, own) <=>
          \E c \in Clusters, r \in Responses :
              Zone[c] = k /\ r \in FromRing(c) \cup FromOwn(c, own) /\ m = Response(r)
  BY LocalDecisions
<1>7. QED  BY ZenonT(60), <1>3, <1>4, <1>5, <1>6

LEMMA CosimInitInv == CosimInit => CosimInv
<1> SUFFICES ASSUME CosimInit PROVE CosimInv
  OBVIOUS
<1>1. Inv /\ Init
  BY InitInv DEF CosimInit
<1>2. ring = S!NewRing(Last + 1)
  BY DEF CosimInit
<1>3. 0 .. Last + 1 - 1 = Nodes /\ 0 \in Nodes
  BY RingAssumption DEF Nodes
<1>4. ring \in Ring /\ ring.valid = {}
  <2> DEFINE n == Last + 1
             b == [i \in 0 .. n - 1 |-> None]
             o == 0
             e == {}
  <2>1. ring = S!NewRing(n) /\ 0 .. n - 1 = Nodes
    <3>1. ring = S!NewRing(n)
      BY <1>2, Zenon
    <3>2. n - 1 = Last
      BY RingAssumption
    <3>3. QED  BY <3>1, <3>2 DEF Nodes
  <2>2. o \in Nodes /\ e \in SUBSET Nodes /\ e = {}
    BY <1>3
  <2>. HIDE DEF n
  <2>3. b \in [Nodes -> Messages(Responses) \cup {None}]
    BY <2>1
  <2>4. ring = [offset |-> o, valid |-> e, buffers |-> b]
    BY <2>1, Zenon DEF S!NewRing
  <2>. HIDE DEF b, o, e
  <2>5. QED  BY <2>2, <2>3, <2>4 DEF Ring
<1>5. \A k \in Nodes : S!PeekAt(ring, Memif(k)) = Messages(Heads(Pred(k)))
  <2>1. \A k \in Nodes : S!PeekAt(ring, Memif(k)) = {}
    BY <1>4 DEF S!PeekAt, S!ValidAt
  <2>2. \A k \in Nodes : Heads(Pred(k)) = {}
    BY <1>1, Neighbours DEF Init, Heads
  <2>3. QED  BY <2>1, <2>2 DEF Messages
<1>6. ASSUME NEW k \in MC
      PROVE  InPipes(k) = InPorts(k)
  <2>1. InPipes(k) = {}
    BY DEF CosimInit, InPipes
  <2>2. {port[c] : c \in {d \in Clusters : Zone[d] = k}} \ {None} = {}
    BY <1>1 DEF Init
  <2>3. QED  BY <2>1, <2>2 DEF InPorts, Messages
<1>7. QED  BY <1>1, <1>4, <1>5, <1>6 DEF CosimInv

LEMMA CosimNextInv == CosimInv /\ [CosimNext]_<<vars, softVars>> => CosimInv'
<1> SUFFICES ASSUME CosimInv, [CosimNext]_<<vars, softVars>> PROVE CosimInv'
  OBVIOUS
<1>1. CASE CosimNext
  <2>1. PICK own \in Offers : Both(own)
    BY <1>1 DEF CosimNext
  <2>2. Inv'
    <3>1. Next
      BY <2>1 DEF Next, Both
    <3>2. QED  BY <3>1, NextInv DEF CosimInv
  <2>3. ring' \in Ring /\ \A k \in Nodes : S!PeekAt(ring', Memif(k)) = Messages(Heads(Pred(k))')
    BY <2>1, RingMirrors
  <2>4. \A k \in MC : InPipes(k)' = InPorts(k)'
    BY <2>1, PipesMirror
  <2>5. QED  BY <2>2, <2>3, <2>4 DEF CosimInv
<1>2. CASE UNCHANGED <<vars, softVars>>
  <2>1. Inv'
    BY <1>2, NextInv DEF CosimInv
  <2>2. UNCHANGED <<fwd, port, ring, pipes>>
    BY <1>2 DEF vars, softVars
  <2>3. \A k \in Nodes : Heads(Pred(k))' = Heads(Pred(k))
    BY <2>2 DEF Heads
  <2>4. \A k \in MC : InPipes(k)' = InPipes(k) /\ InPorts(k)' = InPorts(k)
    BY <2>2 DEF InPipes, InPorts
  <2>5. QED  BY <2>1, <2>2, <2>3, <2>4 DEF CosimInv
<1>3. QED  BY <1>1, <1>2

\* The simulator's ring is the hardware's, cycle by cycle, for any number of
\* interfaces and clusters: the same responses on the same stretches and on
\* the way to the same cores, although it turns the numbering of its cells
\* where the hardware moves the responses.
THEOREM SimulatorAgrees == CosimSpec => []RingsAgree
<1>1. CosimInv => RingsAgree
  <2> SUFFICES ASSUME CosimInv PROVE RingsAgree
    OBVIOUS
  <2>1. \A k \in Nodes : S!PeekAt(ring, Memif(Succ(k))) = Messages(Entries(fwd[k]))
    <3> SUFFICES ASSUME NEW k \in Nodes
                 PROVE  S!PeekAt(ring, Memif(Succ(k))) = Messages(Entries(fwd[k]))
      OBVIOUS
    <3>1. Succ(k) \in Nodes /\ Pred(Succ(k)) = k
      BY Neighbours
    <3>2. Heads(k) = Entries(fwd[k])
      BY HeadsAreAll DEF CosimInv, Inv
    <3>3. QED  BY <3>1, <3>2 DEF CosimInv
  <2>2. QED  BY <2>1 DEF CosimInv, RingsAgree, InPipes, InPorts, Messages
<1>2. QED  BY <1>1, CosimInitInv, CosimNextInv, PTL DEF CosimSpec

=============================================================================
