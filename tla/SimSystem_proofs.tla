-------------------------- MODULE SimSystem_proofs --------------------------
(***************************************************************************)
(* Proofs about the frontend of the simulator and its memory interfaces,   *)
(* for every number of MSHRs, every command line and every order in which  *)
(* Ramulator answers.                                                      *)
(*                                                                         *)
(* SimAnswering says where the one answer of each issued MSHR is: in       *)
(* Ramulator, in a queue of the frontend or on the way to the interface    *)
(* (Held).  SimTiming says what each of the three clocks of a run has      *)
(* counted in each phase of a cycle.                                       *)
(*                                                                         *)
(* NotifierHeld says that a request the idle notifier keeps or answers was *)
(* sent, and so is not sent again; a cycle of the simulator's notifier is  *)
(* then one of the hardware's (IdleNotifier).                              *)
(***************************************************************************)
EXTENDS SimSystem, FiniteSetTheorems, SequenceTheorems, WellFoundedInduction, TLAPS

\* A nonempty set of naturals has a least member: the priority encoders of
\* the code select a member of their argument.
LEMMA LeastMember ==
    ASSUME NEW T \in SUBSET Nat, T # {}
    PROVE  Lowest(T) \in T /\ \A j \in T : Lowest(T) <= j
<1> DEFINE LT == {ss \in Nat \X Nat : ss[1] < ss[2]}
<1>1. IsWellFoundedOn(LT, Nat)
  BY NatLessThanWellFounded DEF OpToRel
<1>2. PICK i \in T : \A j \in T : ~ (<<j, i>> \in LT)
  BY <1>1, WFMin
<1>3. ASSUME NEW j \in T, j < i
      PROVE  FALSE
  <2>1. <<j, i>> \in Nat \X Nat /\ <<j, i>>[1] < <<j, i>>[2]
    BY <1>3
  <2>2. <<j, i>> \in LT
    BY <2>1
  <2>3. QED  BY <1>2, <2>2
<1>4. \A j \in T : i <= j
  BY <1>3
<1>5. QED  BY <1>4 DEF Lowest

\* The turn of input i in the search of the simulator's arbiter.
LEMMA TurnOf ==
    ASSUME NEW n \in Nat \ {0}, NEW last \in 0 .. n - 1, NEW i \in 0 .. n - 1
    PROVE  (i - (IF last + 1 = n THEN 0 ELSE last + 1)) % n
             = IF i > last THEN i - last - 1 ELSE i - last - 1 + n
<1>1. CASE last + 1 = n
  BY <1>1
<1>2. CASE last + 1 # n
  BY <1>2
<1>3. QED  BY <1>1, <1>2

----------------------------------------------------------------------------
(* The table of MSHRs *)

Table(m, a, i, f, x, u, b) ==
    [mshrs |-> m, allocated |-> a, issued |-> i, fulfilled |-> f,
     issueArb |-> x, unicastArb |-> u, broadcastArb |-> b]

\* One slot of n, or none.
One(slot, n) == slot = {} \/ \E s \in 0 .. n - 1 : slot = {s}

\* A table of n MSHRs, whatever they hold.
Shape(t, n) ==
    /\ t = Table(t.mshrs, t.allocated, t.issued, t.fulfilled,
                 t.issueArb, t.unicastArb, t.broadcastArb)
    /\ t.mshrs = [s \in 0 .. n - 1 |-> t.mshrs[s]]
    /\ t.issueArb \in 0 .. n - 1 /\ t.unicastArb \in 0 .. n - 1 /\ t.broadcastArb \in 0 .. n - 1

\* Its flags are a, i and f.
Flagged(t, n, a, i, f) ==
    Shape(t, n) /\ t.allocated = a /\ t.issued = i /\ t.fulfilled = f

\* An MSHR is allocated before it is issued, and answered after it.
Flags(t, n) ==
    /\ t.fulfilled \subseteq t.issued /\ t.issued \subseteq t.allocated
    /\ t.allocated \subseteq 0 .. n - 1

LEMMA SimThe == \A x : The({x}) = x
  BY DEF The

LEMMA SimTableSize ==
    ASSUME NEW n \in Nat \ {0}, NEW t, Shape(t, n)
    PROVE  TableSize(t) = n
<1>1. DOMAIN t.mshrs = 0 .. n - 1
  BY DEF Shape
<1>2. Cardinality(0 .. n - 1) = n
  BY FS_Interval
<1>3. QED  BY <1>1, <1>2 DEF TableSize

LEMMA SimNext ==
    ASSUME NEW n \in Nat \ {0}, NEW slot, One(slot, n), slot # {}
    PROVE  /\ The(slot) \in 0 .. n - 1 /\ slot = {The(slot)}
           /\ ArbCommit(n, The(slot)) \in 0 .. n - 1
<1>1. PICK s \in 0 .. n - 1 : slot = {s}
  BY DEF One
<1>2. The(slot) = s
  BY <1>1, SimThe
<1>3. QED  BY <1>1, <1>2 DEF ArbCommit

\* What the commits do to the flags.
LEMMA SimDealloc ==
    ASSUME NEW n, NEW t, Shape(t, n), NEW slot, NEW r, r = DeallocCommit(t, slot)
    PROVE  Flagged(r, n, t.allocated \ slot, t.issued \ slot, t.fulfilled \ slot)
<1>1. PICK m : m = [s \in DOMAIN t.mshrs |-> IF s \in slot THEN NoFlit ELSE t.mshrs[s]]
  OBVIOUS
<1>2. PICK a, i, f : a = t.allocated \ slot /\ i = t.issued \ slot /\ f = t.fulfilled \ slot
  OBVIOUS
<1>3. r = [t EXCEPT !.mshrs = m, !.allocated = a, !.issued = i, !.fulfilled = f]
  BY <1>1, <1>2 DEF DeallocCommit
<1>4. m = [s \in 0 .. n - 1 |-> m[s]]
  BY <1>1 DEF Shape
<1>5. r = Table(m, a, i, f, t.issueArb, t.unicastArb, t.broadcastArb)
  BY <1>3 DEF Shape, Table
<1>6. QED  BY <1>2, <1>4, <1>5 DEF Flagged, Shape, Table

LEMMA SimReturn ==
    ASSUME NEW n \in Nat \ {0}, NEW t, Shape(t, n), NEW slot, One(slot, n), NEW r,
           r = ReturnCommit(t, slot, FALSE) \/ r = ReturnCommit(t, slot, TRUE)
    PROVE  Flagged(r, n, t.allocated \ slot, t.issued \ slot, t.fulfilled \ slot)
<1>1. CASE slot = {}
  BY <1>1 DEF ReturnCommit, Flagged
<1>2. CASE slot # {}
  <2>1. PICK next \in 0 .. n - 1 : next = ArbCommit(TableSize(t), The(slot))
    BY <1>2, SimNext, SimTableSize
  <2>2. PICK u : /\ u = [t EXCEPT !.broadcastArb = next] \/ u = [t EXCEPT !.unicastArb = next]
                 /\ r = DeallocCommit(u, slot)
    <3>1. CASE r = ReturnCommit(t, slot, FALSE)
      BY <1>2, <2>1, <3>1 DEF ReturnCommit
    <3>2. CASE r = ReturnCommit(t, slot, TRUE)
      BY <1>2, <2>1, <3>2 DEF ReturnCommit
    <3>3. QED  BY <3>1, <3>2
  <2>3. Shape(u, n) /\ u.allocated = t.allocated /\ u.issued = t.issued /\ u.fulfilled = t.fulfilled
    BY <2>1, <2>2 DEF Shape, Table
  <2>4. r = DeallocCommit(u, slot)
    BY <2>2
  <2>5. QED  BY <2>3, <2>4, SimDealloc
<1>3. QED  BY <1>1, <1>2

LEMMA SimReq ==
    ASSUME NEW n \in Nat \ {0}, NEW t, Shape(t, n), NEW slot, One(slot, n),
           NEW r, r = ReqCommit(t, slot)
    PROVE  Flagged(r, n, t.allocated, t.issued \cup slot, t.fulfilled)
<1>1. CASE slot = {}
  BY <1>1 DEF ReqCommit, Flagged
<1>2. CASE slot # {}
  <2>1. PICK next \in 0 .. n - 1 : next = ArbCommit(TableSize(t), The(slot))
    BY <1>2, SimNext, SimTableSize
  <2>2. PICK i : i = t.issued \cup slot
    OBVIOUS
  <2>3. r = [t EXCEPT !.issued = i, !.issueArb = next]
    BY <1>2, <2>1, <2>2 DEF ReqCommit
  <2>4. r = Table(t.mshrs, t.allocated, i, t.fulfilled, next, t.unicastArb, t.broadcastArb)
    BY <2>3 DEF Shape, Table
  <2>5. QED  BY <2>1, <2>2, <2>4 DEF Flagged, Shape, Table
<1>3. QED  BY <1>1, <1>2

LEMMA SimAnswer ==
    ASSUME NEW n, NEW t, Shape(t, n), NEW resp,
           resp = {} \/ \E x : resp = {x},
           NEW r, r = RespAccept(t, resp)
    PROVE  Flagged(r, n, t.allocated, t.issued, t.fulfilled \cup {x.id : x \in resp})
<1>1. CASE resp = {}
  BY <1>1 DEF RespAccept, Flagged
<1>2. CASE resp # {}
  <2>1. PICK x : resp = {x} /\ The(resp) = x
    BY <1>2, SimThe
  <2>2. PICK y : y = IF t.mshrs[x.id] = NoFlit THEN t.mshrs[x.id] ELSE [t.mshrs[x.id] EXCEPT !.rwdata = x.data]
    OBVIOUS
  <2>3. PICK m : m = [t.mshrs EXCEPT ![x.id] = y]
    OBVIOUS
  <2>4. PICK f : f = t.fulfilled \cup {x.id}
    OBVIOUS
  <2>5. r = [t EXCEPT !.mshrs = m, !.fulfilled = f]
    BY <1>2, <2>1, <2>2, <2>3, <2>4 DEF RespAccept
  <2>6. m = [s \in 0 .. n - 1 |-> m[s]]
    BY <2>3 DEF Shape
  <2>7. r = Table(m, t.allocated, t.issued, f, t.issueArb, t.unicastArb, t.broadcastArb)
    BY <2>5 DEF Shape, Table
  <2>8. f = t.fulfilled \cup {z.id : z \in resp}
    BY <2>1, <2>4
  <2>9. QED  BY <2>6, <2>7, <2>8 DEF Flagged, Shape, Table
<1>3. QED  BY <1>1, <1>2

LEMMA SimAlloc ==
    ASSUME NEW n, NEW t, Shape(t, n), NEW slot, One(slot, n), NEW new,
           NEW r, r = AllocCommit(t, slot, new)
    PROVE  Flagged(r, n, t.allocated \cup slot, t.issued \ slot, t.fulfilled \ slot)
<1>1. CASE slot = {}
  BY <1>1 DEF AllocCommit, Flagged
<1>2. CASE slot # {}
  <2>1. PICK m : m = [t.mshrs EXCEPT ![The(slot)] = new]
    OBVIOUS
  <2>2. PICK a, i, f : a = t.allocated \cup slot /\ i = t.issued \ slot /\ f = t.fulfilled \ slot
    OBVIOUS
  <2>3. r = [t EXCEPT !.mshrs = m, !.allocated = a, !.issued = i, !.fulfilled = f]
    BY <1>2, <2>1, <2>2 DEF AllocCommit
  <2>4. m = [s \in 0 .. n - 1 |-> m[s]]
    BY <2>1 DEF Shape
  <2>5. r = Table(m, a, i, f, t.issueArb, t.unicastArb, t.broadcastArb)
    BY <2>3 DEF Shape, Table
  <2>6. QED  BY <2>2, <2>4, <2>5 DEF Flagged, Shape, Table
<1>3. QED  BY <1>1, <1>2

\* The arbiters choose one of the candidates, or none when there is none.
LEMMA SimTurn ==
    ASSUME NEW n \in Nat \ {0}, NEW g \in 0 .. n - 1, NEW i \in 0 .. n - 1, NEW j \in 0 .. n - 1,
           (i - g) % n = (j - g) % n
    PROVE  i = j
<1>1. PICK last \in 0 .. n - 1 : g = IF last + 1 = n THEN 0 ELSE last + 1
  <2>1. CASE g = 0
    <3>1. n - 1 \in 0 .. n - 1 /\ n - 1 + 1 = n
      OBVIOUS
    <3>2. QED  BY <2>1, <3>1
  <2>2. CASE g # 0
    <3>1. g - 1 \in 0 .. n - 1 /\ g - 1 + 1 # n /\ g - 1 + 1 = g
      BY <2>2
    <3>2. QED  BY <3>1
  <2>3. QED  BY <2>1, <2>2
<1>2. /\ (i - g) % n = IF i > last THEN i - last - 1 ELSE i - last - 1 + n
      /\ (j - g) % n = IF j > last THEN j - last - 1 ELSE j - last - 1 + n
  BY <1>1, TurnOf
<1>3. QED  BY <1>2

LEMMA SimFirst ==
    ASSUME NEW n \in Nat \ {0}, NEW t, Shape(t, n), NEW g \in 0 .. n - 1, NEW cand \in SUBSET (0 .. n - 1)
    PROVE  One(First(t, g, cand), n) /\ First(t, g, cand) \subseteq cand
<1>1. PICK T : T = First(t, g, cand)
  OBVIOUS
<1>2. PICK zero : zero = [s \in cand |-> 0]
  OBVIOUS
<1>3. T = ArbPeek(n, g, zero)
  BY <1>1, <1>2, SimTableSize DEF First
<1>4. DOMAIN zero = cand /\ \A s \in cand : zero[s] = 0
  BY <1>2
<1>5. T = {i \in cand : \A j \in cand : (i - g) % n <= (j - g) % n}
  <2>1. ArbPeek(n, g, zero) = {i \in cand : \A j \in cand : (i - g) % n <= (j - g) % n}
    <3>1. ArbPeek(n, g, zero)
             = {i \in DOMAIN zero : \A j \in DOMAIN zero :
                   \/ zero[i] < zero[j]
                   \/ zero[i] = zero[j] /\ (i - g) % n <= (j - g) % n}
      BY DEF ArbPeek
    <3>2. \A i, j \in cand : ~ (zero[i] < zero[j]) /\ zero[i] = zero[j]
      BY <1>4
    <3>3. DOMAIN zero = cand
      BY <1>4
    <3>4. QED  BY <3>1, <3>2, <3>3
  <2>2. QED  BY <1>3, <2>1
<1>6. \A i, j \in T : (i - g) % n = (j - g) % n
  <2>1. \A i \in cand : (i - g) % n \in Int
    OBVIOUS
  <2>2. QED  BY <1>5, <2>1
<1>7. \A i, j \in T : i = j
  BY <1>5, <1>6, SimTurn
<1>8. T \subseteq cand
  BY <1>5
<1>9. One(T, n)
  <2>1. CASE T # {}
    <3>1. PICK i \in 0 .. n - 1 : i \in T
      BY <1>8, <2>1
    <3>2. T = {i}
      BY <1>7, <3>1
    <3>3. QED  BY <3>1, <3>2 DEF One
  <2>2. QED  BY <2>1 DEF One
<1>10. QED  BY <1>1, <1>8, <1>9

LEMMA SimChoices ==
    ASSUME NEW n \in Nat \ {0}, NEW t, Shape(t, n), Flags(t, n)
    PROVE  /\ One(ReqSlot(t), n) /\ ReqSlot(t) \subseteq t.allocated \ t.issued
           /\ One(ReturnSlot(t, FALSE), n) /\ ReturnSlot(t, FALSE) \subseteq t.fulfilled
           /\ One(ReturnSlot(t, TRUE), n) /\ ReturnSlot(t, TRUE) \subseteq t.fulfilled
           /\ One(AllocSlot(t), n) /\ AllocSlot(t) \cap t.allocated = {}
<1>1. One(ReqSlot(t), n) /\ ReqSlot(t) \subseteq t.allocated \ t.issued
  <2>1. t.allocated \ t.issued \in SUBSET (0 .. n - 1) /\ t.issueArb \in 0 .. n - 1
    BY DEF Flags, Shape
  <2>2. QED  BY <2>1, SimFirst DEF ReqSlot
<1>2. /\ One(ReturnSlot(t, FALSE), n) /\ ReturnSlot(t, FALSE) \subseteq t.fulfilled
      /\ One(ReturnSlot(t, TRUE), n) /\ ReturnSlot(t, TRUE) \subseteq t.fulfilled
  <2>1. PICK cand : cand = {s \in t.allocated \cap t.fulfilled : IsBroadcast(t, s) = FALSE}
    OBVIOUS
  <2>2. PICK bcst : bcst = {s \in t.allocated \cap t.fulfilled : IsBroadcast(t, s) = TRUE}
    OBVIOUS
  <2>3. /\ ReturnSlot(t, FALSE) = First(t, t.unicastArb, cand)
        /\ ReturnSlot(t, TRUE) = First(t, t.broadcastArb, bcst)
    BY <2>1, <2>2 DEF ReturnSlot
  <2>4. /\ cand \in SUBSET (0 .. n - 1) /\ cand \subseteq t.fulfilled
        /\ bcst \in SUBSET (0 .. n - 1) /\ bcst \subseteq t.fulfilled
    BY <2>1, <2>2 DEF Flags
  <2>5. t.unicastArb \in 0 .. n - 1 /\ t.broadcastArb \in 0 .. n - 1
    BY DEF Shape
  <2>6. /\ One(First(t, t.unicastArb, cand), n) /\ First(t, t.unicastArb, cand) \subseteq cand
        /\ One(First(t, t.broadcastArb, bcst), n) /\ First(t, t.broadcastArb, bcst) \subseteq bcst
    BY <2>4, <2>5, SimFirst
  <2>7. QED  BY <2>3, <2>4, <2>6
<1>3. One(AllocSlot(t), n) /\ AllocSlot(t) \cap t.allocated = {}
  <2>1. PICK free : free = (0 .. n - 1) \ t.allocated
    OBVIOUS
  <2>2. AllocSlot(t) = IF free = {} THEN {} ELSE {Lowest(free)}
    BY <2>1 DEF AllocSlot, Shape
  <2>3. free # {} => Lowest(free) \in free
    <3>1. free \in SUBSET Nat /\ Lowest(free) = Lowest(free)
      BY <2>1 DEF Lowest, Lowest
    <3>2. QED  BY <3>1, LeastMember
  <2>4. QED  BY <2>1, <2>2, <2>3 DEF One
<1>4. QED  BY <1>1, <1>2, <1>3

\* MSHRs that the memory owes an answer for.
SimOwes(t) == (t.allocated \cap t.issued) \ t.fulfilled

\* The table of a memory controller after an edge.
Edge(t, n, dealloc, issue, resp, eject) ==
    /\ Shape(t, n) /\ Flags(t, n)
    /\ One(dealloc, n) /\ dealloc \subseteq t.fulfilled
    /\ One(eject, n) /\ eject \subseteq t.fulfilled
    /\ One(issue, n) /\ issue \subseteq t.allocated \ t.issued
    /\ resp = {} \/ \E x : resp = {x}
    /\ \A x \in resp : x.id \in SimOwes(t) \cup issue

LEMMA SimCommits ==
    ASSUME NEW n \in Nat \ {0}, NEW t, Shape(t, n), NEW dealloc, One(dealloc, n),
           NEW issue, One(issue, n), NEW eject, One(eject, n),
           NEW resp, resp = {} \/ \E x : resp = {x},
           NEW t1, t1 = ReturnCommit(t, dealloc, FALSE), NEW t2, t2 = ReqCommit(t1, issue),
           NEW t3, t3 = RespAccept(t2, resp), NEW t4, t4 = ReturnCommit(t3, eject, TRUE)
    PROVE  Flagged(t4, n, (t.allocated \ dealloc) \ eject, ((t.issued \ dealloc) \cup issue) \ eject,
                   ((t.fulfilled \ dealloc) \cup {x.id : x \in resp}) \ eject)
<1>1. Flagged(t1, n, t.allocated \ dealloc, t.issued \ dealloc, t.fulfilled \ dealloc)
  BY SimReturn
<1>2. Flagged(t2, n, t1.allocated, t1.issued \cup issue, t1.fulfilled)
  <2>1. Shape(t1, n)
    BY <1>1 DEF Flagged
  <2>2. QED  BY <2>1, SimReq
<1>3. Flagged(t3, n, t2.allocated, t2.issued, t2.fulfilled \cup {x.id : x \in resp})
  <2>1. Shape(t2, n)
    BY <1>2 DEF Flagged
  <2>2. QED  BY <2>1, SimAnswer
<1>4. Flagged(t4, n, t3.allocated \ eject, t3.issued \ eject, t3.fulfilled \ eject)
  <2>1. Shape(t3, n)
    BY <1>3 DEF Flagged
  <2>2. QED  BY <2>1, SimReturn
<1>5. QED  BY ZenonT(60), <1>1, <1>2, <1>3, <1>4 DEF Flagged

LEMMA SimTableStep ==
    ASSUME NEW n \in Nat \ {0}, NEW t, NEW b, NEW flit, NEW dealloc, NEW issue, NEW resp, NEW eject,
           Edge(t, n, dealloc, issue, resp, eject),
           NEW r, r = TableStep(t, b, flit, dealloc, issue, resp, eject)
    PROVE  /\ Shape(r, n) /\ Flags(r, n)
           /\ SimOwes(r) = (SimOwes(t) \cup issue) \ {x.id : x \in resp}
<1>1. PICK t1 : t1 = ReturnCommit(t, dealloc, FALSE)
  OBVIOUS
<1>2. PICK t2 : t2 = ReqCommit(t1, issue)
  OBVIOUS
<1>3. PICK t3 : t3 = RespAccept(t2, resp)
  OBVIOUS
<1>4. PICK t4 : t4 = ReturnCommit(t3, eject, TRUE)
  OBVIOUS
<1>5. PICK ids : ids = {x.id : x \in resp}
  OBVIOUS
<1>9. Flagged(t4, n, (t.allocated \ dealloc) \ eject, ((t.issued \ dealloc) \cup issue) \ eject,
              ((t.fulfilled \ dealloc) \cup ids) \ eject)
  <2>1. /\ Shape(t, n) /\ One(dealloc, n) /\ One(eject, n) /\ One(issue, n)
        /\ resp = {} \/ \E x : resp = {x}
    BY DEF Edge
  <2>2. QED  BY <1>1, <1>2, <1>3, <1>4, <1>5, <2>1, SimCommits
<1>10. PICK slot, new : /\ slot = {} \/ slot = AllocSlot(t)
                        /\ r = AllocCommit(t4, slot, new)
  <2>1. PICK scalar : scalar = {f \in flit : IsScalar(f)}
    OBVIOUS
  <2>2. r = IF scalar # {} THEN AllocCommit(t4, AllocSlot(t), FromScalarFlit(The(scalar)))
            ELSE IF BulkAlloc(t, b, flit)
            THEN AllocCommit(t4, AllocSlot(t), Dispatch(The(QFront(b.queue)), b.count))
            ELSE t4
    BY <1>1, <1>2, <1>3, <1>4, <2>1 DEF TableStep
  <2>3. t4 = AllocCommit(t4, {}, {})
    BY DEF AllocCommit
  <2>4. QED  BY <2>2, <2>3
<1>11. One(slot, n) /\ slot \cap t.allocated = {}
  <2>1. One(AllocSlot(t), n) /\ AllocSlot(t) \cap t.allocated = {}
    BY SimChoices DEF Edge
  <2>2. One({}, n)
    BY DEF One
  <2>3. QED  BY <1>10, <2>1, <2>2
<1>12. Flagged(r, n, t4.allocated \cup slot, t4.issued \ slot, t4.fulfilled \ slot)
  <2>1. Shape(t4, n)
    BY <1>9 DEF Flagged
  <2>2. QED  BY <1>10, <1>11, <2>1, SimAlloc
<1>13. ids \subseteq SimOwes(t) \cup issue
  BY <1>5 DEF Edge
<1>14. Flags(r, n)
  <2>1. slot \subseteq 0 .. n - 1
    BY <1>11 DEF One
  <2>2. QED  BY <1>9, <1>12, <1>13, <2>1 DEF Flagged, Flags, Edge, SimOwes
<1>15. SimOwes(r) = (SimOwes(t) \cup issue) \ ids
  BY <1>9, <1>11, <1>12, <1>13 DEF Flagged, Flags, Edge, SimOwes
<1>16. QED  BY <1>5, <1>12, <1>14, <1>15 DEF Flagged

\* r owes the answers in owed.
Owing(r, n, owed) == Shape(r, n) /\ Flags(r, n) /\ SimOwes(r) = owed

LEMMA SimTableOwes ==
    ASSUME NEW n \in Nat \ {0}, NEW t, NEW b, NEW flit, NEW dealloc, NEW issue, NEW resp, NEW eject,
           Edge(t, n, dealloc, issue, resp, eject),
           NEW r, r = TableStep(t, b, flit, dealloc, issue, resp, eject)
    PROVE  Owing(r, n, (SimOwes(t) \cup issue) \ {x.id : x \in resp})
  BY SimTableStep DEF Owing

Settled(r, n, t, issue, resp) == Owing(r, n, (SimOwes(t) \cup issue) \ {x.id : x \in resp})

\* The table of the peripheral interface commits in another order.
PeriphCommits(t, unicast, resp, issue, slot, new) ==
    AllocCommit(ReqCommit(RespAccept(ReturnCommit(t, unicast, FALSE), resp), issue), slot, new)

LEMMA SimPeriphTable ==
    ASSUME NEW n \in Nat \ {0}, NEW t, NEW unicast, NEW issue, NEW resp,
           Edge(t, n, unicast, issue, resp, {}),
           NEW slot, One(slot, n), slot \cap t.allocated = {}, NEW new,
           NEW r, r = PeriphCommits(t, unicast, resp, issue, slot, new)
    PROVE  Settled(r, n, t, issue, resp) /\ (slot = {} /\ t.allocated = {} => r.allocated = {})
<1> DEFINE ids == {x.id : x \in resp}
<1>0. PICK t1, t2, t3 : /\ t1 = ReturnCommit(t, unicast, FALSE) /\ t2 = RespAccept(t1, resp)
                        /\ t3 = ReqCommit(t2, issue) /\ r = AllocCommit(t3, slot, new)
  BY DEF PeriphCommits
<1>1. Flagged(t1, n, t.allocated \ unicast, t.issued \ unicast, t.fulfilled \ unicast)
  BY <1>0, SimReturn DEF Edge
<1>2. Flagged(t2, n, t1.allocated, t1.issued, t1.fulfilled \cup ids)
  <2>1. Shape(t1, n) /\ (resp = {} \/ \E x : resp = {x})
    BY <1>1 DEF Flagged, Edge
  <2>2. QED  BY <1>0, <2>1, SimAnswer
<1>3. Flagged(t3, n, t2.allocated, t2.issued \cup issue, t2.fulfilled)
  <2>1. Shape(t2, n) /\ One(issue, n)
    BY <1>2 DEF Flagged, Edge
  <2>2. QED  BY <1>0, <2>1, SimReq
<1>4. Flagged(r, n, t3.allocated \cup slot, t3.issued \ slot, t3.fulfilled \ slot)
  <2>1. Shape(t3, n)
    BY <1>3 DEF Flagged
  <2>2. QED  BY <1>0, <2>1, SimAlloc
<1>5. ids \subseteq SimOwes(t) \cup issue
  BY DEF Edge
<1>6. slot \subseteq 0 .. n - 1
  BY DEF One
<1> HIDE DEF ids
<1>7. PICK a, i, f : a = t.allocated /\ i = t.issued /\ f = t.fulfilled
  OBVIOUS
<1>8. /\ f \subseteq i /\ i \subseteq a /\ a \subseteq 0 .. n - 1
      /\ unicast \subseteq f /\ issue \subseteq a \ i /\ slot \cap a = {}
      /\ ids \subseteq ((a \cap i) \ f) \cup issue
  BY <1>5, <1>7 DEF Edge, Flags, SimOwes
<1>10. /\ r.allocated = (a \ unicast) \cup slot
       /\ r.issued = ((i \ unicast) \cup issue) \ slot
       /\ r.fulfilled = ((f \ unicast) \cup ids) \ slot
  BY <1>1, <1>2, <1>3, <1>4, <1>7 DEF Flagged
<1>11. Flags(r, n)
  BY <1>6, <1>8, <1>10 DEF Flags
<1>12. SimOwes(r) = (((a \cap i) \ f) \cup issue) \ ids
  BY <1>8, <1>10 DEF SimOwes
<1>13. SimOwes(t) = (a \cap i) \ f
  BY <1>7 DEF SimOwes
<1>14. slot = {} /\ a = {} => r.allocated = {}
  BY <1>10
<1>15. QED  BY <1>4, <1>7, <1>11, <1>12, <1>13, <1>14 DEF Flagged, Owing, Settled, ids

\* Sets in a sequence.
LEMMA SimSeqOne == SetToSeq({}) = <<>> /\ \A x : SetToSeq({x}) = <<x>>
<1>1. SetToSeq({}) = <<>>
  <2>1. Cardinality({}) = 0
    BY FS_EmptySet
  <2>2. \A f \in [1 .. 0 -> {}] : f = <<>>
    OBVIOUS
  <2>3. <<>> \in [1 .. 0 -> {}] /\ IsInjective(<<>>)
    BY DEF IsInjective
  <2>4. QED  BY <2>1, <2>2, <2>3 DEF SetToSeq
<1>2. ASSUME NEW x
      PROVE  SetToSeq({x}) = <<x>>
  <2>1. Cardinality({x}) = 1
    BY FS_Singleton
  <2>2. \A f \in [1 .. 1 -> {x}] : f = <<x>>
    OBVIOUS
  <2>3. <<x>> \in [1 .. 1 -> {x}] /\ IsInjective(<<x>>)
    BY DEF IsInjective
  <2>4. QED  BY <2>1, <2>2, <2>3 DEF SetToSeq
<1>3. QED  BY <1>1, <1>2

LEMMA SimSeqOfSet ==
    ASSUME NEW T, IsFiniteSet(T), NEW q, q = SetToSeq(T)
    PROVE  /\ q \in Seq(T) /\ Len(q) = Cardinality(T) /\ Cardinality(T) \in Nat
           /\ \A i, j \in 1 .. Len(q) : q[i] = q[j] => i = j
           /\ \A x \in T : \E i \in 1 .. Len(q) : q[i] = x
<1> DEFINE n == Cardinality(T)
<1>1. n \in Nat /\ ExistsBijection(1 .. n, T)
  BY FS_CardinalityType
<1>2. PICK g \in [1 .. n -> T] : IsInjective(g)
  BY <1>1 DEF ExistsBijection, Bijection, Injection, IsInjective, IsInjective
<1>3. q \in [1 .. n -> T] /\ IsInjective(q)
  BY <1>2 DEF SetToSeq
<1>4. IsFiniteSet(1 .. n) /\ Cardinality(1 .. n) = n
  BY <1>1, FS_Interval
<1>5. q \in Injection(1 .. n, T)
  BY <1>3 DEF Injection, IsInjective, IsInjective
<1>6. q \in Surjection(1 .. n, T)
  BY <1>4, <1>5, FS_Injection
<1>7. q \in Seq(T) /\ Len(q) = n
  BY <1>1, <1>3
<1>8. QED  BY <1>1, <1>3, <1>6, <1>7 DEF Surjection, IsInjective

\* The answers of a sequence and those still inside Ramulator: one for each
\* MSHR in owed.
Held(q, ram, owed) ==
    /\ \E D : q \in Seq(D)
    /\ \A i, j \in 1 .. Len(q) : q[i].id = q[j].id => i = j
    /\ \A x, y \in ram : x.resp.id = y.resp.id => x = y
    /\ \A i \in 1 .. Len(q), x \in ram : q[i].id # x.resp.id
    /\ owed = {q[i].id : i \in 1 .. Len(q)} \cup {x.resp.id : x \in ram}
    /\ IsFiniteSet(ram)

LEMMA HeldOnce ==
    ASSUME NEW q, NEW ram, NEW owed, Held(q, ram, owed)
    PROVE  Once(Ids(q \o SetToSeq({x.resp : x \in ram})), owed)
<1> DEFINE f == [x \in ram |-> x.resp]
<1>0. PICK T : T = {x.resp : x \in ram}
  OBVIOUS
<1>1. PICK D : q \in Seq(D)
  BY DEF Held
<1>2. IsFiniteSet(T)
  <2>1. f \in Surjection(ram, T)
    BY <1>0 DEF Surjection
  <2>2. QED  BY <2>1, FS_Surjection DEF Held
<1>3. PICK w : w = SetToSeq(T)
  OBVIOUS
<1>4. /\ w \in Seq(T) /\ Len(w) \in Nat
      /\ \A i, j \in 1 .. Len(w) : w[i] = w[j] => i = j
      /\ \A x \in T : \E i \in 1 .. Len(w) : w[i] = x
  <2>1. /\ w \in Seq(T) /\ Len(w) = Cardinality(T) /\ Cardinality(T) \in Nat
        /\ \A i, j \in 1 .. Len(w) : w[i] = w[j] => i = j
        /\ \A x \in T : \E i \in 1 .. Len(w) : w[i] = x
    BY <1>2, <1>3, SimSeqOfSet
  <2>2. QED  BY <2>1
<1>5. PICK p : p = q \o w
  OBVIOUS
<1>6. PICK N : N = Len(q) + Len(w)
  OBVIOUS
<1>7. /\ Len(q) \in Nat /\ N \in Nat /\ DOMAIN p = 1 .. N
      /\ \A i \in 1 .. Len(q) : p[i] = q[i]
      /\ \A i \in 1 .. N : i > Len(q) => p[i] = w[i - Len(q)]
  BY <1>1, <1>4, <1>5, <1>6
<1>8. PICK d : d = [i \in 1 .. N |-> p[i].id]
  OBVIOUS
<1>9. Ids(p) = d
  BY <1>7, <1>8 DEF Ids
<1>10. \A i \in 1 .. N : i > Len(q) => i - Len(q) \in 1 .. Len(w)
  BY <1>4, <1>6, <1>7
<1>11. \A i \in 1 .. N : \/ i \in 1 .. Len(q) /\ d[i] = q[i].id
                         \/ /\ i > Len(q) /\ i - Len(q) \in 1 .. Len(w)
                            /\ \E x \in ram : x.resp = w[i - Len(q)] /\ d[i] = x.resp.id
  <2>1. TAKE i \in 1 .. N
  <2>2. CASE i > Len(q)
    <3>1. w[i - Len(q)] \in {x.resp : x \in ram}
      BY <1>0, <1>4, <1>10, <2>2
    <3>2. d[i] = w[i - Len(q)].id
      BY <1>7, <1>8, <2>2
    <3>3. QED  BY <1>10, <2>2, <3>1, <3>2
  <2>3. CASE ~(i > Len(q))
    <3>1. i \in 1 .. Len(q)
      BY <1>7, <2>3
    <3>2. QED  BY <1>7, <1>8, <3>1
  <2>4. QED  BY <2>2, <2>3
<1>12. d \in [1 .. N -> owed]
  BY <1>8, <1>11 DEF Held
<1>13. \A i, j \in 1 .. N : d[i] = d[j] => i = j
  <2>1. SUFFICES ASSUME NEW i \in 1 .. N, NEW j \in 1 .. N, d[i] = d[j]
                 PROVE  i = j
    OBVIOUS
  <2>2. CASE i \in 1 .. Len(q) /\ j \in 1 .. Len(q)
    <3>1. d[i] = q[i].id /\ d[j] = q[j].id
      BY <1>7, <1>8, <2>2
    <3>2. QED  BY <2>1, <2>2, <3>1 DEF Held
  <2>3. CASE i > Len(q) /\ j > Len(q)
    <3>1. PICK x \in ram : x.resp = w[i - Len(q)] /\ d[i] = x.resp.id
      BY <1>7, <1>11, <2>3
    <3>2. PICK y \in ram : y.resp = w[j - Len(q)] /\ d[j] = y.resp.id
      BY <1>7, <1>11, <2>3
    <3>3. x = y
      BY <2>1, <3>1, <3>2 DEF Held
    <3>4. i - Len(q) = j - Len(q)
      BY <1>4, <1>10, <2>3, <3>1, <3>2, <3>3
    <3>5. QED  BY <1>7, <3>4
  <2>4. CASE i \in 1 .. Len(q) /\ j > Len(q)
    <3>1. d[i] = q[i].id
      BY <1>7, <1>8, <2>4
    <3>2. PICK y \in ram : d[j] = y.resp.id
      BY <1>7, <1>11, <2>4
    <3>3. QED  BY <2>1, <2>4, <3>1, <3>2 DEF Held
  <2>5. CASE i > Len(q) /\ j \in 1 .. Len(q)
    <3>1. d[j] = q[j].id
      BY <1>7, <1>8, <2>5
    <3>2. PICK x \in ram : d[i] = x.resp.id
      BY <1>7, <1>11, <2>5
    <3>3. QED  BY <2>1, <2>5, <3>1, <3>2 DEF Held
  <2>6. QED  BY <1>7, <2>2, <2>3, <2>4, <2>5
<1>14. \A o \in owed : \E i \in 1 .. N : d[i] = o
  <2>1. TAKE o \in owed
  <2>2. CASE \E i \in 1 .. Len(q) : o = q[i].id
    <3>1. PICK i \in 1 .. Len(q) : o = q[i].id
      BY <2>2
    <3>2. i \in 1 .. N /\ d[i] = o
      BY <1>4, <1>6, <1>7, <1>8, <3>1
    <3>3. QED  BY <3>2
  <2>3. CASE \E x \in ram : o = x.resp.id
    <3>1. PICK x \in ram : o = x.resp.id
      BY <2>3
    <3>2. x.resp \in T
      BY <1>0
    <3>3. PICK i \in 1 .. Len(w) : w[i] = x.resp
      BY <1>4, <3>2
    <3>4. i + Len(q) \in 1 .. N /\ i + Len(q) > Len(q) /\ i + Len(q) - Len(q) = i
      BY <1>4, <1>6, <1>7
    <3>5. d[i + Len(q)] = o
      BY <1>7, <1>8, <3>1, <3>3, <3>4
    <3>6. QED  BY <3>4, <3>5
  <2>4. QED  BY <2>2, <2>3 DEF Held
<1>15. Cardinality(owed) = N
  <2>1. d \in Injection(1 .. N, owed)
    BY <1>12, <1>13 DEF Injection, IsInjective
  <2>2. d \in Surjection(1 .. N, owed)
    BY <1>12, <1>14 DEF Surjection
  <2>3. ExistsBijection(1 .. N, owed)
    BY <2>1, <2>2 DEF ExistsBijection, Bijection
  <2>4. QED  BY <1>7, <2>3, FS_CountingElements
<1>16. Len(d) = N
  BY <1>7, <1>8
<1>17. Range(d) = owed
  <2>1. DOMAIN d = 1 .. N
    BY <1>8
  <2>2. QED  BY <1>12, <1>14, <2>1 DEF Range
<1>18. Once(d, owed)
  BY <1>15, <1>16, <1>17 DEF Once
<1>19. QED  BY <1>0, <1>3, <1>5, <1>9, <1>18

LEMMA HeldOnceQueued ==
    ASSUME NEW q, NEW owed, Held(q, {}, owed)
    PROVE  Once(Ids(q), owed)
<1>1. Once(Ids(q \o SetToSeq({x.resp : x \in {}})), owed)
  BY HeldOnce
<1>2. {x.resp : x \in {}} = {}
  OBVIOUS
<1>3. PICK D : q \in Seq(D)
  BY DEF Held
<1>4. q \o <<>> = q
  BY <1>3
<1>5. QED  BY <1>1, <1>2, <1>4, SimSeqOne

\* Ramulator completes some requests, in any order.
LEMMA HeldComplete ==
    ASSUME NEW q, NEW ram, NEW owed, Held(q, ram, owed),
           NEW some \in SUBSET ram, NEW done \in SetToSeqs(some)
    PROVE  Held(q \o [i \in DOMAIN done |-> done[i].resp], ram \ Range(done), owed)
<1>1. PICK D : q \in Seq(D)
  BY DEF Held
<1>2. PICK n : n = Cardinality(some)
  OBVIOUS
<1>3. n \in Nat /\ IsFiniteSet(ram \ Range(done))
  BY <1>2, FS_Subset, FS_CardinalityType, FS_Difference DEF Held
<1>4. done \in [1 .. n -> some] /\ \A i, j \in 1 .. n : i # j => done[i] # done[j]
  BY <1>2 DEF SetToSeqs
<1>5. PICK w : w = [i \in 1 .. n |-> done[i].resp]
  OBVIOUS
<1>6. [i \in DOMAIN done |-> done[i].resp] = w
  BY <1>4, <1>5
<1>7. PICK p : p = q \o w
  OBVIOUS
<1>8. PICK E : E = D \cup {w[i] : i \in 1 .. n}
  OBVIOUS
<1>9. /\ w \in Seq(E) /\ Len(w) = n /\ q \in Seq(E)
  BY <1>1, <1>3, <1>5, <1>8
<1>10. /\ p \in Seq(E) /\ Len(q) \in Nat /\ Len(p) = Len(q) + n
       /\ \A i \in 1 .. Len(q) : p[i] = q[i]
       /\ \A i \in 1 .. Len(p) : i > Len(q) => p[i] = w[i - Len(q)]
  <2>1. p \in Seq(E) /\ Len(q) \in Nat /\ Len(p) = Len(q) + n
    <3>1. p \in Seq(E) /\ Len(q) \in Nat
      BY <1>7, <1>9
    <3>2. Len(p) = Len(q) + Len(w)
      <4>1. q \in Seq(E) /\ w \in Seq(E)
        BY <1>9
      <4>2. Len(q \o w) = Len(q) + Len(w)
        BY <4>1
      <4>3. QED  BY <1>7, <4>2
    <3>3. QED  BY <1>9, <3>1, <3>2
  <2>2. \A i \in 1 .. Len(q) : p[i] = q[i]
    BY <1>3, <1>7, <1>9
  <2>3. \A i \in 1 .. Len(p) : i > Len(q) => p[i] = w[i - Len(q)]
    BY <1>3, <1>7, <1>9, <2>1
  <2>4. QED  BY <2>1, <2>2, <2>3
<1>11. \A i \in 1 .. Len(p) : \/ i \in 1 .. Len(q) /\ p[i].id = q[i].id
                              \/ /\ i > Len(q) /\ i - Len(q) \in 1 .. n
                                 /\ done[i - Len(q)] \in ram
                                 /\ p[i].id = done[i - Len(q)].resp.id
  <2>1. TAKE i \in 1 .. Len(p)
  <2>2. CASE i > Len(q)
    <3>1. i - Len(q) \in 1 .. n
      BY <1>3, <1>10, <2>2
    <3>2. p[i] = done[i - Len(q)].resp
      BY <1>5, <1>10, <2>2, <3>1
    <3>3. QED  BY <1>4, <2>2, <3>1, <3>2
  <2>3. CASE ~(i > Len(q))
    <3>1. i \in 1 .. Len(q)
      BY <1>3, <1>10, <2>3
    <3>2. QED  BY <1>10, <3>1
  <2>4. QED  BY <2>2, <2>3
<1>12. \A i, j \in 1 .. Len(p) : p[i].id = p[j].id => i = j
  <2>1. SUFFICES ASSUME NEW i \in 1 .. Len(p), NEW j \in 1 .. Len(p), p[i].id = p[j].id
                 PROVE  i = j
    OBVIOUS
  <2>2. CASE i \in 1 .. Len(q) /\ j \in 1 .. Len(q)
    BY <1>10, <2>1, <2>2 DEF Held
  <2>3. CASE i > Len(q) /\ j > Len(q)
    <3>1. /\ done[i - Len(q)] \in ram /\ done[j - Len(q)] \in ram
          /\ done[i - Len(q)].resp.id = done[j - Len(q)].resp.id
          /\ i - Len(q) \in 1 .. n /\ j - Len(q) \in 1 .. n
      BY <1>10, <1>11, <2>1, <2>3
    <3>2. done[i - Len(q)] = done[j - Len(q)]
      BY <3>1 DEF Held
    <3>3. i - Len(q) = j - Len(q)
      BY <1>4, <3>1, <3>2
    <3>4. QED  BY <1>10, <3>3
  <2>4. CASE i \in 1 .. Len(q) /\ j > Len(q)
    <3>1. /\ j - Len(q) \in 1 .. n /\ done[j - Len(q)] \in ram
          /\ p[j].id = done[j - Len(q)].resp.id
      BY SMTT(30), <1>10, <1>11, <2>4
    <3>2. q[i].id = done[j - Len(q)].resp.id
      BY <1>10, <2>1, <2>4, <3>1
    <3>3. QED  BY <2>4, <3>1, <3>2 DEF Held
  <2>5. CASE i > Len(q) /\ j \in 1 .. Len(q)
    <3>1. /\ i - Len(q) \in 1 .. n /\ done[i - Len(q)] \in ram
          /\ p[i].id = done[i - Len(q)].resp.id
      BY SMTT(30), <1>10, <1>11, <2>5
    <3>2. q[j].id = done[i - Len(q)].resp.id
      BY <1>10, <2>1, <2>5, <3>1
    <3>3. QED  BY <2>5, <3>1, <3>2 DEF Held
  <2>6. QED  BY <1>3, <1>10, <2>2, <2>3, <2>4, <2>5
<1>13. PICK rest : rest = ram \ Range(done)
  OBVIOUS
<1>14. \A x \in ram : x \in rest <=> \A k \in 1 .. n : done[k] # x
  <2>1. DOMAIN done = 1 .. n
    BY <1>4
  <2>2. QED  BY <1>13, <2>1 DEF Range
<1>15. \A i \in 1 .. Len(p), x \in rest : p[i].id # x.resp.id
  <2>1. SUFFICES ASSUME NEW i \in 1 .. Len(p), NEW x \in rest, p[i].id = x.resp.id
                 PROVE  FALSE
    OBVIOUS
  <2>2. x \in ram
    BY <1>13
  <2>3. CASE i \in 1 .. Len(q)
    BY <1>10, <2>1, <2>2, <2>3 DEF Held
  <2>4. CASE i > Len(q)
    <3>1. /\ done[i - Len(q)] \in ram /\ done[i - Len(q)].resp.id = x.resp.id
          /\ i - Len(q) \in 1 .. n
      BY <1>10, <1>11, <2>1, <2>4
    <3>2. done[i - Len(q)] = x
      BY <2>2, <3>1 DEF Held
    <3>3. QED  BY <1>14, <2>2, <3>1, <3>2
  <2>5. QED  BY <1>3, <1>10, <2>3, <2>4
<1>16. owed = {p[i].id : i \in 1 .. Len(p)} \cup {x.resp.id : x \in rest}
  <2>1. ASSUME NEW o \in owed
        PROVE  (\E i \in 1 .. Len(p) : o = p[i].id) \/ \E x \in rest : o = x.resp.id
    <3>1. CASE \E i \in 1 .. Len(q) : o = q[i].id
      <4>1. PICK i \in 1 .. Len(q) : o = q[i].id
        BY <3>1
      <4>2. i \in 1 .. Len(p) /\ p[i].id = o
        BY <1>3, <1>10, <4>1
      <4>3. QED  BY <4>2
    <3>2. CASE \E x \in ram : o = x.resp.id
      <4>1. PICK x \in ram : o = x.resp.id
        BY <3>2
      <4>2. CASE x \notin rest
        <5>1. PICK k \in 1 .. n : done[k] = x
          BY <1>14, <4>2
        <5>2. k + Len(q) \in 1 .. Len(p) /\ k + Len(q) > Len(q) /\ k + Len(q) - Len(q) = k
          BY <1>3, <1>10
        <5>3. p[k + Len(q)] = x.resp
          BY <1>5, <1>10, <5>1, <5>2
        <5>4. QED  BY <4>1, <5>2, <5>3
      <4>3. QED  BY <4>1, <4>2
    <3>3. QED  BY <3>1, <3>2 DEF Held
  <2>2. ASSUME NEW i \in 1 .. Len(p)
        PROVE  p[i].id \in owed
    BY <1>11 DEF Held
  <2>3. ASSUME NEW x \in rest
        PROVE  x.resp.id \in owed
    BY <1>13 DEF Held
  <2>4. QED  BY <2>1, <2>2, <2>3
<1>17. \A x, y \in rest : x.resp.id = y.resp.id => x = y
  BY <1>13 DEF Held
<1>18. Held(p, rest, owed)
  BY <1>3, <1>10, <1>12, <1>13, <1>15, <1>16, <1>17 DEF Held
<1>19. QED  BY <1>6, <1>7, <1>13, <1>18

\* A request is answered by the memory image, or handed to Ramulator.
LEMMA HeldAppend ==
    ASSUME NEW q, NEW ram, NEW owed, Held(q, ram, owed), NEW r, r.id \notin owed
    PROVE  Held(q \o <<r>>, ram, owed \cup {r.id})
<1>1. PICK D : q \in Seq(D)
  BY DEF Held
<1>2. PICK p : p = q \o <<r>>
  OBVIOUS
<1>3. /\ p \in Seq(D \cup {r}) /\ Len(q) \in Nat /\ Len(p) = Len(q) + 1 /\ p[Len(q) + 1] = r
      /\ \A i \in 1 .. Len(q) : p[i] = q[i]
  BY <1>1, <1>2
<1>4. \A i \in 1 .. Len(p) : (i \in 1 .. Len(q) /\ p[i] = q[i]) \/ (i = Len(q) + 1 /\ p[i] = r)
  BY <1>3
<1>5. \A i \in 1 .. Len(q) : q[i].id \in owed
  BY DEF Held
<1>6. \A i, j \in 1 .. Len(p) : p[i].id = p[j].id => i = j
  BY <1>4, <1>5 DEF Held
<1>7. \A i \in 1 .. Len(p), x \in ram : p[i].id # x.resp.id
  BY <1>4 DEF Held
<1>8. {p[i].id : i \in 1 .. Len(p)} = {q[i].id : i \in 1 .. Len(q)} \cup {r.id}
  <2>1. 1 .. Len(p) = (1 .. Len(q)) \cup {Len(q) + 1}
    <3>1. PICK k \in Nat : k = Len(q)
      BY <1>3
    <3>2. 1 .. k + 1 = (1 .. k) \cup {k + 1}
      OBVIOUS
    <3>3. QED  BY <1>3, <3>1, <3>2
  <2>2. QED  BY <1>3, <2>1
<1>9. Held(p, ram, owed \cup {r.id})
  BY <1>3, <1>6, <1>7, <1>8 DEF Held
<1>10. QED  BY <1>2, <1>9

LEMMA HeldSubmit ==
    ASSUME NEW q, NEW ram, NEW owed, Held(q, ram, owed), NEW x, x.resp.id \notin owed
    PROVE  Held(q, ram \cup {x}, owed \cup {x.resp.id})
<1>1. IsFiniteSet(ram \cup {x})
  BY FS_AddElement DEF Held
<1>2. \A i \in 1 .. Len(q) : q[i].id \in owed
  BY DEF Held
<1>3. \A y \in ram : y.resp.id \in owed
  BY DEF Held
<1>4. QED  BY <1>1, <1>2, <1>3 DEF Held

\* The interface takes the answer that it was given.
LEMMA HeldTake ==
    ASSUME NEW D, NEW q \in Seq(D), NEW ram, NEW owed, NEW x, Held(<<x>> \o q, ram, owed)
    PROVE  Held(q, ram, owed \ {x.id})
<1>1. PICK p : p = <<x>> \o q
  OBVIOUS
<1>2. /\ Len(q) \in Nat /\ Len(p) = Len(q) + 1 /\ p[1] = x
      /\ \A i \in 1 .. Len(q) : i + 1 \in 1 .. Len(p) /\ p[i + 1] = q[i]
  BY <1>1
<1>3. Held(p, ram, owed)
  BY <1>1
<1>4. \A i, j \in 1 .. Len(q) : q[i].id = q[j].id => i = j
  <2>1. SUFFICES ASSUME NEW i \in 1 .. Len(q), NEW j \in 1 .. Len(q), q[i].id = q[j].id
                 PROVE  i = j
    OBVIOUS
  <2>2. /\ i + 1 \in 1 .. Len(p) /\ p[i + 1].id = q[i].id
        /\ j + 1 \in 1 .. Len(p) /\ p[j + 1].id = q[j].id
    BY <1>2
  <2>3. i + 1 = j + 1
    BY <1>3, <2>1, <2>2 DEF Held
  <2>4. QED  BY <1>2, <2>3
<1>5. \A i \in 1 .. Len(q), y \in ram : q[i].id # y.resp.id
  <2>1. TAKE i \in 1 .. Len(q), y \in ram
  <2>2. i + 1 \in 1 .. Len(p) /\ p[i + 1].id = q[i].id
    BY <1>2
  <2>3. QED  BY <1>3, <2>2 DEF Held
<1>6. \A i \in 1 .. Len(q) : q[i].id # x.id
  <2>1. \A i \in 1 .. Len(q) : i + 1 # 1 /\ 1 \in 1 .. Len(p)
    BY <1>2
  <2>2. QED  BY <1>2, <1>3, <2>1 DEF Held
<1>7. \A y \in ram : y.resp.id # x.id
  <2>1. 1 \in 1 .. Len(p)
    BY <1>2
  <2>2. QED  BY <1>2, <1>3, <2>1 DEF Held
<1>8. {p[i].id : i \in 1 .. Len(p)} = {q[i].id : i \in 1 .. Len(q)} \cup {x.id}
  <2>1. \A i \in 1 .. Len(p) : i = 1 \/ (i - 1 \in 1 .. Len(q) /\ p[i] = q[i - 1])
    BY <1>1, <1>2
  <2>2. 1 \in 1 .. Len(p)
    BY <1>2
  <2>3. \A i \in 1 .. Len(q) : i + 1 \in 1 .. Len(p) /\ p[i + 1] = q[i]
    BY <1>2
  <2>4. PICK P, Q : P = {p[i].id : i \in 1 .. Len(p)} /\ Q = {q[i].id : i \in 1 .. Len(q)}
    OBVIOUS
  <2>5. \A i \in 1 .. Len(p) : p[i].id \in Q \cup {x.id}
    <3>1. \A i \in 1 .. Len(q) : q[i].id \in Q
      BY <2>4
    <3>2. QED  BY <1>2, <2>1, <3>1
  <2>6. \A i \in 1 .. Len(p) : p[i].id \in P
    BY <2>4
  <2>7. x.id \in P /\ \A i \in 1 .. Len(q) : q[i].id \in P
    BY <1>2, <2>2, <2>3, <2>6
  <2>8. P \subseteq Q \cup {x.id} /\ Q \cup {x.id} \subseteq P
    BY <2>4, <2>5, <2>7
  <2>9. QED  BY <2>4, <2>8
<1>9. owed \ {x.id} = {q[i].id : i \in 1 .. Len(q)} \cup {y.resp.id : y \in ram}
  <2>1. PICK A : A = {q[i].id : i \in 1 .. Len(q)}
    OBVIOUS
  <2>2. PICK B : B = {y.resp.id : y \in ram}
    OBVIOUS
  <2>3. owed = (A \cup {x.id}) \cup B
    BY <1>3, <1>8, <2>1, <2>2 DEF Held
  <2>4. x.id \notin A /\ x.id \notin B
    BY <1>6, <1>7, <2>1, <2>2
  <2>5. owed \ {x.id} = A \cup B
    BY <2>3, <2>4
  <2>6. QED  BY <2>1, <2>2, <2>5
<1>10. (\E E : q \in Seq(E)) /\ IsFiniteSet(ram) /\ \A y, z \in ram : y.resp.id = z.resp.id => y = z
  BY <1>3 DEF Held
<1>11. QED  BY <1>4, <1>5, <1>9, <1>10 DEF Held

LEMMA SimOldest ==
    ASSUME NEW D, NEW q \in Seq(D), NEW w \in Seq(D)
    PROVE  /\ SetToSeq(Oldest(q)) \o (Rest(q) \o w) = q \o w
           /\ Oldest(q) = {} \/ \E x : Oldest(q) = {x}
           /\ Rest(q) \in Seq(D)
<1>1. CASE q = <<>>
  BY <1>1, SimSeqOne DEF Oldest, Rest
<1>2. CASE q # <<>>
  <2>1. Oldest(q) = {Head(q)} /\ Rest(q) = Tail(q)
    BY <1>2 DEF Oldest, Rest
  <2>2. <<Head(q)>> \o Tail(q) = q /\ Tail(q) \in Seq(D) /\ Head(q) \in D
    BY <1>2
  <2>3. <<Head(q)>> \o (Tail(q) \o w) = (<<Head(q)>> \o Tail(q)) \o w
    BY <2>2
  <2>4. QED  BY <2>1, <2>2, <2>3, SimSeqOne
<1>3. QED  BY <1>1, <1>2

NoneOrOne(X) == X = {} \/ \E x : X = {x}

LEMMA HeldAnswered ==
    ASSUME NEW q, NEW ram, NEW owed, Held(q, ram, owed), NEW X, NoneOrOne(X), \A x \in X : x.id \notin owed
    PROVE  Held(q \o SetToSeq(X), ram, owed \cup {x.id : x \in X})
<1>1. CASE X = {}
  <2>1. PICK D : q \in Seq(D)
    BY DEF Held
  <2>2. q \o <<>> = q
    BY <2>1
  <2>3. owed \cup {x.id : x \in X} = owed
    BY <1>1
  <2>4. QED  BY <1>1, <2>2, <2>3, SimSeqOne
<1>2. CASE X # {}
  <2>1. PICK r : X = {r}
    BY <1>2 DEF NoneOrOne
  <2>2. owed \cup {x.id : x \in X} = owed \cup {r.id}
    BY <2>1
  <2>3. Held(q \o <<r>>, ram, owed \cup {r.id})
    BY <2>1, HeldAppend
  <2>4. QED  BY <2>1, <2>2, <2>3, SimSeqOne
<1>3. QED  BY <1>1, <1>2

LEMMA HeldSubmitted ==
    ASSUME NEW q, NEW ram, NEW owed, Held(q, ram, owed), NEW X, NoneOrOne(X), \A x \in X : x.resp.id \notin owed
    PROVE  Held(q, ram \cup X, owed \cup {x.resp.id : x \in X})
<1>1. CASE X = {}
  <2>1. ram \cup X = ram /\ owed \cup {x.resp.id : x \in X} = owed
    BY <1>1
  <2>2. QED  BY <2>1
<1>2. CASE X # {}
  <2>1. PICK r : X = {r}
    BY <1>2 DEF NoneOrOne
  <2>2. owed \cup {x.resp.id : x \in X} = owed \cup {r.resp.id}
    BY <2>1
  <2>3. Held(q, ram \cup {r}, owed \cup {r.resp.id})
    BY <2>1, HeldSubmit
  <2>4. QED  BY <2>1, <2>2, <2>3
<1>3. QED  BY <1>1, <1>2

\* The answers in X are given, and are no longer owed.
HeldLess(q, ram, owed, X) ==
    Held(q, ram, owed \ {x.id : x \in X}) /\ \A x \in X : x.id \in owed

LEMMA HeldGiven ==
    ASSUME NEW D, NEW q \in Seq(D), NEW ram, NEW owed, NEW X, NoneOrOne(X),
           Held(SetToSeq(X) \o q, ram, owed)
    PROVE  HeldLess(q, ram, owed, X)
<1>1. CASE X = {}
  <2>1. <<>> \o q = q /\ owed \ {x.id : x \in X} = owed
    BY <1>1
  <2>2. QED  BY <1>1, <2>1, SimSeqOne DEF HeldLess
<1>2. CASE X # {}
  <2>1. PICK r : X = {r}
    BY <1>2 DEF NoneOrOne
  <2>2. owed \ {x.id : x \in X} = owed \ {r.id}
    BY <2>1
  <2>3. Held(<<r>> \o q, ram, owed)
    BY <2>1, SimSeqOne
  <2>4. Held(q, ram, owed \ {r.id})
    BY <2>3, HeldTake
  <2>5. r.id \in owed
    <3>1. PICK p : p = <<r>> \o q
      OBVIOUS
    <3>2. p[1] = r /\ 1 \in 1 .. Len(p)
      BY <3>1
    <3>3. Held(p, ram, owed)
      BY <2>3, <3>1
    <3>4. QED  BY <3>2, <3>3 DEF Held
  <2>6. QED  BY <2>1, <2>2, <2>4, <2>5 DEF HeldLess
<1>3. QED  BY <1>1, <1>2

\* What the tables choose, and what the interfaces present.
LEMMA SimSlots ==
    ASSUME NEW n \in Nat \ {0}, NEW t, Shape(t, n), Flags(t, n), NEW rom
    PROVE  /\ {r.id : r \in {MshrReq(t, s) : s \in ReqSlot(t)}} = ReqSlot(t)
           /\ NoneOrOne({MshrReq(t, s) : s \in ReqSlot(t)})
           /\ ReqSlot(t) \cap SimOwes(t) = {}
           /\ t.allocated = {} => ReqSlot(t) = {}
<1>1. One(ReqSlot(t), n) /\ ReqSlot(t) \subseteq t.allocated \ t.issued
  BY SimChoices
<1>2. \A s : MshrReq(t, s).id = s
  BY DEF MshrReq
<1>3. {r.id : r \in {MshrReq(t, s) : s \in ReqSlot(t)}} = ReqSlot(t)
  BY <1>2
<1>4. NoneOrOne({MshrReq(t, s) : s \in ReqSlot(t)})
  <2>1. CASE ReqSlot(t) = {}
    BY <2>1 DEF NoneOrOne
  <2>2. CASE ReqSlot(t) # {}
    <3>1. PICK s : ReqSlot(t) = {s}
      BY <1>1, <2>2 DEF One
    <3>2. {MshrReq(t, x) : x \in ReqSlot(t)} = {MshrReq(t, s)}
      BY <3>1
    <3>3. QED  BY <3>2 DEF NoneOrOne
  <2>3. QED  BY <2>1, <2>2
<1>5. QED  BY <1>1, <1>3, <1>4 DEF SimOwes

----------------------------------------------------------------------------
(* The answers that are owed: the inductive invariant and its steps        *)

\* Nothing is under way in the cycles of the reset.
SimQuiet ==
    InReset => /\ dram.table.allocated = {} /\ QEmpty(dram.bulk.queue)
                   /\ periph.table.allocated = {}
                   /\ mesh = [dram |-> NoFlit, periph |-> NoFlit]

SimTables ==
    /\ Shape(dram.table, MshrCount) /\ Flags(dram.table, MshrCount)
    /\ Shape(periph.table, PeriphInflight) /\ Flags(periph.table, PeriphInflight)

SimBus ==
    /\ \E D : periphResps \in Seq(D)
    /\ \E D : respQueue \in Seq(D)
    /\ NoneOrOne(busIn.periph.resp) /\ NoneOrOne(busIn.dram.resp)

PeriphHeld ==
    Held(Given(busIn.periph) \o periphResps, {},
         Owes(periph.table, Issuing(busIn.periph, PeriphReq)))
DramHeld ==
    Held(Given(busIn.dram) \o respQueue, inRam,
         Owes(dram.table, Issuing(busIn.dram, DramReq)))

SimAnswering ==
    cycle \in Nat /\ SimQuiet /\ SimTables /\ SimBus /\ PeriphHeld /\ DramHeld

\* Between the phases the frontend has given nothing.
LEMMA SimAtRest ==
    ASSUME pc # "step", SimBus
    PROVE  /\ PeriphHeld <=> Held(periphResps, {}, SimOwes(periph.table))
           /\ DramHeld <=> Held(respQueue, inRam, SimOwes(dram.table))
<1>1. \A bus, req : Given(bus) = <<>> /\ Issuing(bus, req) = {}
  BY DEF Given, Issuing
<1>2. \A t : Owes(t, {}) = SimOwes(t)
  BY DEF Owes, SimOwes
<1>3. <<>> \o periphResps = periphResps /\ <<>> \o respQueue = respQueue
  BY DEF SimBus
<1>4. QED  BY <1>1, <1>2, <1>3 DEF PeriphHeld, DramHeld

LEMMA SimAtRestNext ==
    ASSUME pc' # "step", SimBus'
    PROVE  /\ Held(periphResps', {}, SimOwes(periph'.table)) => PeriphHeld'
           /\ Held(respQueue', inRam', SimOwes(dram'.table)) => DramHeld'
<1>1. /\ (Given(busIn.periph))' = <<>> /\ (Given(busIn.dram))' = <<>>
      /\ (Issuing(busIn.periph, PeriphReq))' = {} /\ (Issuing(busIn.dram, DramReq))' = {}
  BY DEF Given, Issuing
<1>2. /\ Owes(periph.table, {})' = SimOwes(periph'.table) /\ Owes(dram.table, {})' = SimOwes(dram'.table)
  BY DEF Owes, SimOwes
<1>3. <<>> \o periphResps' = periphResps' /\ <<>> \o respQueue' = respQueue'
  BY DEF SimBus
<1>4. QED  BY <1>1, <1>2, <1>3 DEF PeriphHeld, DramHeld

LEMMA SimAnsweringAtRest ==
    ASSUME SimAnswering, pc # "step", pc' # "step", cycle' \in Nat, cycle' >= cycle,
           ReleaseResetAfter \in Nat,
           UNCHANGED <<periphResps, respQueue, inRam, busIn, dram, periph, mesh>>
    PROVE  SimAnswering'
<1>1. SimBus' /\ SimTables'
  BY DEF SimAnswering, SimBus, SimTables
<1>2. Held(periphResps, {}, SimOwes(periph.table)) /\ Held(respQueue, inRam, SimOwes(dram.table))
  BY SimAtRest DEF SimAnswering
<1>3. Held(periphResps', {}, SimOwes(periph'.table)) /\ Held(respQueue', inRam', SimOwes(dram'.table))
  BY <1>2
<1>4. PeriphHeld' /\ DramHeld'
  BY <1>1, <1>3, SimAtRestNext
<1>5. SimQuiet'
  <2>1. InReset' => InReset
    BY DEF InReset, SimAnswering
  <2>2. QED  BY <2>1 DEF SimAnswering, SimQuiet
<1>6. QED  BY <1>1, <1>4, <1>5 DEF SimAnswering

LEMMA SimLoopInv ==
    ASSUME SimAnswering, Loop, ReleaseResetAfter \in Nat
    PROVE  SimAnswering'
<1>1. /\ pc = "loop" /\ pc' # "step" /\ (cycle' = cycle \/ cycle' = cycle + 1)
      /\ UNCHANGED <<periphResps, respQueue, inRam, busIn, dram, periph, mesh>>
  BY DEF Loop, End, backend
<1>2. cycle' \in Nat /\ cycle' >= cycle
  BY <1>1 DEF SimAnswering
<1>3. QED  BY <1>1, <1>2, SimAnsweringAtRest

LEMMA SimGiveUpInv ==
    ASSUME SimAnswering, GiveUp, ReleaseResetAfter \in Nat
    PROVE  SimAnswering'
<1>1. /\ pc = "serve" /\ pc' # "step" /\ cycle' = cycle
      /\ UNCHANGED <<periphResps, respQueue, inRam, busIn, dram, periph, mesh>>
  BY DEF GiveUp, End, backend
<1>2. cycle' \in Nat /\ cycle' >= cycle
  BY <1>1 DEF SimAnswering
<1>3. QED  BY <1>1, <1>2, SimAnsweringAtRest

LEMMA SimSameInv ==
    ASSUME SimAnswering,
           UNCHANGED <<pc, cycle, periphResps, respQueue, inRam, busIn, dram, periph, mesh>>
    PROVE  SimAnswering'
  BY DEF SimAnswering, SimBus, SimTables, SimQuiet, PeriphHeld, DramHeld, InReset,
         Given, Issuing, Owes, PeriphReq, DramReq

\* The requests that the interfaces present: at most one each, that of the
\* MSHR that is to be issued.
LEMMA SimRequests ==
    ASSUME SimAnswering, MshrCount \in Nat \ {0}, PeriphInflight \in Nat \ {0}
    PROVE  /\ NoneOrOne(DramReq) /\ {r.id : r \in DramReq} = ReqSlot(dram.table)
           /\ NoneOrOne(PeriphReq) /\ {r.id : r \in PeriphReq} \subseteq ReqSlot(periph.table)
           /\ ReqSlot(dram.table) \cap SimOwes(dram.table) = {}
           /\ ReqSlot(periph.table) \cap SimOwes(periph.table) = {}
<1>1. PICK d : d = {MshrReq(dram.table, s) : s \in ReqSlot(dram.table)}
  OBVIOUS
<1>2. PICK p : p = {MshrReq(periph.table, s) : s \in ReqSlot(periph.table)}
  OBVIOUS
<1>3. /\ {r.id : r \in d} = ReqSlot(dram.table) /\ NoneOrOne(d)
      /\ ReqSlot(dram.table) \cap SimOwes(dram.table) = {}
      /\ dram.table.allocated = {} => ReqSlot(dram.table) = {}
  BY <1>1, SimSlots DEF SimAnswering, SimTables
<1>4. /\ {r.id : r \in p} = ReqSlot(periph.table) /\ NoneOrOne(p)
      /\ ReqSlot(periph.table) \cap SimOwes(periph.table) = {}
  BY <1>2, SimSlots DEF SimAnswering, SimTables
<1>5. DramReq = d
  <2>1. CASE InReset
    <3>1. ReqSlot(dram.table) = {}
      BY <1>3, <2>1 DEF SimAnswering, SimQuiet
    <3>2. d = {}
      BY <1>1, <3>1
    <3>3. QED  BY <2>1, <3>2 DEF DramReq
  <2>2. CASE ~InReset
    BY <1>1, <2>2 DEF DramReq, PeekMem
  <2>3. QED  BY <2>1, <2>2
<1>6. PeriphReq \subseteq p
  BY <1>2 DEF PeriphReq, PeriphPeekMem
<1>7. NoneOrOne(PeriphReq) /\ {r.id : r \in PeriphReq} \subseteq ReqSlot(periph.table)
  <2>1. NoneOrOne(PeriphReq)
    <3>1. CASE p = {}
      BY <1>6, <3>1 DEF NoneOrOne
    <3>2. CASE p # {}
      <4>1. PICK x : p = {x}
        BY <1>4, <3>2 DEF NoneOrOne
      <4>2. PeriphReq = {} \/ PeriphReq = {x}
        BY <1>6, <4>1
      <4>3. QED  BY <4>2 DEF NoneOrOne
    <3>3. QED  BY <3>1, <3>2
  <2>2. QED  BY <1>4, <1>6, <2>1
<1>8. QED  BY <1>3, <1>4, <1>5, <1>7

\* The answers of the devices and of the memory image name their request.
LEMMA SimAnswerIds ==
    /\ \A d, r : Devices!ServePeriph(d, r).resp.id = r.id
    /\ \A m, r : Devices!Prepare(m, r).resp.id = r.id
<1>1. \A d, r : Devices!ServePeriph(d, r).resp.id = r.id
  BY DEF Devices!ServePeriph
<1>2. \A m, r : Devices!Prepare(m, r).resp.id = r.id
  BY DEF Devices!Prepare
<1>3. QED  BY <1>1, <1>2

LEMMA SimSeqIn ==
    ASSUME NEW X, NoneOrOne(X)
    PROVE  SetToSeq(X) \in Seq(X)
<1>1. CASE X = {}
  <2>1. <<>> \in Seq({})
    OBVIOUS
  <2>2. QED  BY <1>1, <2>1, SimSeqOne
<1>2. CASE X # {}
  <2>1. PICK x : X = {x}
    BY <1>2 DEF NoneOrOne
  <2>2. <<x>> \in Seq({x})
    OBVIOUS
  <2>3. QED  BY <2>1, <2>2, SimSeqOne
<1>3. QED  BY <1>1, <1>2

LEMMA SimServePeriph ==
    ASSUME SimAnswering, Serve, MshrCount \in Nat \ {0}, PeriphInflight \in Nat \ {0}
    PROVE  /\ PeriphHeld' /\ (\E D : periphResps' \in Seq(D)) /\ NoneOrOne(busIn'.periph.resp)
<1>0. /\ pc = "serve" /\ pc' = "step" /\ PeriphReq' = PeriphReq /\ periph' = periph
  BY DEF Serve, backend, PeriphReq, InReset
<1>1. PICK done, accepts : ServeWith(done, accepts)
  BY DEF Serve
<1>2. PICK ticked : ticked = Devices!Tick(device)
  OBVIOUS
<1>3. PICK taken : taken = {x \in PeriphReq : Len(periphResps) < RespDepth}
  OBVIOUS
<1>4. PICK served : served = {Devices!ServePeriph(ticked, r) : r \in taken}
  OBVIOUS
<1>5. PICK X : X = {s.resp : s \in served}
  OBVIOUS
<1>6. /\ periphResps' = Rest(periphResps) \o SetToSeq(X)
      /\ busIn'.periph = [reqAccepting |-> Len(periphResps) < RespDepth, resp |-> Oldest(periphResps)]
  BY <1>1, <1>2, <1>3, <1>4, <1>5 DEF ServeWith
<1>7. NoneOrOne(taken) /\ {r.id : r \in taken} \cap SimOwes(periph.table) = {}
  BY <1>3, SimRequests DEF NoneOrOne
<1>8. NoneOrOne(X) /\ {x.id : x \in X} = {r.id : r \in taken}
  <2>1. CASE taken = {}
    BY <1>4, <1>5, <2>1 DEF NoneOrOne
  <2>2. CASE taken # {}
    <3>1. PICK r : taken = {r}
      BY <1>7, <2>2 DEF NoneOrOne
    <3>2. X = {Devices!ServePeriph(ticked, r).resp}
      BY <1>4, <1>5, <3>1
    <3>3. QED  BY <3>1, <3>2, SimAnswerIds DEF NoneOrOne
  <2>3. QED  BY <2>1, <2>2
<1>9. Held(periphResps, {}, SimOwes(periph.table))
  BY <1>0, SimAtRest DEF SimAnswering
<1>10. Held(periphResps \o SetToSeq(X), {}, SimOwes(periph.table) \cup {x.id : x \in X})
  BY <1>7, <1>8, <1>9, HeldAnswered
<1>11. PICK D : periphResps \in Seq(D) /\ SetToSeq(X) \in Seq(D)
  <2>1. PICK E : periphResps \in Seq(E)
    BY DEF SimAnswering, SimBus
  <2>2. SetToSeq(X) \in Seq(X)
    BY <1>8, SimSeqIn
  <2>3. periphResps \in Seq(E \cup X) /\ SetToSeq(X) \in Seq(E \cup X)
    BY <2>1, <2>2
  <2>4. QED  BY <2>3
<1>12. /\ SetToSeq(Oldest(periphResps)) \o (Rest(periphResps) \o SetToSeq(X))
            = periphResps \o SetToSeq(X)
       /\ NoneOrOne(Oldest(periphResps)) /\ Rest(periphResps) \in Seq(D)
  BY <1>11, SimOldest DEF NoneOrOne
<1>13. (Given(busIn.periph))' = SetToSeq(Oldest(periphResps))
  BY <1>0, <1>6 DEF Given
<1>14. (Owes(periph.table, Issuing(busIn.periph, PeriphReq)))'
          = SimOwes(periph.table) \cup {x.id : x \in X}
  <2>1. (Issuing(busIn.periph, PeriphReq))' = {r.id : r \in taken}
    <3>1. PICK open : open = (Len(periphResps) < RespDepth)
      OBVIOUS
    <3>2. busIn'.periph.reqAccepting = open
      BY <1>6, <3>1
    <3>3. (Issuing(busIn.periph, PeriphReq))' = IF open THEN {r.id : r \in PeriphReq} ELSE {}
      BY <1>0, <3>2 DEF Issuing
    <3>4. QED  BY <1>3, <3>1, <3>3
  <2>2. QED  BY <1>0, <1>8, <2>1 DEF Owes, SimOwes
<1>15. PeriphHeld'
  BY <1>6, <1>10, <1>12, <1>13, <1>14 DEF PeriphHeld
<1>16. periphResps' \in Seq(D)
  BY <1>6, <1>11, <1>12
<1>17. QED  BY <1>6, <1>12, <1>15, <1>16

LEMMA SimServeDram ==
    ASSUME SimAnswering, Serve, MshrCount \in Nat \ {0}, PeriphInflight \in Nat \ {0}
    PROVE  /\ DramHeld' /\ (\E D : respQueue' \in Seq(D)) /\ NoneOrOne(busIn'.dram.resp)
<1>0. /\ pc = "serve" /\ pc' = "step" /\ DramReq' = DramReq /\ dram' = dram
  BY DEF Serve, backend, DramReq, InReset
<1>1. PICK some, done, accepts : /\ some \in SUBSET inRam /\ done \in SetToSeqs(some)
                                 /\ ServeWith(done, accepts)
  BY DEF Serve
<1>2. PICK queue : queue = respQueue \o [i \in DOMAIN done |-> done[i].resp]
  OBVIOUS
<1>3. PICK open : open = IF opts.ramulator THEN accepts ELSE Len(queue) < RespDepth
  OBVIOUS
<1>4. PICK taken : taken = {x \in DramReq : open}
  OBVIOUS
<1>5. PICK X : X = IF opts.ramulator THEN {} ELSE {Devices!Prepare(image, r).resp : r \in taken}
  OBVIOUS
<1>6. \E Y : /\ NoneOrOne(taken) => NoneOrOne(Y)
             /\ {y.resp.id : y \in Y} = IF opts.ramulator THEN {r.id : r \in taken} ELSE {}
             /\ inRam' = (inRam \ Range(done)) \cup Y
  <2> DEFINE ticked == Devices!Tick(device)
             served == {Devices!ServePeriph(ticked, r) :
                           r \in {x \in PeriphReq : Len(periphResps) < RespDepth}}
             after == IF served = {} THEN ticked ELSE The(served).device
             counted == Sampled(Completed(timed, done))
             begun == IF ~device.timerEnabled /\ after.timerEnabled
                      THEN BeginTimed(counted) ELSE counted
             line == respQueue \o [i \in DOMAIN done |-> done[i].resp]
             given == {x \in DramReq : IF opts.ramulator THEN accepts ELSE Len(line) < RespDepth}
  <2>6. inRam' = (inRam \ Range(done)) \cup
                     (IF opts.ramulator
                      THEN {[resp |-> Devices!Prepare(image, r).resp, timed |-> begun.active] : r \in given}
                      ELSE {})
    BY <1>1 DEF ServeWith
  <2>7. PICK flag : flag = begun.active
    OBVIOUS
  <2>8. given = taken
    BY <1>2, <1>3, <1>4
  <2> HIDE DEF begun, given
  <2>1. inRam' = (inRam \ Range(done)) \cup
                     (IF opts.ramulator
                      THEN {[resp |-> Devices!Prepare(image, r).resp, timed |-> flag] : r \in taken}
                      ELSE {})
    BY <2>6, <2>7, <2>8
  <2>2. PICK Y : Y = IF opts.ramulator
                     THEN {[resp |-> Devices!Prepare(image, r).resp, timed |-> flag] : r \in taken}
                     ELSE {}
    OBVIOUS
  <2>3. NoneOrOne(taken) => NoneOrOne(Y)
    <3>1. CASE taken = {}
      BY <2>2, <3>1 DEF NoneOrOne
    <3>2. ASSUME NEW r, taken = {r}
          PROVE  NoneOrOne(Y)
      <4>1. Y = {} \/ Y = {[resp |-> Devices!Prepare(image, r).resp, timed |-> flag]}
        BY <2>2, <3>2
      <4>2. QED  BY <4>1 DEF NoneOrOne
    <3>3. QED  BY <3>1, <3>2 DEF NoneOrOne
  <2>4. {y.resp.id : y \in Y} = IF opts.ramulator THEN {r.id : r \in taken} ELSE {}
    <3>1. CASE opts.ramulator
      <4>1. \A r : [resp |-> Devices!Prepare(image, r).resp, timed |-> flag].resp.id = r.id
        BY SimAnswerIds
      <4>2. Y = {[resp |-> Devices!Prepare(image, r).resp, timed |-> flag] : r \in taken}
        BY <2>2, <3>1
      <4>3. \A y \in Y : \E r \in taken : y.resp.id = r.id
        BY <4>1, <4>2
      <4>5. \A r \in taken : \E y \in Y : y.resp.id = r.id
        BY <4>1, <4>2
      <4>6. {y.resp.id : y \in Y} = {r.id : r \in taken}
        BY <4>3, <4>5
      <4>4. QED  BY <3>1, <4>6
    <3>2. CASE ~opts.ramulator
      BY <2>2, <3>2
    <3>3. QED  BY <3>1, <3>2
  <2>5. QED  BY <2>1, <2>2, <2>3, <2>4
<1>7. PICK Y : /\ NoneOrOne(taken) => NoneOrOne(Y)
               /\ {y.resp.id : y \in Y} = IF opts.ramulator THEN {r.id : r \in taken} ELSE {}
               /\ inRam' = (inRam \ Range(done)) \cup Y
  BY <1>6
<1>8. /\ respQueue' = Rest(queue) \o SetToSeq(X)
      /\ busIn'.dram = [reqAccepting |-> open, resp |-> Oldest(queue)]
  <2>1. /\ respQueue' = Rest(queue) \o (IF opts.ramulator THEN <<>>
                             ELSE SetToSeq({Devices!Prepare(image, r).resp : r \in taken}))
        /\ busIn'.dram = [reqAccepting |-> open, resp |-> Oldest(queue)]
    BY <1>1, <1>2, <1>3, <1>4 DEF ServeWith
  <2>2. QED  BY <1>5, <2>1, SimSeqOne
<1>9. NoneOrOne(taken) /\ {r.id : r \in taken} \cap SimOwes(dram.table) = {}
  BY <1>4, SimRequests DEF NoneOrOne
<1>10. NoneOrOne(X) /\ {x.id : x \in X} = IF opts.ramulator THEN {} ELSE {r.id : r \in taken}
  <2>1. CASE taken = {} \/ opts.ramulator
    BY <1>5, <2>1 DEF NoneOrOne
  <2>2. CASE taken # {} /\ ~opts.ramulator
    <3>1. PICK r : taken = {r}
      BY <1>9, <2>2 DEF NoneOrOne
    <3>2. X = {Devices!Prepare(image, r).resp}
      BY <1>5, <2>2, <3>1
    <3>3. QED  BY <2>2, <3>1, <3>2, SimAnswerIds DEF NoneOrOne
  <2>3. QED  BY <2>1, <2>2
<1>11. Held(queue, inRam \ Range(done), SimOwes(dram.table))
  <2>1. Held(respQueue, inRam, SimOwes(dram.table))
    BY <1>0, SimAtRest DEF SimAnswering
  <2>2. QED  BY <1>1, <1>2, <2>1, HeldComplete
<1>12. PICK ids : ids = {r.id : r \in taken}
  OBVIOUS
<1>13. Held(queue \o SetToSeq(X), inRam', SimOwes(dram.table) \cup ids)
  <2>1. CASE opts.ramulator
    <3>1. X = {} /\ {y.resp.id : y \in Y} = ids /\ NoneOrOne(Y)
      BY <1>5, <1>7, <1>9, <1>12, <2>1
    <3>2. \A y \in Y : y.resp.id \notin SimOwes(dram.table)
      BY <1>9, <1>12, <3>1
    <3>3. Held(queue, inRam', SimOwes(dram.table) \cup ids)
      BY <1>7, <1>11, <3>1, <3>2, HeldSubmitted
    <3>4. queue \o <<>> = queue
      <4>1. PICK D : queue \in Seq(D)
        BY <1>11 DEF Held
      <4>2. QED  BY <4>1
    <3>5. QED  BY <3>1, <3>3, <3>4, SimSeqOne
  <2>2. CASE ~opts.ramulator
    <3>1. {x.id : x \in X} = ids /\ NoneOrOne(X)
      BY <1>10, <1>12, <2>2
    <3>2. \A x \in X : x.id \notin SimOwes(dram.table)
      BY <1>9, <1>12, <3>1
    <3>3. Y = {}
      BY <1>7, <2>2
    <3>4. inRam' = inRam \ Range(done)
      BY <1>7, <3>3
    <3>5. Held(queue \o SetToSeq(X), inRam \ Range(done), SimOwes(dram.table) \cup {x.id : x \in X})
      BY <1>11, <3>1, <3>2, HeldAnswered
    <3>6. QED  BY <3>1, <3>4, <3>5
  <2>3. QED  BY <2>1, <2>2
<1>14. PICK D : queue \in Seq(D) /\ SetToSeq(X) \in Seq(D)
  <2>1. PICK E : queue \in Seq(E)
    BY <1>11 DEF Held
  <2>2. SetToSeq(X) \in Seq(X)
    BY <1>10, SimSeqIn
  <2>3. queue \in Seq(E \cup X) /\ SetToSeq(X) \in Seq(E \cup X)
    BY <2>1, <2>2
  <2>4. QED  BY <2>3
<1>15. /\ SetToSeq(Oldest(queue)) \o (Rest(queue) \o SetToSeq(X))
            = queue \o SetToSeq(X)
       /\ NoneOrOne(Oldest(queue)) /\ Rest(queue) \in Seq(D)
  BY <1>14, SimOldest DEF NoneOrOne
<1>16. (Given(busIn.dram))' = SetToSeq(Oldest(queue))
  BY <1>0, <1>8 DEF Given
<1>17. (Owes(dram.table, Issuing(busIn.dram, DramReq)))' = SimOwes(dram.table) \cup ids
  <2>1. (Issuing(busIn.dram, DramReq))' = ids
    <3>1. (Issuing(busIn.dram, DramReq))' = IF open THEN {r.id : r \in DramReq} ELSE {}
      BY <1>0, <1>8 DEF Issuing
    <3>2. QED  BY <1>4, <1>12, <3>1
  <2>2. QED  BY <1>0, <2>1 DEF Owes, SimOwes
<1>18. DramHeld'
  BY <1>8, <1>13, <1>15, <1>16, <1>17 DEF DramHeld
<1>19. respQueue' \in Seq(D)
  BY <1>8, <1>14, <1>15
<1>20. QED  BY <1>8, <1>15, <1>18, <1>19

LEMMA SimServeInv ==
    ASSUME SimAnswering, Serve, MshrCount \in Nat \ {0}, PeriphInflight \in Nat \ {0}
    PROVE  SimAnswering'
<1>1. UNCHANGED <<cycle, dram, periph, mesh>>
  BY DEF Serve, backend
<1>2. cycle' \in Nat /\ SimQuiet' /\ SimTables'
  BY <1>1 DEF SimAnswering, SimQuiet, SimTables, InReset
<1>3. SimBus' /\ PeriphHeld' /\ DramHeld'
  BY SimServePeriph, SimServeDram DEF SimBus
<1>4. QED  BY <1>2, <1>3 DEF SimAnswering

\* What the interfaces choose in a step.
DramIssue == IF busIn.dram.reqAccepting THEN ReqSlot(dram.table) ELSE {}
DramSettled ==
    /\ Settled(dram'.table, MshrCount, dram.table, DramIssue, busIn.dram.resp)
    /\ \A x \in busIn.dram.resp : x.id \in SimOwes(dram.table) \cup DramIssue

LEMMA SimStepDram ==
    ASSUME SimAnswering, Step, MshrCount \in Nat \ {0}, PeriphInflight \in Nat \ {0}
    PROVE  /\ Shape(dram'.table, MshrCount) /\ Flags(dram'.table, MshrCount) /\ DramHeld'
           /\ InReset => dram'.table.allocated = {} /\ QEmpty(dram'.bulk.queue)
           /\ DramSettled
<1>0. /\ pc = "step" /\ pc' = "loop" /\ UNCHANGED <<inRam, respQueue, busIn>>
  BY DEF Step
<1>1. PICK sent, toDram, toPeriph : StepWith(sent, toDram, toPeriph)
  BY DEF Step
<1>2. PICK t, n : t = dram.table /\ n = MshrCount
  OBVIOUS
<1>3. PICK dealloc, eject, issue :
          /\ dealloc = {} \/ dealloc = ReturnSlot(t, FALSE)
          /\ eject = {} \/ eject = ReturnSlot(t, TRUE)
          /\ issue = IF busIn.dram.reqAccepting THEN ReqSlot(t) ELSE {}
          /\ dram'.table = TableStep(t, dram.bulk, DramTaken, dealloc, issue, busIn.dram.resp, eject)
          /\ dram'.bulk = BulkStep(t, dram.bulk, DramTaken, eject)
  <2> DEFINE r == RingIntf(1)
             e == IF QFull(dram.bcst.egress) THEN {} ELSE ReturnSlot(dram.table, TRUE)
             u == ReturnSlot(dram.table, FALSE)
             peek == UnicastPeek(dram.domain, r.ingress, {MshrUnicast(dram.table, s) : s \in u})
             injected == IF r.canInject THEN peek.mshrRemote ELSE {}
             d == IF peek.mshrLocal \cup injected = {} THEN {} ELSE u
             i == IF busIn.dram.reqAccepting THEN ReqSlot(dram.table) ELSE {}
  <2>1. dram' = IF InReset
                THEN [DramStep(dram, r, busIn.dram, DramPort, DramTaken, Masks, "dram" \in sent).next
                         EXCEPT !.idle = ResetIdle]
                ELSE DramStep(dram, r, busIn.dram, DramPort, DramTaken, Masks, "dram" \in sent).next
    BY <1>1 DEF StepWith
  <2>2. PICK idle, bcst, arb, pipes :
            DramStep(dram, r, busIn.dram, DramPort, DramTaken, Masks, "dram" \in sent).next
              = [domain |-> dram.domain,
                 table |-> TableStep(dram.table, dram.bulk, DramTaken, d, i, busIn.dram.resp, e),
                 idle |-> idle, bulk |-> BulkStep(dram.table, dram.bulk, DramTaken, e),
                 bcst |-> bcst, reqArb |-> arb, pipes |-> pipes]
    BY ZenonT(60) DEF DramStep
  <2>3. PICK dd, ee, ii : dd = d /\ ee = e /\ ii = i
    OBVIOUS
  <2>4. (dd = {} \/ dd = u) /\ (ee = {} \/ ee = ReturnSlot(dram.table, TRUE))
    BY <2>3
  <2>5. /\ dram'.table = TableStep(dram.table, dram.bulk, DramTaken, dd, ii, busIn.dram.resp, ee)
        /\ dram'.bulk = BulkStep(dram.table, dram.bulk, DramTaken, ee)
    <3>1. PICK tab, blk, next :
             /\ tab = TableStep(dram.table, dram.bulk, DramTaken, d, i, busIn.dram.resp, e)
             /\ blk = BulkStep(dram.table, dram.bulk, DramTaken, e)
             /\ next = [domain |-> dram.domain, table |-> tab, idle |-> idle, bulk |-> blk,
                        bcst |-> bcst, reqArb |-> arb, pipes |-> pipes]
      OBVIOUS
    <3>2. dram' = IF InReset THEN [next EXCEPT !.idle = ResetIdle] ELSE next
      BY <2>1, <2>2, <3>1
    <3>3. dram'.table = tab /\ dram'.bulk = blk
      BY <3>1, <3>2
    <3>4. QED  BY <2>3, <3>1, <3>3
  <2>6. QED  BY <1>2, <2>3, <2>4, <2>5
<1>4. /\ One(ReqSlot(t), n) /\ ReqSlot(t) \subseteq t.allocated \ t.issued
      /\ One(ReturnSlot(t, FALSE), n) /\ ReturnSlot(t, FALSE) \subseteq t.fulfilled
      /\ One(ReturnSlot(t, TRUE), n) /\ ReturnSlot(t, TRUE) \subseteq t.fulfilled
      /\ One({}, n)
  BY <1>2, SimChoices DEF SimAnswering, SimTables, One
<1>5. Held(SetToSeq(busIn.dram.resp) \o respQueue, inRam, SimOwes(t) \cup issue)
  <2>1. Given(busIn.dram) = SetToSeq(busIn.dram.resp)
    BY <1>0 DEF Given
  <2>2. Issuing(busIn.dram, DramReq) = issue
    BY <1>0, <1>2, <1>3, SimRequests DEF Issuing
  <2>3. Owes(t, issue) = SimOwes(t) \cup issue
    BY DEF Owes, SimOwes
  <2>4. QED  BY <1>2, <2>1, <2>2, <2>3 DEF SimAnswering, DramHeld
<1>6. /\ Held(respQueue, inRam, (SimOwes(t) \cup issue) \ {x.id : x \in busIn.dram.resp})
      /\ \A x \in busIn.dram.resp : x.id \in SimOwes(t) \cup issue
  <2>1. PICK D : respQueue \in Seq(D)
    BY DEF SimAnswering, SimBus
  <2>2. NoneOrOne(busIn.dram.resp)
    BY DEF SimAnswering, SimBus
  <2>3. PICK owed : owed = SimOwes(t) \cup issue
    OBVIOUS
  <2>4. Held(SetToSeq(busIn.dram.resp) \o respQueue, inRam, owed)
    BY <1>5, <2>3
  <2>5. HeldLess(respQueue, inRam, owed, busIn.dram.resp)
    BY <2>1, <2>2, <2>4, HeldGiven
  <2>6. QED  BY <2>3, <2>5 DEF HeldLess
<1>7. Edge(t, n, dealloc, issue, busIn.dram.resp, eject)
  <2>1. Shape(t, n) /\ Flags(t, n) /\ (busIn.dram.resp = {} \/ \E x : busIn.dram.resp = {x})
    BY <1>2 DEF SimAnswering, SimTables, SimBus, NoneOrOne
  <2>2. One(dealloc, n) /\ dealloc \subseteq t.fulfilled /\ One(eject, n) /\ eject \subseteq t.fulfilled
    BY <1>3, <1>4
  <2>3. One(issue, n) /\ issue \subseteq t.allocated \ t.issued
    BY <1>3, <1>4
  <2>4. QED  BY <1>6, <2>1, <2>2, <2>3 DEF Edge
<1>8. Owing(dram'.table, n, (SimOwes(t) \cup issue) \ {x.id : x \in busIn.dram.resp})
  BY <1>2, <1>3, <1>7, SimTableOwes
<1>9. DramHeld'
  <2>1. Held(respQueue', inRam', SimOwes(dram'.table))
    BY <1>0, <1>6, <1>8 DEF Owing
  <2>2. (Given(busIn.dram))' = <<>> /\ (Issuing(busIn.dram, DramReq))' = {}
    BY <1>0 DEF Given, Issuing
  <2>3. (Owes(dram.table, {}))' = SimOwes(dram'.table)
    BY DEF Owes, SimOwes
  <2>4. <<>> \o respQueue' = respQueue'
    BY <1>0 DEF SimAnswering, SimBus
  <2>5. QED  BY <2>1, <2>2, <2>3, <2>4 DEF DramHeld
<1>10. InReset => dram'.table.allocated = {} /\ QEmpty(dram'.bulk.queue)
  <2>1. SUFFICES ASSUME InReset
                 PROVE  dram'.table.allocated = {} /\ QEmpty(dram'.bulk.queue)
    OBVIOUS
  <2>2. t.allocated = {} /\ QEmpty(dram.bulk.queue) /\ mesh = [dram |-> NoFlit, periph |-> NoFlit]
    BY <1>2, <2>1 DEF SimAnswering, SimQuiet
  <2>3. DramTaken = {}
    <3>1. {f \in {mesh.dram} \ {NoFlit} : DramCanAccept(dram, f)} = {}
      BY <2>2
    <3>2. DramPort = {}
      BY <3>1 DEF DramPort, NocAcceptMultiple
    <3>3. QED  BY <3>2 DEF DramTaken
  <2>4. ~BulkAlloc(t, dram.bulk, {})
    BY <2>2 DEF BulkAlloc
  <2>5. QEmpty(dram'.bulk.queue)
    <3>1. dram'.bulk = BulkStep(t, dram.bulk, {}, eject)
      BY <1>3, <2>3
    <3>2. BulkStep(t, dram.bulk, {}, eject).queue = dram.bulk.queue
      BY <2>4 DEF BulkStep
    <3>3. QED  BY <2>2, <3>1, <3>2
  <2>6. dram'.table.allocated = {}
    <3>1. PICK t1 : t1 = ReturnCommit(t, dealloc, FALSE)
      OBVIOUS
    <3>2. PICK t2 : t2 = ReqCommit(t1, issue)
      OBVIOUS
    <3>3. PICK t3 : t3 = RespAccept(t2, busIn.dram.resp)
      OBVIOUS
    <3>4. PICK t4 : t4 = ReturnCommit(t3, eject, TRUE)
      OBVIOUS
    <3>5. dram'.table = t4
      <4>1. dram'.table = TableStep(t, dram.bulk, {}, dealloc, issue, busIn.dram.resp, eject)
        BY <1>3, <2>3
      <4>2. {f \in {} : IsScalar(f)} = {}
        OBVIOUS
      <4>3. QED  BY <2>4, <3>1, <3>2, <3>3, <3>4, <4>1, <4>2 DEF TableStep
    <3>6. PICK i, f : Flagged(t4, n, (t.allocated \ dealloc) \ eject, i, f)
      BY ZenonT(60), <1>2, <1>7, <3>1, <3>2, <3>3, <3>4, SimCommits DEF Edge
    <3>7. QED  BY <2>2, <3>5, <3>6 DEF Flagged
  <2>7. QED  BY <2>5, <2>6
<1>11. DramSettled
  <2>1. issue = DramIssue
    BY <1>2, <1>3 DEF DramIssue
  <2>2. QED  BY <1>2, <1>6, <1>8, <2>1 DEF DramSettled, Settled
<1>12. QED  BY <1>2, <1>8, <1>9, <1>10, <1>11 DEF Owing

LEMMA SimStepPeriph ==
    ASSUME SimAnswering, Step, MshrCount \in Nat \ {0}, PeriphInflight \in Nat \ {0}
    PROVE  /\ Shape(periph'.table, PeriphInflight) /\ Flags(periph'.table, PeriphInflight)
           /\ PeriphHeld' /\ (InReset => periph'.table.allocated = {})
<1>0. /\ pc = "step" /\ pc' = "loop" /\ UNCHANGED <<periphResps, busIn>>
  BY DEF Step
<1>1. PICK sent, toDram, toPeriph : StepWith(sent, toDram, toPeriph)
  BY DEF Step
<1>2. PICK t, n, rom : t = periph.table /\ n = PeriphInflight /\ rom = Rom
  OBVIOUS
<1>3. PICK own : own = {s \in ReqSlot(t) : Aligned(t.mshrs[s].addr) \in DOMAIN rom}
  OBVIOUS
<1>4. PICK served : served = {s \in own : busIn.periph.resp = {}}
  OBVIOUS
<1>5. PICK issue : issue = IF \/ served # {}
                              \/ busIn.periph.reqAccepting /\ PeriphPeekMem(periph, rom) # {}
                           THEN ReqSlot(t) ELSE {}
  OBVIOUS
<1>6. PICK resp : resp = busIn.periph.resp
                         \cup {[id |-> s, data |-> rom[Aligned(t.mshrs[s].addr)]] : s \in served}
  OBVIOUS
<1>7. PICK scalar : scalar = {f \in PeriphTaken : IsScalar(f)}
  OBVIOUS
<1>8. PICK unicast, t1, t2, t3, slot, new :
          /\ unicast = {} \/ unicast = ReturnSlot(t, FALSE)
          /\ t1 = ReturnCommit(t, unicast, FALSE) /\ t2 = RespAccept(t1, resp)
          /\ t3 = ReqCommit(t2, issue)
          /\ scalar = {} => slot = {}
          /\ scalar # {} => slot = AllocSlot(t)
          /\ periph'.table = AllocCommit(t3, slot, new)
  <2> DEFINE u == IF RingIntf(0).canInject THEN ReturnSlot(periph.table, FALSE) ELSE {}
             romServed == RomServed(periph, busIn.periph, Rom)
             i == IF romServed # {} \/ (busIn.periph.reqAccepting /\ PeriphPeekMem(periph, Rom) # {})
                  THEN ReqSlot(periph.table) ELSE {}
             r == busIn.periph.resp \cup {[id |-> s, data |-> Rom[Aligned(periph.table.mshrs[s].addr)]]
                                             : s \in romServed}
             f == {g \in PeriphTaken : IsScalar(g)}
             answered == ReqCommit(RespAccept(ReturnCommit(periph.table, u, FALSE), r), i)
  <2>1. PICK idle : periph' = IF InReset
                  THEN [[table |-> IF f = {} THEN answered
                                   ELSE AllocCommit(answered, AllocSlot(periph.table),
                                                        FromScalarFlit(The(f))),
                         idle |-> idle] EXCEPT !.idle = ResetIdle]
                  ELSE [table |-> IF f = {} THEN answered
                                  ELSE AllocCommit(answered, AllocSlot(periph.table),
                                                       FromScalarFlit(The(f))),
                        idle |-> idle]
    BY <1>1 DEF StepWith, PeriphStep
  <2>2. romServed = served
    BY <1>2, <1>3, <1>4 DEF RomServed
  <2>3. i = issue /\ r = resp /\ f = scalar
    BY <1>2, <1>5, <1>6, <1>7, <2>2
  <2>4. PICK uu : uu = u /\ (uu = {} \/ uu = ReturnSlot(t, FALSE))
    BY <1>2
  <2> HIDE DEF i, r, f, romServed
  <2>5. PICK t1, t2, t3 : /\ t1 = ReturnCommit(t, uu, FALSE) /\ t2 = RespAccept(t1, resp)
                          /\ t3 = ReqCommit(t2, issue)
    OBVIOUS
  <2>6. answered = t3
    BY <1>2, <2>3, <2>4, <2>5
  <2> HIDE DEF answered
  <2>7. PICK tab, new, whole : /\ tab = (IF scalar = {} THEN t3 ELSE AllocCommit(t3, AllocSlot(t), new))
                        /\ whole = [table |-> tab, idle |-> idle]
                        /\ periph' = IF InReset THEN [whole EXCEPT !.idle = ResetIdle] ELSE whole
    <3>1. PICK new : new = FromScalarFlit(The(f))
      OBVIOUS
    <3>2. PICK tab : tab = IF scalar = {} THEN t3 ELSE AllocCommit(t3, AllocSlot(t), new)
      OBVIOUS
    <3>3. tab = IF f = {} THEN answered ELSE AllocCommit(answered, AllocSlot(periph.table), FromScalarFlit(The(f)))
      BY <1>2, <2>3, <2>6, <3>1, <3>2
    <3>4. PICK whole : whole = [table |-> tab, idle |-> idle]
      OBVIOUS
    <3>5. periph' = IF InReset THEN [whole EXCEPT !.idle = ResetIdle] ELSE whole
      BY <2>1, <3>3, <3>4
    <3>6. QED  BY <3>2, <3>4, <3>5
  <2>8. periph'.table = tab
    BY <2>7
  <2>9. AllocCommit(t3, {}, new) = t3
    BY DEF AllocCommit
  <2>10. CASE scalar = {}
    <3>1. PICK none : none = {} /\ periph'.table = AllocCommit(t3, none, new)
      BY <2>7, <2>8, <2>9, <2>10
    <3>2. QED  BY ZenonT(60), <2>4, <2>5, <2>10, <3>1
  <2>11. CASE scalar # {}
    BY <2>4, <2>5, <2>7, <2>8, <2>11
  <2>12. QED  BY <2>10, <2>11
<1>9. /\ One(ReqSlot(t), n) /\ ReqSlot(t) \subseteq t.allocated \ t.issued
      /\ One(ReturnSlot(t, FALSE), n) /\ ReturnSlot(t, FALSE) \subseteq t.fulfilled
      /\ One(AllocSlot(t), n) /\ AllocSlot(t) \cap t.allocated = {}
      /\ One({}, n)
  BY <1>2, SimChoices DEF SimAnswering, SimTables, One
<1>10. PICK asked : asked = IF busIn.periph.reqAccepting THEN {r.id : r \in PeriphReq} ELSE {}
  OBVIOUS
<1>11. {r.id : r \in PeriphPeekMem(periph, rom)} = ReqSlot(t) \ own
  <2>1. \A s : MshrReq(t, s).id = s /\ MshrReq(t, s).addr = t.mshrs[s].addr
    BY DEF MshrReq
  <2>2. PeriphPeekMem(periph, rom)
           = {r \in {MshrReq(t, s) : s \in ReqSlot(t)} : Aligned(r.addr) \notin DOMAIN rom}
    BY <1>2 DEF PeriphPeekMem
  <2>3. \A s : s \in ReqSlot(t) \ own => MshrReq(t, s) \in PeriphPeekMem(periph, rom)
    BY <1>3, <2>1, <2>2
  <2>4. \A r \in PeriphPeekMem(periph, rom) : r.id \in ReqSlot(t) \ own
    BY <1>3, <2>1, <2>2
  <2>5. QED  BY <2>1, <2>3, <2>4
<1>12. {r.id : r \in PeriphReq} = ReqSlot(t) \ own
  <2>2. CASE InReset
    <3>1. ReqSlot(t) = {}
      BY <1>2, <1>9, <2>2 DEF SimAnswering, SimQuiet
    <3>2. QED  BY <2>2, <3>1 DEF PeriphReq
  <2>3. CASE ~InReset
    BY <1>2, <1>11, <2>3 DEF PeriphReq
  <2>4. QED  BY <2>2, <2>3
<1>13. HeldLess(periphResps, {}, SimOwes(t) \cup asked, busIn.periph.resp)
  <2>1. PICK D : periphResps \in Seq(D)
    BY DEF SimAnswering, SimBus
  <2>2. NoneOrOne(busIn.periph.resp)
    BY DEF SimAnswering, SimBus
  <2>3. PICK owed : owed = SimOwes(t) \cup asked
    OBVIOUS
  <2>4. Held(SetToSeq(busIn.periph.resp) \o periphResps, {}, owed)
    <3>1. Given(busIn.periph) = SetToSeq(busIn.periph.resp)
      BY <1>0 DEF Given
    <3>2. Issuing(busIn.periph, PeriphReq) = asked
      BY <1>0, <1>10 DEF Issuing
    <3>3. Owes(t, asked) = owed
      BY <2>3 DEF Owes, SimOwes
    <3>4. QED  BY <1>2, <3>1, <3>2, <3>3 DEF SimAnswering, PeriphHeld
  <2>5. HeldLess(periphResps, {}, owed, busIn.periph.resp)
    BY <2>1, <2>2, <2>4, HeldGiven
  <2>6. QED  BY <2>3, <2>5
<1>14. PICK ids : ids = {x.id : x \in busIn.periph.resp}
  OBVIOUS
<1>15. One(issue, n) /\ issue \subseteq t.allocated \ t.issued
  BY <1>5, <1>9
<1>16. /\ resp = {} \/ \E x : resp = {x}
       /\ \A x \in resp : x.id \in SimOwes(t) \cup issue
       /\ (SimOwes(t) \cup issue) \ {x.id : x \in resp} = (SimOwes(t) \cup asked) \ ids
  <2>1. ReqSlot(t) = {} \/ \E s : ReqSlot(t) = {s}
    BY <1>9 DEF One
  <2>2. CASE served = {}
    <3>1. resp = busIn.periph.resp
      BY <1>6, <2>2
    <3>2. issue = asked
      <4>1. CASE PeriphPeekMem(periph, rom) = {}
        <5>1. ReqSlot(t) \ own = {}
          BY <1>11, <4>1
        <5>2. QED  BY <1>5, <1>10, <1>12, <2>2, <4>1, <5>1
      <4>2. CASE PeriphPeekMem(periph, rom) # {}
        <5>1. ReqSlot(t) \ own # {}
          BY <1>11, <4>2
        <5>2. ReqSlot(t) \ own = ReqSlot(t)
          BY <2>1, <5>1
        <5>3. QED  BY <1>5, <1>10, <1>12, <2>2, <4>2, <5>2
      <4>3. QED  BY <4>1, <4>2
    <3>3. (resp = {} \/ \E x : resp = {x}) /\ \A x \in resp : x.id \in SimOwes(t) \cup asked
      BY <1>13, <3>1 DEF SimAnswering, SimBus, NoneOrOne, HeldLess
    <3>4. QED  BY <1>14, <3>1, <3>2, <3>3
  <2>3. CASE served # {}
    <3>1. busIn.periph.resp = {} /\ served = own
      BY <1>4, <2>3
    <3>2. PICK s : ReqSlot(t) = {s} /\ own = {s}
      BY <1>3, <2>1, <2>3, <3>1
    <3>3. issue = {s} /\ asked = {}
      BY <1>5, <1>10, <1>12, <2>3, <3>2
    <3>4. PICK x : x = [id |-> s, data |-> rom[Aligned(t.mshrs[s].addr)]]
      OBVIOUS
    <3>5. resp = {x} /\ x.id = s
      BY <1>6, <3>1, <3>2, <3>4
    <3>6. s \notin SimOwes(t)
      BY <1>9, <3>2 DEF SimOwes
    <3>7. ids = {} /\ {y.id : y \in resp} = {s}
      BY <1>14, <3>1, <3>5
    <3>8. QED  BY <3>3, <3>5, <3>6, <3>7
  <2>4. QED  BY <2>2, <2>3
<1>17. Edge(t, n, unicast, issue, resp, {})
  <2>1. Shape(t, n) /\ Flags(t, n)
    BY <1>2 DEF SimAnswering, SimTables
  <2>2. One(unicast, n) /\ unicast \subseteq t.fulfilled /\ One({}, n) /\ {} \subseteq t.fulfilled
    BY <1>8, <1>9
  <2>3. QED  BY <1>15, <1>16, <2>1, <2>2 DEF Edge
<1>18. One(slot, n) /\ slot \cap t.allocated = {}
  BY <1>8, <1>9
<1>19. /\ Settled(periph'.table, n, t, issue, resp)
       /\ slot = {} /\ t.allocated = {} => periph'.table.allocated = {}
  <2>1. PICK r : r = periph'.table
    OBVIOUS
  <2>2. r = PeriphCommits(t, unicast, resp, issue, slot, new) /\ n \in Nat \ {0}
    BY <1>2, <1>8, <2>1 DEF PeriphCommits
  <2>3. Settled(r, n, t, issue, resp) /\ (slot = {} /\ t.allocated = {} => r.allocated = {})
    BY <1>17, <1>18, <2>2, SimPeriphTable
  <2>4. QED  BY <2>1, <2>3
<1>20. PeriphHeld'
  <2>1. Held(periphResps', {}, SimOwes(periph'.table))
    <3>1. SimOwes(periph'.table) = (SimOwes(t) \cup asked) \ ids
      BY <1>16, <1>19 DEF Owing, Settled
    <3>2. Held(periphResps, {}, (SimOwes(t) \cup asked) \ ids)
      BY <1>13, <1>14 DEF HeldLess
    <3>3. QED  BY <1>0, <3>1, <3>2
  <2>2. (Given(busIn.periph))' = <<>> /\ (Issuing(busIn.periph, PeriphReq))' = {}
    BY <1>0 DEF Given, Issuing
  <2>3. (Owes(periph.table, {}))' = SimOwes(periph'.table)
    BY DEF Owes, SimOwes
  <2>4. <<>> \o periphResps' = periphResps'
    BY <1>0 DEF SimAnswering, SimBus
  <2>5. QED  BY <2>1, <2>2, <2>3, <2>4 DEF PeriphHeld
<1>21. InReset => periph'.table.allocated = {}
  <2>1. SUFFICES ASSUME InReset
                 PROVE  periph'.table.allocated = {}
    OBVIOUS
  <2>2. t.allocated = {} /\ mesh = [dram |-> NoFlit, periph |-> NoFlit]
    BY <1>2, <2>1 DEF SimAnswering, SimQuiet
  <2>3. PeriphTaken = {}
    BY <2>2 DEF PeriphTaken
  <2>4. QED  BY <1>7, <1>8, <1>19, <2>2, <2>3
<1>22. QED  BY <1>2, <1>19, <1>20, <1>21 DEF Owing, Settled

LEMMA SimStepInv ==
    ASSUME SimAnswering, Step, MshrCount \in Nat \ {0}, PeriphInflight \in Nat \ {0}
    PROVE  SimAnswering'
<1>1. UNCHANGED <<cycle, periphResps, respQueue, busIn>>
  BY DEF Step
<1>2. cycle' \in Nat /\ SimBus' /\ SimTables' /\ PeriphHeld' /\ DramHeld'
  BY <1>1, SimStepDram, SimStepPeriph DEF SimAnswering, SimBus, SimTables
<1>3. SimQuiet'
  <2>1. InReset' <=> InReset
    BY <1>1 DEF InReset
  <2>2. InReset => mesh' = [dram |-> NoFlit, periph |-> NoFlit]
    <3>1. SUFFICES ASSUME InReset
                   PROVE  mesh' = [dram |-> NoFlit, periph |-> NoFlit]
      OBVIOUS
    <3>2. mesh = [dram |-> NoFlit, periph |-> NoFlit]
      BY <3>1 DEF SimAnswering, SimQuiet
    <3>3. \A at \in {"dram", "periph"} : \A taken : Offers(at, taken) = {NoFlit}
      BY <3>1, <3>2 DEF Offers
    <3>4. PICK toDram, toPeriph : /\ toDram \in Offers("dram", DramTaken)
                                  /\ toPeriph \in Offers("periph", PeriphTaken)
                                  /\ mesh' = [dram |-> toDram, periph |-> toPeriph]
      BY DEF Step, StepWith
    <3>5. QED  BY <3>3, <3>4
  <2>3. QED  BY <2>1, <2>2, SimStepDram, SimStepPeriph DEF SimQuiet
<1>4. QED  BY <1>2, <1>3 DEF SimAnswering

LEMMA SimInitInv ==
    ASSUME Init, Built
    PROVE  SimAnswering
<1>1. \A n \in Nat \ {0} : /\ Shape(NewTable(n), n) /\ Flags(NewTable(n), n)
                           /\ NewTable(n).allocated = {} /\ SimOwes(NewTable(n)) = {}
  <2>1. TAKE n \in Nat \ {0}
  <2>2. ArbStart(n) \in 0 .. n - 1
    BY DEF ArbStart
  <2>3. PICK m : m = [s \in 0 .. n - 1 |-> NoFlit]
    OBVIOUS
  <2>4. NewTable(n) = Table(m, {}, {}, {}, ArbStart(n), ArbStart(n), ArbStart(n))
    BY <2>3 DEF NewTable, Table
  <2>5. QED  BY <2>2, <2>3, <2>4 DEF Shape, Flags, SimOwes, Table
<1>2. /\ pc = "loop" /\ cycle = 0 /\ periphResps = <<>> /\ respQueue = <<>> /\ inRam = {}
      /\ busIn.periph.resp = {} /\ busIn.dram.resp = {}
      /\ mesh = [dram |-> NoFlit, periph |-> NoFlit]
  BY DEF Init, NoBus
<1>3. dram.table = NewTable(MshrCount) /\ periph.table = NewTable(PeriphInflight)
  BY DEF Init, NewDram, NewPeriph
<1>4. QEmpty(dram.bulk.queue)
  <2>1. dram.bulk.queue = FixedLenQueue(BulkDepth)
    BY DEF Init, NewDram, NewBulk
  <2>2. QED  BY <2>1 DEF FixedLenQueue, QEmpty
<1>5. MshrCount \in Nat \ {0} /\ PeriphInflight \in Nat \ {0}
  BY DEF Built
<1>6. SimTables /\ SimQuiet
  BY <1>1, <1>2, <1>3, <1>4, <1>5 DEF SimTables, SimQuiet
<1>7. SimBus
  <2>1. <<>> \in Seq({})
    OBVIOUS
  <2>2. QED  BY <1>2, <2>1 DEF SimBus, NoneOrOne
<1>8. Held(<<>>, {}, {})
  BY FS_EmptySet DEF Held
<1>9. PeriphHeld /\ DramHeld
  BY <1>1, <1>2, <1>3, <1>5, <1>7, <1>8, SimAtRest
<1>10. QED  BY <1>2, <1>6, <1>7, <1>9 DEF SimAnswering

LEMMA SimNextInv ==
    ASSUME SimAnswering, Built, [Next]_vars
    PROVE  SimAnswering'
<1>1. MshrCount \in Nat \ {0} /\ PeriphInflight \in Nat \ {0} /\ ReleaseResetAfter \in Nat
  BY DEF Built
<1>2. CASE Loop
  BY <1>1, <1>2, SimLoopInv
<1>3. CASE Serve
  BY <1>1, <1>3, SimServeInv
<1>4. CASE GiveUp
  BY <1>1, <1>4, SimGiveUpInv
<1>5. CASE Step
  BY <1>1, <1>5, SimStepInv
<1>6. CASE Interrupt \/ UNCHANGED vars
  <2>1. UNCHANGED <<pc, cycle, periphResps, respQueue, inRam, busIn, dram, periph, mesh>>
    BY <1>6 DEF Interrupt, vars, frontend, backend
  <2>2. QED  BY <2>1, SimSameInv
<1>7. QED  BY <1>2, <1>3, <1>4, <1>5, <1>6 DEF Next, Run

LEMMA SimAnswered ==
    ASSUME SimAnswering
    PROVE  AnswersOwed
<1>1. Once(Ids(Given(busIn.periph) \o periphResps),
               Owes(periph.table, Issuing(busIn.periph, PeriphReq)))
  BY HeldOnceQueued DEF SimAnswering, PeriphHeld
<1>2. Once(Ids((Given(busIn.dram) \o respQueue) \o SetToSeq({r.resp : r \in inRam})),
               Owes(dram.table, Issuing(busIn.dram, DramReq)))
  BY HeldOnce DEF SimAnswering, DramHeld
<1>3. QED  BY <1>1, <1>2 DEF AnswersOwed

\* The assertions of mshrRespAccept, which the build leaves out, hold for
\* ever: the frontend and Ramulator hold exactly one answer for each MSHR
\* that is issued, in both interfaces and for every number of MSHRs, however
\* Ramulator orders, delays or refuses.
THEOREM AnswersAreOwed == Spec => []AnswersOwed
<1>1. Init => SimAnswering
  BY SimAssumption, SimInitInv
<1>2. SimAnswering /\ [Next]_vars => SimAnswering'
  BY SimAssumption, SimNextInv
<1>3. SimAnswering => AnswersOwed
  BY SimAnswered
<1>4. QED  BY <1>1, <1>2, <1>3, PTL DEF Spec

----------------------------------------------------------------------------
(* The three clocks of a workload                                          *)

TimerRecord ==
    [active : BOOLEAN, started : BOOLEAN, captured : BOOLEAN, start : Int, stop : Int,
     requests : Int, rejected : Int, completions : Int, outstanding : Int, samples : Int,
     stopped : BOOLEAN, written : BOOLEAN]
ProfileRecord ==
    [active : BOOLEAN, written : BOOLEAN, start : Int, stop : Int, samples : Int,
     base : Int, net : Int, events : Int]

IsDevice(d) ==
    /\ d = [result |-> d.result, timerEnabled |-> d.timerEnabled, timerCount |-> d.timerCount,
            seed |-> d.seed, drawn |-> d.drawn]
    /\ d.timerEnabled \in BOOLEAN /\ d.timerCount \in Nat

\* The same interval of the timer.
SameInterval(u, t) ==
    /\ u \in TimerRecord
    /\ u.active = t.active /\ u.started = t.started /\ u.captured = t.captured
    /\ u.start = t.start /\ u.stop = t.stop

SameCounts(u, t) ==
    u.requests = t.requests /\ u.completions = t.completions /\ u.outstanding = t.outstanding

\* A request to the device leaves the timer's count.
LEMMA DeviceKept ==
    ASSUME NEW d, IsDevice(d)
    PROVE  /\ IsDevice(Devices!Tick(d)) /\ Devices!Tick(d).timerEnabled = d.timerEnabled
           /\ Devices!Tick(d).timerCount = IF d.timerEnabled THEN d.timerCount + 1 ELSE d.timerCount
           /\ \A r : /\ IsDevice(Devices!ServePeriph(d, r).device)
                     /\ Devices!ServePeriph(d, r).device.timerCount = d.timerCount
<1>1. PICK res, en, cnt, sd, dr : d = [result |-> res, timerEnabled |-> en, timerCount |-> cnt,
                                       seed |-> sd, drawn |-> dr]
                                  /\ en \in BOOLEAN /\ cnt \in Nat
  BY DEF IsDevice
<1>2. /\ IsDevice(Devices!Tick(d)) /\ Devices!Tick(d).timerEnabled = d.timerEnabled
      /\ Devices!Tick(d).timerCount = IF d.timerEnabled THEN d.timerCount + 1 ELSE d.timerCount
  BY <1>1 DEF IsDevice, Devices!Tick
<1>3. ASSUME NEW addr, NEW data
      PROVE  /\ IsDevice(Devices!DeviceWrite(d, addr, data))
             /\ Devices!DeviceWrite(d, addr, data).timerCount = d.timerCount
  <2>1. PICK w : w = Devices!DeviceWrite(d, addr, data)
    OBVIOUS
  <2>2. PICK on \in BOOLEAN : on = (data # 0)
    OBVIOUS
  <2>3. \/ w = [d EXCEPT !.result = {data}]
        \/ w = [d EXCEPT !.timerEnabled = on]
        \/ w = [d EXCEPT !.seed = data, !.drawn = 0]
        \/ w = d
    BY <2>1, <2>2 DEF Devices!DeviceWrite
  <2>4. IsDevice(w) /\ w.timerCount = d.timerCount
    BY <1>1, <2>2, <2>3 DEF IsDevice
  <2>5. QED  BY <2>1, <2>4
<1>4. ASSUME NEW addr
      PROVE  /\ IsDevice(Devices!Drawn(d, addr))
             /\ Devices!Drawn(d, addr).timerCount = d.timerCount
  BY <1>1 DEF IsDevice, Devices!Drawn
<1>5. ASSUME NEW r
      PROVE  /\ IsDevice(Devices!ServePeriph(d, r).device)
             /\ Devices!ServePeriph(d, r).device.timerCount = d.timerCount
  <2>1. \E addr, data : Devices!ServePeriph(d, r).device
            \in {d, Devices!Drawn(d, addr), Devices!DeviceWrite(d, addr, data)}
    BY DEF Devices!ServePeriph
  <2>2. QED  BY <1>3, <1>4, <2>1
<1>6. QED  BY <1>2, <1>5

LEMMA CompletedKept ==
    ASSUME NEW t \in TimerRecord, NEW q, NEW m \in Nat,
           m = Cardinality({i \in DOMAIN q : q[i].timed /\ t.active}),
           NEW u, u = Sampled(Completed(t, q))
    PROVE  /\ SameInterval(u, t) /\ u.requests = t.requests /\ u.stopped = t.stopped
           /\ u.completions = t.completions + m /\ u.outstanding = t.outstanding - m
           /\ u.samples = IF t.active THEN t.samples + 1 ELSE t.samples
<1>1. PICK c : c = Completed(t, q)
  OBVIOUS
<1>2. c = [t EXCEPT !.completions = t.completions + m, !.outstanding = t.outstanding - m]
  BY <1>1 DEF Completed, TimerRecord
<1>3. /\ c \in TimerRecord /\ SameInterval(c, t) /\ c.requests = t.requests /\ c.stopped = t.stopped
      /\ c.completions = t.completions + m /\ c.outstanding = t.outstanding - m /\ c.samples = t.samples
  <2>1. t.completions + m \in Int /\ t.outstanding - m \in Int
    BY DEF TimerRecord
  <2>2. PICK k \in Int, l \in Int : k = t.completions + m /\ l = t.outstanding - m
    BY <2>1
  <2>3. c = [t EXCEPT !.completions = k, !.outstanding = l]
    BY <1>2, <2>2
  <2>4. c \in TimerRecord
    BY <2>3 DEF TimerRecord
  <2>5. /\ c.active = t.active /\ c.started = t.started /\ c.captured = t.captured
        /\ c.start = t.start /\ c.stop = t.stop
    BY <2>3 DEF TimerRecord
  <2>6. /\ c.requests = t.requests /\ c.stopped = t.stopped
        /\ c.completions = k /\ c.outstanding = l /\ c.samples = t.samples
    BY <2>3 DEF TimerRecord
  <2>7. QED  BY <2>2, <2>4, <2>5, <2>6 DEF SameInterval
<1>4. u = [c EXCEPT !.samples = IF c.active THEN c.samples + 1 ELSE c.samples]
  BY <1>1, <1>3 DEF Sampled, TimerRecord
<1>5. QED  BY <1>3, <1>4 DEF SameInterval, TimerRecord

LEMMA SubmittedKept ==
    ASSUME NEW t \in TimerRecord, NEW u
    PROVE  /\ u = t \/ u = Submitted(t, FALSE) =>
                 SameInterval(u, t) /\ u.samples = t.samples /\ u.stopped = t.stopped /\ SameCounts(u, t)
           /\ u = Submitted(t, TRUE) =>
                 /\ SameInterval(u, t) /\ u.samples = t.samples /\ u.stopped = t.stopped
                 /\ ~t.active => SameCounts(u, t)
                 /\ t.active => /\ u.requests = t.requests + 1 /\ u.outstanding = t.outstanding + 1
                                /\ u.completions = t.completions
<1>1. ASSUME u = t
      PROVE  SameInterval(u, t) /\ u.samples = t.samples /\ u.stopped = t.stopped /\ SameCounts(u, t)
  BY <1>1 DEF SameInterval, SameCounts, TimerRecord
<1>2. ASSUME u = Submitted(t, FALSE)
      PROVE  SameInterval(u, t) /\ u.samples = t.samples /\ u.stopped = t.stopped /\ SameCounts(u, t)
  <2>1. u = t \/ u = [t EXCEPT !.rejected = t.rejected + 1]
    BY <1>2 DEF Submitted
  <2>2. t.rejected + 1 \in Int
    BY DEF TimerRecord
  <2>3. QED  BY <1>1, <2>1, <2>2 DEF SameInterval, SameCounts, TimerRecord
<1>3. ASSUME u = Submitted(t, TRUE)
      PROVE  /\ SameInterval(u, t) /\ u.samples = t.samples /\ u.stopped = t.stopped
             /\ ~t.active => SameCounts(u, t)
             /\ t.active => /\ u.requests = t.requests + 1 /\ u.outstanding = t.outstanding + 1
                            /\ u.completions = t.completions
  <2>1. CASE ~t.active
    <3>1. u = t
      BY <1>3, <2>1 DEF Submitted
    <3>2. QED  BY <1>1, <2>1, <3>1
  <2>2. CASE t.active
    <3>1. PICK k \in Int, l \in Int : k = t.requests + 1 /\ l = t.outstanding + 1
      BY DEF TimerRecord
    <3>2. u = [t EXCEPT !.requests = k, !.outstanding = l]
      BY <1>3, <2>2, <3>1 DEF Submitted
    <3>3. u \in TimerRecord
      BY <3>2 DEF TimerRecord
    <3>4. /\ u.active = t.active /\ u.started = t.started /\ u.captured = t.captured
          /\ u.start = t.start /\ u.stop = t.stop
      BY <3>2 DEF TimerRecord
    <3>5. /\ u.samples = t.samples /\ u.stopped = t.stopped
          /\ u.requests = k /\ u.outstanding = l /\ u.completions = t.completions
      BY <3>2 DEF TimerRecord
    <3>6. QED  BY <2>2, <3>1, <3>3, <3>4, <3>5 DEF SameInterval
  <2>3. QED  BY <2>1, <2>2
<1>4. QED  BY <1>1, <1>2, <1>3

LEMMA BegunTimer ==
    ASSUME NEW t \in TimerRecord, cycle \in Int, NEW u, u = BeginTimed(t)
    PROVE  /\ ~opts.timerOnly \/ t.started => u = t
           /\ opts.timerOnly /\ ~t.started =>
                 /\ u \in TimerRecord /\ u.active /\ u.started /\ ~u.captured /\ ~u.stopped
                 /\ u.start = cycle /\ u.samples = 0
                 /\ u.requests = 0 /\ u.completions = 0 /\ u.outstanding = 0
<1>1. CASE ~opts.timerOnly \/ t.started
  BY <1>1 DEF BeginTimed
<1>2. CASE ~(~opts.timerOnly \/ t.started)
  <2>1. u = [active |-> TRUE, started |-> TRUE, captured |-> FALSE, start |-> cycle, stop |-> 0,
             requests |-> 0, rejected |-> 0, completions |-> 0, outstanding |-> 0, samples |-> 0,
             stopped |-> FALSE, written |-> FALSE]
    BY <1>2 DEF BeginTimed, NoTimed
  <2>2. QED  BY <1>2, <2>1 DEF TimerRecord
<1>3. QED  BY <1>1, <1>2

LEMMA FinishedTimer ==
    ASSUME NEW t \in TimerRecord, cycle \in Int, NEW u, u = FinishTimed(t)
    PROVE  /\ u \in TimerRecord /\ u.stopped /\ u.samples = t.samples /\ SameCounts(u, t)
           /\ u.started = t.started /\ u.start = t.start
           /\ ~opts.timerOnly \/ ~t.active => SameInterval(u, t)
           /\ opts.timerOnly /\ t.active => ~u.active /\ u.captured /\ u.stop = cycle
<1>1. PICK f : f = [t EXCEPT !.stopped = TRUE]
  OBVIOUS
<1>2. /\ f \in TimerRecord /\ f.stopped /\ f.samples = t.samples /\ SameCounts(f, t)
      /\ SameInterval(f, t)
  BY <1>1 DEF TimerRecord, SameCounts, SameInterval
<1>3. CASE ~opts.timerOnly \/ ~t.active
  <2>1. u = f
    BY <1>1, <1>3 DEF FinishTimed
  <2>2. QED  BY <1>2, <1>3, <2>1 DEF SameInterval
<1>4. CASE ~(~opts.timerOnly \/ ~t.active)
  <2>1. u = [f EXCEPT !.stop = cycle, !.active = FALSE, !.captured = TRUE, !.written = TRUE]
    BY <1>1, <1>4 DEF FinishTimed
  <2>2. u \in TimerRecord
    BY <1>2, <2>1 DEF TimerRecord
  <2>3. /\ u.stopped = f.stopped /\ u.samples = f.samples /\ u.started = f.started /\ u.start = f.start
        /\ u.requests = f.requests /\ u.completions = f.completions /\ u.outstanding = f.outstanding
    BY <1>2, <2>1 DEF TimerRecord
  <2>4. ~u.active /\ u.captured /\ u.stop = cycle
    BY <1>2, <2>1 DEF TimerRecord
  <2>5. QED  BY <1>2, <1>4, <2>2, <2>3, <2>4 DEF SameInterval, SameCounts
<1>5. QED  BY <1>3, <1>4

\* Requests of the timer's window.
OfWindow(ram) == {r \in ram : r.timed}

LEMMA WindowLeft ==
    ASSUME NEW ram, IsFiniteSet(ram), NEW some \in SUBSET ram, NEW done \in SetToSeqs(some),
           NEW mine, mine = {i \in DOMAIN done : done[i].timed}
    PROVE  /\ Cardinality(mine) \in Nat
           /\ Cardinality(OfWindow(ram \ Range(done))) = Cardinality(OfWindow(ram)) - Cardinality(mine)
<1>1. PICK n : n = Cardinality(some)
  OBVIOUS
<1>2. n \in Nat
  BY <1>1, FS_Subset, FS_CardinalityType
<1>3. done \in [1 .. n -> some] /\ \A i, j \in 1 .. n : i # j => done[i] # done[j]
  BY <1>1 DEF SetToSeqs
<1>4. IsFiniteSet(mine) /\ mine \subseteq 1 .. n
  <2>1. mine \in SUBSET (1 .. n)
    BY <1>3
  <2>2. IsFiniteSet(1 .. n)
    BY <1>2, FS_Interval
  <2>3. QED  BY <2>1, <2>2, FS_Subset
<1>5. PICK R : R = OfWindow(Range(done))
  OBVIOUS
<1>6. R \subseteq OfWindow(ram) /\ OfWindow(ram \ Range(done)) = OfWindow(ram) \ R
  BY <1>3, <1>5 DEF OfWindow, Range
<1>7. Cardinality(R) = Cardinality(mine)
  <2>1. PICK f : f = [i \in mine |-> done[i]]
    OBVIOUS
  <2>2. \A i \in mine : f[i] = done[i] /\ i \in 1 .. n
    BY <1>4, <2>1
  <2>3. f \in [mine -> R]
    <3>1. \A i \in mine : done[i] \in R
      BY <1>3, <1>5 DEF OfWindow, Range
    <3>2. QED  BY <2>1, <3>1
  <2>4. f \in Injection(mine, R)
    BY <1>3, <2>2, <2>3 DEF Injection, IsInjective
  <2>5. f \in Surjection(mine, R)
    <3>1. \A x \in R : \E i \in mine : f[i] = x
      BY <1>5, <2>2 DEF OfWindow, Range
    <3>2. QED  BY <2>3, <3>1 DEF Surjection
  <2>6. QED  BY <1>4, <2>4, <2>5, FS_Surjection
<1>8. IsFiniteSet(OfWindow(ram))
  <2>1. OfWindow(ram) \in SUBSET ram
    BY DEF OfWindow
  <2>2. QED  BY <2>1, FS_Subset
<1>9. OfWindow(ram) \cap R = R
  BY <1>6
<1>10. Cardinality(OfWindow(ram) \ R) = Cardinality(OfWindow(ram)) - Cardinality(R)
  BY <1>8, <1>9, FS_Difference
<1>11. QED  BY <1>4, <1>6, <1>7, <1>10, FS_CardinalityType

LEMMA WindowAdded ==
    ASSUME NEW ram, IsFiniteSet(ram), NEW y, y \notin ram
    PROVE  Cardinality(OfWindow(ram \cup {y}))
              = IF y.timed THEN Cardinality(OfWindow(ram)) + 1 ELSE Cardinality(OfWindow(ram))
<1>1. IsFiniteSet(OfWindow(ram)) /\ y \notin OfWindow(ram)
  <2>1. OfWindow(ram) \in SUBSET ram
    BY DEF OfWindow
  <2>2. QED  BY <2>1, FS_Subset
<1>2. CASE y.timed
  <2>1. OfWindow(ram \cup {y}) = OfWindow(ram) \cup {y}
    BY <1>2 DEF OfWindow
  <2>2. QED  BY <1>1, <1>2, <2>1, FS_AddElement
<1>3. CASE ~y.timed
  <2>1. OfWindow(ram \cup {y}) = OfWindow(ram)
    BY <1>3 DEF OfWindow
  <2>2. QED  BY <1>3, <2>1
<1>4. QED  BY <1>2, <1>3

\* The profile starts once, and stops once.
Fresh(q, at) ==
    q = [active |-> TRUE, written |-> FALSE, start |-> at, stop |-> 0, samples |-> 0,
         base |-> 0, net |-> 0, events |-> 0]

LEMMA StartedProfile ==
    ASSUME NEW p \in ProfileRecord, NEW at \in Int, NEW q, q = StartProfile(p, at)
    PROVE  /\ q \in ProfileRecord
           /\ opts.profile /\ ~p.active /\ ~p.written => Fresh(q, at)
           /\ ~(opts.profile /\ ~p.active /\ ~p.written) => q = p
<1>1. CASE opts.profile /\ ~p.active /\ ~p.written
  <2>1. Fresh(q, at)
    BY <1>1 DEF StartProfile, NoProfile, Fresh
  <2>2. QED  BY <1>1, <2>1 DEF Fresh, ProfileRecord
<1>2. CASE ~(opts.profile /\ ~p.active /\ ~p.written)
  BY <1>2 DEF StartProfile
<1>3. QED  BY <1>1, <1>2

LEMMA StoppedProfile ==
    ASSUME NEW p \in ProfileRecord, NEW at \in Int, NEW q, q = StopProfile(p, at)
    PROVE  /\ q \in ProfileRecord /\ ~q.active
           /\ q.start = p.start /\ q.samples = p.samples
           /\ ~p.active => q = p
           /\ p.active => q.written /\ q.stop = at
<1>1. CASE p.active
  <2>1. q = [p EXCEPT !.active = FALSE, !.stop = at, !.written = TRUE]
    BY <1>1 DEF StopProfile
  <2>2. q \in ProfileRecord
    BY <2>1 DEF ProfileRecord
  <2>3. ~q.active /\ q.written /\ q.stop = at /\ q.start = p.start /\ q.samples = p.samples
    BY <2>1 DEF ProfileRecord
  <2>4. QED  BY <1>1, <2>2, <2>3
<1>2. CASE ~p.active
  BY <1>2 DEF StopProfile
<1>3. QED  BY <1>1, <1>2

LEMMA AccumulatedProfile ==
    ASSUME NEW p \in ProfileRecord, cycle \in Int, NEW k \in Int, k = IssuedUnfulfilled(dram.table),
           NEW q, q = Accumulate(p)
    PROVE  /\ q \in ProfileRecord
           /\ q.active = p.active /\ q.written = p.written /\ q.start = p.start /\ q.stop = p.stop
           /\ ~p.active \/ cycle < p.start => q = p
           /\ p.active /\ cycle >= p.start /\ p.samples = 0 =>
                 q.samples = 1 /\ q.base = k /\ q.net = p.net
           /\ p.active /\ cycle >= p.start /\ p.samples # 0 =>
                 q.samples = p.samples + 1 /\ q.base = p.base /\ q.net = p.net + p.events
<1>1. CASE ~p.active \/ cycle < p.start
  <2>1. q = p
    BY <1>1 DEF Accumulate
  <2>2. ~(p.active /\ cycle >= p.start)
    BY <1>1 DEF ProfileRecord
  <2>3. QED  BY <2>1, <2>2
<1>2. CASE ~(~p.active \/ cycle < p.start) /\ p.samples = 0
  <2>0. PICK one \in Int : one = 1
    OBVIOUS
  <2>1. q = [p EXCEPT !.samples = one, !.base = k]
    BY <1>2, <2>0 DEF Accumulate
  <2>2. q \in ProfileRecord
    BY <2>1 DEF ProfileRecord
  <2>3. /\ q.active = p.active /\ q.written = p.written /\ q.start = p.start /\ q.stop = p.stop
        /\ q.samples = 1 /\ q.base = k /\ q.net = p.net
    BY <2>0, <2>1 DEF ProfileRecord
  <2>4. QED  BY <1>2, <2>2, <2>3
<1>3. CASE ~(~p.active \/ cycle < p.start) /\ p.samples # 0
  <2>1. PICK j \in Int, l \in Int : j = p.samples + 1 /\ l = p.net + p.events
    BY DEF ProfileRecord
  <2>2. q = [p EXCEPT !.samples = j, !.net = l]
    BY <1>3, <2>1 DEF Accumulate, ProfileRecord
  <2>3. q \in ProfileRecord
    BY <2>2 DEF ProfileRecord
  <2>4. /\ q.active = p.active /\ q.written = p.written /\ q.start = p.start /\ q.stop = p.stop
        /\ q.samples = j /\ q.base = p.base /\ q.net = l
    BY <2>2 DEF ProfileRecord
  <2>5. QED  BY <1>3, <2>1, <2>3, <2>4
<1>4. QED  BY <1>1, <1>2, <1>3

\* While the run goes on: the timer's interval is opened once, by a write
\* that enables the device's timer, and closed once.
TimerPhase ==
    /\ timed.started => opts.timerOnly
    /\ timed.active => timed.started /\ ~timed.captured /\ device.timerEnabled
    /\ timed.captured => timed.started
    /\ timed.started => timed.active \/ timed.captured
    /\ timed.stopped => pc = "step" /\ ~timed.active
    /\ ~timed.started => \A r \in inRam : ~r.timed

\* It is sampled once a cycle, and the device counts as much.
TimerCounted ==
    /\ opts.timerOnly /\ ~timed.started => device.timerCount = 0 /\ ~device.timerEnabled
    /\ timed.active => /\ timed.samples = cycle - timed.start - (IF pc = "serve" THEN 1 ELSE 0)
                       /\ device.timerCount = timed.samples
    /\ timed.captured => /\ timed.samples = timed.stop - timed.start
                         /\ timed.stop <= cycle /\ (pc = "serve" => timed.stop < cycle)
                         /\ timed.stop = cycle => device.timerCount = timed.samples

\* Without a window on the command line, the profile follows the timer.
TimerProfiled ==
    opts.start = {} /\ opts.timerOnly =>
        /\ ~timed.started => ~profile.active /\ ~profile.written
        /\ timed.started /\ opts.profile => profile.active \/ profile.written
        /\ timed.started /\ (profile.active \/ profile.written) => profile.start = timed.start + 1
        /\ timed.started /\ profile.written => timed.captured /\ profile.stop = timed.stop
        /\ timed.captured /\ profile.active => pc = "step" /\ timed.stopped /\ timed.stop = cycle

\* The profile is sampled once a cycle, in the step.
ProfileCounted ==
    profile.active =>
        /\ opts.profile /\ ~profile.written
        /\ pc = "loop" => profile.samples = cycle + 1 - profile.start /\ profile.start <= cycle + 1
        /\ pc = "serve" /\ ~exiting => profile.samples = cycle - profile.start /\ profile.start <= cycle
        /\ pc = "step" => \/ profile.start = cycle + 1 /\ profile.samples = 0
                          \/ profile.start <= cycle /\ profile.samples = cycle - profile.start
        /\ profile.samples = 0 => profile.net = 0
        /\ profile.samples > 0 =>
               profile.base + profile.net + profile.events = IssuedUnfulfilled(dram.table)

TimerRequests ==
    timed.active =>
        /\ timed.outstanding = Cardinality(OfWindow(inRam))
        /\ timed.requests = timed.completions + timed.outstanding

SimTypes ==
    /\ IsDevice(device) /\ timed \in TimerRecord /\ profile \in ProfileRecord
    /\ opts \in CommandLines /\ Accepts(opts)

SimTiming ==
    /\ SimTypes
    /\ pc # "done" => TimerPhase /\ TimerCounted /\ TimerProfiled /\ ProfileCounted
    /\ TimerRequests /\ ProfileWindow

\* The end of the run closes what is open.
LEMMA SimEndTiming ==
    ASSUME SimTypes, cycle \in Int, End
    PROVE  /\ timed' \in TimerRecord /\ profile' \in ProfileRecord
           /\ timed'.active = timed.active /\ SameCounts(timed', timed)
           /\ profile'.samples = profile.samples /\ profile'.start = profile.start
           /\ ~profile.active => profile' = profile
           /\ profile.active => profile'.stop = cycle
<1>1. timed' \in TimerRecord /\ timed'.active = timed.active /\ SameCounts(timed', timed)
  <2>1. PICK w \in BOOLEAN : w = (timed.written \/ (opts.ramulator /\ ~opts.timerOnly))
    OBVIOUS
  <2>2. \/ timed' = [timed EXCEPT !.stop = cycle, !.written = TRUE]
        \/ timed' = [timed EXCEPT !.written = w]
    BY <2>1 DEF End, SimTypes, TimerRecord
  <2>3. QED  BY <2>2 DEF SimTypes, TimerRecord, SameCounts
<1>2. profile' = StopProfile(profile, cycle)
  BY DEF End
<1>3. QED  BY <1>1, <1>2, StoppedProfile DEF SimTypes

LEMMA SimLoopTiming ==
    ASSUME SimTiming, cycle \in Nat, Limited, Loop
    PROVE  SimTiming'
<1>0. /\ pc = "loop" /\ UNCHANGED <<opts, device, inRam, dram>>
      /\ timed \in TimerRecord /\ profile \in ProfileRecord
  BY DEF Loop, backend, SimTiming, SimTypes
<1>1. CASE device.result = {} /\ cycle # opts.limit /\ ~exiting
  <2>1. /\ pc' = "serve" /\ UNCHANGED <<timed, profile>>
        /\ cycle' = IF opts.limit = Unlimited /\ cycle = CycleCap THEN cycle ELSE cycle + 1
    BY <1>1 DEF Loop
  <2>2. /\ cycle' = cycle \/ cycle' = cycle + 1
        /\ opts.profile \/ opts.timerOnly => cycle' = cycle + 1
    BY <2>1 DEF Limited, SimTiming, SimTypes
  <2>3. SimTypes'
    BY <1>0, <2>1 DEF SimTiming, SimTypes, IsDevice, Accepts
  <2>4. TimerPhase'
    BY <1>0, <2>1 DEF SimTiming, TimerPhase
  <2>5. TimerCounted'
    BY <1>0, <2>1, <2>2 DEF SimTiming, TimerPhase, TimerCounted, TimerRecord
  <2>6. TimerProfiled'
    BY <1>0, <2>1 DEF SimTiming, TimerProfiled
  <2>7. ProfileCounted'
    <3>1. SUFFICES ASSUME profile.active
                   PROVE  ProfileCounted'
      BY <2>1 DEF ProfileCounted
    <3>2. /\ opts.profile /\ ~profile.written
          /\ profile.samples = cycle + 1 - profile.start /\ profile.start <= cycle + 1
      BY <1>0, <3>1 DEF SimTiming, ProfileCounted
    <3>3. profile.samples = cycle' - profile.start /\ profile.start <= cycle'
      BY <1>0, <2>2, <3>2 DEF ProfileRecord
    <3>4. QED  BY <1>0, <2>1, <3>1, <3>2, <3>3 DEF SimTiming, ProfileCounted, IssuedUnfulfilled
  <2>8. TimerRequests' /\ ProfileWindow'
    BY <1>0, <1>1, <2>1 DEF SimTiming, TimerRequests, ProfileWindow
  <2>9. QED  BY <2>3, <2>4, <2>5, <2>6, <2>7, <2>8 DEF SimTiming
<1>2. CASE ~(device.result = {} /\ cycle # opts.limit /\ ~exiting)
  <2>1. End /\ pc' = "done" /\ exiting' = exiting
    BY <1>2 DEF Loop, End
  <2>2. /\ timed' \in TimerRecord /\ profile' \in ProfileRecord
        /\ timed'.active = timed.active /\ SameCounts(timed', timed)
        /\ profile'.samples = profile.samples /\ profile'.start = profile.start
        /\ ~profile.active => profile' = profile
        /\ profile.active => profile'.stop = cycle
    BY <2>1, SimEndTiming DEF SimTiming
  <2>3. SimTypes'
    BY <1>0, <2>2 DEF SimTiming, SimTypes, IsDevice, Accepts
  <2>4. TimerRequests'
    BY <1>0, <2>2 DEF SimTiming, TimerRequests, SameCounts
  <2>5. ProfileWindow'
    <3>1. CASE profile.active
      <4>1. profile.samples = cycle + 1 - profile.start
        BY <1>0, <3>1 DEF SimTiming, ProfileCounted
      <4>2. profile'.samples = profile'.stop - profile'.start + 1
        BY <1>0, <2>2, <3>1, <4>1 DEF ProfileRecord
      <4>3. QED  BY <4>2 DEF ProfileWindow, Window
    <3>2. CASE ~profile.active
      BY <2>1, <2>2, <3>2 DEF SimTiming, ProfileWindow
    <3>3. QED  BY <3>1, <3>2
  <2>6. QED  BY <2>1, <2>3, <2>4, <2>5 DEF SimTiming
<1>3. QED  BY <1>1, <1>2

LEMMA SimGiveUpTiming ==
    ASSUME SimTiming, cycle \in Nat, GiveUp
    PROVE  SimTiming'
<1>0. /\ pc' = "done" /\ exiting' /\ End /\ UNCHANGED <<opts, device, inRam>>
  BY DEF GiveUp, End
<1>1. /\ timed' \in TimerRecord /\ profile' \in ProfileRecord
      /\ timed'.active = timed.active /\ SameCounts(timed', timed)
  BY <1>0, SimEndTiming DEF SimTiming
<1>2. SimTypes' /\ TimerRequests'
  BY <1>0, <1>1 DEF SimTiming, SimTypes, TimerRequests, SameCounts, IsDevice, Accepts
<1>3. ProfileWindow'
  BY <1>0 DEF ProfileWindow
<1>4. QED  BY <1>0, <1>2, <1>3 DEF SimTiming

LEMMA SimSameTiming ==
    ASSUME SimTiming, UNCHANGED <<opts, pc, cycle, device, inRam, timed, dram, profile>>,
           exiting' = exiting \/ exiting'
    PROVE  SimTiming'
<1>1. SimTypes' /\ (pc # "done" => TimerPhase' /\ TimerCounted' /\ TimerProfiled') /\ TimerRequests'
  BY DEF SimTiming, SimTypes, TimerPhase, TimerCounted, TimerProfiled, TimerRequests, IsDevice, Accepts
<1>2. pc # "done" => ProfileCounted'
  BY DEF SimTiming, ProfileCounted, IssuedUnfulfilled
<1>3. ProfileWindow'
  BY DEF SimTiming, ProfileWindow
<1>4. QED  BY <1>1, <1>2, <1>3 DEF SimTiming

LEMMA SimInitTiming ==
    ASSUME Init
    PROVE  SimTiming
<1>1. timed = NoTimed /\ profile = NoProfile /\ inRam = {}
  BY DEF Init
<1>2. timed \in TimerRecord /\ profile \in ProfileRecord
  BY <1>1 DEF NoTimed, NoProfile, TimerRecord, ProfileRecord
<1>3. ~timed.active /\ ~timed.started /\ ~timed.captured /\ ~timed.stopped
  BY <1>1 DEF NoTimed
<1>4. ~profile.active /\ ~profile.written
  BY <1>1 DEF NoProfile
<1>5. IsDevice(device) /\ device.timerCount = 0 /\ ~device.timerEnabled
  BY DEF Init, Devices!NewDevice, IsDevice
<1>6. opts \in CommandLines /\ Accepts(opts)
  BY DEF Init
<1>7. QED
  BY <1>1, <1>2, <1>3, <1>4, <1>5, <1>6 DEF SimTiming, SimTypes, TimerPhase, TimerCounted,
     TimerProfiled, ProfileCounted, TimerRequests, ProfileWindow

\* A write that switches the timer on or off.
TimerOn == ~device.timerEnabled /\ device'.timerEnabled
TimerOff == device.timerEnabled /\ ~device'.timerEnabled

\* The interval after the completions, after the write, and after the
\* request of the controller.
Turned(done, c, b, s) ==
    /\ c = Sampled(Completed(timed, done))
    /\ b = IF TimerOn THEN BeginTimed(c) ELSE c
    /\ timed' = IF TimerOff THEN FinishTimed(s) ELSE s
    /\ \/ s = b /\ inRam' = inRam \ Range(done)
       \/ s = Submitted(b, FALSE) /\ inRam' = inRam \ Range(done)
       \/ /\ s = Submitted(b, TRUE) /\ opts.ramulator
          /\ \E y : y \notin inRam /\ y.timed = b.active /\ inRam' = (inRam \ Range(done)) \cup {y}

LEMMA SimServeDevice ==
    ASSUME IsDevice(device), Serve
    PROVE  /\ IsDevice(device')
           /\ device'.timerCount = IF device.timerEnabled THEN device.timerCount + 1 ELSE device.timerCount
           /\ profile' = IF TimerOn THEN TimerStart(profile, cycle) ELSE profile
<1>1. PICK done, accepts : ServeWith(done, accepts)
  BY DEF Serve
<1>2. PICK ticked : ticked = Devices!Tick(device)
  OBVIOUS
<1>3. PICK served : served = {Devices!ServePeriph(ticked, r) :
                                 r \in {x \in PeriphReq : Len(periphResps) < RespDepth}}
  OBVIOUS
<1>4. PICK after : after = IF served = {} THEN ticked ELSE The(served).device
  OBVIOUS
<1>5. /\ device' = after
      /\ profile' = IF ~device.timerEnabled /\ after.timerEnabled
                    THEN TimerStart(profile, cycle) ELSE profile
  BY <1>1, <1>2, <1>3, <1>4 DEF ServeWith
<1>6. /\ IsDevice(ticked)
      /\ ticked.timerCount = IF device.timerEnabled THEN device.timerCount + 1 ELSE device.timerCount
      /\ \A r : /\ IsDevice(Devices!ServePeriph(ticked, r).device)
                /\ Devices!ServePeriph(ticked, r).device.timerCount = ticked.timerCount
  <2>1. /\ IsDevice(ticked)
        /\ ticked.timerCount = IF device.timerEnabled THEN device.timerCount + 1 ELSE device.timerCount
    BY <1>2, DeviceKept
  <2>2. QED  BY <2>1, DeviceKept
<1>7. served = {} \/ \E r : The(served) = Devices!ServePeriph(ticked, r)
  <2>1. served # {} => \E z \in served : z = CHOOSE x \in served : TRUE
    OBVIOUS
  <2>2. QED  BY <1>3, <2>1 DEF The
<1>8. IsDevice(after) /\ after.timerCount = ticked.timerCount
  BY <1>4, <1>6, <1>7
<1>9. QED  BY <1>5, <1>6, <1>8 DEF TimerOn

LEMMA SimServeTurned ==
    ASSUME SimAnswering, Serve, MshrCount \in Nat \ {0}, PeriphInflight \in Nat \ {0}
    PROVE  \E some \in SUBSET inRam : \E done \in SetToSeqs(some) : \E c, b, s : Turned(done, c, b, s)
<1>1. PICK some, done, accepts :
          /\ some \in SUBSET inRam /\ done \in SetToSeqs(some) /\ accepts \in {TRUE, ~(opts.ramulator /\ DramReq # {})}
          /\ ServeWith(done, accepts)
  BY DEF Serve
<1>2. accepts = TRUE \/ accepts = FALSE
  BY <1>1
<1> DEFINE ticked == Devices!Tick(device)
           served == {Devices!ServePeriph(ticked, r) :
                         r \in {x \in PeriphReq : Len(periphResps) < RespDepth}}
           after == IF served = {} THEN ticked ELSE The(served).device
           counted == Sampled(Completed(timed, done))
           begun == IF ~device.timerEnabled /\ after.timerEnabled
                    THEN BeginTimed(counted) ELSE counted
           line == respQueue \o [i \in DOMAIN done |-> done[i].resp]
           given == {x \in DramReq : IF opts.ramulator THEN accepts ELSE Len(line) < RespDepth}
           sent == IF opts.ramulator /\ DramReq # {} THEN Submitted(begun, accepts) ELSE begun
<1>3. /\ device' = after
      /\ timed' = IF device.timerEnabled /\ ~after.timerEnabled THEN FinishTimed(sent) ELSE sent
      /\ inRam' = (inRam \ Range(done)) \cup
                     (IF opts.ramulator
                      THEN {[resp |-> Devices!Prepare(image, r).resp, timed |-> begun.active] : r \in given}
                      ELSE {})
  BY <1>1 DEF ServeWith
<1>4. PICK c : c = counted
  OBVIOUS
<1>5. PICK b : b = begun
  OBVIOUS
<1>6. PICK s : s = sent
  OBVIOUS
<1>7. /\ b = IF TimerOn THEN BeginTimed(c) ELSE c
      /\ timed' = IF TimerOff THEN FinishTimed(s) ELSE s
  BY <1>3, <1>4, <1>5, <1>6 DEF TimerOn, TimerOff
<1>8. c = Sampled(Completed(timed, done))
  BY <1>4
<1>9. s = IF opts.ramulator /\ DramReq # {} THEN Submitted(b, accepts) ELSE b
  BY <1>5, <1>6
<1>10. PICK flag : flag = b.active
  OBVIOUS
<1>11. inRam' = (inRam \ Range(done)) \cup
                     (IF opts.ramulator
                      THEN {[resp |-> Devices!Prepare(image, r).resp, timed |-> flag] : r \in given}
                      ELSE {})
  BY <1>3, <1>5, <1>10
<1>12. opts.ramulator => given = IF accepts THEN DramReq ELSE {}
  OBVIOUS
<1> HIDE DEF begun, given, sent, counted
<1>13. ASSUME ~(opts.ramulator /\ accepts /\ DramReq # {})
       PROVE  Turned(done, c, b, s)
  <2>1. inRam' = inRam \ Range(done)
    <3>1. ~opts.ramulator \/ given = {}
      BY <1>12, <1>13
    <3>2. QED  BY <1>11, <3>1
  <2>2. s = b \/ s = Submitted(b, FALSE)
    BY <1>2, <1>9, <1>13
  <2>3. QED  BY <1>7, <1>8, <2>1, <2>2 DEF Turned
<1>14. ASSUME opts.ramulator /\ accepts /\ DramReq # {}
       PROVE  Turned(done, c, b, s)
  <2>1. PICK r : DramReq = {r} /\ r.id \notin SimOwes(dram.table)
    BY <1>14, SimRequests DEF NoneOrOne
  <2>2. PICK y : y = [resp |-> Devices!Prepare(image, r).resp, timed |-> flag]
    OBVIOUS
  <2>3. inRam' = (inRam \ Range(done)) \cup {y}
    <3>1. given = {r}
      BY <1>12, <1>14, <2>1
    <3>2. QED  BY <1>11, <1>14, <2>2, <3>1
  <2>4. y.resp.id = r.id /\ y.timed = b.active
    BY <1>10, <2>2, SimAnswerIds
  <2>5. y \notin inRam
    <3>1. Held(respQueue, inRam, SimOwes(dram.table))
      <4>1. pc = "serve"
        BY DEF Serve
      <4>2. QED  BY <4>1, SimAtRest DEF SimAnswering
    <3>2. \A x \in inRam : x.resp.id \in SimOwes(dram.table)
      BY <3>1 DEF Held
    <3>3. QED  BY <2>1, <2>4, <3>2
  <2>6. s = Submitted(b, TRUE)
    BY <1>2, <1>9, <1>14
  <2>7. QED  BY <1>7, <1>8, <1>14, <2>3, <2>4, <2>5, <2>6 DEF Turned
<1>15. \E c1, b1, s1 : Turned(done, c1, b1, s1)
  <2>1. Turned(done, c, b, s)
    BY <1>13, <1>14
  <2>2. QED  BY <2>1
<1>16. QED  BY <1>1, <1>15

\* The interval of the timer is opened, closed or kept.
Opened ==
    /\ timed' \in TimerRecord /\ ~timed.started /\ opts.timerOnly /\ TimerOn
    /\ timed'.active /\ timed'.started /\ ~timed'.captured /\ ~timed'.stopped
    /\ timed'.start = cycle /\ timed'.samples = 0
    /\ TimerRequests'

Closing ==
    /\ timed' \in TimerRecord /\ timed.active /\ opts.timerOnly /\ TimerOff
    /\ timed'.started /\ timed'.start = timed.start
    /\ ~timed'.active /\ timed'.captured /\ timed'.stopped
    /\ timed'.stop = cycle /\ timed'.samples = timed.samples + 1

Keeping ==
    /\ SameInterval(timed', timed)
    /\ ~(TimerOn /\ opts.timerOnly /\ ~timed.started) /\ ~(TimerOff /\ opts.timerOnly /\ timed.active)
    /\ timed'.samples = IF timed.active THEN timed.samples + 1 ELSE timed.samples
    /\ timed'.stopped => TimerOff
    /\ TimerRequests'
    /\ ~timed.started => \A r \in inRam' : ~r.timed

\* The requests of an open interval, of which m are completed and one is
\* sent.
LEMMA SimTurnedRequests ==
    ASSUME TimerRequests, IsFiniteSet(inRam), timed \in TimerRecord, timed.active,
           NEW some \in SUBSET inRam, NEW done \in SetToSeqs(some),
           NEW c, NEW s, Turned(done, c, c, s), ~TimerOff
    PROVE  /\ SameInterval(timed', timed) /\ timed'.samples = timed.samples + 1
           /\ timed'.stopped = timed.stopped /\ TimerRequests'
<1>1. PICK mine : mine = {i \in DOMAIN done : done[i].timed}
  OBVIOUS
<1>2. PICK m \in Nat : m = Cardinality(mine)
  <2>1. Cardinality(mine) \in Nat
    BY <1>1, WindowLeft
  <2>2. QED  BY <2>1
<1>3. PICK ram : ram = inRam \ Range(done)
  OBVIOUS
<1>4. Cardinality(OfWindow(ram)) = Cardinality(OfWindow(inRam)) - m
  BY <1>1, <1>2, <1>3, WindowLeft
<1>5. mine = {i \in DOMAIN done : done[i].timed /\ timed.active}
  BY <1>1
<1>6. /\ SameInterval(c, timed) /\ c.requests = timed.requests /\ c.stopped = timed.stopped
      /\ c.completions = timed.completions + m /\ c.outstanding = timed.outstanding - m
      /\ c.samples = timed.samples + 1
  BY <1>2, <1>5, CompletedKept DEF Turned
<1>7. c \in TimerRecord /\ c.active
  BY <1>6 DEF SameInterval
<1>8. timed' = s
  BY DEF Turned
<1>9. CASE inRam' = ram /\ (s = c \/ s = Submitted(c, FALSE))
  <2>1. SameInterval(s, c) /\ s.samples = c.samples /\ s.stopped = c.stopped /\ SameCounts(s, c)
    BY <1>7, <1>9, SubmittedKept
  <2>2. SameInterval(timed', timed) /\ timed'.samples = timed.samples + 1 /\ timed'.stopped = timed.stopped
    BY <1>6, <1>8, <2>1 DEF SameInterval
  <2>3. /\ timed'.outstanding = timed.outstanding - m /\ timed'.completions = timed.completions + m
        /\ timed'.requests = timed.requests
    BY <1>6, <1>8, <2>1 DEF SameCounts
  <2>4. timed'.outstanding = Cardinality(OfWindow(inRam'))
    BY <1>4, <1>9, <2>3 DEF TimerRequests
  <2>5. timed'.requests = timed'.completions + timed'.outstanding
    BY <2>3 DEF TimerRequests, TimerRecord
  <2>6. QED  BY <2>2, <2>4, <2>5 DEF TimerRequests, OfWindow
<1>10. CASE /\ s = Submitted(c, TRUE)
            /\ \E y : y \notin inRam /\ y.timed = c.active /\ inRam' = ram \cup {y}
  <2>1. /\ SameInterval(s, c) /\ s.samples = c.samples /\ s.stopped = c.stopped
        /\ s.requests = c.requests + 1 /\ s.outstanding = c.outstanding + 1
        /\ s.completions = c.completions
    BY <1>7, <1>10, SubmittedKept
  <2>2. SameInterval(timed', timed) /\ timed'.samples = timed.samples + 1 /\ timed'.stopped = timed.stopped
    BY <1>6, <1>8, <2>1 DEF SameInterval
  <2>3. /\ timed'.outstanding = timed.outstanding - m + 1 /\ timed'.completions = timed.completions + m
        /\ timed'.requests = timed.requests + 1
    BY <1>6, <1>8, <2>1
  <2>4. PICK y : y \notin ram /\ y.timed /\ inRam' = ram \cup {y}
    BY <1>3, <1>7, <1>10
  <2>5. IsFiniteSet(ram)
    BY <1>3, FS_Difference
  <2>6. Cardinality(OfWindow(inRam')) = Cardinality(OfWindow(ram)) + 1
    BY <2>4, <2>5, WindowAdded
  <2>7. timed'.outstanding = Cardinality(OfWindow(inRam'))
    BY <1>4, <2>3, <2>6 DEF TimerRequests
  <2>8. timed'.requests = timed'.completions + timed'.outstanding
    BY <2>3 DEF TimerRequests, TimerRecord
  <2>9. QED  BY <2>2, <2>7, <2>8 DEF TimerRequests, OfWindow
<1>11. QED  BY <1>3, <1>9, <1>10 DEF Turned

LEMMA SimServeInterval ==
    ASSUME SimTiming, pc = "serve", cycle \in Nat, IsFiniteSet(inRam),
           NEW some \in SUBSET inRam, NEW done \in SetToSeqs(some),
           NEW c, NEW b, NEW s, Turned(done, c, b, s)
    PROVE  Opened \/ Closing \/ Keeping
<1>0. timed \in TimerRecord /\ TimerPhase /\ TimerRequests /\ ~timed.stopped
  BY DEF SimTiming, SimTypes, TimerPhase
<1>1. PICK m \in Nat : m = Cardinality({i \in DOMAIN done : done[i].timed /\ timed.active})
  <2>1. CASE timed.active
    <3>1. PICK mine : mine = {i \in DOMAIN done : done[i].timed}
      OBVIOUS
    <3>2. {i \in DOMAIN done : done[i].timed /\ timed.active} = mine
      BY <2>1, <3>1
    <3>3. Cardinality(mine) \in Nat
      BY <3>1, WindowLeft
    <3>4. QED  BY <3>2, <3>3
  <2>2. CASE ~timed.active
    <3>1. {i \in DOMAIN done : done[i].timed /\ timed.active} = {}
      BY <2>2
    <3>2. QED  BY <3>1, FS_EmptySet
  <2>3. QED  BY <2>1, <2>2
<1>2. /\ SameInterval(c, timed) /\ c.stopped = timed.stopped
      /\ c.samples = IF timed.active THEN timed.samples + 1 ELSE timed.samples
  BY <1>0, <1>1, CompletedKept DEF Turned
<1>3. c \in TimerRecord /\ c.started = timed.started /\ c.active = timed.active
  BY <1>2 DEF SameInterval
<1>4. /\ ~opts.timerOnly \/ c.started \/ ~TimerOn => b = c
      /\ TimerOn => b = BeginTimed(c)
  BY <1>0, <1>3, BegunTimer DEF Turned
<1>5. CASE TimerOn /\ opts.timerOnly /\ ~timed.started
  <2>1. /\ b \in TimerRecord /\ b.active /\ b.started /\ ~b.captured /\ ~b.stopped
        /\ b.start = cycle /\ b.samples = 0
        /\ b.requests = 0 /\ b.completions = 0 /\ b.outstanding = 0
    BY <1>3, <1>4, <1>5, BegunTimer
  <2>2. timed' = s
    BY <1>5 DEF Turned, TimerOn, TimerOff
  <2>3. OfWindow(inRam \ Range(done)) = {} /\ IsFiniteSet(inRam \ Range(done))
    BY <1>0, <1>5, FS_Difference DEF TimerPhase, OfWindow
  <2>4. CASE inRam' = inRam \ Range(done) /\ (s = b \/ s = Submitted(b, FALSE))
    <3>1. SameInterval(s, b) /\ s.samples = b.samples /\ s.stopped = b.stopped /\ SameCounts(s, b)
      BY <2>1, <2>4, SubmittedKept
    <3>2. Cardinality(OfWindow(inRam')) = 0
      BY <2>3, <2>4, FS_EmptySet
    <3>3. s.outstanding = 0 /\ s.requests = 0 /\ s.completions = 0
      BY <2>1, <3>1 DEF SameCounts
    <3>4. TimerRequests'
      BY <2>2, <3>2, <3>3 DEF TimerRequests, OfWindow
    <3>5. QED  BY <1>5, <2>1, <2>2, <3>1, <3>4 DEF Opened, SameInterval
  <2>5. CASE /\ s = Submitted(b, TRUE)
             /\ \E y : y \notin inRam /\ y.timed = b.active /\ inRam' = (inRam \ Range(done)) \cup {y}
    <3>1. /\ SameInterval(s, b) /\ s.samples = b.samples /\ s.stopped = b.stopped
          /\ s.requests = b.requests + 1 /\ s.outstanding = b.outstanding + 1
          /\ s.completions = b.completions
      BY <2>1, <2>5, SubmittedKept
    <3>2. PICK y : /\ y \notin inRam \ Range(done) /\ y.timed
                   /\ inRam' = (inRam \ Range(done)) \cup {y}
      BY <2>1, <2>5
    <3>3. Cardinality(OfWindow(inRam')) = Cardinality(OfWindow(inRam \ Range(done))) + 1
      BY <2>3, <3>2, WindowAdded
    <3>4. Cardinality(OfWindow(inRam')) = 1
      BY <2>3, <3>3, FS_EmptySet
    <3>5. s.outstanding = 1 /\ s.requests = 1 /\ s.completions = 0
      BY <2>1, <3>1
    <3>6. TimerRequests'
      BY <2>2, <3>4, <3>5 DEF TimerRequests, OfWindow
    <3>7. QED  BY <1>5, <2>1, <2>2, <3>1, <3>6 DEF Opened, SameInterval
  <2>6. QED  BY <2>4, <2>5 DEF Turned
<1>6. CASE TimerOff /\ opts.timerOnly /\ timed.active
  <2>1. b = c /\ timed' = FinishTimed(s)
    BY <1>4, <1>6 DEF Turned, TimerOn, TimerOff
  <2>6. s = c \/ s = Submitted(c, FALSE) \/ s = Submitted(c, TRUE)
    BY <2>1 DEF Turned
  <2>2. SameInterval(s, c) /\ s.samples = c.samples
    BY <1>3, <2>6, SubmittedKept
  <2>3. s \in TimerRecord /\ s.active /\ s.started /\ s.start = timed.start /\ s.samples = timed.samples + 1
    BY <1>0, <1>2, <1>6, <2>2 DEF SameInterval, TimerPhase
  <2>4. /\ timed' \in TimerRecord /\ timed'.stopped /\ timed'.samples = s.samples
        /\ timed'.started = s.started /\ timed'.start = s.start
        /\ ~timed'.active /\ timed'.captured /\ timed'.stop = cycle
    <3>1. PICK u : u = timed'
      OBVIOUS
    <3>2. /\ u \in TimerRecord /\ u.stopped /\ u.samples = s.samples
          /\ u.started = s.started /\ u.start = s.start
          /\ ~u.active /\ u.captured /\ u.stop = cycle
      <4>1. s \in TimerRecord /\ cycle \in Int /\ u = FinishTimed(s)
        BY <2>1, <2>3, <3>1
      <4>2. /\ u \in TimerRecord /\ u.stopped /\ u.samples = s.samples
            /\ u.started = s.started /\ u.start = s.start
            /\ opts.timerOnly /\ s.active => ~u.active /\ u.captured /\ u.stop = cycle
        BY <4>1, FinishedTimer
      <4>3. QED  BY <1>6, <2>3, <4>2
    <3>3. QED  BY <3>1, <3>2
  <2>5. QED  BY <1>6, <2>3, <2>4 DEF Closing
<1>7. CASE /\ ~(TimerOn /\ opts.timerOnly /\ ~timed.started)
           /\ ~(TimerOff /\ opts.timerOnly /\ timed.active)
  <2>1. b = c
    BY <1>3, <1>4, <1>7
  <2>2. SameInterval(s, c) /\ s.samples = c.samples /\ s.stopped = c.stopped
    BY <1>3, <2>1, SubmittedKept DEF Turned
  <2>3. s \in TimerRecord /\ SameInterval(s, timed) /\ ~s.stopped
    BY <1>0, <1>2, <2>2 DEF SameInterval
  <2>4. /\ SameInterval(timed', s) /\ timed'.samples = s.samples
        /\ timed'.stopped => TimerOff
    <3>1. CASE TimerOff
      <4>1. timed' = FinishTimed(s) /\ (~opts.timerOnly \/ ~s.active)
        BY <1>7, <2>3, <3>1 DEF Turned, SameInterval
      <4>2. QED  BY <2>3, <3>1, <4>1, FinishedTimer
    <3>2. CASE ~TimerOff
      BY <2>3, <3>2 DEF Turned, SameInterval
    <3>3. QED  BY <3>1, <3>2
  <2>5. SameInterval(timed', timed)
    BY <2>3, <2>4 DEF SameInterval
  <2>6. TimerRequests'
    <3>1. CASE timed.active
      <4>1. ~TimerOff
        BY <1>0, <1>7, <3>1 DEF TimerPhase
      <4>2. QED  BY <1>0, <2>1, <3>1, <4>1, SimTurnedRequests
    <3>2. CASE ~timed.active
      BY <2>5, <3>2 DEF TimerRequests, SameInterval
    <3>3. QED  BY <3>1, <3>2
  <2>7. ASSUME ~timed.started
        PROVE  \A r \in inRam' : ~r.timed
    <3>1. ~b.active /\ \A r \in inRam : ~r.timed
      BY <1>0, <1>3, <2>1, <2>7 DEF TimerPhase
    <3>2. \A r \in inRam' : r \in inRam \/ r.timed = b.active
      BY DEF Turned
    <3>3. QED  BY <3>1, <3>2
  <2>8. QED  BY <1>2, <1>7, <2>2, <2>4, <2>5, <2>6, <2>7 DEF Keeping
<1>8. QED  BY <1>5, <1>6, <1>7

\* The profile may be started by the write, for the cycle after it.
Started == Fresh(profile', cycle + 1) /\ opts.profile /\ ~profile.active /\ ~profile.written

LEMMA SimServeProfile ==
    ASSUME SimTypes, cycle \in Nat, Serve
    PROVE  /\ profile' \in ProfileRecord
           /\ profile' = profile \/ (TimerOn /\ opts.start = {} /\ Started)
           /\ TimerOn /\ opts.start = {} /\ opts.profile => profile.active \/ profile.written \/ Started
<1>1. profile' = IF TimerOn THEN TimerStart(profile, cycle) ELSE profile
  BY SimServeDevice DEF SimTypes
<1>2. CASE TimerOn /\ opts.start = {}
  <2>1. profile' = StartProfile(profile, cycle + 1)
    BY <1>1, <1>2 DEF TimerStart
  <2>2. PICK q, at : q = profile' /\ at = cycle + 1 /\ at \in Int
    OBVIOUS
  <2>3. q = StartProfile(profile, at) /\ profile \in ProfileRecord
    BY <2>1, <2>2 DEF SimTypes
  <2>4. /\ q \in ProfileRecord
        /\ opts.profile /\ ~profile.active /\ ~profile.written => Fresh(q, at)
        /\ ~(opts.profile /\ ~profile.active /\ ~profile.written) => q = profile
    BY <2>2, <2>3, StartedProfile
  <2>5. QED  BY <1>2, <2>2, <2>4 DEF Started
<1>3. CASE ~(TimerOn /\ opts.start = {})
  <2>1. profile' = profile
    BY <1>1, <1>3 DEF TimerStart
  <2>2. QED  BY <1>3, <2>1 DEF SimTypes
<1>4. QED  BY <1>2, <1>3

LEMMA SimServeTiming ==
    ASSUME SimTiming, SimAnswering, Serve, MshrCount \in Nat \ {0}, PeriphInflight \in Nat \ {0}
    PROVE  SimTiming'
<1>0. /\ pc = "serve" /\ ~exiting /\ pc' = "step" /\ UNCHANGED <<opts, cycle, exiting, dram>>
      /\ cycle \in Nat
  BY DEF Serve, backend, SimAnswering
<1>1. /\ SimTypes /\ TimerPhase /\ TimerCounted /\ TimerProfiled /\ ProfileCounted /\ TimerRequests
      /\ ProfileWindow
  BY <1>0 DEF SimTiming
<1>2. /\ timed \in TimerRecord /\ profile \in ProfileRecord /\ device.timerEnabled \in BOOLEAN
      /\ device.timerCount \in Nat
  BY <1>1 DEF SimTypes, IsDevice
<1>3. IsFiniteSet(inRam)
  <2>1. Held(respQueue, inRam, SimOwes(dram.table))
    BY <1>0, SimAtRest DEF SimAnswering
  <2>2. QED  BY <2>1 DEF Held
<1>4. Opened \/ Closing \/ Keeping
  <2>1. PICK some, done : /\ some \in SUBSET inRam /\ done \in SetToSeqs(some)
                          /\ \E c, b, s : Turned(done, c, b, s)
    BY SimServeTurned
  <2>2. PICK c, b, s : Turned(done, c, b, s)
    BY <2>1
  <2>3. QED  BY <1>0, <1>3, <2>1, <2>2, SimServeInterval
<1>5. /\ IsDevice(device') /\ device'.timerCount \in Nat /\ device'.timerEnabled \in BOOLEAN
      /\ device'.timerCount = IF device.timerEnabled THEN device.timerCount + 1 ELSE device.timerCount
  <2>1. /\ IsDevice(device')
        /\ device'.timerCount = IF device.timerEnabled THEN device.timerCount + 1 ELSE device.timerCount
    BY <1>1, SimServeDevice DEF SimTypes
  <2>2. QED  BY <2>1 DEF IsDevice
<1>6. /\ profile' \in ProfileRecord
      /\ profile' = profile \/ (TimerOn /\ opts.start = {} /\ Started)
      /\ TimerOn /\ opts.start = {} /\ opts.profile => profile.active \/ profile.written \/ Started
  BY <1>0, <1>1, SimServeProfile
<1>7. Started => /\ profile'.active /\ ~profile'.written /\ profile'.start = cycle + 1
                 /\ profile'.samples = 0 /\ profile'.net = 0 /\ opts.profile
                 /\ ~profile.active /\ ~profile.written
  BY DEF Started, Fresh
<1>8. SimTypes'
  <2>1. timed' \in TimerRecord
    BY <1>4 DEF Opened, Closing, Keeping, SameInterval
  <2>2. QED  BY <1>0, <1>1, <1>5, <1>6, <2>1 DEF SimTypes, IsDevice, Accepts
<1>9. ProfileCounted'
  <2>1. CASE profile' = profile
    BY <1>0, <1>1, <2>1 DEF ProfileCounted, IssuedUnfulfilled
  <2>2. CASE Started
    BY <1>0, <1>7, <2>2 DEF ProfileCounted
  <2>3. QED  BY <1>6, <2>1, <2>2
<1>10. ProfileWindow'
  BY <1>0, <1>1, <1>6, <1>7 DEF ProfileWindow
<1>11. CASE Opened
  <2>1. TimerPhase'
    BY <1>0, <1>11 DEF Opened, TimerPhase, TimerOn
  <2>2. TimerCounted'
    BY <1>0, <1>1, <1>5, <1>11 DEF Opened, TimerCounted
  <2>3. TimerProfiled'
    <3>1. SUFFICES ASSUME opts.start = {}, opts.timerOnly
                   PROVE  TimerProfiled'
      BY <1>0 DEF TimerProfiled
    <3>2. ~profile.active /\ ~profile.written /\ TimerOn
      BY <1>1, <1>11, <3>1 DEF Opened, TimerProfiled
    <3>3. /\ opts.profile => profile'.active
          /\ ~profile'.written /\ (profile'.active => profile'.start = cycle + 1)
      BY <1>6, <1>7, <3>1, <3>2
    <3>4. timed'.started /\ ~timed'.captured /\ timed'.start = cycle
      BY <1>11 DEF Opened
    <3>5. QED  BY <1>0, <3>3, <3>4 DEF TimerProfiled
  <2>4. QED  BY <1>8, <1>9, <1>10, <1>11, <2>1, <2>2, <2>3 DEF SimTiming, Opened
<1>12. CASE Closing
  <2>0. timed.active /\ timed.started /\ ~timed.captured /\ device.timerEnabled
    BY <1>1, <1>12 DEF Closing, TimerPhase
  <2>1. TimerPhase'
    BY <1>0, <1>12 DEF Closing, TimerPhase
  <2>2. TimerCounted'
    <3>1. timed.samples = cycle - timed.start - 1 /\ device.timerCount = timed.samples
      BY <1>0, <1>1, <2>0 DEF TimerCounted
    <3>2. /\ timed'.samples = timed'.stop - timed'.start /\ device'.timerCount = timed'.samples
          /\ timed'.stop = cycle'
      BY <1>0, <1>2, <1>5, <1>12, <2>0, <3>1 DEF Closing, TimerRecord
    <3>3. ~timed'.active /\ timed'.started
      BY <1>12, <2>0 DEF Closing
    <3>4. QED  BY <1>0, <3>2, <3>3 DEF TimerCounted
  <2>3. TimerProfiled'
    <3>1. SUFFICES ASSUME opts.start = {}, opts.timerOnly
                   PROVE  TimerProfiled'
      BY <1>0 DEF TimerProfiled
    <3>2. profile' = profile
      BY <1>6, <1>12 DEF Closing, TimerOn, TimerOff
    <3>3. ~profile.written
      BY <1>1, <2>0, <3>1 DEF TimerProfiled
    <3>4. /\ opts.profile => profile.active
          /\ profile.active => profile.start = timed.start + 1
      BY <1>1, <2>0, <3>1, <3>3 DEF TimerProfiled
    <3>5. QED  BY <1>0, <1>12, <3>2, <3>3, <3>4 DEF TimerProfiled, Closing
  <2>4. TimerRequests'
    BY <1>12 DEF Closing, TimerRequests
  <2>5. QED  BY <1>8, <1>9, <1>10, <2>1, <2>2, <2>3, <2>4 DEF SimTiming
<1>13. CASE Keeping
  <2>0. /\ timed'.active = timed.active /\ timed'.started = timed.started
        /\ timed'.captured = timed.captured /\ timed'.start = timed.start /\ timed'.stop = timed.stop
        /\ timed'.samples = IF timed.active THEN timed.samples + 1 ELSE timed.samples
    BY <1>13 DEF Keeping, SameInterval
  <2>1. TimerPhase'
    <3>1. timed.active => device'.timerEnabled
      BY <1>1, <1>13 DEF Keeping, TimerOff, TimerPhase
    <3>2. timed'.stopped => ~timed.active
      BY <1>13, <3>1 DEF Keeping, TimerOff
    <3>3. ~timed.started => \A r \in inRam' : ~r.timed
      BY <1>13 DEF Keeping
    <3>4. QED  BY <1>0, <1>1, <2>0, <3>1, <3>2, <3>3 DEF TimerPhase
  <2>2. TimerCounted'
    <3>1. CASE timed.active
      <4>1. /\ timed.samples = cycle - timed.start - 1 /\ device.timerCount = timed.samples
            /\ device.timerEnabled /\ ~timed.captured /\ timed.started
        BY <1>0, <1>1, <3>1 DEF TimerCounted, TimerPhase
      <4>2. timed'.samples = cycle - timed.start /\ device'.timerCount = timed'.samples
        BY <1>0, <1>2, <1>5, <2>0, <3>1, <4>1 DEF TimerRecord
      <4>3. QED  BY <1>0, <1>2, <2>0, <4>1, <4>2 DEF TimerCounted, TimerRecord
    <3>2. CASE ~timed.active
      <4>1. timed.captured => timed.samples = timed.stop - timed.start /\ timed.stop < cycle
        BY <1>0, <1>1 DEF TimerCounted
      <4>2. opts.timerOnly /\ ~timed.started => device'.timerCount = 0 /\ ~device'.timerEnabled
        <5>1. SUFFICES ASSUME opts.timerOnly, ~timed.started
                       PROVE  device'.timerCount = 0 /\ ~device'.timerEnabled
          OBVIOUS
        <5>2. device.timerCount = 0 /\ ~device.timerEnabled
          BY <1>1, <5>1 DEF TimerCounted
        <5>3. ~TimerOn
          BY <1>13, <5>1 DEF Keeping
        <5>4. QED  BY <1>5, <5>2, <5>3 DEF TimerOn
      <4>3. QED  BY <1>0, <1>2, <2>0, <3>2, <4>1, <4>2 DEF TimerCounted, TimerRecord
    <3>3. QED  BY <3>1, <3>2
  <2>3. TimerProfiled'
    <3>1. SUFFICES ASSUME opts.start = {}, opts.timerOnly
                   PROVE  TimerProfiled'
      BY <1>0 DEF TimerProfiled
    <3>2. profile' = profile
      <4>1. CASE ~TimerOn
        BY <1>6, <4>1
      <4>2. CASE TimerOn
        <5>1. timed.started
          BY <1>13, <3>1, <4>2 DEF Keeping
        <5>2. opts.profile => profile.active \/ profile.written
          BY <1>1, <3>1, <5>1 DEF TimerProfiled
        <5>3. ~Started
          BY <1>7, <5>2
        <5>4. QED  BY <1>6, <5>3
      <4>3. QED  BY <4>1, <4>2
    <3>3. ~(timed.captured /\ profile.active)
      BY <1>0, <1>1, <3>1 DEF TimerProfiled
    <3>4. QED  BY <1>0, <1>1, <2>0, <3>2, <3>3 DEF TimerProfiled
  <2>4. QED  BY <1>8, <1>9, <1>10, <1>13, <2>1, <2>2, <2>3 DEF SimTiming, Keeping
<1>14. QED  BY <1>4, <1>11, <1>12, <1>13

\* The events of an edge are what changes in the number that is owed.
Events ==
    Cardinality({x \in DramReq : CycleEvents(dram, RingIntf(1), busIn.dram).externalRequestAccepted})
    - Cardinality(busIn.dram.resp)

LEMMA NoneOrOneIds ==
    ASSUME NEW X, NoneOrOne(X)
    PROVE  /\ IsFiniteSet(X) /\ Cardinality(X) \in Nat
           /\ Cardinality({x.id : x \in X}) = Cardinality(X) /\ IsFiniteSet({x.id : x \in X})
<1>1. CASE X = {}
  <2>1. {x.id : x \in X} = X
    BY <1>1
  <2>2. QED  BY <1>1, <2>1, FS_EmptySet
<1>2. CASE X # {}
  <2>1. PICK x : X = {x}
    BY <1>2 DEF NoneOrOne
  <2>2. {y.id : y \in X} = {x.id}
    BY <2>1
  <2>3. \A y : IsFiniteSet({y}) /\ Cardinality({y}) = 1
    BY FS_Singleton
  <2>4. IsFiniteSet(X) /\ Cardinality(X) = 1
    BY <2>1, <2>3
  <2>5. IsFiniteSet({y.id : y \in X}) /\ Cardinality({y.id : y \in X}) = 1
    BY <2>2, <2>3
  <2>6. QED  BY <2>4, <2>5
<1>3. QED  BY <1>1, <1>2

LEMMA SimStepEvents ==
    ASSUME SimAnswering, Step, MshrCount \in Nat \ {0}, PeriphInflight \in Nat \ {0}
    PROVE  /\ Events \in Int /\ IssuedUnfulfilled(dram.table) \in Int
           /\ IssuedUnfulfilled(dram'.table) = IssuedUnfulfilled(dram.table) + Events
<1>1. PICK owed, owed2, issue, ids :
          /\ owed = SimOwes(dram.table) /\ owed2 = SimOwes(dram'.table)
          /\ issue = DramIssue /\ ids = {x.id : x \in busIn.dram.resp}
  OBVIOUS
<1>2. DramSettled
  BY SimStepDram
<1>3. owed2 = (owed \cup issue) \ ids /\ ids \subseteq owed \cup issue
  BY <1>1, <1>2 DEF DramSettled, Settled, Owing
<1>4. issue \cap owed = {}
  BY <1>1, SimRequests DEF DramIssue
<1>5. IsFiniteSet(owed)
  <2>1. owed \in SUBSET (0 .. MshrCount - 1)
    BY <1>1 DEF SimAnswering, SimTables, Flags, SimOwes
  <2>2. IsFiniteSet(0 .. MshrCount - 1)
    BY FS_Interval
  <2>3. QED  BY <2>1, <2>2, FS_Subset
<1>6. PICK X : X = {x \in DramReq : CycleEvents(dram, RingIntf(1), busIn.dram).externalRequestAccepted}
  OBVIOUS
<1>7. X = IF busIn.dram.reqAccepting THEN DramReq ELSE {}
  <2>1. CycleEvents(dram, RingIntf(1), busIn.dram).externalRequestAccepted
          = (busIn.dram.reqAccepting /\ PeekMem(dram) # {})
    BY DEF CycleEvents
  <2>2. DramReq # {} => PeekMem(dram) # {}
    BY DEF DramReq
  <2>3. QED  BY <1>6, <2>1, <2>2
<1>8. /\ NoneOrOne(DramReq) /\ {r.id : r \in DramReq} = ReqSlot(dram.table)
  BY SimRequests
<1>9. NoneOrOne(X) /\ {x.id : x \in X} = issue
  BY <1>1, <1>7, <1>8 DEF NoneOrOne, DramIssue
<1>10. IsFiniteSet(issue) /\ Cardinality(X) \in Nat /\ Cardinality(issue) = Cardinality(X)
  <2>1. /\ Cardinality(X) \in Nat
        /\ Cardinality({x.id : x \in X}) = Cardinality(X) /\ IsFiniteSet({x.id : x \in X})
    BY <1>9, NoneOrOneIds
  <2>2. QED  BY <1>9, <2>1
<1>11. IsFiniteSet(ids) /\ Cardinality(busIn.dram.resp) \in Nat
       /\ Cardinality(ids) = Cardinality(busIn.dram.resp)
  <2>1. PICK R : R = busIn.dram.resp /\ NoneOrOne(R)
    BY DEF SimAnswering, SimBus
  <2>2. /\ Cardinality(R) \in Nat
        /\ Cardinality({x.id : x \in R}) = Cardinality(R) /\ IsFiniteSet({x.id : x \in R})
    BY <2>1, NoneOrOneIds
  <2>3. QED  BY <1>1, <2>1, <2>2
<1>12. /\ IsFiniteSet(owed \cup issue) /\ Cardinality(owed) \in Nat
       /\ Cardinality(owed \cup issue) = Cardinality(owed) + Cardinality(issue)
  <2>1. owed \cap issue = {} /\ Cardinality(owed \cap issue) = 0
    BY <1>4, FS_EmptySet
  <2>2. /\ IsFiniteSet(owed \cup issue)
        /\ Cardinality(owed \cup issue) = Cardinality(owed) + Cardinality(issue) - Cardinality(owed \cap issue)
    BY <1>5, <1>10, FS_Union
  <2>3. Cardinality(owed) \in Nat /\ Cardinality(issue) \in Nat
    BY <1>5, <1>10, FS_CardinalityType
  <2>4. QED  BY <2>1, <2>2, <2>3
<1>13. Cardinality(owed2) = Cardinality(owed \cup issue) - Cardinality(ids)
  <2>1. (owed \cup issue) \cap ids = ids
    BY <1>3
  <2>2. Cardinality((owed \cup issue) \ ids) = Cardinality(owed \cup issue) - Cardinality((owed \cup issue) \cap ids)
    BY <1>12, FS_Difference
  <2>3. QED  BY <1>3, <2>1, <2>2
<1>14. /\ IssuedUnfulfilled(dram.table) = Cardinality(owed)
       /\ IssuedUnfulfilled(dram'.table) = Cardinality(owed2)
  BY <1>1 DEF IssuedUnfulfilled, SimOwes
<1>15. Events = Cardinality(X) - Cardinality(busIn.dram.resp)
  BY <1>6 DEF Events
<1>16. PICK a \in Int, x \in Int, r \in Int :
           a = Cardinality(owed) /\ x = Cardinality(X) /\ r = Cardinality(busIn.dram.resp)
  BY <1>10, <1>11, <1>12
<1>17. Cardinality(owed2) = a + x - r /\ Events = x - r
  BY <1>10, <1>11, <1>12, <1>13, <1>15, <1>16
<1>18. QED  BY <1>14, <1>16, <1>17

\* The profile before a step that is sampled at k, and after it.
Counting(p, k) ==
    p.active =>
        /\ opts.profile /\ ~p.written
        /\ \/ p.start = cycle + 1 /\ p.samples = 0
           \/ p.start <= cycle /\ p.samples = cycle - p.start
        /\ p.samples = 0 => p.net = 0
        /\ p.samples > 0 => p.base + p.net + p.events = k

Complete(p) == p.samples = cycle + 1 - p.start /\ p.start <= cycle + 1

SampledAt(p, k) ==
    p.active =>
        /\ opts.profile /\ ~p.written /\ Complete(p)
        /\ p.samples = 0 => p.net = 0
        /\ p.samples > 0 => p.base + p.net = k

LEMMA AccumulatedCount ==
    ASSUME NEW p \in ProfileRecord, cycle \in Nat, NEW k \in Int, k = IssuedUnfulfilled(dram.table),
           Counting(p, k), NEW q, q = Accumulate(p)
    PROVE  /\ q \in ProfileRecord /\ SampledAt(q, k)
           /\ q.active = p.active /\ q.written = p.written /\ q.start = p.start /\ q.stop = p.stop
           /\ ~p.active => q = p
<1>1. /\ q \in ProfileRecord
      /\ q.active = p.active /\ q.written = p.written /\ q.start = p.start /\ q.stop = p.stop
      /\ ~p.active \/ cycle < p.start => q = p
      /\ p.active /\ cycle >= p.start /\ p.samples = 0 =>
            q.samples = 1 /\ q.base = k /\ q.net = p.net
      /\ p.active /\ cycle >= p.start /\ p.samples # 0 =>
            q.samples = p.samples + 1 /\ q.base = p.base /\ q.net = p.net + p.events
  BY AccumulatedProfile
<1>2. SampledAt(q, k)
  <2>1. SUFFICES ASSUME p.active
                 PROVE  SampledAt(q, k)
    BY <1>1 DEF SampledAt
  <2>2. CASE p.start = cycle + 1 /\ p.samples = 0
    <3>1. q = p
      BY <1>1, <2>2
    <3>2. QED  BY <2>1, <2>2, <3>1 DEF Counting, SampledAt, Complete
  <2>3. CASE p.start <= cycle /\ p.samples = cycle - p.start
    <3>1. q.samples = p.samples + 1 /\ q.base + q.net = k
      <4>1. CASE p.samples = 0
        BY <1>1, <2>1, <2>3, <4>1 DEF Counting, ProfileRecord
      <4>2. CASE p.samples # 0
        <5>1. p.samples > 0
          BY <2>3, <4>2 DEF ProfileRecord
        <5>2. p.base + p.net + p.events = k
          BY <2>1, <5>1 DEF Counting
        <5>3. q.samples = p.samples + 1 /\ q.base = p.base /\ q.net = p.net + p.events
          BY <1>1, <2>1, <2>3, <4>2 DEF ProfileRecord
        <5>4. QED  BY <5>2, <5>3 DEF ProfileRecord
      <4>3. QED  BY <4>1, <4>2
    <3>2. q.samples = cycle + 1 - q.start /\ q.start <= cycle + 1 /\ q.samples > 0
      <4>1. q.start = p.start /\ p.start \in Int /\ p.samples \in Int
        BY <1>1 DEF ProfileRecord
      <4>2. QED  BY <2>3, <3>1, <4>1
    <3>3. QED  BY <1>1, <2>1, <3>1, <3>2 DEF Counting, SampledAt, Complete
  <2>4. QED  BY <2>1, <2>2, <2>3 DEF Counting
<1>3. QED  BY <1>1, <1>2

\* A window of the command line around it.
LEMMA ManualCount ==
    ASSUME NEW p \in ProfileRecord, cycle \in Nat, NEW k \in Int, k = IssuedUnfulfilled(dram.table),
           Counting(p, k), Accepts(opts), NEW q, q = ManualWindow(p)
    PROVE  /\ q \in ProfileRecord /\ SampledAt(q, k)
           /\ p.written /\ ~p.active => q = p
           /\ ~p.written /\ q.written => q.samples = Window(q)
           /\ opts.start = {} => /\ q.active = p.active /\ q.written = p.written
                                 /\ q.start = p.start /\ q.stop = p.stop
<1>1. PICK started : started = IF \E a \in opts.start : cycle >= a THEN StartProfile(p, cycle) ELSE p
  OBVIOUS
<1>2. PICK sampled : sampled = Accumulate(started)
  OBVIOUS
<1>3. q = IF \E b \in opts.stop : cycle >= b THEN StopProfile(sampled, cycle) ELSE sampled
  BY <1>1, <1>2 DEF ManualWindow
<1>4. /\ started \in ProfileRecord /\ Counting(started, k)
      /\ started = p \/ (Fresh(started, cycle) /\ opts.start # {} /\ ~p.active /\ ~p.written)
  <2>1. CASE started = p
    BY <2>1
  <2>2. CASE started # p
    <3>1. /\ started \in ProfileRecord /\ Fresh(started, cycle) /\ opts.profile
          /\ ~p.active /\ ~p.written /\ opts.start # {}
      <4>1. started = StartProfile(p, cycle) /\ opts.start # {}
        BY <1>1, <2>2
      <4>2. QED  BY <2>2, <4>1, StartedProfile
    <3>2. Counting(started, k)
      BY <3>1 DEF Fresh, Counting
    <3>3. QED  BY <3>1, <3>2
  <2>3. QED  BY <2>1, <2>2
<1>5. /\ sampled \in ProfileRecord /\ SampledAt(sampled, k)
      /\ sampled.active = started.active /\ sampled.written = started.written
      /\ sampled.start = started.start /\ sampled.stop = started.stop
      /\ ~started.active => sampled = started
  BY <1>2, <1>4, AccumulatedCount
<1>6. started.written = p.written
  <2>1. CASE started = p
    BY <2>1
  <2>2. CASE Fresh(started, cycle) /\ ~p.written
    <3>1. started.written = FALSE /\ p.written = FALSE
      BY <2>2 DEF Fresh, ProfileRecord
    <3>2. QED  BY <3>1
  <2>3. QED  BY <1>4, <2>1, <2>2
<1>7. CASE q = sampled
  <2>1. p.written /\ ~p.active => q = p
    BY <1>4, <1>5, <1>7
  <2>2. ~(~p.written /\ q.written)
    BY <1>5, <1>6, <1>7
  <2>3. opts.start = {} => started = p
    BY <1>4
  <2>4. QED  BY <1>5, <1>7, <2>1, <2>2, <2>3
<1>8. CASE q # sampled
  <2>1. q = StopProfile(sampled, cycle) /\ opts.stop # {}
    BY <1>3, <1>8
  <2>2. opts.start # {}
    BY <2>1 DEF Accepts
  <2>3. /\ q \in ProfileRecord /\ ~q.active
        /\ q.start = sampled.start /\ q.samples = sampled.samples
        /\ ~sampled.active => q = sampled
        /\ sampled.active => q.written /\ q.stop = cycle
    BY <1>5, <2>1, StoppedProfile
  <2>4. sampled.active /\ started.active /\ q.stop = cycle
    BY <1>5, <1>8, <2>3
  <2>5. q.samples = q.stop - q.start + 1
    <3>1. Complete(sampled)
      BY <1>5, <2>4 DEF SampledAt
    <3>2. QED  BY <1>5, <2>3, <2>4, <3>1 DEF Complete, ProfileRecord
  <2>6. ~(p.written /\ ~p.active)
    BY <1>4, <2>4
  <2>7. QED  BY <2>2, <2>3, <2>5, <2>6 DEF SampledAt, Window
<1>9. QED  BY <1>7, <1>8

LEMMA SimStepProfile ==
    ASSUME SimTiming, SimAnswering, Step, MshrCount \in Nat \ {0}, PeriphInflight \in Nat \ {0}
    PROVE  /\ profile' \in ProfileRecord /\ ProfileCounted' /\ ProfileWindow'
           /\ timed.stopped => ~profile'.active
           /\ opts.start = {} =>
                 /\ profile'.start = profile.start
                 /\ profile'.active = (profile.active /\ ~timed.stopped)
                 /\ profile'.written = (profile.written \/ (profile.active /\ timed.stopped))
                 /\ profile.written /\ ~profile.active => profile'.stop = profile.stop
                 /\ profile.active /\ timed.stopped => profile'.stop = cycle
<1>0. /\ pc = "step" /\ pc' = "loop" /\ UNCHANGED <<opts, cycle, exiting>> /\ cycle \in Nat
  BY DEF Step, SimAnswering
<1>1. PICK k \in Int, ev \in Int :
          /\ k = IssuedUnfulfilled(dram.table) /\ ev = Events
          /\ IssuedUnfulfilled(dram'.table) = k + ev
  BY SimStepEvents
<1>2. /\ profile \in ProfileRecord /\ Accepts(opts) /\ Counting(profile, k)
      /\ profile.active => ~profile.written
  BY <1>0, <1>1 DEF SimTiming, SimTypes, ProfileCounted, Counting
<1>3. PICK w : w = ManualWindow(profile)
  OBVIOUS
<1>4. PICK v : v = [w EXCEPT !.events = ev]
  OBVIOUS
<1>5. profile' = IF timed.stopped THEN StopProfile(v, cycle) ELSE v
  <2>1. PICK sent, toDram, toPeriph : StepWith(sent, toDram, toPeriph)
    BY DEF Step
  <2>2. PICK made : made = CycleEvents(dram, RingIntf(1), busIn.dram)
    OBVIOUS
  <2>3. ev = Cardinality({x \in DramReq : made.externalRequestAccepted}) - Cardinality(busIn.dram.resp)
    BY <1>1, <2>2 DEF Events
  <2>4. PICK x \in Int : x = ev /\ x = Cardinality({y \in DramReq : made.externalRequestAccepted})
                                       - Cardinality(busIn.dram.resp)
    BY <2>3
  <2> DEFINE changed == [ManualWindow(profile) EXCEPT !.events =
                            Cardinality({y \in DramReq :
                                CycleEvents(dram, RingIntf(1), busIn.dram).externalRequestAccepted})
                            - Cardinality(busIn.dram.resp)]
  <2>5. profile' = IF timed.stopped THEN StopProfile(changed, cycle) ELSE changed
    BY <2>1 DEF StepWith
  <2>6. changed = v
    BY <1>3, <1>4, <2>2, <2>4
  <2> HIDE DEF changed
  <2>7. QED  BY <2>5, <2>6
<1>6. /\ w \in ProfileRecord /\ SampledAt(w, k)
      /\ profile.written /\ ~profile.active => w = profile
      /\ ~profile.written /\ w.written => w.samples = Window(w)
      /\ opts.start = {} => /\ w.active = profile.active /\ w.written = profile.written
                            /\ w.start = profile.start /\ w.stop = profile.stop
  BY <1>0, <1>1, <1>2, <1>3, ManualCount
<1>7. /\ v \in ProfileRecord /\ v.active = w.active /\ v.written = w.written /\ v.start = w.start
      /\ v.stop = w.stop /\ v.samples = w.samples /\ v.base = w.base /\ v.net = w.net /\ v.events = ev
  BY <1>4, <1>6 DEF ProfileRecord
<1>8. v.active => /\ opts.profile /\ ~v.written /\ Complete(v)
                  /\ v.samples = 0 => v.net = 0
                  /\ v.samples > 0 => v.base + v.net + v.events = k + ev
  <2>1. SUFFICES ASSUME v.active
                 PROVE  /\ opts.profile /\ ~v.written /\ Complete(v)
                        /\ v.samples = 0 => v.net = 0
                        /\ v.samples > 0 => v.base + v.net + v.events = k + ev
    OBVIOUS
  <2>2. /\ opts.profile /\ ~w.written /\ Complete(w)
        /\ w.samples = 0 => w.net = 0
        /\ w.samples > 0 => w.base + w.net = k
    BY <1>6, <1>7, <2>1 DEF SampledAt
  <2>3. w.base \in Int /\ w.net \in Int
    BY <1>6 DEF ProfileRecord
  <2>4. v.samples > 0 => v.base + v.net + v.events = k + ev
    BY <1>7, <2>2, <2>3
  <2>5. QED  BY <1>7, <2>2, <2>4 DEF Complete
<1>9. v.written /\ ~exiting => v.samples = v.stop - v.start + 1
  <2>1. SUFFICES ASSUME v.written, ~exiting
                 PROVE  v.samples = v.stop - v.start + 1
    OBVIOUS
  <2>2. CASE profile.written
    <3>1. w = profile /\ profile.samples = Window(profile)
      BY <1>2, <1>6, <2>1, <2>2 DEF SimTiming, ProfileWindow
    <3>2. QED  BY <1>7, <3>1 DEF Window
  <2>3. CASE ~profile.written
    <3>1. w.samples = Window(w)
      BY <1>6, <1>7, <2>1, <2>3
    <3>2. QED  BY <1>7, <3>1 DEF Window
  <2>4. QED  BY <2>2, <2>3
<1>10. CASE ~timed.stopped
  <2>1. profile' = v
    BY <1>5, <1>10
  <2>2. ProfileCounted'
    <3>1. SUFFICES ASSUME v.active
                   PROVE  ProfileCounted'
      BY <2>1 DEF ProfileCounted
    <3>2. v.samples = cycle + 1 - v.start /\ v.start <= cycle + 1
      BY <1>8, <3>1 DEF Complete
    <3>3. QED  BY <1>0, <1>1, <1>8, <2>1, <3>1, <3>2 DEF ProfileCounted
  <2>3. ProfileWindow'
    BY <1>0, <1>9, <2>1 DEF ProfileWindow, Window
  <2>4. profile.active \in BOOLEAN /\ profile.written \in BOOLEAN
    BY <1>2 DEF ProfileRecord
  <2>5. QED  BY <1>6, <1>7, <1>10, <2>1, <2>2, <2>3, <2>4
<1>11. CASE timed.stopped
  <2>1. PICK u : u = profile' /\ u = StopProfile(v, cycle)
    BY <1>5, <1>11
  <2>2. /\ u \in ProfileRecord /\ ~u.active
        /\ u.start = v.start /\ u.samples = v.samples
        /\ ~v.active => u = v
        /\ v.active => u.written /\ u.stop = cycle
    BY <1>0, <1>7, <2>1, StoppedProfile
  <2>3. ProfileCounted'
    BY <2>1, <2>2 DEF ProfileCounted
  <2>4. u.written /\ ~exiting => u.samples = u.stop - u.start + 1
    <3>1. CASE v.active
      <4>1. v.samples = cycle + 1 - v.start /\ v.start \in Int
        BY <1>7, <1>8, <3>1 DEF Complete, ProfileRecord
      <4>2. QED  BY <1>0, <2>2, <3>1, <4>1
    <3>2. CASE ~v.active
      BY <1>9, <2>2, <3>2
    <3>3. QED  BY <3>1, <3>2
  <2>5. ProfileWindow'
    BY <1>0, <2>1, <2>4 DEF ProfileWindow, Window
  <2>6. u.active = FALSE /\ profile.active \in BOOLEAN /\ profile.written \in BOOLEAN /\ u.written \in BOOLEAN
    BY <1>2, <2>2 DEF ProfileRecord
  <2>7. ASSUME opts.start = {}
        PROVE  /\ u.start = profile.start
               /\ u.active = (profile.active /\ ~timed.stopped)
               /\ u.written = (profile.written \/ (profile.active /\ timed.stopped))
               /\ profile.written /\ ~profile.active => u.stop = profile.stop
               /\ profile.active /\ timed.stopped => u.stop = cycle
    <3>1. v.active = profile.active /\ v.written = profile.written /\ v.start = profile.start /\ v.stop = profile.stop
      BY <1>6, <1>7, <2>7
    <3>2. CASE profile.active
      BY <1>2, <1>11, <2>2, <2>6, <3>1, <3>2
    <3>3. CASE ~profile.active
      BY <1>11, <2>2, <2>6, <3>1, <3>3
    <3>4. QED  BY <3>2, <3>3
  <2>8. QED  BY <2>1, <2>2, <2>3, <2>5, <2>7
<1>12. QED  BY <1>10, <1>11

LEMMA SimStepTiming ==
    ASSUME SimTiming, SimAnswering, Step, MshrCount \in Nat \ {0}, PeriphInflight \in Nat \ {0}
    PROVE  SimTiming'
<1>0. /\ pc = "step" /\ pc' = "loop" /\ UNCHANGED <<opts, cycle, exiting, device, inRam>>
      /\ timed' = [timed EXCEPT !.stopped = FALSE]
  BY DEF Step
<1>1. SimTypes /\ TimerPhase /\ TimerCounted /\ TimerProfiled /\ TimerRequests
  BY <1>0 DEF SimTiming
<1>2. /\ SameInterval(timed', timed) /\ SameCounts(timed', timed) /\ timed'.samples = timed.samples
      /\ ~timed'.stopped
  BY <1>0, <1>1 DEF SimTypes, TimerRecord, SameInterval, SameCounts
<1>3. /\ profile' \in ProfileRecord /\ ProfileCounted' /\ ProfileWindow'
      /\ timed.stopped => ~profile'.active
      /\ opts.start = {} =>
            /\ profile'.start = profile.start
            /\ profile'.active = (profile.active /\ ~timed.stopped)
            /\ profile'.written = (profile.written \/ (profile.active /\ timed.stopped))
            /\ profile.written /\ ~profile.active => profile'.stop = profile.stop
            /\ profile.active /\ timed.stopped => profile'.stop = cycle
  BY SimStepProfile
<1>4. SimTypes'
  BY <1>0, <1>1, <1>2, <1>3 DEF SimTypes, SameInterval, IsDevice, Accepts
<1>5. TimerPhase' /\ TimerRequests'
  BY <1>0, <1>1, <1>2 DEF TimerPhase, TimerRequests, SameInterval, SameCounts, OfWindow
<1>8. TimerCounted'
  BY <1>0, <1>1, <1>2 DEF TimerCounted, SameInterval
<1>6. TimerProfiled'
  <2>1. SUFFICES ASSUME opts.start = {}, opts.timerOnly
                 PROVE  TimerProfiled'
    BY <1>0 DEF TimerProfiled
  <2>2. /\ timed'.started = timed.started /\ timed'.captured = timed.captured
        /\ timed'.start = timed.start /\ timed'.stop = timed.stop
    BY <1>2 DEF SameInterval
  <2>3. /\ ~timed.started => ~profile.active /\ ~profile.written
        /\ timed.started /\ opts.profile => profile.active \/ profile.written
        /\ timed.started /\ (profile.active \/ profile.written) => profile.start = timed.start + 1
        /\ timed.started /\ profile.written => timed.captured /\ profile.stop = timed.stop
        /\ timed.captured /\ profile.active => timed.stopped /\ timed.stop = cycle
    BY <1>1, <2>1 DEF TimerProfiled
  <2>4. timed.stopped /\ timed.started => timed.captured
    BY <1>1 DEF TimerPhase
  <2>5. profile.active => ~profile.written
    BY <1>0 DEF SimTiming, ProfileCounted
  <2>6. timed.started /\ profile'.written => timed.captured /\ profile'.stop = timed.stop
    BY <1>3, <2>1, <2>3, <2>4, <2>5
  <2>7. ~(timed.captured /\ profile'.active)
    BY <1>3, <2>1, <2>3
  <2>8. QED  BY <1>0, <1>3, <2>1, <2>2, <2>3, <2>6, <2>7 DEF TimerProfiled
<1>7. QED  BY <1>0, <1>3, <1>4, <1>5, <1>6, <1>8 DEF SimTiming

LEMMA SimNextTiming ==
    ASSUME SimTiming, SimAnswering, Built, Limited, [Next]_vars
    PROVE  SimTiming'
<1>1. MshrCount \in Nat \ {0} /\ PeriphInflight \in Nat \ {0} /\ cycle \in Nat
  BY DEF Built, SimAnswering
<1>2. CASE Loop
  BY <1>1, <1>2, SimLoopTiming
<1>3. CASE Serve
  BY <1>1, <1>3, SimServeTiming
<1>4. CASE GiveUp
  BY <1>1, <1>4, SimGiveUpTiming
<1>5. CASE Step
  BY <1>1, <1>5, SimStepTiming
<1>6. CASE Interrupt \/ UNCHANGED vars
  <2>1. /\ UNCHANGED <<opts, pc, cycle, device, inRam, timed, dram, profile>>
        /\ exiting' = exiting \/ exiting'
    BY <1>6 DEF Interrupt, vars, frontend, backend
  <2>2. QED  BY <2>1, SimSameTiming
<1>7. QED  BY <1>2, <1>3, <1>4, <1>5, <1>6 DEF Next, Run

LEMMA SimAgreed ==
    ASSUME SimTiming, cycle \in Nat
    PROVE  WindowsAgree
<1>1. ProfileWindow
  BY DEF SimTiming
<1>2. TimerWindow
  <2>1. SUFFICES ASSUME pc = "loop"
                 PROVE  TimerWindow
    BY DEF TimerWindow
  <2>2. TimerPhase /\ TimerCounted /\ TimerProfiled
    BY <2>1 DEF SimTiming
  <2>3. timed.active => device.timerCount = cycle - timed.start /\ timed.samples = device.timerCount
    BY <2>1, <2>2 DEF TimerCounted, SimTiming, SimTypes, TimerRecord
  <2>4. timed.captured =>
            /\ timed.samples = timed.stop - timed.start
            /\ timed.stop = cycle => device.timerCount = timed.samples
    BY <2>2 DEF TimerCounted
  <2>5. timed.captured /\ profile.written /\ opts.start = {} =>
            profile.start = timed.start + 1 /\ profile.stop = timed.stop
    BY <2>2 DEF TimerPhase, TimerProfiled
  <2>6. QED  BY <2>3, <2>4, <2>5 DEF TimerWindow
<1>3. WindowCounts
  <2>1. timed.active => /\ timed.outstanding = Cardinality({r \in inRam : r.timed})
                        /\ timed.requests = timed.completions + timed.outstanding
    BY DEF SimTiming, TimerRequests, OfWindow
  <2>2. profile.active /\ profile.samples > 0 /\ pc = "loop" =>
           profile.base + profile.net + profile.events = IssuedUnfulfilled(dram.table)
    BY DEF SimTiming, ProfileCounted
  <2>3. QED  BY <2>1, <2>2 DEF WindowCounts
<1>4. QED  BY <1>1, <1>2, <1>3 DEF WindowsAgree

\* The three clocks of a workload agree: over every run, interval and window,
\* the memory statistics, the timer and the profile count the same cycles,
\* and the profile's samples account for all that the memory owes.
THEOREM ClocksAgree == Spec => []WindowsAgree
<1>1. Init => SimAnswering /\ SimTiming
  BY SimAssumption, SimInitInv, SimInitTiming
<1>2. SimAnswering /\ SimTiming /\ [Next]_vars => (SimAnswering /\ SimTiming)'
  BY SimAssumption, SimNextInv, SimNextTiming
<1>3. SimAnswering /\ SimTiming => WindowsAgree
  BY SimAgreed DEF SimAnswering
<1>4. QED  BY <1>1, <1>2, <1>3, PTL DEF Spec

----------------------------------------------------------------------------
(* The idle notifier of the simulator                                      *)

\* What the implementation gives for the variables of IdleNotifier.
SimPort == OrNone({f \in {mesh.dram} \ {NoFlit} : IsIdle(f)})
SimPending == OrNone(dram.idle.notifier)
SimReply == OrNone(dram.idle.ret)

LEMMA OrNoneOf == OrNone({}) = NoFlit /\ \A x : OrNone({x}) = x
  BY SimThe DEF OrNone

\* The interface takes the request that is presented, or none.
LEMMA DramTakes ==
    \/ DramTaken = {}
    \/ DramTaken = {mesh.dram} /\ mesh.dram # NoFlit /\ DramCanAccept(dram, mesh.dram)
<1> DEFINE acceptable == {f \in {mesh.dram} \ {NoFlit} : DramCanAccept(dram, f)}
<1>1. DramPort # {} => acceptable # {}
  <2>1. SUFFICES ASSUME NEW p \in DramPort
                 PROVE  acceptable # {}
    OBVIOUS
  <2>2. PICK flits : p \in NocAcceptMultiple(dram.reqArb, flits, acceptable)
    BY DEF DramPort
  <2>3. flits[p] \in acceptable
    BY <2>2 DEF NocAcceptMultiple
  <2>4. QED  BY <2>3
<1>2. CASE DramPort = {}
  BY <1>2 DEF DramTaken
<1>3. CASE DramPort # {}
  BY <1>1, <1>3 DEF DramTaken
<1>4. QED  BY <1>2, <1>3

\* What a step does to the notifier and to what the mesh presents.
LEMMA SimStepNotifier ==
    ASSUME Step
    PROVE  /\ \E sent \in BOOLEAN :
                /\ sent => dram.idle.ret # {}
                /\ dram'.idle = IF InReset THEN ResetIdle
                                ELSE IdleStep(dram.idle, Idle, DramTaken, sent)
           /\ mesh'.dram \in Offers("dram", DramTaken)
           /\ unsent' \subseteq unsent \ {mesh'.dram}
<1>1. PICK sent \in SUBSET Replies, toDram \in Offers("dram", DramTaken),
           toPeriph \in Offers("periph", PeriphTaken) : StepWith(sent, toDram, toPeriph)
  BY DEF Step
<1>2. mesh' = [dram |-> toDram, periph |-> toPeriph] /\ unsent' = unsent \ {toDram, toPeriph}
  BY <1>1 DEF StepWith
<1>3. "dram" \in sent => dram.idle.ret # {}
  BY <1>1 DEF Replies
<1>4. PICK all : /\ all = DramStep(dram, RingIntf(1), busIn.dram, DramPort, DramTaken,
                                       Masks, "dram" \in sent).next
                 /\ dram' = IF InReset THEN [all EXCEPT !.idle = ResetIdle] ELSE all
  BY <1>1 DEF StepWith
<1>5. PICK i : i = IdleStep(dram.idle, Idle, DramTaken, "dram" \in sent)
  OBVIOUS
<1>6. dram'.idle = IF InReset THEN ResetIdle ELSE i
  <2> DEFINE idle == IdleStep(dram.idle,
                        dram.table.allocated = {} /\ QEmpty(dram.bulk.queue)
                           /\ QEmpty(dram.bcst.egress), DramTaken, "dram" \in sent)
  <2>1. PICK domain, table, bulk, bcst, arb, pipes :
            all = [domain |-> domain, table |-> table, idle |-> idle, bulk |-> bulk,
                   bcst |-> bcst, reqArb |-> arb, pipes |-> pipes]
    BY ZenonT(60), <1>4 DEF DramStep
  <2>2. idle = i
    BY <1>5 DEF Idle
  <2> HIDE DEF idle
  <2>3. all.idle = i
    BY <2>1, <2>2
  <2>4. dram'.idle = IF InReset THEN ResetIdle ELSE all.idle
    BY <1>4, <2>1
  <2>5. QED  BY <2>3, <2>4
<1>7. PICK b \in BOOLEAN : b <=> "dram" \in sent
  OBVIOUS
<1>8. i = IdleStep(dram.idle, Idle, DramTaken, b)
  BY <1>5, <1>7
<1>9. mesh'.dram = toDram /\ unsent' \subseteq unsent \ {mesh'.dram}
  BY <1>2
<1>10. QED  BY <1>1, <1>3, <1>6, <1>7, <1>8, <1>9

\* What a step of the notifier does, by what it takes from the mesh.
Handled(i, idleNow, request, sent, r) ==
    /\ r.cycles = IF ~idleNow THEN 0 ELSE IF i.cycles = MaxIdle THEN MaxIdle ELSE i.cycles + 1
    /\ request # {} /\ (\E f \in request : Packet[f].kind = "register") =>
           IF i.notifier = {} THEN r.notifier = request /\ r.ret = {}
           ELSE r.notifier = i.notifier /\ r.ret = {<<The(request), FALSE>>}
    /\ request # {} /\ ~(\E f \in request : Packet[f].kind = "register") =>
           r.notifier = {} /\ r.ret = {<<The(request), i.notifier # {}>>}
    /\ request = {} =>
           IF Fires(i, {}) THEN r.notifier = {} /\ r.ret = {<<The(i.notifier), TRUE>>}
           ELSE r.notifier = i.notifier /\ r.ret = IF sent THEN {} ELSE i.ret

LEMMA IdleCases ==
    ASSUME NEW i, NEW idleNow, NEW flit, NEW sent \in BOOLEAN, sent => i.ret # {},
           NEW request, request = {f \in flit : IsIdle(f)}, request # {} => i.ret = {},
           NEW r, r = IdleStep(i, idleNow, flit, sent)
    PROVE  Handled(i, idleNow, request, sent, r)
<1> DEFINE registers == \E f \in request : Packet[f].kind = "register"
           fires == Fires(i, request)
           reply == IF fires THEN {<<The(i.notifier), TRUE>>}
                    ELSE IF request = {} \/ (registers /\ i.notifier = {}) THEN i.ret
                    ELSE {<<The(request), ~registers /\ i.notifier # {}>>}
<1>1. /\ r.notifier = IF fires \/ (request # {} /\ ~registers) THEN {}
                      ELSE IF registers /\ i.notifier = {} THEN request ELSE i.notifier
      /\ r.ret = IF sent THEN {} ELSE reply
      /\ r.cycles = IF ~idleNow THEN 0 ELSE IF i.cycles = MaxIdle THEN MaxIdle ELSE i.cycles + 1
  BY DEF IdleStep
<1>2. request # {} => ~fires /\ ~sent
  BY DEF Fires
<1>3. fires => ~sent
  BY DEF Fires
<1>4. request = {} => (fires <=> Fires(i, {})) /\ ~registers
  OBVIOUS
<1> HIDE DEF fires
<1>5. ASSUME request # {}, registers
      PROVE  IF i.notifier = {} THEN r.notifier = request /\ r.ret = {}
             ELSE r.notifier = i.notifier /\ r.ret = {<<The(request), FALSE>>}
  BY <1>1, <1>2, <1>5
<1>6. ASSUME request # {}, ~registers
      PROVE  r.notifier = {} /\ r.ret = {<<The(request), i.notifier # {}>>}
  <2>1. (~registers /\ i.notifier # {}) <=> i.notifier # {}
    BY <1>6
  <2>2. reply = {<<The(request), i.notifier # {}>>}
    BY <1>2, <1>6, <2>1
  <2>3. QED  BY <1>1, <1>2, <1>6, <2>2
<1>7. ASSUME request = {}
      PROVE  IF Fires(i, {}) THEN r.notifier = {} /\ r.ret = {<<The(i.notifier), TRUE>>}
             ELSE r.notifier = i.notifier /\ r.ret = IF sent THEN {} ELSE i.ret
  <2>1. ~registers /\ (fires <=> Fires(i, {}))
    BY <1>4, <1>7
  <2>2. CASE fires
    BY <1>1, <1>3, <2>1, <2>2
  <2>3. CASE ~fires
    BY <1>1, <1>7, <2>1, <2>3
  <2>4. QED  BY <2>2, <2>3
<1>8. QED  BY <1>1, <1>5, <1>6, <1>7 DEF Handled

\* A flit is sent once: what the notifier holds or answers was, and nothing
\* happens in the cycles of the reset.
Kept == Flits \ unsent
Registered(i) == i.notifier = {} \/ \E f \in Kept : Packet[f].kind = "register" /\ i.notifier = {f}
Replied(i) == i.ret = {} \/ \E f \in Kept, ok \in BOOLEAN : i.ret = {<<f, ok>>}

NotifierHeld ==
    /\ unsent \subseteq Flits
    /\ mesh.dram \in Kept \cup {NoFlit}
    /\ Registered(dram.idle) /\ Replied(dram.idle)
    /\ InReset => dram.idle = ResetIdle /\ QEmpty(dram.bcst.egress)

\* What the mesh presents after a step.
LEMMA Presents ==
    ASSUME NotifierHeld, Step
    PROVE  /\ unsent' \subseteq unsent
           /\ mesh'.dram = NoFlit \/ mesh'.dram \in Flits \ unsent'
           /\ mesh.dram # NoFlit /\ DramTaken = {} => mesh'.dram = mesh.dram
           /\ mesh.dram = NoFlit \/ DramTaken # {} => mesh'.dram \in unsent \cup {NoFlit}
           /\ InReset /\ mesh.dram = NoFlit => mesh'.dram = NoFlit
<1>1. mesh'.dram \in Offers("dram", DramTaken) /\ unsent' \subseteq unsent \ {mesh'.dram}
  BY SimStepNotifier
<1>2. mesh["dram"] = mesh.dram
  OBVIOUS
<1>3. mesh.dram # NoFlit /\ DramTaken = {} => mesh'.dram = mesh.dram
  BY <1>1, <1>2 DEF Offers
<1>4. mesh.dram = NoFlit \/ DramTaken # {} =>
          /\ mesh'.dram \in unsent \cup {NoFlit}
          /\ InReset => mesh'.dram = NoFlit
  BY <1>1, <1>2 DEF Offers
<1>5. unsent \subseteq Flits /\ mesh.dram \in (Flits \ unsent) \cup {NoFlit}
  BY DEF NotifierHeld, Kept
<1>6. mesh'.dram = NoFlit \/ mesh'.dram \in Flits \ unsent'
  <2>1. CASE mesh.dram # NoFlit /\ DramTaken = {}
    BY <1>1, <1>3, <1>5, <2>1
  <2>2. CASE mesh.dram = NoFlit \/ DramTaken # {}
    BY <1>1, <1>4, <1>5, <2>2
  <2>3. QED  BY <2>1, <2>2
<1>7. QED  BY <1>1, <1>3, <1>4, <1>6

\* The request that the notifier takes in a step, if any.
Asked == {f \in DramTaken : IsIdle(f)}

LEMMA Asks ==
    ASSUME NotifierHeld
    PROVE  /\ Asked = {} \/ Asked = {mesh.dram}
           /\ Asked # {} => /\ mesh.dram \in Kept /\ mesh.dram # NoFlit /\ IsIdle(mesh.dram)
                            /\ dram.idle.ret = {} /\ DramTaken # {}
<1>1. \A f : IsIdle(f) => ~IsBulk(f) /\ ~IsScalar(f)
  BY DEF IsIdle, IsBulk, IsScalar
<1>2. \A f : IsIdle(f) /\ DramCanAccept(dram, f) => dram.idle.ret = {}
  BY <1>1 DEF DramCanAccept, NocCanAccept
<1>3. QED  BY <1>2, DramTakes DEF Asked, NotifierHeld

\* No broadcast leaves the table in the cycles of the reset.
LEMMA StepEgress ==
    ASSUME SimAnswering, Step, InReset, QEmpty(dram.bcst.egress)
    PROVE  QEmpty(dram'.bcst.egress)
<1>1. PICK sent, toDram, toPeriph : StepWith(sent, toDram, toPeriph)
  BY DEF Step
<1>2. PICK all : /\ all = DramStep(dram, RingIntf(1), busIn.dram, DramPort, DramTaken,
                                   Masks, "dram" \in sent).next
                 /\ dram' = IF InReset THEN [all EXCEPT !.idle = ResetIdle] ELSE all
  BY <1>1 DEF StepWith
<1>3. ReturnSlot(dram.table, TRUE) = {}
  <2>1. Shape(dram.table, MshrCount) /\ Flags(dram.table, MshrCount) /\ dram.table.allocated = {}
    BY DEF SimAnswering, SimTables, SimQuiet
  <2>2. MshrCount \in Nat \ {0}
    BY SimAssumption DEF Built
  <2>3. ReturnSlot(dram.table, TRUE) \subseteq dram.table.fulfilled
    BY <2>1, <2>2, SimChoices
  <2>4. QED  BY <2>1, <2>3 DEF Flags
<1>4. PICK b : b = BcstStep(dram.bcst, Lowest(dram.domain), Masks, {})
  OBVIOUS
<1>5. all.bcst = b
  <2> DEFINE eject == IF QFull(dram.bcst.egress) THEN {} ELSE ReturnSlot(dram.table, TRUE)
             bcst == BcstStep(dram.bcst, Lowest(dram.domain), Masks, {MshrBroadcast(dram.table, s) : s \in eject})
  <2>1. PICK domain, table, bulk, idle, arb, pipes :
            all = [domain |-> domain, table |-> table, idle |-> idle, bulk |-> bulk,
                   bcst |-> bcst, reqArb |-> arb, pipes |-> pipes]
    BY ZenonT(60), <1>2 DEF DramStep
  <2>2. eject = {}
    BY <1>3
  <2>3. {MshrBroadcast(dram.table, s) : s \in eject} = {}
    BY <2>2
  <2>4. bcst = b
    BY <1>4, <2>3
  <2> HIDE DEF bcst
  <2>5. all.bcst = bcst
    BY <2>1
  <2>6. QED  BY <2>4, <2>5
<1>6. dram'.bcst = all.bcst
  <2>1. PICK domain, table, idle, bulk, bcst, arb, pipes :
            all = [domain |-> domain, table |-> table, idle |-> idle, bulk |-> bulk,
                   bcst |-> bcst, reqArb |-> arb, pipes |-> pipes]
    BY ZenonT(60), <1>2 DEF DramStep
  <2>2. QED  BY <1>2, <2>1
<1>7. b.egress = dram.bcst.egress
  BY <1>4 DEF BcstStep
<1>8. QED  BY <1>5, <1>6, <1>7

LEMMA NotifierSettled ==
    ASSUME NotifierHeld, Step, ~InReset
    PROVE  Registered(dram.idle)' /\ Replied(dram.idle)'
<1>1. PICK sent \in BOOLEAN :
          /\ sent => dram.idle.ret # {}
          /\ dram'.idle = IdleStep(dram.idle, Idle, DramTaken, sent)
  BY SimStepNotifier
<1>2. PICK i, r : i = dram.idle /\ r = dram'.idle
  OBVIOUS
<1>3. Kept \subseteq Kept'
  BY Presents DEF Kept, Flits
<1>4. Registered(i) /\ Replied(i)
  BY <1>2 DEF NotifierHeld
<1>5. Handled(i, Idle, Asked, sent, r)
  <2>1. PICK flit, request, idleNow : flit = DramTaken /\ request = Asked /\ idleNow = Idle
    OBVIOUS
  <2>2. request = {f \in flit : IsIdle(f)}
    BY <2>1 DEF Asked
  <2>3. (request # {} => i.ret = {}) /\ (sent => i.ret # {})
    BY <1>1, <1>2, <2>1, Asks
  <2>4. r = IdleStep(i, idleNow, flit, sent)
    BY <1>1, <1>2, <2>1
  <2>5. Handled(i, idleNow, request, sent, r)
    BY <2>2, <2>3, <2>4, IdleCases
  <2>6. QED  BY <2>1, <2>5
<1>6. Registered(r) /\ Replied(r)
  <2>1. CASE Asked # {}
    <3>1. Asked = {mesh.dram} /\ mesh.dram \in Kept
      BY <2>1, Asks
    <3>2. The(Asked) = mesh.dram
      BY <3>1, SimThe
    <3>3. CASE Packet[mesh.dram].kind = "register"
      BY <1>4, <1>5, <3>1, <3>2, <3>3 DEF Registered, Replied, Handled
    <3>4. CASE Packet[mesh.dram].kind # "register"
      <4>1. r.notifier = {} /\ r.ret = {<<mesh.dram, i.notifier # {}>>}
        BY <1>5, <3>1, <3>2, <3>4 DEF Handled
      <4>2. PICK ok \in BOOLEAN : ok <=> i.notifier # {}
        OBVIOUS
      <4>3. r.ret = {<<mesh.dram, ok>>}
        BY <4>1, <4>2
      <4>4. QED  BY <3>1, <4>1, <4>3 DEF Registered, Replied
    <3>5. QED  BY <3>3, <3>4
  <2>2. CASE Asked = {} /\ Fires(i, {})
    <3>1. r.notifier = {} /\ r.ret = {<<The(i.notifier), TRUE>>}
      BY <1>5, <2>2 DEF Handled
    <3>2. PICK f \in Kept : i.notifier = {f}
      BY <1>4, <2>2 DEF Fires, Registered
    <3>3. The(i.notifier) = f
      BY <3>2, SimThe
    <3>4. QED  BY <3>1, <3>2, <3>3 DEF Registered, Replied
  <2>3. CASE Asked = {} /\ ~Fires(i, {})
    <3>1. r.notifier = i.notifier /\ (r.ret = {} \/ r.ret = i.ret)
      BY <1>5, <2>3 DEF Handled
    <3>2. QED  BY <1>4, <3>1 DEF Registered, Replied
  <2>4. QED  BY <2>1, <2>2, <2>3
<1>7. (r.notifier = {} \/ \E f \in Kept' : Packet[f].kind = "register" /\ r.notifier = {f})
      /\ (r.ret = {} \/ \E f \in Kept', ok \in BOOLEAN : r.ret = {<<f, ok>>})
  BY <1>3, <1>6 DEF Registered, Replied
<1>8. QED  BY <1>2, <1>7 DEF Registered, Replied

\* NotifierHeld is inductive.
LEMMA NotifierNext ==
    ASSUME SimAnswering, NotifierHeld, [Next]_vars
    PROVE  NotifierHeld'
<1>1. CASE Step
  <2>1. unsent' \subseteq Flits' /\ mesh'.dram \in (Flits \ unsent)' \cup {NoFlit}
    BY <1>1, Presents DEF NotifierHeld, Flits
  <2>2. InReset' <=> InReset
    BY <1>1 DEF Step, InReset
  <2>3. CASE InReset
    <3>1. dram'.idle = ResetIdle
      BY <1>1, <2>3, SimStepNotifier
    <3>2. QEmpty(dram'.bcst.egress)
      BY <1>1, <2>3, StepEgress DEF NotifierHeld
    <3>3. Registered(dram.idle)' /\ Replied(dram.idle)'
      BY <3>1 DEF Registered, Replied, ResetIdle
    <3>4. QED  BY <2>1, <3>1, <3>2, <3>3 DEF NotifierHeld, Kept
  <2>4. CASE ~InReset
    <3>1. Registered(dram.idle)' /\ Replied(dram.idle)'
      BY <1>1, <2>4, NotifierSettled
    <3>2. QED  BY <2>1, <2>2, <2>4, <3>1 DEF NotifierHeld, Kept
  <2>5. QED  BY <2>3, <2>4
<1>2. CASE Loop \/ Serve \/ GiveUp \/ Interrupt \/ UNCHANGED vars
  <2>1. UNCHANGED <<dram, mesh, unsent>> /\ (cycle' = cycle \/ cycle' = cycle + 1)
    BY <1>2 DEF Loop, Serve, GiveUp, Interrupt, End, vars, frontend, backend
  <2>2. InReset' => InReset
    BY <2>1, SimAssumption DEF InReset, SimAnswering, Built
  <2>3. QED  BY <2>1, <2>2 DEF NotifierHeld, Kept, Registered, Replied, Flits
<1>3. QED  BY <1>1, <1>2 DEF Next, Run

LEMMA NotifierInit ==
    ASSUME Init
    PROVE  NotifierHeld /\ Notifier!Init
<1>1. unsent = opts.flits /\ opts \in CommandLines /\ mesh = [dram |-> NoFlit, periph |-> NoFlit]
  BY DEF Init
<1>2. PICK d : d = NewDram(Domain[1], Domain[2]) /\ dram = d
  BY DEF Init
<1>3. /\ d.idle = ResetIdle /\ d.table.allocated = {}
      /\ d.bulk.queue = FixedLenQueue(BulkDepth) /\ d.bcst.egress = FixedLenQueue(2)
  BY <1>2 DEF NewDram, NewTable, NewBulk, NewBcst
<1>4. \A n : QEmpty(FixedLenQueue(n))
  BY DEF QEmpty, FixedLenQueue
<1>5. NotifierHeld
  <2>1. unsent \subseteq Flits
    BY <1>1 DEF Flits
  <2>2. Registered(dram.idle) /\ Replied(dram.idle)
    BY <1>2, <1>3 DEF Registered, Replied, ResetIdle
  <2>3. QED  BY <1>1, <1>2, <1>3, <1>4, <2>1, <2>2 DEF NotifierHeld
<1>6. Idle
  BY <1>2, <1>3, <1>4 DEF Idle
<1>7. {f \in {mesh.dram} \ {NoFlit} : IsIdle(f)} = {}
  BY <1>1
<1>8. dram.idle.cycles = 0 /\ dram.idle.notifier = {} /\ dram.idle.ret = {}
  BY <1>2, <1>3 DEF ResetIdle
<1>9. Notifier!Init
  BY <1>6, <1>7, <1>8, OrNoneOf DEF Notifier!Init
<1>10. QED  BY <1>5, <1>9

\* A step in the cycles of the reset, and every other phase, leaves the
\* notifier as it is.
LEMMA NotifierStill ==
    ASSUME SimAnswering, NotifierHeld,
           (Step /\ InReset) \/ Loop \/ Serve \/ GiveUp \/ Interrupt \/ UNCHANGED vars
    PROVE  UNCHANGED Notifier!vars
<1>1. CASE Step /\ InReset
  <2>1. dram'.idle = ResetIdle /\ dram.idle = ResetIdle
    BY <1>1, SimStepNotifier DEF NotifierHeld
  <2>2. mesh.dram = NoFlit
    BY <1>1 DEF SimAnswering, SimQuiet
  <2>3. mesh'.dram = NoFlit
    BY <1>1, <2>2, Presents
  <2>4. Idle
    BY <1>1 DEF SimAnswering, SimQuiet, NotifierHeld, Idle
  <2>5. Idle'
    <3>1. MshrCount \in Nat \ {0} /\ PeriphInflight \in Nat \ {0}
      BY SimAssumption DEF Built
    <3>2. dram'.table.allocated = {} /\ QEmpty(dram'.bulk.queue)
      BY <1>1, <3>1, SimStepDram
    <3>3. QEmpty(dram'.bcst.egress)
      BY <1>1, StepEgress DEF NotifierHeld
    <3>4. QED  BY <3>2, <3>3 DEF Idle
  <2>6. QED  BY <2>1, <2>2, <2>3, <2>4, <2>5 DEF Notifier!vars
<1>2. CASE Loop \/ Serve \/ GiveUp \/ Interrupt \/ UNCHANGED vars
  <2>1. UNCHANGED <<dram, mesh>>
    BY <1>2 DEF Loop, Serve, GiveUp, Interrupt, End, vars, frontend, backend
  <2>2. QED  BY <2>1 DEF Notifier!vars, Idle
<1>3. QED  BY <1>1, <1>2

\* The notifier's options, and the null pointer for none.
LEMMA OptionsOf ==
    ASSUME NEW K \in SUBSET Flits, NEW i,
           i.notifier = {} \/ \E f \in K : Packet[f].kind = "register" /\ i.notifier = {f},
           i.ret = {} \/ \E f \in K, ok \in BOOLEAN : i.ret = {<<f, ok>>}
    PROVE  /\ i.notifier = {} => OrNone(i.notifier) = NoFlit
           /\ i.notifier # {} => /\ i.notifier = {OrNone(i.notifier)} /\ The(i.notifier) = OrNone(i.notifier)
                                 /\ OrNone(i.notifier) \in K /\ OrNone(i.notifier) # NoFlit
                                 /\ Packet[OrNone(i.notifier)].kind = "register"
           /\ i.ret = {} => OrNone(i.ret) = NoFlit
           /\ i.ret # {} => /\ i.ret = {OrNone(i.ret)} /\ OrNone(i.ret) # NoFlit
                            /\ \E f \in K, ok \in BOOLEAN : OrNone(i.ret) = <<f, ok>>
<1>1. NoFlit \notin Flits /\ \A f \in Flits, ok \in BOOLEAN : NoFlit # <<f, ok>>
  BY NotifierAssumption DEF Notifying
<1>2. ASSUME i.notifier # {}
      PROVE  /\ i.notifier = {OrNone(i.notifier)} /\ The(i.notifier) = OrNone(i.notifier)
             /\ OrNone(i.notifier) \in K /\ OrNone(i.notifier) # NoFlit
             /\ Packet[OrNone(i.notifier)].kind = "register"
  <2>1. PICK f \in K : Packet[f].kind = "register" /\ i.notifier = {f}
    BY <1>2
  <2>2. OrNone(i.notifier) = f /\ The(i.notifier) = f
    BY <2>1, OrNoneOf, SimThe
  <2>3. QED  BY <1>1, <2>1, <2>2
<1>3. ASSUME i.ret # {}
      PROVE  /\ i.ret = {OrNone(i.ret)} /\ OrNone(i.ret) # NoFlit
             /\ \E f \in K, ok \in BOOLEAN : OrNone(i.ret) = <<f, ok>>
  <2>1. PICK f \in K, ok \in BOOLEAN : i.ret = {<<f, ok>>}
    BY <1>3
  <2>2. OrNone(i.ret) = <<f, ok>>
    BY <2>1, OrNoneOf
  <2>3. QED  BY <1>1, <2>1, <2>2
<1>4. QED  BY <1>2, <1>3, OrNoneOf

\* The request that the mesh presents to the notifier, if any.
LEMMA PortOf ==
    /\ IsIdle(mesh.dram) /\ mesh.dram # NoFlit => SimPort = mesh.dram
    /\ ~IsIdle(mesh.dram) \/ mesh.dram = NoFlit => SimPort = NoFlit
    /\ IsIdle(mesh'.dram) /\ mesh'.dram # NoFlit => SimPort' = mesh'.dram
    /\ ~IsIdle(mesh'.dram) \/ mesh'.dram = NoFlit => SimPort' = NoFlit
<1>1. \A x : IsIdle(x) /\ x # NoFlit => {f \in {x} \ {NoFlit} : IsIdle(f)} = {x}
  OBVIOUS
<1>2. \A x : ~IsIdle(x) \/ x = NoFlit => {f \in {x} \ {NoFlit} : IsIdle(f)} = {}
  OBVIOUS
<1>3. SimPort' = OrNone({f \in {mesh'.dram} \ {NoFlit} : IsIdle(f)})
  BY DEF SimPort, OrNone, The
<1>4. QED  BY <1>1, <1>2, <1>3, OrNoneOf DEF SimPort

\* The request that comes to the port of the notifier was not under way.
LEMMA Arrives ==
    ASSUME NotifierHeld, Step, SimPort = NoFlit \/ Asked # {}
    PROVE  SimPort' \in Notifier!Absent \cup {NoFlit}
<1>1. SUFFICES ASSUME SimPort' # NoFlit
               PROVE  SimPort' \in Notifier!Absent
  OBVIOUS
<1>2. PICK f : f = mesh'.dram /\ SimPort' = f /\ IsIdle(f) /\ f # NoFlit
  BY <1>1, PortOf
<1>3. f \in unsent /\ f \in Flits
  <2>1. mesh.dram = NoFlit \/ DramTaken # {}
    <3>1. CASE Asked # {}
      BY <3>1, Asks
    <3>2. CASE SimPort = NoFlit /\ mesh.dram # NoFlit /\ DramTaken = {}
      <4>1. f = mesh.dram
        BY <1>2, <3>2, Presents
      <4>2. QED  BY <1>2, <3>2, <4>1, PortOf
    <3>3. QED  BY <3>1, <3>2
  <2>2. QED  BY <1>2, <2>1, Presents DEF NotifierHeld
<1>4. f # SimPort
  BY <1>2, <1>3, PortOf DEF NotifierHeld, Kept
<1>5. PICK i : i = dram.idle
  OBVIOUS
<1>6. Kept \in SUBSET Flits /\ f \notin Kept /\ NoFlit \notin Flits
  BY <1>3, NotifierAssumption DEF Kept, Notifying
<1>7. /\ i.notifier = {} \/ \E g \in Kept : Packet[g].kind = "register" /\ i.notifier = {g}
      /\ i.ret = {} \/ \E g \in Kept, ok \in BOOLEAN : i.ret = {<<g, ok>>}
  BY <1>5 DEF NotifierHeld, Registered, Replied
<1>8. f # OrNone(i.notifier)
  <2>1. CASE i.notifier = {}
    BY <1>2, <2>1, OrNoneOf
  <2>2. CASE i.notifier # {}
    <3>1. PICK g \in Kept : i.notifier = {g}
      BY <1>7, <2>2
    <3>2. QED  BY <1>6, <3>1, OrNoneOf
  <2>3. QED  BY <2>1, <2>2
<1>9. \A ok \in BOOLEAN : <<f, ok>> # OrNone(i.ret)
  <2>1. CASE i.ret = {}
    BY <1>3, <2>1, OrNoneOf, NotifierAssumption DEF Notifying
  <2>2. CASE i.ret # {}
    <3>1. PICK g \in Kept, ok \in BOOLEAN : OrNone(i.ret) = <<g, ok>>
      BY <1>6, <1>7, <2>2, OptionsOf
    <3>2. QED  BY <1>6, <3>1
  <2>3. QED  BY <2>1, <2>2
<1>10. f \in {g \in Flits : IsIdle(g)}
  BY <1>2, <1>3
<1>11. QED  BY <1>2, <1>4, <1>5, <1>8, <1>9, <1>10 DEF Notifier!Absent, SimPort

\* A cycle of the simulator's notifier is one of the hardware's.
LEMMA NotifierCycles ==
    ASSUME SimAnswering, NotifierHeld, Step, ~InReset
    PROVE  Notifier!Next
<1>1. PICK sent \in BOOLEAN :
          /\ sent => dram.idle.ret # {}
          /\ dram'.idle = IdleStep(dram.idle, Idle, DramTaken, sent)
  BY SimStepNotifier
<1>2. PICK i, r, n, b, n2, b2 :
          /\ i = dram.idle /\ n = OrNone(i.notifier) /\ b = OrNone(i.ret)
          /\ r = dram'.idle /\ n2 = OrNone(r.notifier) /\ b2 = OrNone(r.ret)
  OBVIOUS
<1>3. Handled(i, Idle, Asked, sent, r)
  <2>1. PICK flit, request, idleNow : flit = DramTaken /\ request = Asked /\ idleNow = Idle
    OBVIOUS
  <2>2. request = {f \in flit : IsIdle(f)}
    BY <2>1 DEF Asked
  <2>3. (request # {} => i.ret = {}) /\ (sent => i.ret # {})
    BY <1>1, <1>2, <2>1, Asks
  <2>4. r = IdleStep(i, idleNow, flit, sent)
    BY <1>1, <1>2, <2>1
  <2>5. Handled(i, idleNow, request, sent, r)
    BY <2>2, <2>3, <2>4, IdleCases
  <2>6. QED  BY <2>1, <2>5
<1>4. /\ Kept \in SUBSET Flits
      /\ i.notifier = {} \/ \E f \in Kept : Packet[f].kind = "register" /\ i.notifier = {f}
      /\ i.ret = {} \/ \E f \in Kept, ok \in BOOLEAN : i.ret = {<<f, ok>>}
  BY <1>2 DEF NotifierHeld, Registered, Replied, Kept
<1>5. /\ i.notifier = {} <=> n = NoFlit
      /\ i.notifier # {} => i.notifier = {n} /\ The(i.notifier) = n /\ n \in Flits
      /\ i.ret = {} <=> b = NoFlit
      /\ i.ret # {} => i.ret = {b}
  BY <1>2, <1>4, OptionsOf
<1>6. \A x : (r.notifier = {} => n2 = NoFlit) /\ (r.notifier = {x} => n2 = x)
             /\ (r.ret = {} => b2 = NoFlit) /\ (r.ret = {x} => b2 = x)
  BY <1>2, OrNoneOf
<1>7. PICK presented \in BOOLEAN : presented <=> Asked # {}
  OBVIOUS
<1>8. PICK p : p = SimPort
  OBVIOUS
<1>9. presented => /\ Asked = {p} /\ The(Asked) = p /\ p # NoFlit /\ p \in Flits
                   /\ i.ret = {} /\ b = NoFlit /\ ~sent
  <2>1. SUFFICES ASSUME Asked # {}
                 PROVE  /\ Asked = {p} /\ The(Asked) = p /\ p # NoFlit /\ p \in Flits
                        /\ i.ret = {} /\ b = NoFlit /\ ~sent
    BY <1>7
  <2>2. Asked = {mesh.dram} /\ mesh.dram # NoFlit /\ IsIdle(mesh.dram) /\ mesh.dram \in Flits /\ i.ret = {}
    BY <1>2, <2>1, Asks DEF Kept
  <2>3. p = mesh.dram
    BY <1>8, <2>2, PortOf
  <2>4. QED  BY <1>1, <1>2, <1>5, <2>2, <2>3, SimThe
<1>10. Fires(i, {}) <=> n # NoFlit /\ b = NoFlit /\ i.cycles > Packet[n].gate
  BY <1>5 DEF Fires, Elapsed
<1> DEFINE Registers == {f \in Flits : Packet[f].kind = "register"}
<1>11. n2 = IF presented /\ p # NoFlit /\ b = NoFlit
            THEN IF p \notin Registers THEN NoFlit ELSE IF n = NoFlit THEN p ELSE n
            ELSE IF Fires(i, {}) /\ ~presented THEN NoFlit ELSE n
  <2>1. CASE presented
    <3>1. CASE Packet[p].kind = "register"
      BY <1>3, <1>5, <1>6, <1>7, <1>9, <2>1, <3>1 DEF Handled
    <3>2. CASE Packet[p].kind # "register"
      BY <1>3, <1>5, <1>6, <1>7, <1>9, <2>1, <3>2 DEF Handled
    <3>3. QED  BY <3>1, <3>2
  <2>2. CASE ~presented
    <3>1. IF Fires(i, {}) THEN r.notifier = {} ELSE r.notifier = i.notifier
      BY <1>3, <1>7, <2>2 DEF Handled
    <3>2. QED  BY <1>5, <1>6, <2>2, <3>1
  <2>3. QED  BY <2>1, <2>2
<1>12. b2 = IF presented /\ p # NoFlit /\ b = NoFlit /\ (p \notin Registers \/ n # NoFlit)
            THEN <<p, p \notin Registers /\ n # NoFlit>>
            ELSE IF Fires(i, {}) /\ ~presented THEN <<n, TRUE>> ELSE IF sent THEN NoFlit ELSE b
  <2>1. CASE presented
    <3>1. CASE Packet[p].kind = "register"
      <4>1. IF i.notifier = {} THEN r.ret = {} ELSE r.ret = {<<p, FALSE>>}
        BY <1>3, <1>7, <1>9, <2>1, <3>1 DEF Handled
      <4>2. p \in Registers
        BY <1>9, <2>1, <3>1
      <4>3. IF n = NoFlit THEN b2 = NoFlit ELSE b2 = <<p, FALSE>>
        BY <1>5, <1>6, <4>1
      <4>4. QED  BY <1>9, <2>1, <4>2, <4>3
    <3>2. CASE Packet[p].kind # "register"
      <4>1. r.ret = {<<p, i.notifier # {}>>}
        BY <1>3, <1>7, <1>9, <2>1, <3>2 DEF Handled
      <4>2. p \notin Registers
        BY <3>2
      <4>3. b2 = <<p, i.notifier # {}>>
        BY <1>6, <4>1
      <4>4. (i.notifier # {}) = (p \notin Registers /\ n # NoFlit)
        BY <1>5, <4>2
      <4>5. QED  BY <1>9, <2>1, <4>2, <4>3, <4>4
    <3>3. QED  BY <3>1, <3>2
  <2>2. CASE ~presented
    <3>1. IF Fires(i, {}) THEN r.ret = {<<n, TRUE>>} ELSE r.ret = IF sent THEN {} ELSE i.ret
      BY <1>3, <1>5, <1>7, <2>2 DEF Handled, Fires
    <3>2. QED  BY <1>5, <1>6, <2>2, <3>1
  <2>3. QED  BY <2>1, <2>2
<1>13. PICK arrive : arrive = IF p = NoFlit \/ presented THEN SimPort' ELSE NoFlit
  OBVIOUS
<1>14. arrive \in Notifier!Absent \cup {NoFlit}
  BY <1>7, <1>8, <1>13, Arrives
<1>15. SimPort' = IF p = NoFlit \/ (presented /\ p # NoFlit /\ b = NoFlit) THEN arrive ELSE p
  <2>1. CASE p = NoFlit \/ presented
    BY <1>9, <1>13, <2>1
  <2>2. CASE p # NoFlit /\ ~presented
    <3>1. mesh.dram = p /\ IsIdle(mesh.dram) /\ mesh.dram # NoFlit
      BY <1>8, <2>2, PortOf
    <3>2. DramTaken = {}
      BY <1>7, <2>2, <3>1, DramTakes DEF Asked
    <3>3. mesh'.dram = mesh.dram
      BY <3>1, <3>2, Presents
    <3>4. QED  BY <2>2, <3>1, <3>3, PortOf
  <2>3. QED  BY <2>1, <2>2
<1>16. PICK quiet \in BOOLEAN : quiet = Idle'
  BY DEF Idle
<1>17. r.cycles = IF ~Idle THEN 0 ELSE IF i.cycles = MaxIdle THEN MaxIdle ELSE i.cycles + 1
  BY <1>3 DEF Handled
<1>18. (presented => p # NoFlit) /\ (sent => b # NoFlit)
  BY <1>1, <1>2, <1>5, <1>9
<1>19. PICK g : g = [f \in Flits |-> Packet[f].gate]
  OBVIOUS
<1>20. n # NoFlit => g[n] = Packet[n].gate
  BY <1>5, <1>19
<1>21. Notifier!Cycle(arrive, presented, sent, quiet)
  <2>1. Notifier!Accepts <=> p # NoFlit /\ b = NoFlit
    BY <1>2, <1>8 DEF Notifier!Accepts, SimPort
  <2>2. Notifier!Fires(presented) <=> Fires(i, {}) /\ ~presented
    BY <1>2, <1>10, <1>19, <1>20 DEF Notifier!Fires, Notifier!Elapsed
  <2>3. n2 = Notifier!NotifierNext(presented)
    BY <1>2, <1>8, <1>11, <2>1, <2>2 DEF Notifier!NotifierNext, SimPort
  <2>4. b2 = Notifier!ReturnNext(presented, sent)
    BY <1>2, <1>8, <1>12, <2>1, <2>2 DEF Notifier!ReturnNext, SimPort
  <2>5. r.cycles = Notifier!CyclesNext
    BY <1>2, <1>17 DEF Notifier!CyclesNext
  <2>6. n2 = OrNone(dram.idle.notifier)' /\ b2 = OrNone(dram.idle.ret)'
    BY <1>2 DEF OrNone, The
  <2>7. QED
    BY <1>2, <1>8, <1>15, <1>16, <1>18, <2>1, <2>3, <2>4, <2>5, <2>6 DEF Notifier!Cycle, SimPort
<1>22. QED  BY <1>14, <1>21 DEF Notifier!Next

\* The counter never exceeds its limit, and a registration that is pending
\* has not been notified.
NotifierTold ==
    /\ dram.idle.cycles \in 0 .. MaxIdle
    /\ SimPending # NoFlit => SimReply # <<SimPending, TRUE>>

\* A cycle of the hardware's notifier is a step of the service, and fires no
\* registration whose gate is the limit of the counter.
LEMMA NotifierServes ==
    ASSUME NotifierHeld, NotifierTold, Notifier!Next
    PROVE  /\ NotifierTold'
           /\ [Notifier!Service!Next]_(Notifier!Service!vars)
           /\ \A r \in {f \in Flits : Packet[f].kind = "register"} :
                 [f \in Flits |-> Packet[f].gate][r] = MaxIdle /\ SimPending = r
                     => SimReply' # <<r, TRUE>>
<1> DEFINE Registers == {f \in Flits : Packet[f].kind = "register"}
           Requests == {f \in Flits : IsIdle(f)}
           gate == [f \in Flits |-> Packet[f].gate]
           Answers(b) == IF b = NoFlit THEN {} ELSE {b}
<1>1. PICK arrive \in Notifier!Absent \cup {NoFlit}, presented \in BOOLEAN,
           sent \in BOOLEAN, quiet \in BOOLEAN :
          Notifier!Cycle(arrive, presented, sent, quiet)
  BY DEF Notifier!Next
<1>2. PICK p, n, b, c, n2, b2, c2 :
          /\ p = SimPort /\ n = SimPending /\ b = SimReply /\ c = dram.idle.cycles
          /\ n2 = SimPending' /\ b2 = SimReply' /\ c2 = dram'.idle.cycles
  OBVIOUS
<1>3. MaxIdle \in Nat /\ NoFlit \notin Flits /\ \A f \in Flits, ok \in BOOLEAN : NoFlit # <<f, ok>>
  BY NotifierAssumption DEF Notifying
<1>4. /\ n = NoFlit \/ n \in Registers
      /\ b = NoFlit \/ \E f \in Flits, ok \in BOOLEAN : b = <<f, ok>>
  <2>1. PICK i : i = dram.idle
    OBVIOUS
  <2>2. /\ i.notifier = {} \/ \E f \in Kept : Packet[f].kind = "register" /\ i.notifier = {f}
        /\ i.ret = {} \/ \E f \in Kept, ok \in BOOLEAN : i.ret = {<<f, ok>>}
    BY <2>1 DEF NotifierHeld, Registered, Replied
  <2>3. n = OrNone(i.notifier) /\ b = OrNone(i.ret)
    BY <1>2, <2>1 DEF SimPending, SimReply
  <2>4. Kept \in SUBSET Flits
    BY DEF Kept
  <2>5. /\ i.notifier = {} => OrNone(i.notifier) = NoFlit
        /\ i.notifier # {} => /\ OrNone(i.notifier) \in Kept
                              /\ Packet[OrNone(i.notifier)].kind = "register"
        /\ i.ret = {} => OrNone(i.ret) = NoFlit
        /\ i.ret # {} => \E f \in Kept, ok \in BOOLEAN : OrNone(i.ret) = <<f, ok>>
    BY <2>2, <2>4, OptionsOf
  <2>6. n = NoFlit \/ n \in Registers
    BY <2>3, <2>4, <2>5
  <2>7. b = NoFlit \/ \E f \in Flits, ok \in BOOLEAN : b = <<f, ok>>
    BY <2>3, <2>4, <2>5
  <2>8. QED  BY <2>6, <2>7
<1>5. p = NoFlit \/ p \in Requests
  BY <1>2, PortOf DEF NotifierHeld, Kept
<1>6. Registers \subseteq Requests
  BY DEF IsIdle
<1>7. PICK accepts, fires :
          /\ accepts <=> presented /\ p # NoFlit /\ b = NoFlit
          /\ fires <=> n # NoFlit /\ b = NoFlit /\ c > gate[n] /\ ~presented
  OBVIOUS
<1>8. /\ n2 = IF accepts THEN IF p \notin Registers THEN NoFlit ELSE IF n = NoFlit THEN p ELSE n
              ELSE IF fires THEN NoFlit ELSE n
      /\ b2 = IF accepts /\ (p \notin Registers \/ n # NoFlit) THEN <<p, p \notin Registers /\ n # NoFlit>>
              ELSE IF fires THEN <<n, TRUE>> ELSE IF sent THEN NoFlit ELSE b
      /\ c2 = IF ~Idle THEN 0 ELSE IF c = MaxIdle THEN MaxIdle ELSE c + 1
      /\ presented => p # NoFlit
      /\ sent => b # NoFlit
  <2>1. Notifier!Accepts <=> p # NoFlit /\ b = NoFlit
    BY <1>2 DEF Notifier!Accepts, SimPort, SimReply
  <2>2. Notifier!Fires(presented) <=> fires
    BY <1>2, <1>7 DEF Notifier!Fires, Notifier!Elapsed, SimPending, SimReply
  <2>3. n2 = Notifier!NotifierNext(presented) /\ b2 = Notifier!ReturnNext(presented, sent)
    BY <1>1, <1>2 DEF Notifier!Cycle, SimPending, SimReply
  <2>4. c2 = Notifier!CyclesNext
    BY <1>1, <1>2 DEF Notifier!Cycle
  <2>5. (presented => p # NoFlit) /\ (sent => b # NoFlit)
    BY <1>1, <1>2 DEF Notifier!Cycle, SimPort, SimReply
  <2>6. n2 = IF accepts THEN IF p \notin Registers THEN NoFlit ELSE IF n = NoFlit THEN p ELSE n
             ELSE IF fires THEN NoFlit ELSE n
    BY <1>2, <1>7, <2>1, <2>2, <2>3 DEF Notifier!NotifierNext, SimPort, SimPending
  <2>7. b2 = IF accepts /\ (p \notin Registers \/ n # NoFlit) THEN <<p, p \notin Registers /\ n # NoFlit>>
             ELSE IF fires THEN <<n, TRUE>> ELSE IF sent THEN NoFlit ELSE b
    BY <1>2, <1>7, <2>1, <2>2, <2>3 DEF Notifier!ReturnNext, SimPort, SimPending, SimReply
  <2>8. QED  BY <1>2, <2>4, <2>5, <2>6, <2>7 DEF Notifier!CyclesNext
<1>9. c \in 0 .. MaxIdle /\ (n # NoFlit => b # <<n, TRUE>>)
  BY <1>2 DEF NotifierTold
<1>10. c2 \in 0 .. MaxIdle
  BY <1>3, <1>8, <1>9
<1>11. n2 # NoFlit => b2 # <<n2, TRUE>>
  BY <1>3, <1>4, <1>5, <1>7, <1>8, <1>9
<1>12. ASSUME NEW r \in Registers, gate[r] = MaxIdle, n = r
       PROVE  b2 # <<r, TRUE>>
  <2>1. ~fires
    BY <1>3, <1>7, <1>9, <1>12
  <2>2. r # NoFlit
    BY <1>3, <1>12
  <2>3. CASE accepts
    BY <1>7, <1>8, <1>12, <2>2, <2>3
  <2>4. CASE ~accepts
    BY <1>3, <1>8, <1>9, <1>12, <2>1, <2>2, <2>4
  <2>5. QED  BY <2>3, <2>4
<1>13. /\ Notifier!Service!Next <=>
           \/ \E r \in Requests :
                \/ /\ r \in Registers
                   /\ IF n = NoFlit THEN n2 = r /\ Answers(b2) = Answers(b)
                      ELSE Answers(b2) = Answers(b) \cup {<<r, FALSE>>} /\ n2 = n
                \/ /\ r \notin Registers /\ n2 = NoFlit
                   /\ Answers(b2) = Answers(b) \cup {<<r, n # NoFlit>>}
           \/ /\ n # NoFlit /\ n2 = NoFlit
              /\ Answers(b2) = Answers(b) \cup {<<n, TRUE>>}
           \/ \E a \in Answers(b) : a \in Answers(b) /\ Answers(b2) = Answers(b) \ {a} /\ n2 = n
       /\ UNCHANGED Notifier!Service!vars <=> n2 = n /\ Answers(b2) = Answers(b)
  BY <1>2 DEF Notifier!Service!Next, Notifier!Service!Register, Notifier!Service!Unregister,
              Notifier!Service!Trigger, Notifier!Service!Take, Notifier!Service!vars,
              SimPending, SimReply
<1>14. Notifier!Service!Next \/ UNCHANGED Notifier!Service!vars
  <2>1. CASE accepts /\ p \in Registers
    <3>1. Answers(b) = {} /\ p \in Requests /\ ~sent
      BY <1>5, <1>7, <1>8, <2>1
    <3>2. CASE n = NoFlit
      <4>1. n2 = p /\ b2 = b
        BY <1>7, <1>8, <2>1, <3>1, <3>2
      <4>2. QED  BY <1>13, <2>1, <3>1, <3>2, <4>1
    <3>3. CASE n # NoFlit
      <4>1. n2 = n /\ b2 = <<p, FALSE>>
        BY <1>7, <1>8, <2>1, <3>3
      <4>2. Answers(b2) = Answers(b) \cup {<<p, FALSE>>}
        BY <1>3, <3>1, <4>1
      <4>3. QED  BY <1>13, <2>1, <3>1, <3>3, <4>1, <4>2
    <3>4. QED  BY <3>2, <3>3
  <2>2. CASE accepts /\ p \notin Registers
    <3>1. Answers(b) = {} /\ p \in Requests
      BY <1>5, <1>7, <2>2
    <3>2. PICK ok \in BOOLEAN : ok = (n # NoFlit)
      OBVIOUS
    <3>3. n2 = NoFlit /\ b2 = <<p, ok>>
      BY <1>8, <2>2, <3>2
    <3>4. Answers(b2) = Answers(b) \cup {<<p, n # NoFlit>>}
      BY <1>3, <3>1, <3>2, <3>3
    <3>5. QED  BY <1>13, <2>2, <3>1, <3>3, <3>4
  <2>3. CASE ~accepts /\ fires
    <3>1. Answers(b) = {} /\ n # NoFlit /\ n \in Flits /\ n2 = NoFlit /\ b2 = <<n, TRUE>>
      BY <1>4, <1>7, <1>8, <2>3
    <3>2. Answers(b2) = Answers(b) \cup {<<n, TRUE>>}
      BY <1>3, <3>1
    <3>3. QED  BY <1>13, <3>1, <3>2
  <2>4. CASE ~accepts /\ ~fires /\ sent
    <3>1. Answers(b) = {b} /\ Answers(b2) = {} /\ n2 = n
      BY <1>8, <2>4
    <3>2. QED  BY <1>13, <3>1
  <2>5. CASE ~accepts /\ ~fires /\ ~sent
    <3>1. n2 = n /\ b2 = b
      BY <1>8, <2>5
    <3>2. QED  BY <1>13, <3>1
  <2>6. QED  BY <2>1, <2>2, <2>3, <2>4, <2>5
<1>15. QED
  BY <1>2, <1>10, <1>11, <1>12, <1>14 DEF NotifierTold, SimPending, SimReply

\* Every step is a cycle of the hardware's notifier or leaves it alone.
LEMMA NotifierPhases ==
    ASSUME SimAnswering, NotifierHeld, [Next]_vars
    PROVE  Notifier!Next \/ UNCHANGED Notifier!vars
<1>1. CASE Step /\ ~InReset
  BY <1>1, NotifierCycles
<1>2. CASE (Step /\ InReset) \/ Loop \/ Serve \/ GiveUp \/ Interrupt \/ UNCHANGED vars
  BY <1>2, NotifierStill
<1>3. QED  BY <1>1, <1>2 DEF Next, Run

\* A step that changes nothing of the notifier changes nothing it promises.
LEMMA NotifierStutters ==
    ASSUME NotifierTold, UNCHANGED Notifier!vars
    PROVE  NotifierTold' /\ UNCHANGED Notifier!Service!vars
<1>1. SimPending' = SimPending /\ SimReply' = SimReply /\ dram'.idle.cycles = dram.idle.cycles
  BY DEF Notifier!vars, SimPending, SimReply
<1>2. NotifierTold'
  BY <1>1 DEF NotifierTold
<1>3. UNCHANGED Notifier!Service!vars
  BY <1>1 DEF Notifier!Service!vars, SimPending, SimReply
<1>4. QED  BY <1>2, <1>3

\* The simulator's idle notifier is the hardware's, in every run and among all
\* the traffic of the interface: it answers every request once, overwrites no
\* answer, and never fires for a gate that is the limit of its counter.
THEOREM NotifierRefines == Spec => ImplementsNotifier
<1> DEFINE Inv == SimAnswering /\ NotifierHeld /\ NotifierTold
           Serves == [Notifier!Service!Next]_(Notifier!Service!vars)
           Never == \A r \in {f \in Flits : Packet[f].kind = "register"} :
                       [f \in Flits |-> Packet[f].gate][r] = MaxIdle /\ SimPending = r
                           => SimReply' # <<r, TRUE>>
<1>1. Init => Inv /\ Notifier!Init /\ Notifier!Service!Init
  <2>1. SUFFICES ASSUME Init
                 PROVE  Inv /\ Notifier!Init /\ Notifier!Service!Init
    OBVIOUS
  <2>2. SimAnswering /\ NotifierHeld /\ Notifier!Init
    BY <2>1, SimAssumption, SimInitInv, NotifierInit
  <2>3. dram.idle.cycles = 0 /\ SimPending = NoFlit /\ SimReply = NoFlit
    BY <2>2 DEF Notifier!Init, SimPending, SimReply
  <2>4. NotifierTold
    BY <2>3, NotifierAssumption DEF NotifierTold, Notifying
  <2>5. Notifier!Service!Init
    BY <2>3 DEF Notifier!Service!Init, SimPending, SimReply
  <2>6. QED  BY <2>2, <2>4, <2>5
<1>2. Inv /\ [Next]_vars => Inv' /\ [Notifier!Next]_(Notifier!vars) /\ Serves /\ (Never \/ UNCHANGED Notifier!vars)
  <2>1. SUFFICES ASSUME Inv, [Next]_vars
                 PROVE  Inv' /\ [Notifier!Next]_(Notifier!vars) /\ Serves /\ (Never \/ UNCHANGED Notifier!vars)
    OBVIOUS
  <2>2. SimAnswering' /\ NotifierHeld'
    BY <2>1, SimAssumption, SimNextInv, NotifierNext
  <2>3. CASE Notifier!Next
    BY <2>1, <2>2, <2>3, NotifierServes
  <2>4. CASE UNCHANGED Notifier!vars
    BY <2>1, <2>2, <2>4, NotifierStutters
  <2>5. QED  BY <2>1, <2>3, <2>4, NotifierPhases
<1>3. QED
  BY <1>1, <1>2, PTL
     DEF Spec, ImplementsNotifier, Notifier!Spec, Notifier!ImplementsService, Notifier!Service!Spec,
         Notifier!NeverFires, SimPending, SimReply

=============================================================================
