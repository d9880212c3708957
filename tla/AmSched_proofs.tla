--------------------------- MODULE AmSched_proofs ---------------------------
(***************************************************************************)
(* Proofs about AmSched for every send queue depth, every set of handlers, *)
(* every quota within its margin and every event queue depth.              *)
(*                                                                         *)
(* QuotaCovered is not inductive alone: that a send is charged to a quota  *)
(* that is not spent needs SendHasQuota, and that the charged thread keeps *)
(* its quota while the send waits needs ActiveThread.                      *)
(***************************************************************************)
EXTENDS AmSched, FiniteSetTheorems, WellFoundedInduction, TLAPS

\* A nonempty set of naturals has a least member: the priority encoders of
\* the code select a member of their argument.
LEMMA LeastMember ==
    ASSUME NEW T \in SUBSET Nat, T # {}
    PROVE  Lowest(T) \in T /\ \A j \in T : Lowest(T) <= j
<1> DEFINE LT == {ss \in Nat \X Nat : ss[1] < ss[2]}
<1>1. IsWellFoundedOn(LT, Nat)
  BY NatLessThanWellFounded DEF OpToRel
<1>2. PICK i \in T : \A j \in T : ~ (<<j, i>> \in LT)
  BY <1>1, WFMin
<1>3. ASSUME NEW j \in T, j < i
      PROVE  FALSE
  <2>1. <<j, i>> \in Nat \X Nat /\ <<j, i>>[1] < <<j, i>>[2]
    BY <1>3
  <2>2. <<j, i>> \in LT
    BY <2>1
  <2>3. QED  BY <1>2, <2>2
<1>4. \A j \in T : i <= j
  BY <1>3
<1>5. QED  BY <1>4 DEF Lowest

\* A send in s1 is covered by the quota of its thread.
SendHasQuota == s1.op = "remote" => liveQuota[s1.thr] > 0

IInv == TypeOK /\ ActiveThread /\ SendHasQuota /\ QuotaCovered

\* The software discipline the theorems assume: blocking sends only, and
\* local yields only between handlers that every thread may run.
Disciplined ==
    /\ NbBits = {FALSE}
    /\ YieldBits = {FALSE} \/ Masks \subseteq {{}, Threads}

----------------------------------------------------------------------------

LEMMA InstrShape ==
    ASSUME NEW i \in Instr \cup {Bubble}
    PROVE  /\ i # Bubble => i \in Instr /\ i.thr \in Threads /\ i.op # "none"
           /\ i = Bubble => i.op = "none"
           /\ i.op = "remote" => i.prio \in Nat /\ i.nb \in NbBits
           /\ i.op = "local" => i.han \in Handlers /\ i.nb \in NbBits /\ i.yield \in YieldBits
           /\ i.op = "csr" => i.han \in Handlers /\ i.mask \in Masks
           /\ i.op \in {"none", "remote", "local", "csr", "branch", "other"}
<1>1. CASE i = Bubble
  BY <1>1 DEF Bubble
<1>2. CASE i \in Remote
  BY <1>2, AmSchedAssumption DEF Remote, Instr, Bubble, Prios
<1>3. CASE i \in Local
  <2>1. i.op = "local" /\ i.thr \in Threads /\ i.han \in Inside /\ i \in Instr
    BY <1>3 DEF Local, Instr
  <2>2. i.nb \in NbBits /\ i.yield \in YieldBits
    BY <1>3 DEF Local
  <2>3. i.op # Bubble.op
    BY <2>1 DEF Bubble
  <2>4. QED  BY <2>1, <2>2, <2>3, AmSchedAssumption
<1>4. CASE i \in Csr
  BY <1>4 DEF Csr, Instr, Bubble
<1>5. CASE i \in Other
  BY <1>5 DEF Other, Instr, Bubble
<1>6. QED  BY <1>1, <1>2, <1>3, <1>4, <1>5 DEF Instr

\* Who is woken: nobody, or one thread that accepts, for a pending handler
\* that is enabled there and whose margin fits.
LEMMA Woken ==
    ASSUME TypeOK, NEW acc \in SUBSET Threads
    PROVE  \/ Started(acc) = {} /\ Wakeup(acc) = {}
           \/ \E h \in Handlers, t \in acc :
                 /\ Started(acc) = {h} /\ Lowest(Started(acc)) = h
                 /\ Wakeup(acc) = {t}
                 /\ t \in enmask[h] /\ evq[h] > 0 /\ MarginSatisfied(h)
<1>1. CASE Schedulable(acc) = {}
  BY <1>1 DEF Started, Wakeup
<1>2. CASE Schedulable(acc) # {}
  <2>1. Schedulable(acc) \in SUBSET Nat
    BY AmSchedAssumption DEF Schedulable
  <2> DEFINE h == Lowest(Schedulable(acc))
             t == Lowest(acc \cap enmask[h])
  <2>2. h \in Schedulable(acc)
    BY <1>2, <2>1, LeastMember
  <2>3. h \in Handlers /\ evq[h] > 0 /\ enmask[h] \cap acc # {} /\ MarginSatisfied(h)
    BY <2>2 DEF Schedulable
  <2>4. Started(acc) = {h}
    BY <1>2 DEF Started
  <2>. HIDE DEF h, t
  <2>5. acc \cap enmask[h] \in SUBSET Nat /\ acc \cap enmask[h] # {}
    <3>1. acc \subseteq Nat
      BY DEF Threads
    <3>2. QED  BY <2>3, <3>1
  <2>6. t \in acc /\ t \in enmask[h]
    BY <2>5, LeastMember DEF t
  <2>7. Lowest({h}) = h
    BY <2>3, AmSchedAssumption, LeastMember
  <2>8. Wakeup(acc) = {t}
    BY <2>4 DEF Wakeup, t
  <2>9. QED  BY <2>3, <2>4, <2>6, <2>7, <2>8
<1>3. QED  BY <1>1, <1>2

\* Under the discipline the scheduler wakes nobody in the cycle of a fast
\* path: whatever it could wake would have been schedulable on the thread
\* that yields.
LEMMA FastPathAlone ==
    ASSUME TypeOK, Disciplined, FastPath, NEW acc \in SUBSET Threads
    PROVE  Wakeup(acc) = {}
<1>1. SUFFICES ASSUME NEW h \in Handlers, NEW t \in acc,
                      t \in enmask[h], evq[h] > 0, MarginSatisfied(h)
               PROVE  FALSE
  BY Woken
<1>2. s1.op = "local" /\ s1.yield /\ s1.thr \notin enmask[h]
  BY <1>1 DEF FastPath
<1>3. s1.thr \in Threads /\ YieldBits # {FALSE}
  BY <1>2, InstrShape DEF TypeOK
<1>4. enmask[h] \in {{}, Threads}
  BY <1>3 DEF Disciplined, TypeOK
<1>5. QED  BY <1>1, <1>2, <1>3, <1>4

LEMMA AcceptingThreads ==
    ASSUME TypeOK, NEW mem
    PROVE  Accepting(mem) \in SUBSET Threads
<1>1. S1Done(mem) /\ EYield => s1.thr \in Threads
  BY InstrShape DEF EYield, IsSend, TypeOK
<1>2. QED  BY <1>1 DEF Accepting, TypeOK

\* The thread of an instruction that does not advance accepts nothing.
LEMMA StalledKeepsRunning ==
    ASSUME TypeOK, ActiveThread, NEW mem, ~Advance(mem)
    PROVE  s1 # Bubble /\ s1.thr \notin Accepting(mem)
BY DEF Advance, ActiveThread, Accepting, HeldBack

----------------------------------------------------------------------------
(* One clock cycle preserves each conjunct of the invariant *)

LEMMA CycleType ==
    ASSUME TypeOK, NEW mem \in BOOLEAN, NEW out \in BOOLEAN, NEW arrive \in Arrivals,
           Cycle(mem, arrive, out)
    PROVE  TypeOK'
<1> DEFINE acc == Accepting(mem)
<1>1. acc \in SUBSET Threads
  BY AcceptingThreads
<1>. HIDE DEF acc
<1>2. /\ s1' \in S1Next(mem, acc, arrive)
      /\ \E reach \in SUBSET MayReachWFI(mem, acc, s1') :
            atWFI' = (atWFI \ Branched(acc)) \cup reach
      /\ idlings' = acc \ Wakeup(acc)
      /\ liveQuota' = [t \in Threads |-> QuotaNext(t, acc)]
      /\ sqcnt' = sqcnt + (IF MsgFire THEN 1 ELSE 0) - (IF out /\ sqcnt > 0 THEN 1 ELSE 0)
      /\ evq' = [h \in Handlers |-> EvqNext(h, acc, arrive)]
      /\ enmask' = IF s1.op = "csr" THEN [enmask EXCEPT ![s1.han] = s1.mask] ELSE enmask
  BY DEF Cycle, acc
<1>3. s1' \in Instr \cup {Bubble}
  BY <1>2 DEF S1Next, TypeOK
<1>4. atWFI' \subseteq Threads
  <2>1. Branched(acc) \subseteq Threads
    BY <1>1, Woken, InstrShape DEF Branched, FastPath, TypeOK, Bubble
  <2>2. MayReachWFI(mem, acc, s1') \subseteq Threads
    BY <1>3, <2>1, InstrShape DEF MayReachWFI
  <2>3. QED  BY <1>2, <2>2 DEF TypeOK
<1>5. liveQuota' \in [Threads -> 0 .. Depth]
  <2> SUFFICES ASSUME NEW t \in Threads
               PROVE  QuotaNext(t, acc) \in 0 .. Depth
    BY <1>2
  <2>1. liveQuota[t] \in 0 .. Depth /\ Decrement(liveQuota[t]) \in 0 .. Depth
    BY AmSchedAssumption DEF TypeOK, Decrement
  <2>2. FastPath => Quota[s1.han] \in 0 .. Depth
    BY InstrShape, AmSchedAssumption DEF FastPath, TypeOK
  <2>3. t \in Wakeup(acc) => Quota[Lowest(Started(acc))] \in 0 .. Depth
    BY <1>1, Woken, AmSchedAssumption
  <2>4. QED  BY <2>1, <2>2, <2>3 DEF QuotaNext
<1>6. sqcnt' \in 0 .. Depth
  <2>1. sqcnt \in Nat /\ sqcnt <= Depth /\ Depth \in Nat
    BY AmSchedAssumption DEF TypeOK
  <2>2. MsgFire => sqcnt < Depth
    BY <2>1, InstrShape DEF MsgFire, TypeOK
  <2>3. QED  BY <1>2, <2>1, <2>2
<1>7. evq' \in [Handlers -> 0 .. EvDepth]
  <2> SUFFICES ASSUME NEW h \in Handlers
               PROVE  EvqNext(h, acc, arrive) \in 0 .. EvDepth
    BY <1>2
  <2>1. evq[h] \in 0 .. EvDepth /\ EvDepth \in Nat
    BY AmSchedAssumption DEF TypeOK
  <2>2. Arrives(h, arrive) => evq[h] < EvDepth
    BY DEF Arrives, PushFire
  <2>3. h \in Started(acc) => evq[h] > 0
    BY <1>1, Woken
  <2>4. QED  BY <2>1, <2>2, <2>3 DEF EvqNext
<1>8. enmask' \in [Handlers -> Masks \cup {{}}]
  BY <1>2, InstrShape DEF TypeOK
<1>9. idlings' \subseteq Threads
  BY <1>1, <1>2
<1>10. QED  BY <1>3, <1>4, <1>5, <1>6, <1>7, <1>8, <1>9 DEF TypeOK

LEMMA CycleActive ==
    ASSUME TypeOK, ActiveThread, NEW mem \in BOOLEAN, NEW out \in BOOLEAN,
           NEW arrive \in Arrivals, Cycle(mem, arrive, out)
    PROVE  ActiveThread'
<1>1. /\ s1' \in S1Next(mem, Accepting(mem), arrive)
      /\ idlings' = Accepting(mem) \ Wakeup(Accepting(mem))
  BY DEF Cycle
<1>2. CASE Advance(mem)
  <2>1. s1' = Bubble \/ s1'.thr \notin Accepting(mem)
    BY <1>1, <1>2 DEF S1Next
  <2>2. QED  BY <1>1, <2>1 DEF ActiveThread
<1>3. CASE ~Advance(mem)
  <2>1. s1' = s1 /\ s1.thr \notin Accepting(mem)
    BY <1>1, <1>3, StalledKeepsRunning DEF S1Next
  <2>2. QED  BY <1>1, <2>1 DEF ActiveThread
<1>4. QED  BY <1>2, <1>3

LEMMA CycleSendHasQuota ==
    ASSUME TypeOK, ActiveThread, SendHasQuota, Disciplined,
           NEW mem \in BOOLEAN, NEW out \in BOOLEAN,
           NEW arrive \in Arrivals, Cycle(mem, arrive, out)
    PROVE  SendHasQuota'
<1> DEFINE acc == Accepting(mem)
<1>1. acc \in SUBSET Threads
  BY AcceptingThreads
<1>2. /\ s1' \in S1Next(mem, acc, arrive)
      /\ liveQuota' = [t \in Threads |-> QuotaNext(t, acc)]
  BY DEF Cycle
<1>3. s1' \in Instr \cup {Bubble}
  BY <1>2 DEF S1Next, TypeOK
<1> SUFFICES ASSUME s1'.op = "remote"
             PROVE  liveQuota'[s1'.thr] > 0
  BY DEF SendHasQuota
<1>4. s1'.thr \in Threads /\ s1' # Bubble
  BY <1>3, InstrShape DEF Bubble
<1>5. CASE Advance(mem)
  <2>1. Allowed(s1', acc, arrive)
    BY <1>2, <1>4, <1>5 DEF S1Next
  <2>2. QED  BY <1>2, <1>4, <2>1 DEF Allowed
<1>6. CASE ~Advance(mem)
  <2>1. s1' = s1 /\ s1.thr \notin acc
    BY <1>2, <1>6, StalledKeepsRunning DEF S1Next
  <2>2. ~FastPath /\ s1.op = "remote"
    BY <2>1 DEF FastPath
  <2>3. ~Accepted
    <3>1. ~s1.nb
      BY <2>2, InstrShape DEF TypeOK, Disciplined
    <3>2. QED  BY <1>6, <2>2, <3>1 DEF Advance, S1Done, IsSend
  <2>4. s1.thr \notin Wakeup(acc)
    BY <1>1, <2>1, Woken
  <2>5. QuotaNext(s1.thr, acc) = liveQuota[s1.thr]
    BY <2>2, <2>3, <2>4 DEF QuotaNext
  <2>6. QED  BY <1>2, <1>4, <2>1, <2>2, <2>5 DEF SendHasQuota
<1>7. QED  BY <1>5, <1>6

\* What a cycle does to the quota of a thread that starts nothing in it.
LEMMA LiveKept ==
    ASSUME TypeOK, ActiveThread, SendHasQuota,
           NEW mem \in BOOLEAN, NEW out \in BOOLEAN,
           NEW arrive \in Arrivals, Cycle(mem, arrive, out),
           NEW t \in Threads, t \notin Wakeup(Accepting(mem)),
           ~(FastPath /\ s1.thr = t)
    PROVE  Live(t)' + (IF MsgFire /\ s1.thr = t THEN 1 ELSE 0) <= Live(t)
<1> DEFINE acc == Accepting(mem)
<1>1. /\ idlings' = acc \ Wakeup(acc)
      /\ liveQuota' = [u \in Threads |-> QuotaNext(u, acc)]
  BY DEF Cycle
<1>2. liveQuota[t] \in Nat
  BY DEF TypeOK
<1>3. Live(t)' = IF t \in idlings' THEN 0 ELSE liveQuota'[t]
  BY DEF Live
<1>4. CASE t \in idlings
  <2>1. t \in idlings'
    BY <1>1, <1>4 DEF Accepting
  <2>2. ~(MsgFire /\ s1.thr = t)
    BY <1>4 DEF MsgFire, ActiveThread, Bubble
  <2>3. QED  BY <1>3, <1>4, <2>1, <2>2 DEF Live
<1>5. CASE t \notin idlings
  <2>1. Live(t) = liveQuota[t]
    BY <1>5 DEF Live
  <2>2. liveQuota'[t] = IF IsSend /\ s1.thr = t /\ Accepted
                        THEN Decrement(liveQuota[t]) ELSE liveQuota[t]
    BY <1>1 DEF QuotaNext
  <2>3. CASE MsgFire /\ s1.thr = t
    <3>1. liveQuota[t] > 0 /\ IsSend /\ Accepted
      BY <2>3 DEF MsgFire, SendHasQuota, IsSend, Accepted
    <3>2. liveQuota'[t] = liveQuota[t] - 1
      BY <2>2, <2>3, <3>1 DEF Decrement
    <3>3. QED  BY <1>2, <1>3, <2>1, <2>3, <3>1, <3>2
  <2>4. CASE ~(MsgFire /\ s1.thr = t)
    <3>1. liveQuota'[t] <= liveQuota[t]
      BY <1>2, <2>2 DEF Decrement
    <3>2. (IF MsgFire /\ s1.thr = t THEN 1 ELSE 0) = 0
      BY <2>4
    <3>3. liveQuota'[t] \in Int
      BY <1>2, <2>2 DEF Decrement
    <3>4. Live(t)' <= Live(t) /\ Live(t)' \in Int
      BY <1>2, <1>3, <2>1, <3>1, <3>3
    <3>5. QED  BY <3>2, <3>4
  <2>5. QED  BY <2>3, <2>4
<1>6. QED  BY <1>4, <1>5

\* ... and of one that starts a handler.
LEMMA LiveStarted ==
    ASSUME TypeOK, NEW mem \in BOOLEAN, NEW out \in BOOLEAN,
           NEW arrive \in Arrivals, Cycle(mem, arrive, out),
           NEW t \in Threads, NEW h \in Handlers, QuotaNext(t, Accepting(mem)) = Quota[h]
    PROVE  Live(t)' <= Margin[h]
<1>1. liveQuota'[t] = Quota[h]
  BY DEF Cycle
<1>2. Quota[h] \in Nat /\ Margin[h] \in Nat /\ Quota[h] <= Margin[h]
  BY AmSchedAssumption, QuotaWithinMargin
<1>3. Live(t)' \in {0, Quota[h]}
  BY <1>1 DEF Live
<1>4. QED  BY <1>2, <1>3

LEMMA CycleQuotaCovered ==
    ASSUME IInv, Disciplined, NEW mem \in BOOLEAN, NEW out \in BOOLEAN,
           NEW arrive \in Arrivals, Cycle(mem, arrive, out)
    PROVE  QuotaCovered'
<1> DEFINE acc == Accepting(mem)
           fired == IF MsgFire THEN 1 ELSE 0
           charge(t) == IF MsgFire /\ s1.thr = t THEN 1 ELSE 0
<1>1. TypeOK /\ ActiveThread /\ SendHasQuota /\ QuotaCovered
  BY DEF IInv
<1>2. acc \in SUBSET Threads
  BY <1>1, AcceptingThreads
<1>3. sqcnt' <= sqcnt + fired /\ sqcnt' \in Int /\ sqcnt \in Int
  BY <1>1, AmSchedAssumption DEF Cycle, TypeOK
<1>4. Live(0) \in Nat /\ Live(1) \in Nat
  BY <1>1 DEF Live, TypeOK, Threads
<1>5. Live(0)' \in Int /\ Live(1)' \in Int
  <2>1. TypeOK'
    BY <1>1, CycleType
  <2>2. QED  BY <2>1 DEF Live, TypeOK, Threads
<1>6. MsgFire => s1.thr \in {0, 1}
  BY <1>1, InstrShape DEF MsgFire, TypeOK, Bubble, Threads
<1>7. charge(0) + charge(1) = fired
  BY <1>6
<1>8. \A t \in Threads : charge(t) <= Live(t)
  <2> SUFFICES ASSUME NEW t \in Threads, MsgFire, s1.thr = t
               PROVE  1 <= Live(t)
    BY <1>4 DEF Threads
  <2>1. liveQuota[t] > 0 /\ t \notin idlings
    BY <1>1 DEF MsgFire, SendHasQuota, ActiveThread, Bubble
  <2>2. QED  BY <1>1, <2>1 DEF Live, TypeOK
<1>9. QuotaCovered' <=> sqcnt' + (Live(0)' + Live(1)') <= Depth
  BY DEF QuotaCovered, LiveSum
<1>10. sqcnt + (Live(0) + Live(1)) <= Depth /\ Depth \in Nat
  BY <1>1, AmSchedAssumption DEF QuotaCovered, LiveSum
<1>11. CASE Wakeup(acc) = {} /\ ~FastPath
  <2>1. \A t \in Threads : Live(t)' + charge(t) <= Live(t)
    BY <1>1, <1>11, LiveKept
  <2>2. Live(0)' + charge(0) <= Live(0) /\ Live(1)' + charge(1) <= Live(1)
    BY <2>1 DEF Threads
  <2>. HIDE DEF charge, fired
  <2>3. charge(0) \in Int /\ charge(1) \in Int /\ fired \in Int
    BY DEF charge, fired
  <2>4. QED  BY <1>3, <1>4, <1>5, <1>7, <1>9, <1>10, <2>2, <2>3
<1>12. ASSUME NEW t \in Threads, NEW h \in Handlers, MarginSatisfied(h),
              QuotaNext(t, acc) = Quota[h],
              \A u \in Threads \ {t} : u \notin Wakeup(acc) /\ ~(FastPath /\ s1.thr = u)
       PROVE  QuotaCovered'
  <2>1. Live(t)' <= Margin[h]
    BY <1>1, <1>12, LiveStarted
  <2>2. \A u \in Threads \ {t} : Live(u)' + charge(u) <= Live(u)
    BY <1>1, <1>12, LiveKept
  <2>3. sqcnt + Margin[h] + (Live(0) + Live(1)) <= Depth /\ Margin[h] \in Nat
    BY <1>12, AmSchedAssumption DEF MarginSatisfied, LiveSum
  <2>4. charge(t) <= Live(t)
    BY <1>8
  <2>. HIDE DEF charge, fired
  <2>5. charge(0) \in Int /\ charge(1) \in Int /\ fired \in Int
    BY DEF charge, fired
  <2>6. CASE t = 0
    <3>1. Live(1)' + charge(1) <= Live(1)
      BY <2>2, <2>6 DEF Threads
    <3>2. Live(0)' <= Margin[h] /\ charge(0) <= Live(0)
      BY <2>1, <2>4, <2>6
    <3>3. QED  BY <1>3, <1>4, <1>5, <1>7, <1>9, <1>10, <2>3, <2>5, <3>1, <3>2
  <2>7. CASE t = 1
    <3>1. Live(0)' + charge(0) <= Live(0)
      BY <2>2, <2>7 DEF Threads
    <3>2. Live(1)' <= Margin[h] /\ charge(1) <= Live(1)
      BY <2>1, <2>4, <2>7
    <3>3. QED  BY <1>3, <1>4, <1>5, <1>7, <1>9, <1>10, <2>3, <2>5, <3>1, <3>2
  <2>8. QED  BY <2>6, <2>7 DEF Threads
<1>13. CASE FastPath
  <2>1. Wakeup(acc) = {}
    BY <1>1, <1>2, <1>13, FastPathAlone
  <2>2. s1.thr \in Threads /\ s1.han \in Handlers /\ MarginSatisfied(s1.han)
    BY <1>1, <1>13, InstrShape DEF FastPath, TypeOK, Bubble
  <2>3. QuotaNext(s1.thr, acc) = Quota[s1.han]
    BY <1>13 DEF QuotaNext
  <2>4. QED  BY <1>12, <2>1, <2>2, <2>3
<1>14. CASE Wakeup(acc) # {} /\ ~FastPath
  <2>1. PICK h \in Handlers, t \in acc :
            /\ Lowest(Started(acc)) = h
            /\ Wakeup(acc) = {t}
            /\ MarginSatisfied(h)
    BY <1>1, <1>2, <1>14, Woken
  <2>2. QuotaNext(t, acc) = Quota[h]
    BY <1>14, <2>1 DEF QuotaNext
  <2>3. t \in Threads
    BY <1>2
  <2>4. QED  BY <1>12, <1>14, <2>1, <2>2, <2>3
<1>15. QED  BY <1>11, <1>13, <1>14

----------------------------------------------------------------------------
(* The theorems *)

LEMMA InitInv == Init => IInv
BY AmSchedAssumption
   DEF Init, IInv, TypeOK, ActiveThread, SendHasQuota, QuotaCovered, LiveSum, Live,
       Bubble, Threads

LEMMA NextCycle ==
    ASSUME Next
    PROVE  \E mem, out \in BOOLEAN, arrive \in Arrivals : Cycle(mem, arrive, out)
BY DEF Next

\* Every register keeps its width: the counter of the send queue, the event
\* queues and the live quotas neither overflow nor go below zero, for every
\* queue depth, set of handlers, quota and margin.
THEOREM TypeCorrect == Spec => []TypeOK
<1>1. Init => TypeOK
  BY InitInv DEF IInv
<1>2. TypeOK /\ [Next]_vars => TypeOK'
  <2>1. CASE Next
    BY <2>1, NextCycle, CycleType
  <2>2. CASE UNCHANGED vars
    BY <2>2 DEF vars, TypeOK
  <2>3. QED  BY <2>1, <2>2
<1>3. QED  BY <1>1, <1>2, PTL DEF Spec

\* The execute stage never holds an instruction of a thread that waits for an
\* event (the assertion of Exec.scala:217), for every instance.
THEOREM ActiveThreads == Spec => []ActiveThread
<1>1. Init => ActiveThread
  BY InitInv DEF IInv
<1>2. TypeOK /\ ActiveThread /\ [Next]_vars => ActiveThread'
  <2>1. CASE Next
    BY <2>1, NextCycle, CycleActive
  <2>2. CASE UNCHANGED vars
    BY <2>2 DEF vars, ActiveThread
  <2>3. QED  BY <2>1, <2>2
<1>3. QED  BY <1>1, <1>2, TypeCorrect, PTL DEF Spec

LEMMA NextInv == Disciplined => (IInv /\ [Next]_vars => IInv')
<1> SUFFICES ASSUME Disciplined, IInv, [Next]_vars PROVE IInv'
  OBVIOUS
<1>1. TypeOK /\ ActiveThread /\ SendHasQuota
  BY DEF IInv
<1>2. CASE Next
  <2>1. PICK mem, out \in BOOLEAN, arrive \in Arrivals : Cycle(mem, arrive, out)
    BY <1>2, NextCycle
  <2>2. TypeOK'
    BY <1>1, <2>1, CycleType
  <2>3. ActiveThread'
    BY <1>1, <2>1, CycleActive
  <2>4. SendHasQuota'
    BY <1>1, <2>1, CycleSendHasQuota
  <2>5. QuotaCovered'
    BY <2>1, CycleQuotaCovered
  <2>6. QED  BY <2>2, <2>3, <2>4, <2>5 DEF IInv
<1>3. CASE UNCHANGED vars
  BY <1>3 DEF vars, IInv, TypeOK, ActiveThread, SendHasQuota, QuotaCovered, LiveSum, Live
<1>4. QED  BY <1>2, <1>3

\* With disciplined software the flits in the send queue and the sends the
\* running handlers may still make always fit the queue together, for every
\* depth, set of handlers and quota within its margin: the two threads never
\* contend for queue space (doc/deadlock.md, SMT Quota).
THEOREM QuotaIsCovered ==
    ASSUME Disciplined
    PROVE  Spec => []QuotaCovered
<1>1. Init => IInv
  BY InitInv
<1>2. IInv /\ [Next]_vars => IInv'
  BY NextInv
<1>3. IInv => QuotaCovered
  BY DEF IInv
<1>4. QED  BY <1>1, <1>2, <1>3, PTL DEF Spec

\* A most urgent send never finds the send queue full, so it never holds up
\* the execute stage that both threads share.
THEOREM UrgentSendsFit ==
    ASSUME Disciplined
    PROVE  Spec => []UrgentSendFits
<1>1. Init => IInv
  BY InitInv
<1>2. IInv /\ [Next]_vars => IInv'
  BY NextInv
<1>3. IInv => UrgentSendFits
  <2> SUFFICES ASSUME IInv, s1.op = "remote"
               PROVE  sqcnt < Depth
    BY DEF UrgentSendFits
  <2>1. s1.thr \in Threads
    BY InstrShape DEF IInv, TypeOK, Bubble
  <2>2. Live(s1.thr) = liveQuota[s1.thr] /\ liveQuota[s1.thr] > 0
    BY DEF IInv, ActiveThread, SendHasQuota, Live, Bubble
  <2>3. Live(0) \in Nat /\ Live(1) \in Nat /\ sqcnt \in Nat /\ Depth \in Nat
    BY AmSchedAssumption DEF IInv, TypeOK, Live, Threads
  <2>4. Live(0) + Live(1) > 0
    BY <2>1, <2>2, <2>3 DEF Threads
  <2>5. QED  BY <2>3, <2>4 DEF IInv, QuotaCovered, LiveSum
<1>4. QED  BY <1>1, <1>2, <1>3, PTL DEF Spec

=============================================================================
