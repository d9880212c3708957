------------------------- MODULE SoftThreads_proofs -------------------------
(***************************************************************************)
(* Proofs about the worker threads of the cycle simulator, for every       *)
(* number of threads and every topology.                                   *)
(*                                                                         *)
(* First, the barriers.  The inductive invariant says that all threads are *)
(* around one barrier: they head for it, wait at it, or have been released *)
(* from the one before and have not noticed yet.                           *)
(*                                                                         *)
(* Then, that the threads never touch one object at a time.  Which slots a *)
(* thread writes depends on what was decided, so that who touches what is  *)
(* settled by an invariant of the data.  Between two barriers the system   *)
(* is in one of three phases.  Deciding: the routers are as a commit left  *)
(* them, and what the threads that are through have chosen names a slot    *)
(* with a flit for one output, or a free slot.  Moving: every choice is    *)
(* made and no two of them share a slot; threads empty and fill the slots, *)
(* in any order.  Committing: in a router that is not committed yet, the   *)
(* slots that will be occupied are full.                                   *)
(***************************************************************************)
EXTENDS SoftThreads, FiniteSetTheorems, WellFoundedInduction, TLAPS

\* A nonempty set of naturals has a least member.
LEMMA LeastMember ==
    ASSUME NEW T \in SUBSET Nat, T # {}
    PROVE  Lowest(T) \in T /\ \A j \in T : Lowest(T) <= j
<1> DEFINE LT == {ss \in Nat \X Nat : ss[1] < ss[2]}
<1>1. IsWellFoundedOn(LT, Nat)
  BY NatLessThanWellFounded DEF OpToRel
<1>2. PICK i \in T : \A j \in T : ~ (<<j, i>> \in LT)
  BY <1>1, WFMin
<1>3. ASSUME NEW j \in T, j < i
      PROVE  FALSE
  <2>1. <<j, i>> \in Nat \X Nat /\ <<j, i>>[1] < <<j, i>>[2]
    BY <1>3
  <2>2. <<j, i>> \in LT
    BY <2>1
  <2>3. QED  BY <1>2, <2>2
<1>4. \A j \in T : i <= j
  BY <1>3
<1>5. QED  BY <1>4 DEF Lowest

\* The turn of input i in the search of the simulator's arbiter.
LEMMA TurnOf ==
    ASSUME NEW n \in Nat \ {0}, NEW last \in 0 .. n - 1, NEW i \in 0 .. n - 1
    PROVE  (i - (IF last + 1 = n THEN 0 ELSE last + 1)) % n
             = IF i > last THEN i - last - 1 ELSE i - last - 1 + n
<1>1. CASE last + 1 = n
  BY <1>1
<1>2. CASE last + 1 # n
  BY <1>2
<1>3. QED  BY <1>1, <1>2

\* Ranges of d numbers follow each other: a number is in one of them.
LEMMA Times ==
    ASSUME NEW d \in Nat, NEW a \in Int, NEW b \in Int, a <= b
    PROVE  d * a <= d * b
  OBVIOUS

LEMMA Division ==
    ASSUME NEW d \in Nat \ {0}, NEW a \in Int
    PROVE  a \div d \in Int /\ d * (a \div d) <= a /\ a < d * (a \div d) + d
  OBVIOUS

LEMMA DivLess ==
    ASSUME NEW d \in Nat \ {0}, NEW a \in Int, NEW b \in Int
    PROVE  /\ a < d * b <=> a \div d < b
           /\ a <= b => a \div d <= b \div d
<1>1. a \div d \in Int /\ d * (a \div d) <= a /\ a < d * (a \div d) + d
  BY Division
<1>2. b \div d \in Int /\ d * (b \div d) <= b /\ b < d * (b \div d) + d
  BY Division
<1>. DEFINE q == a \div d
            r == b \div d
<1>. HIDE DEF q, r
<1>3. a < d * b => q < b
  <2>1. b <= q => d * b <= d * q
    BY <1>1, Times DEF q
  <2>2. QED  BY <1>1, <2>1 DEF q
<1>4. q < b => a < d * b
  <2>1. q + 1 <= b => d * (q + 1) <= d * b
    BY <1>1, Times DEF q
  <2>2. d * (q + 1) = d * q + d
    BY <1>1 DEF q
  <2>3. QED  BY <1>1, <2>1, <2>2 DEF q
<1>5. a <= b => q <= r
  <2>1. r + 1 <= q => d * (r + 1) <= d * q
    BY <1>1, <1>2, Times DEF q, r
  <2>2. d * (r + 1) = d * r + d
    BY <1>2 DEF r
  <2>3. QED  BY <1>1, <1>2, <2>1, <2>2 DEF q, r
<1>6. QED  BY <1>3, <1>4, <1>5 DEF q, r

----------------------------------------------------------------------------
(* The inductive invariant *)

Parts == {"resolve", "drive", "memif", "stats", "post", "transfer", "step",
          "ring", "prepare", "cleanup", "peek"}

\* The barrier that a thread reaches next, or is at.
Heading(part) ==
    CASE part \in {"ring", "prepare", "cleanup", "peek", "stageStart"} -> "stageStart"
      [] part \in {"resolve", "drive", "memif", "stageDone"} -> "stageDone"
      [] part \in {"stats", "stepStart"} -> "stepStart"
      [] part \in {"post", "transfer", "step", "stepDone"} -> "stepDone"

Before(b) ==
    CASE b = "stageStart" -> "stepDone"
      [] b = "stageDone" -> "stageStart"
      [] b = "stepStart" -> "stageDone"
      [] b = "stepDone" -> "stepStart"

ControlOK ==
    /\ pc \in [Threads -> Parts \cup Barriers]
    /\ at \in [Threads -> {"arrive", "spin", "reset", "release"}]
    /\ gen \in [Threads -> {0, 1}]
    /\ ahead \in [Threads -> Int]
    /\ barriers \in [Barriers -> [remaining : Nat, generation : {0, 1}]]
    /\ \A t \in Threads : pc[t] \in Parts => at[t] = "arrive"
    /\ \A t \in Threads : pc[t] \in {"stats", "ring", "peek"} => t = 0

Arrived(b) == {t \in Threads : pc[t] = b /\ at[t] # "arrive"}
Closing == {t \in Threads : at[t] \in {"reset", "release"}}

\* Threads that the last one has set free, but that have not looked yet.
Released(t, b) == pc[t] = b /\ at[t] = "spin" /\ gen[t] # barriers[b].generation

Together(b) ==
    /\ \A t \in Threads : Heading(pc[t]) = b \/ Released(t, Before(b))
    /\ \A t \in Arrived(b) : gen[t] = barriers[b].generation

\* The count of the barrier ahead is the number of threads still to come, and
\* the others are set for their next use.
Counts(b) ==
    /\ barriers[b].remaining = IF \E t \in Threads : at[t] = "release" THEN NumThreads
                               ELSE Cardinality(Threads \ Arrived(b))
    /\ \A other \in Barriers \ {b} : barriers[other].remaining = NumThreads

\* One thread closes the round: the last to arrive.
LastCloses(b) ==
    /\ Closing # {} <=> Arrived(b) = Threads
    /\ \A t, u \in Closing : t = u

\* Two threads differ by a cycle only between cleanup and the leader's peek.
Counters(b) ==
    LET past(t) == IF b = "stageStart" /\ pc[t] = "stageStart" THEN 1 ELSE 0
    IN  \A t \in Threads : ahead[t] = past(t) - past(0)

Around(b) == Together(b) /\ Counts(b) /\ LastCloses(b) /\ Counters(b)

IInv == ControlOK /\ \E b \in Barriers : Around(b)

----------------------------------------------------------------------------
(* Lemmas *)

LEMMA ThreadsFinite ==
    /\ NumThreads \in Nat \ {0} /\ 0 \in Threads
    /\ IsFiniteSet(Threads) /\ Cardinality(Threads) = NumThreads
<1>1. NumThreads \in Nat \ {0}
  BY BackendAssumption
<1>2. QED  BY <1>1, FS_Interval DEF Threads

\* A barrier is before another one, and a thread heads for one of them.
LEMMA BarrierOrder ==
    /\ \A b \in Barriers : Before(b) \in Barriers /\ Before(b) # b /\ Heading(b) = b
    /\ \A part \in Parts : Heading(part) \in Barriers /\ part \notin Barriers
  BY DEF Barriers, Before, Heading, Parts

\* Behind a barrier comes the way to the next one.
LEMMA AfterHeads ==
    ASSUME NEW t \in Threads, NEW b \in Barriers
    PROVE  /\ Heading(After(t, Before(b))) = b
           /\ After(t, b) \in Parts \cup Barriers /\ After(t, b) # "stageStart"
           /\ After(t, b) # b
           /\ After(t, b) \in {"stats", "ring", "peek"} => t = 0
  BY DEF After, Before, Heading, Barriers, Parts

\* A part of a cycle moves only the program counter of its thread, on the
\* way to the same barrier; cleanup and peek also count the cycle.
LEMMA WorkStep ==
    ASSUME ControlOK, NEW t \in Threads, Work(t)
    PROVE  /\ pc[t] \in Parts
           /\ \E next \in Parts \cup Barriers :
                 /\ pc' = [pc EXCEPT ![t] = next]
                 /\ Heading(next) = Heading(pc[t])
                 /\ next \in {"stats", "ring", "peek"} => t = 0
                 /\ next = "stageStart" <=> (pc[t] = "peek" \/ (pc[t] = "cleanup" /\ t # 0))
           /\ CountCycle(t)
           /\ UNCHANGED <<barriers, at, gen>>
<1> DEFINE Moves(now, next) == pc[t] = now /\ pc' = [pc EXCEPT ![t] = next]
<1>1. \/ Moves("resolve", "drive") \/ Moves("drive", "memif")
      \/ Moves("memif", "stageDone") \/ Moves("stats", "stepStart")
      \/ Moves("post", "transfer") \/ Moves("transfer", "step")
      \/ Moves("step", "stepDone") \/ Moves("ring", "prepare")
      \/ Moves("prepare", "cleanup")
      \/ Moves("cleanup", IF t = 0 THEN "peek" ELSE "stageStart")
      \/ Moves("peek", "stageStart")
  <2>1. CASE Resolve(t)
    BY <2>1 DEF Resolve, Goto
  <2>2. CASE Drive(t)
    BY <2>2 DEF Drive, Goto
  <2>3. CASE StageMemif(t)
    BY <2>3 DEF StageMemif, Goto
  <2>4. CASE Stats(t)
    BY <2>4 DEF Stats, Goto
  <2>5. CASE Post(t)
    BY <2>5 DEF Post, Goto
  <2>6. CASE Transfer(t)
    BY <2>6 DEF Transfer, Goto
  <2>7. CASE StepMemif(t)
    BY <2>7 DEF StepMemif, Goto
  <2>8. CASE Ring(t)
    BY <2>8 DEF Ring, Goto
  <2>9. CASE Prepare(t)
    BY <2>9 DEF Prepare, Goto
  <2>10. CASE Cleanup(t)
    BY <2>10 DEF Cleanup, Goto
  <2>11. CASE Peek(t)
    BY <2>11 DEF Peek, Goto
  <2>12. QED
    BY <2>1, <2>2, <2>3, <2>4, <2>5, <2>6, <2>7, <2>8, <2>9, <2>10, <2>11 DEF Work
<1>2. CountCycle(t) /\ UNCHANGED <<barriers, at, gen>>
  BY DEF Work
<1>3. pc[t] = "peek" => t = 0
  BY DEF ControlOK
<1>4. QED  BY <1>1, <1>2, <1>3 DEF Parts, Barriers, Heading

----------------------------------------------------------------------------
(* One lemma per kind of step *)

LEMMA WorkInv ==
    ASSUME ControlOK, NEW b \in Barriers, Around(b), NEW t \in Threads, Work(t)
    PROVE  ControlOK' /\ Around(b)'
<1>1. PICK next \in Parts \cup Barriers :
         /\ pc' = [pc EXCEPT ![t] = next]
         /\ Heading(next) = Heading(pc[t])
         /\ next \in {"stats", "ring", "peek"} => t = 0
         /\ next = "stageStart" <=> (pc[t] = "peek" \/ (pc[t] = "cleanup" /\ t # 0))
  BY WorkStep
<1>2. /\ pc[t] \in Parts /\ CountCycle(t)
      /\ barriers' = barriers /\ at' = at /\ gen' = gen
  BY WorkStep
<1>3. at[t] = "arrive" /\ Heading(pc[t]) = b /\ pc[t] # b /\ (pc[t] = "peek" => t = 0)
  BY <1>2, BarrierOrder DEF ControlOK, Around, Together, Released
<1>4. ahead' = CASE pc[t] = "cleanup" /\ t # 0 -> [ahead EXCEPT ![t] = @ + 1]
                 [] pc[t] = "peek" -> [u \in Threads |-> IF u = 0 THEN 0 ELSE ahead[u] - 1]
                 [] OTHER -> ahead
  BY <1>2 DEF CountCycle
<1>5. ahead' \in [Threads -> Int]
  BY <1>4 DEF ControlOK
<1>6. ControlOK'
  BY <1>1, <1>2, <1>3, <1>5 DEF ControlOK
<1>7. \A u \in Threads : pc'[u] = IF u = t THEN next ELSE pc[u]
  BY <1>1 DEF ControlOK
<1>8. Arrived(b)' = Arrived(b) /\ Closing' = Closing
  BY <1>2, <1>3, <1>7 DEF Arrived, Closing
<1>9. Together(b)'
  BY <1>1, <1>2, <1>3, <1>7, <1>8 DEF Around, Together, Released
<1>10. Counts(b)'
  BY <1>2, <1>8 DEF Around, Counts
<1>11. LastCloses(b)'
  BY <1>8 DEF Around, LastCloses
<1>12. Counters(b)'
  <2> SUFFICES ASSUME NEW u \in Threads
               PROVE  ahead'[u] = (IF b = "stageStart" /\ pc'[u] = "stageStart" THEN 1 ELSE 0)
                                - (IF b = "stageStart" /\ pc'[0] = "stageStart" THEN 1 ELSE 0)
    BY DEF Counters
  <2>1. ahead[u] = (IF b = "stageStart" /\ pc[u] = "stageStart" THEN 1 ELSE 0)
                 - (IF b = "stageStart" /\ pc[0] = "stageStart" THEN 1 ELSE 0)
    BY DEF Around, Counters
  <2>2. b # "stageStart" => pc[t] # "cleanup" /\ pc[t] # "peek"
    BY <1>3 DEF Heading
  <2>3. 0 \in Threads /\ ahead[u] \in Int
    BY ThreadsFinite DEF ControlOK
  <2>4. CASE pc[t] = "cleanup" /\ t # 0
    <3>1. ahead'[u] = IF u = t THEN ahead[u] + 1 ELSE ahead[u]
      BY <1>4, <2>4 DEF ControlOK
    <3>2. b = "stageStart" /\ pc[t] # "stageStart" /\ next = "stageStart"
      BY <1>1, <2>2, <2>4
    <3>3. QED  BY <1>7, <2>1, <2>3, <2>4, <3>1, <3>2
  <2>5. CASE pc[t] = "peek"
    <3>1. t = 0 /\ ahead'[u] = IF u = 0 THEN 0 ELSE ahead[u] - 1
      BY <1>3, <1>4, <2>5
    <3>2. b = "stageStart" /\ pc[0] # "stageStart" /\ next = "stageStart"
      BY <1>1, <2>2, <2>5, <3>1
    <3>3. pc'[0] = "stageStart" /\ (u # 0 => pc'[u] = pc[u])
      BY <1>7, <2>3, <3>1, <3>2
    <3>4. QED  BY <2>1, <2>3, <3>1, <3>2, <3>3
  <2>6. CASE ~(pc[t] = "cleanup" /\ t # 0) /\ pc[t] # "peek"
    <3>1. ahead' = ahead /\ next # "stageStart"
      BY <1>1, <1>4, <2>6
    <3>2. b = "stageStart" => pc[t] # "stageStart"
      BY <1>3
    <3>3. QED  BY <1>7, <2>1, <2>3, <3>1, <3>2
  <2>7. QED  BY <2>4, <2>5, <2>6
<1>13. QED  BY <1>6, <1>9, <1>10, <1>11, <1>12 DEF Around

\* A thread that arrives takes one from the count, which is that of the
\* threads to come: it finds 1 exactly when it is the last.
LEMMA ArriveInv ==
    ASSUME ControlOK, NEW b \in Barriers, Around(b),
           NEW t \in Threads, NEW c \in Barriers, Arrive(t, c)
    PROVE  ControlOK' /\ Around(b)'
<1>1. /\ pc[t] = c /\ at[t] = "arrive" /\ pc' = pc /\ ahead' = ahead
      /\ gen' = [gen EXCEPT ![t] = barriers[c].generation]
      /\ barriers' = [barriers EXCEPT ![c].remaining = @ - 1]
      /\ at' = [at EXCEPT ![t] = IF barriers[c].remaining = 1 THEN "reset" ELSE "spin"]
  BY DEF Arrive
<1>2. c = b
  BY <1>1, BarrierOrder DEF Around, Together, Released
<1>3. t \notin Arrived(b) /\ t \notin Closing /\ Closing = {}
  BY <1>1 DEF Arrived, Closing, Around, LastCloses
<1>4. /\ barriers[b].remaining = Cardinality(Threads \ Arrived(b))
      /\ Cardinality(Threads \ Arrived(b)) \in Nat \ {0}
      /\ Cardinality((Threads \ Arrived(b)) \ {t}) = Cardinality(Threads \ Arrived(b)) - 1
      /\ IsFiniteSet((Threads \ Arrived(b)) \ {t})
  <2>1. barriers[b].remaining = Cardinality(Threads \ Arrived(b))
    BY <1>3 DEF Around, Counts, Closing
  <2>2. IsFiniteSet(Threads \ Arrived(b)) /\ t \in Threads \ Arrived(b)
    BY <1>3, ThreadsFinite, FS_Difference
  <2>3. Cardinality(Threads \ Arrived(b)) \in Nat
    BY <2>2, FS_CardinalityType
  <2>4. Cardinality(Threads \ Arrived(b)) # 0
    BY <2>2, FS_EmptySet
  <2>5. QED  BY <2>1, <2>2, <2>3, <2>4, FS_RemoveElement
<1>5. Arrived(b)' = Arrived(b) \cup {t}
  BY <1>1, <1>2 DEF Arrived, ControlOK
<1>6. Threads \ Arrived(b)' = (Threads \ Arrived(b)) \ {t}
  BY <1>5
<1>7. barriers[b].remaining = 1 <=> Arrived(b)' = Threads
  <2>1. barriers[b].remaining = 1 <=> (Threads \ Arrived(b)) \ {t} = {}
    BY <1>4, FS_EmptySet
  <2>2. Arrived(b)' \subseteq Threads
    BY DEF Arrived
  <2>3. QED  BY <1>6, <2>1, <2>2
<1>8. Closing' = IF barriers[b].remaining = 1 THEN {t} ELSE {}
  BY <1>1, <1>2, <1>3 DEF Closing, ControlOK
<1>9. /\ \A other \in Barriers : barriers'[other].generation = barriers[other].generation
      /\ \A other \in Barriers \ {b} : barriers'[other].remaining = barriers[other].remaining
      /\ barriers'[b].remaining = barriers[b].remaining - 1
  BY <1>1, <1>2 DEF ControlOK
<1>10. ControlOK'
  <2>1. barriers' \in [Barriers -> [remaining : Nat, generation : {0, 1}]]
    BY <1>1, <1>2, <1>4 DEF ControlOK
  <2>2. pc[t] \notin Parts
    BY <1>1, BarrierOrder
  <2>3. QED  BY <1>1, <2>1, <2>2 DEF ControlOK
<1>11. Together(b)'
  <2>1. \A u \in Threads : Heading(pc'[u]) = b \/ Released(u, Before(b))'
    <3>1. SUFFICES ASSUME NEW u \in Threads, Released(u, Before(b))
                   PROVE  Released(u, Before(b))'
      BY <1>1 DEF Around, Together
    <3>2. u # t
      BY <1>1, <1>2, <3>1, BarrierOrder DEF Released
    <3>3. QED  BY <1>1, <1>9, <3>1, <3>2, BarrierOrder DEF Released, ControlOK
  <2>2. \A u \in Arrived(b)' : gen'[u] = barriers'[b].generation
    BY <1>1, <1>2, <1>5, <1>9 DEF Around, Together, ControlOK, Arrived
  <2>3. QED  BY <2>1, <2>2 DEF Together
<1>12. Counts(b)'
  <2>1. ~ \E u \in Threads : at'[u] = "release"
    BY <1>1, <1>3 DEF Closing, ControlOK
  <2>2. barriers'[b].remaining = Cardinality(Threads \ Arrived(b)')
    BY <1>4, <1>6, <1>9
  <2>3. QED  BY <1>9, <2>1, <2>2 DEF Around, Counts
<1>13. LastCloses(b)'
  BY <1>7, <1>8 DEF LastCloses
<1>14. Counters(b)'
  BY <1>1 DEF Around, Counters
<1>15. QED  BY <1>10, <1>11, <1>12, <1>13, <1>14 DEF Around

\* It then sets the count for the next use, while all others wait.
LEMMA ResetInv ==
    ASSUME ControlOK, NEW b \in Barriers, Around(b),
           NEW t \in Threads, NEW c \in Barriers, Reset(t, c)
    PROVE  ControlOK' /\ Around(b)'
<1>1. /\ pc[t] = c /\ at[t] = "reset" /\ pc' = pc /\ ahead' = ahead /\ gen' = gen
      /\ barriers' = [barriers EXCEPT ![c].remaining = NumThreads]
      /\ at' = [at EXCEPT ![t] = "release"]
  BY DEF Reset
<1>2. c = b
  BY <1>1, BarrierOrder DEF Around, Together, Released
<1>3. t \in Closing /\ \A u \in Threads : at[u] = "reset" => u = t
  BY <1>1 DEF Closing, Around, LastCloses
<1>4. Arrived(b)' = Arrived(b) /\ Closing' = Closing
  BY <1>1, <1>2 DEF Arrived, Closing, ControlOK
<1>5. /\ \A other \in Barriers : barriers'[other].generation = barriers[other].generation
      /\ \A other \in Barriers \ {b} : barriers'[other].remaining = barriers[other].remaining
      /\ barriers'[b].remaining = NumThreads
  BY <1>1, <1>2 DEF ControlOK
<1>6. ControlOK'
  <2>1. barriers' \in [Barriers -> [remaining : Nat, generation : {0, 1}]]
    BY <1>1, <1>2, ThreadsFinite DEF ControlOK
  <2>2. pc[t] \notin Parts
    BY <1>1, BarrierOrder
  <2>3. QED  BY <1>1, <2>1, <2>2 DEF ControlOK
<1>7. Together(b)'
  <2>1. \A u \in Threads : Heading(pc'[u]) = b \/ Released(u, Before(b))'
    <3>1. SUFFICES ASSUME NEW u \in Threads, Released(u, Before(b))
                   PROVE  Released(u, Before(b))'
      BY <1>1 DEF Around, Together
    <3>2. u # t
      BY <1>1, <3>1 DEF Released
    <3>3. QED  BY <1>1, <1>5, <3>1, <3>2, BarrierOrder DEF Released, ControlOK
  <2>2. \A u \in Arrived(b)' : gen'[u] = barriers'[b].generation
    BY <1>1, <1>4, <1>5 DEF Around, Together
  <2>3. QED  BY <2>1, <2>2 DEF Together
<1>8. Counts(b)'
  BY <1>1, <1>5 DEF Around, Counts, ControlOK
<1>9. LastCloses(b)'
  BY <1>4 DEF Around, LastCloses
<1>10. Counters(b)'
  BY <1>1 DEF Around, Counters
<1>11. QED  BY <1>6, <1>7, <1>8, <1>9, <1>10 DEF Around

\* A thread that leaves, for the part behind the barrier it was at.
LEMMA LeaveControl ==
    ASSUME ControlOK, NEW t \in Threads, NEW c \in Barriers, Leave(t, c),
           barriers' \in [Barriers -> [remaining : Nat, generation : {0, 1}]]
    PROVE  ControlOK'
<1>1. /\ at' = [at EXCEPT ![t] = "arrive"] /\ pc' = [pc EXCEPT ![t] = After(t, c)]
      /\ gen' = gen /\ ahead' = ahead
  BY DEF Leave, Goto
<1>2. /\ After(t, c) \in Parts \cup Barriers
      /\ After(t, c) \in {"stats", "ring", "peek"} => t = 0
  BY AfterHeads
<1>3. QED  BY <1>1, <1>2 DEF ControlOK

\* A thread that sees the new generation was released from the barrier before.
LEMMA SpinInv ==
    ASSUME ControlOK, NEW b \in Barriers, Around(b),
           NEW t \in Threads, NEW c \in Barriers, Spin(t, c)
    PROVE  ControlOK' /\ Around(b)'
<1>1. /\ pc[t] = c /\ at[t] = "spin" /\ barriers[c].generation # gen[t]
      /\ barriers' = barriers /\ Leave(t, c)
      /\ at' = [at EXCEPT ![t] = "arrive"] /\ pc' = [pc EXCEPT ![t] = After(t, c)]
      /\ gen' = gen /\ ahead' = ahead
  BY DEF Spin, Leave, Goto
<1>2. c = Before(b)
  <2>1. c # b
    BY <1>1 DEF Around, Together, Arrived
  <2>2. QED  BY <1>1, <2>1, BarrierOrder DEF Around, Together, Released
<1>3. /\ Heading(After(t, c)) = b /\ After(t, c) # "stageStart"
      /\ c # b
  BY <1>2, AfterHeads, BarrierOrder
<1>4. ControlOK'
  BY <1>1, LeaveControl DEF ControlOK
<1>5. \A u \in Threads : /\ pc'[u] = IF u = t THEN After(t, c) ELSE pc[u]
                         /\ at'[u] = IF u = t THEN "arrive" ELSE at[u]
  BY <1>1 DEF ControlOK
<1>6. Arrived(b)' = Arrived(b) /\ Closing' = Closing
  BY <1>1, <1>3, <1>5 DEF Arrived, Closing
<1>7. Together(b)'
  BY <1>1, <1>3, <1>5, <1>6 DEF Around, Together, Released
<1>8. Counts(b)'
  BY <1>1, <1>5, <1>6 DEF Around, Counts
<1>9. LastCloses(b)'
  BY <1>6 DEF Around, LastCloses
<1>10. Counters(b)'
  <2>1. \A u \in Threads : (b = "stageStart" /\ pc'[u] = "stageStart")
                           <=> (b = "stageStart" /\ pc[u] = "stageStart")
    BY <1>1, <1>3, <1>5
  <2>2. QED  BY <1>1, <2>1, ThreadsFinite DEF Around, Counters
<1>11. QED  BY <1>4, <1>7, <1>8, <1>9, <1>10 DEF Around

\* The last thread changes the generation: every other one is released, and
\* all of them head for the next barrier.
LEMMA ReleaseInv ==
    ASSUME ControlOK, NEW b \in Barriers, Around(b),
           NEW t \in Threads, NEW c \in Barriers, Release(t, c),
           NEW next \in Barriers, Before(next) = b
    PROVE  ControlOK' /\ Around(next)'
<1>1. /\ pc[t] = c /\ at[t] = "release"
      /\ barriers' = [barriers EXCEPT ![c].generation = (gen[t] + 1) % 2]
      /\ Leave(t, c)
      /\ at' = [at EXCEPT ![t] = "arrive"] /\ pc' = [pc EXCEPT ![t] = After(t, c)]
      /\ gen' = gen /\ ahead' = ahead
  BY DEF Release, Leave, Goto
<1>2. c = b
  BY <1>1, BarrierOrder DEF Around, Together, Released
<1>3. /\ Arrived(b) = Threads
      /\ \A u \in Threads : /\ pc[u] = b /\ gen[u] = barriers[b].generation
                            /\ u # t => at[u] = "spin"
  <2>1. t \in Closing
    BY <1>1 DEF Closing
  <2>2. Arrived(b) = Threads /\ \A u \in Closing : u = t
    BY <2>1 DEF Around, LastCloses
  <2>3. QED  BY <2>2 DEF Arrived, Closing, ControlOK, Around, Together
<1>4. /\ Heading(After(t, b)) = next /\ After(t, b) # "stageStart" /\ After(t, b) # b
      /\ next # b
  BY AfterHeads, BarrierOrder
<1>5. gen[t] \in {0, 1} /\ (gen[t] + 1) % 2 \in {0, 1} /\ (gen[t] + 1) % 2 # gen[t]
  BY DEF ControlOK
<1>6. /\ barriers' \in [Barriers -> [remaining : Nat, generation : {0, 1}]]
      /\ barriers'[b].generation # gen[t]
      /\ \A other \in Barriers : barriers'[other].remaining = barriers[other].remaining
  BY <1>1, <1>2, <1>5 DEF ControlOK
<1>7. ControlOK'
  BY <1>1, <1>6, LeaveControl
<1>8. \A u \in Threads : /\ pc'[u] = IF u = t THEN After(t, b) ELSE b
                         /\ at'[u] = IF u = t THEN "arrive" ELSE "spin"
  BY <1>1, <1>2, <1>3 DEF ControlOK
<1>9. Arrived(next)' = {} /\ Closing' = {}
  BY <1>4, <1>8 DEF Arrived, Closing
<1>10. Together(next)'
  <2>1. \A u \in Threads : u # t => Released(u, Before(next))'
    BY <1>1, <1>3, <1>6, <1>8 DEF Released
  <2>2. QED  BY <1>4, <1>8, <1>9, <2>1 DEF Together
<1>11. Counts(next)'
  <2>1. ~ \E u \in Threads : at'[u] = "release"
    BY <1>8
  <2>2. \A other \in Barriers : barriers'[other].remaining = NumThreads
    BY <1>1, <1>6 DEF Around, Counts
  <2>3. Threads \ Arrived(next)' = Threads
    BY <1>9
  <2>4. QED  BY <2>1, <2>2, <2>3, ThreadsFinite DEF Counts
<1>12. LastCloses(next)'
  BY <1>9, ThreadsFinite DEF LastCloses
<1>13. Counters(next)'
  <2>1. \A u \in Threads : ahead'[u] = 0
    BY <1>1, <1>3, ThreadsFinite DEF Around, Counters
  <2>2. \A u \in Threads : next = "stageStart" => pc'[u] # "stageStart"
    BY <1>4, <1>8
  <2>3. QED  BY <2>1, <2>2, ThreadsFinite DEF Counters
<1>14. QED  BY <1>7, <1>10, <1>11, <1>12, <1>13 DEF Around

----------------------------------------------------------------------------
(* Theorems *)

LEMMA InitInv == Init => IInv
<1> SUFFICES ASSUME Init PROVE IInv
  OBVIOUS
<1>1. /\ pc = [t \in Threads |-> IF t = 0 THEN "peek" ELSE "stageStart"]
      /\ at = [t \in Threads |-> "arrive"]
      /\ gen = [t \in Threads |-> 0]
      /\ ahead = [t \in Threads |-> IF t = 0 THEN 0 ELSE 1]
      /\ barriers = [b \in Barriers |-> [remaining |-> NumThreads, generation |-> 0]]
  BY DEF Init
<1>2. ControlOK
  BY <1>1, ThreadsFinite DEF ControlOK, Parts, Barriers
<1>3. Arrived("stageStart") = {} /\ Closing = {}
  BY <1>1 DEF Arrived, Closing
<1>4. Together("stageStart")
  BY <1>1, <1>3 DEF Together, Heading
<1>5. Counts("stageStart")
  <2>1. Threads \ Arrived("stageStart") = Threads
    BY <1>3
  <2>2. QED  BY <1>1, <2>1, ThreadsFinite DEF Counts, Barriers
<1>6. LastCloses("stageStart")
  BY <1>3, ThreadsFinite DEF LastCloses
<1>7. Counters("stageStart")
  BY <1>1, ThreadsFinite DEF Counters
<1>8. QED  BY <1>2, <1>4, <1>5, <1>6, <1>7 DEF IInv, Around, Barriers

LEMMA NextInv == IInv /\ [Next]_vars => IInv'
<1>1. ASSUME ControlOK, NEW b \in Barriers, Around(b), NEW t \in Threads, Wait(t)
      PROVE  IInv'
  <2>1. PICK c \in Barriers : Arrive(t, c) \/ Reset(t, c) \/ Release(t, c) \/ Spin(t, c)
    BY <1>1 DEF Wait
  <2>2. CASE Arrive(t, c) \/ Reset(t, c) \/ Spin(t, c)
    BY <1>1, <2>2, ArriveInv, ResetInv, SpinInv DEF IInv
  <2>3. CASE Release(t, c)
    <3>1. PICK next \in Barriers : Before(next) = b
      BY DEF Barriers, Before
    <3>2. QED  BY <1>1, <2>3, <3>1, ReleaseInv DEF IInv
  <2>4. QED  BY <2>1, <2>2, <2>3
<1>2. ASSUME IInv, Next
      PROVE  IInv'
  <2>1. PICK b \in Barriers : Around(b)
    BY <1>2 DEF IInv
  <2>2. PICK t \in Threads : Work(t) \/ Wait(t)
    BY <1>2 DEF Next, Thread
  <2>3. QED  BY <1>1, <1>2, <2>1, <2>2, WorkInv DEF IInv
<1>3. ASSUME IInv, UNCHANGED vars
      PROVE  IInv'
  <2>1. pc' = pc /\ at' = at /\ gen' = gen /\ ahead' = ahead /\ barriers' = barriers
    BY <1>3 DEF vars
  <2>2. \A b \in Barriers : Arrived(b)' = Arrived(b)
    BY <2>1 DEF Arrived
  <2>3. \A b \in Barriers : Around(b) => Around(b)'
    BY <2>1, <2>2 DEF Around, Together, Released, Counts, LastCloses, Closing, Counters
  <2>4. QED  BY <1>3, <2>1, <2>3 DEF IInv, ControlOK
<1>4. QED  BY <1>2, <1>3

\* No thread passes a barrier that another one has not reached, and threads
\* at work before the last barrier of a cycle agree on its number, with any
\* number of threads: SpinBarrier may be used again at once, although a slow
\* thread has not yet seen that it was released.
THEOREM ThreadsInStep == Spec => []InStep
<1>1. IInv => InStep
  <2> SUFFICES ASSUME IInv, NEW t \in Working, NEW u \in Working
               PROVE  /\ Interval(pc[t]) = Interval(pc[u])
                      /\ Interval(pc[t]) < 4 => ahead[t] = ahead[u]
    BY DEF InStep
  <2>1. PICK b \in Barriers : Around(b)
    BY DEF IInv
  <2>2. t \in Threads /\ u \in Threads /\ pc[t] \in Parts /\ pc[u] \in Parts
    BY DEF Working, IInv, ControlOK
  <2>3. Heading(pc[t]) = b /\ Heading(pc[u]) = b
    BY <2>1, <2>2, BarrierOrder DEF Around, Together, Released
  <2>4. Interval(pc[t]) = Interval(pc[u])
    BY <2>2, <2>3 DEF Parts, Heading, Interval
  <2>5. Interval(pc[t]) < 4 => b # "stageStart"
    BY <2>2, <2>3 DEF Parts, Heading, Interval
  <2>6. b # "stageStart" => ahead[t] = ahead[u]
    BY <2>1, <2>2, ThreadsFinite DEF Around, Counters
  <2>7. QED  BY <2>4, <2>5, <2>6
<1>2. QED  BY <1>1, InitInv, NextInv, PTL DEF Spec

\* The threads never all wait for each other: one of them works, arrives,
\* closes a round, or spins on a generation that has already changed.
Stuck(t) == at[t] = "spin" /\ ~Released(t, pc[t])
NeverAllStuck == \E t \in Threads : ~Stuck(t)

THEOREM BarriersOpen == Spec => []NeverAllStuck
<1>1. IInv => NeverAllStuck
  <2> SUFFICES ASSUME IInv PROVE NeverAllStuck
    OBVIOUS
  <2>1. PICK b \in Barriers : Around(b)
    BY DEF IInv
  <2>2. CASE Closing # {}
    BY <2>2 DEF Closing, NeverAllStuck, Stuck
  <2>3. CASE Closing = {}
    <3>1. PICK t \in Threads : t \notin Arrived(b)
      BY <2>1, <2>3 DEF Around, LastCloses, Arrived
    <3>2. CASE Heading(pc[t]) = b
      <4>1. pc[t] \in Parts \/ pc[t] = b
        BY <3>2, BarrierOrder DEF IInv, ControlOK
      <4>2. at[t] = "arrive"
        BY <3>1, <4>1 DEF IInv, ControlOK, Arrived
      <4>3. QED  BY <4>2 DEF NeverAllStuck, Stuck
    <3>3. CASE Released(t, Before(b))
      BY <3>3 DEF NeverAllStuck, Stuck, Released
    <3>4. QED  BY <2>1, <3>2, <3>3 DEF Around, Together
  <2>4. QED  BY <2>2, <2>3
<1>2. QED  BY <1>1, InitInv, NextInv, PTL DEF Spec

----------------------------------------------------------------------------
(* Division of the PUs among the threads *)

\* A thread's range is made of PUs, and no PU is in two ranges.
LEMMA RangesApart ==
    /\ \A t \in Threads : Owned(t) \subseteq PU
    /\ \A t, u \in Threads : t # u => Owned(t) \cap Owned(u) = {}
<1> DEFINE N == NumPU
           T == NumThreads
           low(t) == (t * N) \div T
<1>1. N \in Nat \ {0} /\ T \in Nat \ {0}
  BY BackendAssumption
<1>2. Threads = 0 .. T - 1 /\ PU = 1 .. N /\ \A t \in Threads : Owned(t) = low(t) + 1 .. low(t + 1)
  BY DEF Threads, PU, PUs, Config, Owned, PuWorkRange
<1> HIDE DEF N, T
<1>3. \A a, b \in 0 .. T : a <= b => /\ low(a) \in Int /\ low(b) \in Int
                                     /\ 0 <= low(a) /\ low(a) <= low(b) /\ low(b) <= N
  <2> SUFFICES ASSUME NEW a \in 0 .. T, NEW b \in 0 .. T, a <= b
               PROVE  /\ low(a) \in Int /\ low(b) \in Int
                      /\ 0 <= low(a) /\ low(a) <= low(b) /\ low(b) <= N
    OBVIOUS
  <2>1. /\ a * N \in Int /\ b * N \in Int /\ a * N = N * a /\ b * N = N * b /\ T * N = N * T
        /\ T * N \in Int /\ 0 * N = 0
    BY <1>1
  <2>2. N * a <= N * b /\ N * b <= N * T /\ N * 0 <= N * a
    BY <1>1, Times
  <2>3. low(a) \in Int /\ low(b) \in Int
    BY <1>1, <2>1, Division
  <2>4. low(a) <= low(b)
    BY <1>1, <2>1, <2>2, DivLess
  <2>5. b * N < T * (N + 1) /\ ~ (a * N < T * 0)
    <3>1. T * (N + 1) = T * N + T /\ T * 0 = 0
      BY <1>1
    <3>2. QED  BY <1>1, <2>1, <2>2, <3>1
  <2>6. low(b) < N + 1
    BY <1>1, <2>1, <2>5, DivLess
  <2>7. ~ (low(a) < 0)
    BY <1>1, <2>1, <2>5, DivLess
  <2>8. QED  BY <1>1, <2>3, <2>4, <2>6, <2>7
<1> HIDE DEF low
<1>4. ASSUME NEW t \in Threads
      PROVE  Owned(t) \subseteq PU
  <2>1. t \in 0 .. T /\ t + 1 \in 0 .. T /\ t <= t + 1
    BY <1>1, <1>2
  <2>2. low(t) \in Int /\ low(t + 1) \in Int /\ 0 <= low(t) /\ low(t + 1) <= N
    BY <1>3, <2>1
  <2>3. QED  BY <1>1, <1>2, <2>2
<1>5. ASSUME NEW t \in Threads, NEW u \in Threads, t < u
      PROVE  Owned(t) \cap Owned(u) = {}
  <2>1. /\ t \in 0 .. T /\ t + 1 \in 0 .. T /\ u \in 0 .. T /\ u + 1 \in 0 .. T
        /\ t <= t + 1 /\ t + 1 <= u /\ u <= u + 1
    BY <1>1, <1>2, <1>5
  <2>2. /\ low(t) \in Int /\ low(t + 1) \in Int /\ low(u) \in Int /\ low(u + 1) \in Int
        /\ low(t + 1) <= low(u)
    BY <1>3, <2>1
  <2>3. QED  BY <1>2, <2>2
<1>6. QED
  <2>1. \A t, u \in Threads : t # u => t < u \/ u < t
    BY <1>1, <1>2
  <2>2. QED  BY <1>4, <1>5, <2>1

\* Every PU is in the range of the thread that puOwner names.
LEMMA OwnerOwns ==
    ASSUME NEW pu \in PU
    PROVE  PuOwner(NumPU, NumThreads, pu) \in Threads /\ pu \in Owned(PuOwner(NumPU, NumThreads, pu))
<1> DEFINE N == NumPU
           T == NumThreads
           a == pu * T - 1
           o == a \div N
<1>1. N \in Nat \ {0} /\ T \in Nat \ {0}
  BY BackendAssumption
<1>2. /\ Threads = 0 .. T - 1 /\ PuOwner(NumPU, NumThreads, pu) = o
      /\ pu \in 1 .. N /\ Owned(o) = (o * N) \div T + 1 .. ((o + 1) * N) \div T
  BY DEF Threads, PU, PUs, Config, Owned, PuWorkRange, PuOwner
<1> HIDE DEF N, T
<1>3. /\ a \in Int /\ a = T * pu - 1 /\ T * pu \in Int /\ pu \in Int
      /\ T * N = N * T /\ N * 0 = 0
  BY <1>1, <1>2
<1>4. T * pu <= T * N /\ T * 1 <= T * pu /\ T * 1 = T
  BY <1>1, <1>2, Times
<1>5. o \in Int /\ N * o <= a /\ a < N * o + N
  BY <1>1, <1>3, Division
<1> HIDE DEF a
<1>6. o < T
  BY <1>1, <1>3, <1>4, DivLess
<1>7. ~ (o < 0)
  BY <1>1, <1>3, <1>4, DivLess
<1> HIDE DEF o
<1>8. o \in Threads
  BY <1>1, <1>2, <1>5, <1>6, <1>7
<1>9. /\ o * N = N * o /\ (o + 1) * N = N * o + N
      /\ o * N \in Int /\ (o + 1) * N \in Int
  BY <1>1, <1>5
<1>10. (o * N) \div T < pu
  <2>1. o * N < T * pu
    BY <1>3, <1>5, <1>9
  <2>2. QED  BY <1>1, <1>3, <1>9, <2>1, DivLess
<1>11. ~ (((o + 1) * N) \div T < pu)
  <2>1. ~ ((o + 1) * N < T * pu)
    BY <1>3, <1>5, <1>9
  <2>2. QED  BY <1>1, <1>3, <1>9, <2>1, DivLess
<1>12. (o * N) \div T \in Int /\ ((o + 1) * N) \div T \in Int
  BY <1>1, <1>9, Division
<1>13. QED  BY <1>2, <1>8, <1>10, <1>11, <1>12

\* Every memory interface belongs to a thread.
LEMMA MemifOwned ==
    ASSUME NEW m \in Memif
    PROVE  MemifOwner(m) \in Threads
<1> DEFINE d == NumPU \div NumMC
           first == IF m = 0 THEN 1 ELSE 1 + (m - 1) * d
<1>1. NumPU \in Nat \ {0} /\ NumMC \in Nat \ {0} /\ m \in 0 .. NumMC
  BY BackendAssumption DEF Memif, Memifs, Config
<1>2. d \in Int /\ NumMC * d <= NumPU /\ NumPU < NumMC * d + NumMC
  BY <1>1, Division
<1> HIDE DEF d
<1>3. 0 <= d
  <2>1. ~ (NumPU < NumMC * 0)
    BY <1>1
  <2>2. QED  BY <1>1, <1>2, <2>1, DivLess DEF d
<1>4. first \in PU
  <2>1. CASE m = 0
    BY <1>1, <2>1 DEF PU, PUs, Config
  <2>2. CASE m # 0
    <3>1. m - 1 \in Int /\ 0 <= m - 1 /\ m - 1 <= NumMC - 1 /\ d \in Nat
      BY <1>1, <1>2, <1>3, <2>2
    <3>2. d * 0 <= d * (m - 1) /\ d * (m - 1) <= d * (NumMC - 1)
      BY <1>1, <3>1, Times
    <3>3. /\ d * (NumMC - 1) = NumMC * d - d /\ (m - 1) * d = d * (m - 1) /\ d * 0 = 0
          /\ d * (m - 1) \in Int /\ NumMC * d \in Int
      BY <1>1, <3>1
    <3>4. (m - 1) * d \in Int /\ 0 <= (m - 1) * d /\ (m - 1) * d <= NumPU - d
      BY <1>1, <1>2, <3>1, <3>2, <3>3
    <3>5. d = 0 => (m - 1) * d = 0
      BY <3>1
    <3>6. 1 + (m - 1) * d \in 1 .. NumPU
      BY <1>1, <3>1, <3>4, <3>5
    <3>7. QED  BY <2>2, <3>6 DEF PU, PUs, Config
  <2>3. QED  BY <2>1, <2>2
<1>5. MemifOwner(m) = PuOwner(NumPU, NumThreads, first)
  BY DEF MemifOwner, d
<1>6. QED  BY <1>4, <1>5, OwnerOwns

----------------------------------------------------------------------------
(* The wiring, from what the constructor checks *)

LinksFixed == links = [pu \in PU |-> LinkStatus(pu)]
Ports(m) == 0 .. Len(topo.memif_req_at[m]) - 1

LEMMA TopologyFields ==
    /\ DOMAIN topo.memif_req_at = Memif /\ DOMAIN topo.pu_memif = PU
    /\ \A pu \in PU : topo.pu_memif[pu] = PuMemif(topo.memif_req_at, pu)
    /\ \A pu \in PU : \A m : m \in topo.pu_memif_inject[pu]
                            <=> \E x \in topo.pu_memif[pu] : x.port = 0 /\ x.memif = m
<1> DEFINE g == GridDims(Config.numPU)
           coord == PuToCoord(Config)
           req == MemifReqAt(Config, g, coord)
           memif == [pu \in PUs(Config) |-> PuMemif(req, pu)]
           inject == [pu \in PUs(Config) |->
                         {x.memif : x \in {y \in memif[pu] : y.port = 0}}]
<1>1. topo.memif_req_at = req /\ topo.pu_memif = memif /\ topo.pu_memif_inject = inject
  BY DEF topo, Topology
<1>2. DOMAIN req = Memif
  BY DEF MemifReqAt, Memif
<1> HIDE DEF req
<1>3. DOMAIN memif = PU /\ \A pu \in PU : memif[pu] = PuMemif(req, pu)
  BY DEF PU
<1> HIDE DEF memif
<1>4. \A pu \in PU : \A m : m \in inject[pu] <=> \E x \in memif[pu] : x.port = 0 /\ x.memif = m
  BY DEF PU
<1>5. QED  BY <1>1, <1>2, <1>3, <1>4

\* A PU's interface and port, and the port's PU, name each other.
LEMMA MemifAt ==
    /\ \A pu \in PU : \A x \in topo.pu_memif[pu] :
          /\ x = [memif |-> x.memif, port |-> x.port]
          /\ x.memif \in Memif /\ x.port \in Ports(x.memif)
          /\ topo.memif_req_at[x.memif][x.port + 1] = pu
    /\ \A m \in Memif : \A p \in Ports(m) :
          /\ topo.memif_req_at[m][p + 1] \in PU
          /\ [memif |-> m, port |-> p] \in topo.pu_memif[topo.memif_req_at[m][p + 1]]
<1> DEFINE req == topo.memif_req_at
<1>1. /\ DOMAIN req = Memif /\ DOMAIN topo.pu_memif = PU
      /\ \A pu \in PU : topo.pu_memif[pu] = PuMemif(req, pu)
  BY TopologyFields
<1>2. \A m \in Memif : req[m] \in Seq(PU)
  BY <1>1, WiringAssumption DEF LinksPair
<1>3. \A m \in Memif : Len(req[m]) \in Nat /\ DOMAIN req[m] = 1 .. Len(req[m])
  BY <1>2
<1>4. ASSUME NEW pu \in PU, NEW x
      PROVE  x \in topo.pu_memif[pu] <=>
                 \E m \in Memif : \E i \in 1 .. Len(req[m]) :
                    req[m][i] = pu /\ x = [memif |-> m, port |-> i - 1]
  <2> HIDE DEF req
  <2>1. topo.pu_memif[pu] = PuMemif(req, pu)
    BY <1>1
  <2>2. x \in PuMemif(req, pu) <=>
           \E m \in DOMAIN req : \E i \in DOMAIN req[m] :
              req[m][i] = pu /\ x = [memif |-> m, port |-> i - 1]
    BY DEF PuMemif
  <2>3. QED  BY <1>1, <1>3, <2>1, <2>2
<1>5. ASSUME NEW pu \in PU, NEW x \in topo.pu_memif[pu]
      PROVE  /\ x = [memif |-> x.memif, port |-> x.port]
             /\ x.memif \in Memif /\ x.port \in Ports(x.memif)
             /\ req[x.memif][x.port + 1] = pu
  <2> HIDE DEF req
  <2>1. PICK m \in Memif : \E i \in 1 .. Len(req[m]) :
           req[m][i] = pu /\ x = [memif |-> m, port |-> i - 1]
    BY <1>4
  <2>2. PICK i \in 1 .. Len(req[m]) : req[m][i] = pu /\ x = [memif |-> m, port |-> i - 1]
    BY <2>1
  <2>3. x.memif = m /\ x.port = i - 1 /\ i - 1 + 1 = i /\ i - 1 \in 0 .. Len(req[m]) - 1
    BY <1>3, <2>2
  <2>4. QED  BY <2>2, <2>3 DEF Ports, req
<1>6. ASSUME NEW m \in Memif, NEW p \in Ports(m)
      PROVE  /\ req[m][p + 1] \in PU
             /\ [memif |-> m, port |-> p] \in topo.pu_memif[req[m][p + 1]]
  <2>1. p \in Int /\ p + 1 \in 1 .. Len(req[m]) /\ p + 1 - 1 = p
    BY <1>3 DEF Ports
  <2>2. req[m][p + 1] \in PU
    BY <1>2, <1>3, <2>1
  <2>3. PICK i \in 1 .. Len(req[m]) : i = p + 1 /\ i - 1 = p
    BY <2>1
  <2> HIDE DEF req
  <2>4. [memif |-> m, port |-> p] = [memif |-> m, port |-> i - 1]
    BY <2>3
  <2> DEFINE mp == [memif |-> m, port |-> p]
  <2>5. mp \in topo.pu_memif[req[m][i]]
    BY <1>4, <2>2, <2>3, <2>4
  <2>6. QED  BY <2>2, <2>3, <2>5
<1>7. QED  BY <1>5, <1>6

\* Links come in pairs, and a router has a port for an interface exactly
\* when it is the PU of one of the interface's request ports.
LEMMA Wiring ==
    ASSUME LinksFixed
    PROVE  /\ \A pu \in PU : NumFwd(pu) \in 0 .. 4 /\ NumFwd(pu) = NumForwards(topo, pu)
           /\ \A pu \in PU : \A k \in 0 .. NumFwd(pu) - 1 :
                 /\ Fwd(pu, k).pu \in PU
                 /\ Fwd(pu, k).port \in 0 .. NumFwd(Fwd(pu, k).pu) - 1
                 /\ Fwd(Fwd(pu, k).pu, Fwd(pu, k).port).pu = pu
                 /\ Fwd(Fwd(pu, k).pu, Fwd(pu, k).port).port = k
           /\ \A pu \in PU : links[pu].memif = topo.pu_memif[pu]
           /\ \A pu \in PU : links[pu].memif_inject = topo.pu_memif_inject[pu]
           /\ \A m \in Memif : \A p \in Ports(m) :
                 /\ PortPU(m, p) \in PU
                 /\ links[PortPU(m, p)].memif = {[memif |-> m, port |-> p]}
<1>1. /\ DOMAIN topo.pu_memif = PU
      /\ \A pu \in PU : NumForwards(topo, pu) \in 0 .. 4
  BY TopologyFields, WiringAssumption DEF LinksPair
<1>2. ASSUME NEW pu \in PU
      PROVE  /\ links[pu] = LinkStatus(pu)
             /\ NumFwd(pu) = NumForwards(topo, pu)
             /\ links[pu].memif = topo.pu_memif[pu]
             /\ links[pu].memif_inject = topo.pu_memif_inject[pu]
             /\ \A k \in 0 .. NumFwd(pu) - 1 : Fwd(pu, k) = Forward(topo, pu, k)
  <2>1. links[pu] = LinkStatus(pu)
    BY DEF LinksFixed
  <2>2. /\ links[pu].memif = topo.pu_memif[pu]
        /\ links[pu].memif_inject = topo.pu_memif_inject[pu]
        /\ links[pu].forwards = [k \in 0 .. NumForwards(topo, pu) - 1 |-> Forward(topo, pu, k)]
    BY <2>1 DEF LinkStatus
  <2>3. Cardinality(0 .. NumForwards(topo, pu) - 1) = NumForwards(topo, pu)
    BY <1>1, FS_Interval
  <2>4. QED  BY <2>1, <2>2, <2>3 DEF NumFwd, Fwd
<1>3. ASSUME NEW pu \in PU, NEW k \in 0 .. NumFwd(pu) - 1
      PROVE  /\ Fwd(pu, k).pu \in PU
             /\ Fwd(pu, k).port \in 0 .. NumFwd(Fwd(pu, k).pu) - 1
             /\ Fwd(Fwd(pu, k).pu, Fwd(pu, k).port).pu = pu
             /\ Fwd(Fwd(pu, k).pu, Fwd(pu, k).port).port = k
  <2> DEFINE f == Forward(topo, pu, k)
  <2>1. Fwd(pu, k) = f /\ k \in 0 .. NumForwards(topo, pu) - 1
    BY <1>2
  <2>2. /\ f.pu \in PU /\ f.port \in 0 .. NumForwards(topo, f.pu) - 1
        /\ Forward(topo, f.pu, f.port) = [pu |-> pu, port |-> k]
    BY <1>1, <2>1, WiringAssumption DEF LinksPair
  <2> HIDE DEF f
  <2>3. NumFwd(f.pu) = NumForwards(topo, f.pu) /\ Fwd(f.pu, f.port) = [pu |-> pu, port |-> k]
    BY <1>2, <2>2
  <2>4. QED  BY <2>1, <2>2, <2>3
<1>4. ASSUME NEW m \in Memif, NEW p \in Ports(m)
      PROVE  /\ PortPU(m, p) \in PU
             /\ links[PortPU(m, p)].memif = {[memif |-> m, port |-> p]}
  <2> DEFINE mp == [memif |-> m, port |-> p]
  <2>1. \E pu \in PU : mp \in links[pu].memif
    BY <1>2, MemifAt
  <2>2. PortPU(m, p) \in PU /\ mp \in links[PortPU(m, p)].memif
    BY <2>1 DEF PortPU
  <2> HIDE DEF mp
  <2>3. \A x, y \in links[PortPU(m, p)].memif : x = y
    BY <1>1, <1>2, <2>2, WiringAssumption DEF LinksPair
  <2>4. links[PortPU(m, p)].memif = {mp}
    BY <2>2, <2>3
  <2>5. QED  BY <2>2, <2>4 DEF mp
<1>5. QED  BY <1>1, <1>2, <1>3, <1>4

----------------------------------------------------------------------------
(* What a router offers at an output *)

Places == 0 .. QDepth - 1
Token == [input : Nat, slot : Nat, prio : Nat]
QueueType == [buffer : [Places -> Flits \cup {NoFlit}], occupied : SUBSET Places]
RouterType(ins, outs) ==
    [queues : [ins -> QueueType], enqs : [ins -> SUBSET Places], arbs : [outs -> ins]]

\* The slots that the mask names hold flits.
QueueFull(q) == \A s \in q.occupied : q.buffer[s] \in Flits

\* The head of a queue is one of its occupied slots.
LEMMA HeadOf ==
    ASSUME NEW q \in QueueType, QueueFull(q)
    PROVE  PeekIdx(q) = {} \/ \E s \in q.occupied : PeekIdx(q) = {s}
<1> SUFFICES ASSUME q.occupied # {}
             PROVE  \E s \in q.occupied : PeekIdx(q) = {s}
  BY DEF PeekIdx
<1> DEFINE D == {PrioOf[q.buffer[s]] : s \in q.occupied}
           urgent(i) == \A j \in q.occupied : PrioOf[q.buffer[i]] <= PrioOf[q.buffer[j]]
           U == {i \in q.occupied : urgent(i)}
<1>1. q.occupied \subseteq Nat /\ U \subseteq Nat
  BY BackendAssumption DEF QueueType, Places
<1>2. \A s \in q.occupied : PrioOf[q.buffer[s]] \in Nat
  BY BackendAssumption DEF QueueFull
<1>3. D \in SUBSET Nat /\ D # {}
  BY <1>2
<1>4. Lowest(D) \in D /\ \A d \in D : Lowest(D) <= d
  BY <1>3, LeastMember
<1>5. U # {}
  <2>1. PICK s \in q.occupied : PrioOf[q.buffer[s]] = Lowest(D)
    BY <1>4
  <2>2. \A j \in q.occupied : Lowest(D) <= PrioOf[q.buffer[j]]
    BY <1>4
  <2> HIDE DEF D
  <2>3. urgent(s)
    BY <2>1, <2>2
  <2>4. QED  BY <2>3
<1>6. Lowest(U) \in U
  BY <1>1, <1>5, LeastMember
<1>7. PeekIdx(q) = {Lowest(U)}
  BY DEF PeekIdx
<1>8. QED  BY <1>6, <1>7

\* Two inputs cannot be equally near behind the last grant.
LEMMA TurnsDiffer ==
    ASSUME NEW n \in Nat \ {0}, NEW next \in 0 .. n - 1,
           NEW i \in 0 .. n - 1, NEW j \in 0 .. n - 1,
           (i - next) % n = (j - next) % n
    PROVE  i = j
<1> DEFINE last == IF next = 0 THEN n - 1 ELSE next - 1
<1>1. last \in 0 .. n - 1 /\ next = IF last + 1 = n THEN 0 ELSE last + 1
  OBVIOUS
<1> HIDE DEF last
<1>2. \A k \in 0 .. n - 1 : (k - next) % n = IF k > last THEN k - last - 1 ELSE k - last - 1 + n
  BY <1>1, TurnOf
<1>3. (IF i > last THEN i - last - 1 ELSE i - last - 1 + n)
         = IF j > last THEN j - last - 1 ELSE j - last - 1 + n
  BY <1>2, Zenon
<1>4. QED  BY <1>1, <1>3

\* A token names an occupied slot whose flit wants this output, and there is
\* at most one.
LEMMA TokenFacts ==
    ASSUME NEW n \in Nat \ {0}, NEW outs, NEW rt \in RouterType(0 .. n - 1, outs),
           \A i \in 0 .. n - 1 : QueueFull(rt.queues[i]),
           NEW tbl, NEW o \in outs
    PROVE  /\ PeekToken(rt, tbl, o) \subseteq Token
           /\ \A x \in PeekToken(rt, tbl, o) :
                 /\ x.input \in 0 .. n - 1
                 /\ x.slot \in rt.queues[x.input].occupied
                 /\ tbl[rt.queues[x.input].buffer[x.slot]] = o
           /\ \A x, y \in PeekToken(rt, tbl, o) : x = y
<1> DEFINE head(i) == PeekIdx(rt.queues[i])
           flit(i) == rt.queues[i].buffer[The(head(i))]
           wants == {i \in DOMAIN rt.queues : head(i) # {} /\ tbl[flit(i)] = o}
           prio == [i \in wants |-> PrioOf[flit(i)]]
           win == ArbPeek(Cardinality(DOMAIN rt.queues), rt.arbs[o], prio)
<1>1. /\ DOMAIN rt.queues = 0 .. n - 1 /\ Cardinality(0 .. n - 1) = n
      /\ rt.arbs[o] \in 0 .. n - 1
      /\ \A i \in 0 .. n - 1 : rt.queues[i] \in QueueType
  <2>1. Cardinality(0 .. n - 1) = n
    BY FS_Interval
  <2>2. QED  BY <2>1 DEF RouterType
<1>2. ASSUME NEW i \in wants
      PROVE  /\ i \in 0 .. n - 1
             /\ The(head(i)) \in rt.queues[i].occupied /\ The(head(i)) \in Nat
             /\ flit(i) \in Flits /\ tbl[flit(i)] = o
             /\ PrioOf[flit(i)] \in Nat
  <2>1. i \in 0 .. n - 1 /\ head(i) # {} /\ tbl[flit(i)] = o
    BY <1>1
  <2>2. \E s \in rt.queues[i].occupied : head(i) = {s}
    BY <1>1, <2>1, HeadOf
  <2>3. The(head(i)) \in rt.queues[i].occupied
    BY <2>2 DEF The
  <2>4. The(head(i)) \in Nat
    BY <1>1, <2>1, <2>3, BackendAssumption DEF QueueType, Places
  <2>5. flit(i) \in Flits
    BY <2>1, <2>3 DEF QueueFull
  <2>6. QED  BY <2>1, <2>3, <2>4, <2>5, BackendAssumption
<1>3. DOMAIN prio = wants /\ \A i \in wants : prio[i] = PrioOf[flit(i)]
  OBVIOUS
<1>4. \A x : x \in PeekToken(rt, tbl, o)
         <=> \E i \in win : x = [input |-> i, slot |-> The(head(i)), prio |-> PrioOf[flit(i)]]
  BY DEF PeekToken
<1> HIDE DEF prio
<1>5. \A i \in win : i \in wants
  BY <1>3 DEF ArbPeek
<1>6. ASSUME NEW i \in win, NEW j \in win
      PROVE  i = j
  <2>1. /\ prio[i] < prio[j] \/ (prio[i] = prio[j] /\ (i - rt.arbs[o]) % n <= (j - rt.arbs[o]) % n)
        /\ prio[j] < prio[i] \/ (prio[i] = prio[j] /\ (j - rt.arbs[o]) % n <= (i - rt.arbs[o]) % n)
    BY <1>1, <1>3, <1>5 DEF ArbPeek
  <2>2. i \in 0 .. n - 1 /\ j \in 0 .. n - 1 /\ prio[i] \in Nat /\ prio[j] \in Nat
    BY <1>2, <1>3, <1>5
  <2>3. (i - rt.arbs[o]) % n \in Int /\ (j - rt.arbs[o]) % n \in Int
    BY <1>1, <2>2
  <2>4. (i - rt.arbs[o]) % n = (j - rt.arbs[o]) % n
    BY <2>1, <2>2, <2>3
  <2>5. QED  BY <1>1, <2>2, <2>4, TurnsDiffer
<1> HIDE DEF win, wants
<1>7. ASSUME NEW x \in PeekToken(rt, tbl, o)
      PROVE  /\ x \in Token
             /\ x.input \in 0 .. n - 1
             /\ x.slot \in rt.queues[x.input].occupied
             /\ tbl[rt.queues[x.input].buffer[x.slot]] = o
  <2>1. PICK i \in win : x = [input |-> i, slot |-> The(head(i)), prio |-> PrioOf[flit(i)]]
    BY <1>4
  <2>2. /\ i \in 0 .. n - 1
        /\ The(head(i)) \in rt.queues[i].occupied /\ The(head(i)) \in Nat
        /\ tbl[flit(i)] = o /\ PrioOf[flit(i)] \in Nat
    BY <1>2, <1>5
  <2>3. x.input = i /\ x.slot = The(head(i))
    BY <2>1
  <2>4. x \in Token
    BY <2>1, <2>2 DEF Token
  <2>5. QED  BY <2>2, <2>3, <2>4
<1>8. \A x, y \in PeekToken(rt, tbl, o) : x = y
  BY <1>4, <1>6
<1>9. QED  BY <1>7, <1>8

\* A reservation is a free slot, and there is none without an offer.
LEMMA ReservedSlot ==
    ASSUME NEW ins, NEW outs, NEW rt \in RouterType(ins, outs), NEW i \in ins, NEW prio
    PROVE  \/ PrepareEnq(rt, i, prio).enqs[i] = {}
           \/ /\ prio # {}
              /\ \E s \in Places : /\ s \notin rt.queues[i].occupied
                                   /\ PrepareEnq(rt, i, prio).enqs[i] = {s}
<1> DEFINE free == DOMAIN rt.queues[i].buffer \ rt.queues[i].occupied
           ready == prio # {} /\ CanEnq(rt.queues[i], The(prio))
<1>1. free \subseteq Places /\ Places \subseteq Nat
  BY BackendAssumption DEF RouterType, QueueType, Places
<1>2. PrepareEnq(rt, i, prio).enqs[i] = IF ready THEN FirstFreeSlot(rt.queues[i]) ELSE {}
  BY DEF PrepareEnq, RouterType
<1>3. FirstFreeSlot(rt.queues[i]) = IF free = {} THEN {} ELSE {Lowest(free)}
  BY DEF FirstFreeSlot
<1>4. free # {} => Lowest(free) \in free
  BY <1>1, LeastMember
<1> HIDE DEF ready
<1>5. CASE ready /\ free # {}
  <2>1. prio # {}
    BY <1>5 DEF ready
  <2>2. PrepareEnq(rt, i, prio).enqs[i] = {Lowest(free)}
    BY <1>2, <1>3, <1>5
  <2>3. Lowest(free) \in Places /\ Lowest(free) \notin rt.queues[i].occupied
    BY <1>1, <1>4, <1>5
  <2> HIDE DEF free
  <2>4. QED  BY <2>1, <2>2, <2>3
<1>6. CASE ~ ready \/ free = {}
  BY <1>2, <1>3, <1>6
<1>7. QED  BY <1>5, <1>6

----------------------------------------------------------------------------
(* The shape of the state *)

Inputs(pu) == 0 .. NumInputs(topo, pu) - 1
Outputs(pu) == 0 .. NumOutputs(topo, pu) - 1

BufType(pu) ==
    [inject : SUBSET Nat, injectOk : BOOLEAN, eject : SUBSET Token, ejectOk : BOOLEAN,
     notice : SUBSET Flits, noticeOk : BOOLEAN,
     fwd : [0 .. NumForwards(topo, pu) - 1 -> SUBSET Token],
     fwdOk : [0 .. NumForwards(topo, pu) - 1 -> BOOLEAN]]

MemifType(m) ==
    [tokens : [Ports(m) -> SUBSET Token], accept : SUBSET Ports(m), notice : Flits \cup {NoFlit}]

Shape ==
    /\ LinksFixed
    /\ \A pu \in PU : /\ routers[pu] \in RouterType(Inputs(pu), Outputs(pu))
                      /\ buf[pu] \in BufType(pu)
                      /\ cores[pu] \in Flits \cup {NoFlit}
    /\ \A m \in Memif : memifs[m] \in MemifType(m)

\* The ports of a router: links, core, and an interface if it has one.
LEMMA PortCounts ==
    ASSUME NEW pu \in PU
    PROVE  /\ NumForwards(topo, pu) \in Nat
           /\ NumInputs(topo, pu) \in {NumForwards(topo, pu) + 1, NumForwards(topo, pu) + 2}
           /\ NumOutputs(topo, pu) = NumForwards(topo, pu)
                                        + (IF topo.pu_memif[pu] = {} THEN 1 ELSE 2)
<1>1. NumForwards(topo, pu) \in Nat /\ \A x, y \in topo.pu_memif[pu] : x = y
  BY TopologyFields, WiringAssumption DEF LinksPair
<1>2. topo.pu_memif[pu] = {} \/ \E x : topo.pu_memif[pu] = {x}
  BY <1>1
<1>3. \A m : m \in topo.pu_memif_inject[pu]
         <=> \E x \in topo.pu_memif[pu] : x.port = 0 /\ x.memif = m
  BY TopologyFields
<1>4. topo.pu_memif_inject[pu] = {} \/ \E x : topo.pu_memif_inject[pu] = {x}
  <2>1. \A m, n \in topo.pu_memif_inject[pu] : m = n
    BY <1>1, <1>3
  <2>2. QED  BY <2>1
<1>5. /\ topo.pu_memif[pu] = {} => Cardinality(topo.pu_memif[pu]) = 0
      /\ topo.pu_memif[pu] # {} => Cardinality(topo.pu_memif[pu]) = 1
  BY <1>2, FS_EmptySet, FS_Singleton
<1>6. Cardinality(topo.pu_memif_inject[pu]) \in {0, 1}
  BY <1>4, FS_EmptySet, FS_Singleton
<1>7. QED  BY <1>1, <1>5, <1>6 DEF NumInputs, NumOutputs

----------------------------------------------------------------------------
(* Between stageStart and stepStart: decisions *)

RouterFull(pu) == \A i \in Inputs(pu) : QueueFull(routers[pu].queues[i])

\* A token names an occupied slot of the router.
Held(pu, x) == x.input \in Inputs(pu) /\ x.slot \in routers[pu].queues[x.input].occupied

OneToken(T, pu, o) ==
    /\ \A x, y \in T : x = y
    /\ \A x \in T : /\ Held(pu, x)
                    /\ Table(pu)[routers[pu].queues[x.input].buffer[x.slot]] = o

\* Free slots are reserved for what is accepted, and only for that.
Reserved(pu) ==
    /\ \A i \in Inputs(pu) :
          /\ \A s, r \in routers[pu].enqs[i] : s = r
          /\ \A s \in routers[pu].enqs[i] : s \notin routers[pu].queues[i].occupied
    /\ \A k \in 0 .. NumFwd(pu) - 1 :
          /\ buf[pu].fwdOk[k] <=> routers[pu].enqs[k] # {}
          /\ buf[pu].fwdOk[k] => buf[pu].fwd[k] # {}
    /\ buf[pu].injectOk <=> routers[pu].enqs[NumFwd(pu)] # {}
    /\ buf[pu].noticeOk <=> (NumFwd(pu) + 1 \in Inputs(pu) /\ routers[pu].enqs[NumFwd(pu) + 1] # {})
    /\ buf[pu].noticeOk => buf[pu].notice # {}

CoreHas(pu) == buf[pu].injectOk => cores[pu] \in Flits

Chosen(pu) ==
    /\ \A k \in 0 .. NumFwd(pu) - 1 : OneToken(buf[pu].fwd[k], Fwd(pu, k).pu, Fwd(pu, k).port)
    /\ OneToken(buf[pu].eject, pu, NumFwd(pu))

EjectSure(pu) == buf[pu].ejectOk => buf[pu].eject # {}

PortsChosen(m) ==
    \A p \in Ports(m) : OneToken(memifs[m].tokens[p], PortPU(m, p), NumFwd(PortPU(m, p)) + 1)

AcceptSure(m) ==
    /\ \A p, r \in memifs[m].accept : p = r
    /\ \A p \in memifs[m].accept : memifs[m].tokens[p] # {}

\* The masks tell the truth, and what a thread has decided suits them.
Deciding ==
    /\ \A pu \in PU : RouterFull(pu)
    /\ \A t \in Threads :
          /\ pc[t] \notin {"stageStart", "resolve"}
                => \A pu \in Owned(t) : Reserved(pu) /\ CoreHas(pu) /\ Chosen(pu)
          /\ pc[t] \notin {"stageStart", "resolve", "drive"}
                => \A pu \in Owned(t) : EjectSure(pu)
          /\ pc[t] \notin {"stageStart", "resolve", "drive", "memif"}
                => \A m \in ThreadMemifs(t) : PortsChosen(m) /\ AcceptSure(m)

LEMMA TokenOf ==
    ASSUME Shape, NEW pu \in PU, RouterFull(pu), NEW o \in Outputs(pu)
    PROVE  /\ PeekToken(routers[pu], Table(pu), o) \in SUBSET Token
           /\ OneToken(PeekToken(routers[pu], Table(pu), o), pu, o)
<1> DEFINE n == NumInputs(topo, pu)
<1>1. n \in Nat \ {0} /\ routers[pu] \in RouterType(0 .. n - 1, Outputs(pu))
  BY PortCounts DEF Shape, Inputs
<1>2. \A i \in 0 .. n - 1 : QueueFull(routers[pu].queues[i])
  BY DEF RouterFull, Inputs
<1>3. Inputs(pu) = 0 .. n - 1
  BY DEF Inputs
<1> HIDE DEF n
<1>4. /\ PeekToken(routers[pu], Table(pu), o) \subseteq Token
      /\ \A x \in PeekToken(routers[pu], Table(pu), o) :
            /\ x.input \in 0 .. n - 1
            /\ x.slot \in routers[pu].queues[x.input].occupied
            /\ Table(pu)[routers[pu].queues[x.input].buffer[x.slot]] = o
      /\ \A x, y \in PeekToken(routers[pu], Table(pu), o) : x = y
  BY <1>1, <1>2, TokenFacts
<1>5. QED  BY <1>3, <1>4 DEF OneToken, Held

\* The links and the core have a port; so has the interface, if there is one.
LEMMA OwnPorts ==
    ASSUME LinksFixed, NEW pu \in PU
    PROVE  /\ NumFwd(pu) \in Inputs(pu) /\ NumFwd(pu) \in Outputs(pu)
           /\ 0 .. NumFwd(pu) - 1 \subseteq Inputs(pu) /\ 0 .. NumFwd(pu) - 1 \subseteq Outputs(pu)
           /\ \A i \in Inputs(pu) : i \in Nat /\ i <= NumFwd(pu) + 1
           /\ \A o \in Outputs(pu) :
                 /\ o \in Nat /\ o <= NumFwd(pu) + 1
                 /\ o > NumFwd(pu) => o = NumFwd(pu) + 1 /\ links[pu].memif # {}
           /\ links[pu].memif # {} => NumFwd(pu) + 1 \in Outputs(pu)
  BY PortCounts, Wiring DEF Inputs, Outputs

LEMMA ResolvedFacts ==
    ASSUME Shape, \A q \in PU : RouterFull(q), NEW pu \in PU
    PROVE  /\ Resolved(pu).rt \in RouterType(Inputs(pu), Outputs(pu))
           /\ Resolved(pu).rt.queues = routers[pu].queues
           /\ Resolved(pu).rt.arbs = routers[pu].arbs
           /\ Resolved(pu).buf \in BufType(pu)
           /\ \A i \in Inputs(pu) :
                 \/ Resolved(pu).rt.enqs[i] = {}
                 \/ \E s \in Places : /\ s \notin routers[pu].queues[i].occupied
                                      /\ Resolved(pu).rt.enqs[i] = {s}
           /\ \A k \in 0 .. NumFwd(pu) - 1 :
                 /\ Resolved(pu).buf.fwd[k] = LinkToken(pu, k)
                 /\ Resolved(pu).buf.fwdOk[k] <=> Resolved(pu).rt.enqs[k] # {}
                 /\ Resolved(pu).buf.fwdOk[k] => Resolved(pu).buf.fwd[k] # {}
           /\ Resolved(pu).buf.injectOk <=> Resolved(pu).rt.enqs[NumFwd(pu)] # {}
           /\ Resolved(pu).buf.injectOk => cores[pu] \in Flits
           /\ Resolved(pu).buf.noticeOk
                 <=> (NumFwd(pu) + 1 \in Inputs(pu) /\ Resolved(pu).rt.enqs[NumFwd(pu) + 1] # {})
           /\ Resolved(pu).buf.noticeOk => Resolved(pu).buf.notice # {}
           /\ Resolved(pu).buf.eject = PeekToken(routers[pu], Table(pu), NumFwd(pu))
<1> DEFINE nf == NumFwd(pu)
           inject == Prio(cores[pu])
           notice == UNION {Prio(memifs[m].notice) : m \in links[pu].memif_inject}
           noticed == UNION {{memifs[m].notice} : m \in {x \in links[pu].memif_inject :
                                                      memifs[x].notice # NoFlit}}
           fwd == [k \in 0 .. nf - 1 |-> LinkToken(pu, k)]
           offered(i) == IF i < nf THEN {x.prio : x \in fwd[i]}
                         ELSE IF i = nf THEN inject ELSE notice
           enqs == [i \in DOMAIN routers[pu].enqs |->
                       PrepareEnq(routers[pu], i, offered(i)).enqs[i]]
           rt == [routers[pu] EXCEPT !.enqs = enqs]
           fwdOk == [k \in 0 .. nf - 1 |-> rt.enqs[k] # {}]
           injectOk == rt.enqs[nf] # {}
           noticeOk == nf + 1 \in DOMAIN rt.enqs /\ rt.enqs[nf + 1] # {}
           eject == PeekToken(routers[pu], Table(pu), nf)
           ejectOk == buf[pu].ejectOk
           new == [inject |-> inject, injectOk |-> injectOk, notice |-> noticed,
                   noticeOk |-> noticeOk, fwd |-> fwd, fwdOk |-> fwdOk,
                   eject |-> eject, ejectOk |-> ejectOk]
<1>1. Resolved(pu) = [rt |-> rt, buf |-> new]
  BY DEF Resolved
<1>2. /\ routers[pu] \in RouterType(Inputs(pu), Outputs(pu))
      /\ buf[pu] \in BufType(pu) /\ cores[pu] \in Flits \cup {NoFlit}
      /\ nf \in Nat /\ nf = NumForwards(topo, pu) /\ LinksFixed
  BY Wiring DEF Shape
<1>3. DOMAIN routers[pu].enqs = Inputs(pu)
  BY <1>2 DEF RouterType
<1>4. ASSUME NEW i \in Inputs(pu)
      PROVE  \/ enqs[i] = {}
             \/ /\ offered(i) # {}
                /\ \E s \in Places : s \notin routers[pu].queues[i].occupied /\ enqs[i] = {s}
  <2>1. enqs[i] = PrepareEnq(routers[pu], i, offered(i)).enqs[i]
    BY <1>3
  <2> HIDE DEF enqs, offered
  <2>2. QED  BY <1>2, <2>1, ReservedSlot
<1>5. enqs \in [Inputs(pu) -> SUBSET Places]
  <2>1. \A i \in Inputs(pu) : enqs[i] \in SUBSET Places
    <3> HIDE DEF enqs, offered
    <3>1. QED  BY <1>4
  <2>2. QED  BY <1>3, <2>1
<1>6. /\ rt.enqs = enqs /\ rt.queues = routers[pu].queues /\ rt.arbs = routers[pu].arbs
      /\ rt \in RouterType(Inputs(pu), Outputs(pu))
  <2> HIDE DEF enqs
  <2>1. QED  BY <1>2, <1>5 DEF RouterType
<1>7. \A k \in 0 .. nf - 1 : LinkToken(pu, k) \in SUBSET Token
  <2> SUFFICES ASSUME NEW k \in 0 .. nf - 1
               PROVE  LinkToken(pu, k) \in SUBSET Token
    OBVIOUS
  <2> DEFINE from == Fwd(pu, k).pu
             o == Fwd(pu, k).port
  <2>1. from \in PU /\ o \in 0 .. NumFwd(from) - 1
    BY <1>2, Wiring
  <2>2. LinkToken(pu, k) = PeekToken(routers[from], Table(from), o)
    BY DEF LinkToken
  <2> HIDE DEF from, o
  <2>3. o \in Outputs(from)
    BY <1>2, <2>1, OwnPorts
  <2>4. QED  BY <2>1, <2>2, <2>3, TokenOf
<1>8. nf \in Outputs(pu) /\ nf \in Inputs(pu) /\ 0 .. nf - 1 \subseteq Inputs(pu)
  BY <1>2, OwnPorts
<1>9. eject \in SUBSET Token
  BY <1>8, TokenOf
<1>10. noticed \in SUBSET Flits
  <2>1. \A m \in links[pu].memif_inject : memifs[m].notice \in Flits \cup {NoFlit}
    <3>1. \A m \in links[pu].memif_inject : m \in Memif
      BY <1>2, Wiring, TopologyFields, MemifAt
    <3>2. QED  BY <3>1 DEF Shape, MemifType
  <2>2. QED  BY <2>1
<1>11. inject \in SUBSET Nat
  BY <1>2, BackendAssumption DEF Prio
<1>12. /\ injectOk <=> enqs[nf] # {}
       /\ noticeOk <=> (nf + 1 \in Inputs(pu) /\ enqs[nf + 1] # {})
       /\ \A k \in 0 .. nf - 1 : fwdOk[k] <=> enqs[k] # {}
       /\ fwdOk \in [0 .. nf - 1 -> BOOLEAN] /\ injectOk \in BOOLEAN /\ noticeOk \in BOOLEAN
  <2> HIDE DEF enqs, rt
  <2>1. DOMAIN enqs = Inputs(pu)
    BY <1>5
  <2>2. QED  BY <1>6, <2>1
<1>13. fwd \in [0 .. nf - 1 -> SUBSET Token] /\ ejectOk \in BOOLEAN
  BY <1>2, <1>7 DEF BufType
<1>14. \A k \in 0 .. nf - 1 : enqs[k] # {} => fwd[k] # {}
  <2> SUFFICES ASSUME NEW k \in 0 .. nf - 1, enqs[k] # {}
               PROVE  fwd[k] # {}
    OBVIOUS
  <2>1. offered(k) # {}
    BY <1>4, <1>8
  <2>2. offered(k) = {x.prio : x \in fwd[k]}
    BY <1>2
  <2> HIDE DEF fwd, offered
  <2>3. QED  BY <2>1, <2>2
<1>15. enqs[nf] # {} => cores[pu] \in Flits
  <2> SUFFICES ASSUME enqs[nf] # {}
               PROVE  cores[pu] \in Flits
    OBVIOUS
  <2>1. offered(nf) # {}
    BY <1>4, <1>8
  <2>2. offered(nf) = inject
    BY <1>2
  <2> HIDE DEF offered
  <2>3. QED  BY <1>2, <2>1, <2>2 DEF Prio
<1>16. nf + 1 \in Inputs(pu) /\ enqs[nf + 1] # {} => noticed # {}
  <2> SUFFICES ASSUME nf + 1 \in Inputs(pu), enqs[nf + 1] # {}
               PROVE  noticed # {}
    OBVIOUS
  <2>1. offered(nf + 1) # {}
    BY <1>4
  <2>2. offered(nf + 1) = notice
    BY <1>2
  <2>3. notice # {}
    BY <2>1, <2>2
  <2>4. PICK m \in links[pu].memif_inject : Prio(memifs[m].notice) # {}
    BY <2>3
  <2>5. memifs[m].notice \in noticed
    BY <2>4 DEF Prio
  <2>6. QED  BY <2>5
<1> HIDE DEF inject, notice, noticed, fwd, offered, enqs, rt, fwdOk, injectOk, noticeOk, eject, ejectOk
<1>17. new \in BufType(pu)
  BY <1>2, <1>9, <1>10, <1>11, <1>12, <1>13 DEF BufType
<1>18. /\ Resolved(pu).rt = rt
       /\ Resolved(pu).buf.fwd = fwd /\ Resolved(pu).buf.fwdOk = fwdOk
       /\ Resolved(pu).buf.injectOk = injectOk /\ Resolved(pu).buf.noticeOk = noticeOk
       /\ Resolved(pu).buf.notice = noticed /\ Resolved(pu).buf.eject = eject
       /\ Resolved(pu).buf = new
  BY <1>1
<1>19. \A k \in 0 .. nf - 1 : fwd[k] = LinkToken(pu, k)
  BY DEF fwd
<1>20. eject = PeekToken(routers[pu], Table(pu), nf)
  BY DEF eject
<1>21. QED
  BY <1>4, <1>6, <1>12, <1>14, <1>15, <1>16, <1>17, <1>18, <1>19, <1>20

\* While no flit moves, tokens stay good.
LEMMA TokensStay ==
    ASSUME LinksFixed, links' = links, \A q \in PU : routers'[q].queues = routers[q].queues
    PROVE  /\ \A pu \in PU : RouterFull(pu) => RouterFull(pu)'
           /\ \A pu \in PU : \A x : Held(pu, x)' <=> Held(pu, x)
           /\ \A pu \in PU : \A k : Fwd(pu, k)' = Fwd(pu, k)
           /\ \A pu \in PU : \A k \in 0 .. NumFwd(pu) - 1 : Fwd(pu, k).pu \in PU
           /\ \A pu \in PU : NumFwd(pu)' = NumFwd(pu)
           /\ \A m \in Memif : \A p \in Ports(m) : PortPU(m, p)' = PortPU(m, p) /\ PortPU(m, p) \in PU
           /\ LinksFixed'
<1>1. ASSUME NEW pu \in PU, RouterFull(pu)
      PROVE  RouterFull(pu)'
  BY <1>1 DEF RouterFull, Inputs
<1>2. \A pu \in PU : \A x : Held(pu, x)' <=> Held(pu, x)
  BY DEF Held, Inputs
<1>3. \A pu \in PU : \A k \in 0 .. NumFwd(pu) - 1 : Fwd(pu, k).pu \in PU
  BY Wiring
<1>4. \A pu \in PU : NumFwd(pu)' = NumFwd(pu) /\ \A k : Fwd(pu, k)' = Fwd(pu, k)
  BY DEF Fwd, NumFwd
<1>5. \A m \in Memif : \A p \in Ports(m) : PortPU(m, p)' = PortPU(m, p) /\ PortPU(m, p) \in PU
  <2>1. \A m \in Memif : \A p \in Ports(m) : PortPU(m, p) \in PU
    BY Wiring
  <2>2. QED  BY <2>1 DEF PortPU
<1>6. LinksFixed'
  BY DEF LinksFixed, LinkStatus
<1>7. QED  BY <1>1, <1>2, <1>3, <1>4, <1>5, <1>6

LEMMA DecisionsStay ==
    ASSUME LinksFixed, links' = links, \A q \in PU : routers'[q].queues = routers[q].queues,
           NEW pu \in PU, routers'[pu] = routers[pu], cores'[pu] = cores[pu]
    PROVE  /\ buf'[pu] = buf[pu] => /\ Reserved(pu) => Reserved(pu)'
                                    /\ CoreHas(pu) => CoreHas(pu)'
                                    /\ EjectSure(pu) => EjectSure(pu)'
           /\ (buf'[pu].fwd = buf[pu].fwd /\ buf'[pu].eject = buf[pu].eject)
                 => (Chosen(pu) => Chosen(pu)')
<1>1. ASSUME buf'[pu] = buf[pu]
      PROVE  /\ Reserved(pu) => Reserved(pu)'
             /\ CoreHas(pu) => CoreHas(pu)'
             /\ EjectSure(pu) => EjectSure(pu)'
  BY <1>1, TokensStay DEF Reserved, CoreHas, EjectSure
<1>2. ASSUME buf'[pu].fwd = buf[pu].fwd, buf'[pu].eject = buf[pu].eject, Chosen(pu)
      PROVE  Chosen(pu)'
  <2>1. \A q \in PU : Table(q)' = Table(q)
    BY DEF Table
  <2>2. NumFwd(pu)' = NumFwd(pu) /\ \A k : Fwd(pu, k)' = Fwd(pu, k)
    BY TokensStay
  <2>3. ASSUME NEW k \in 0 .. NumFwd(pu) - 1
        PROVE  OneToken(buf[pu].fwd[k], Fwd(pu, k).pu, Fwd(pu, k).port)'
    <3> DEFINE q == Fwd(pu, k).pu
               o == Fwd(pu, k).port
    <3>1. OneToken(buf[pu].fwd[k], q, o) /\ q \in PU /\ q' = q /\ o' = o
      BY <1>2, <2>2, TokensStay DEF Chosen
    <3> HIDE DEF q, o
    <3>2. OneToken(buf[pu].fwd[k], q, o)'
      BY <1>2, <2>1, <3>1, TokensStay DEF OneToken
    <3>3. QED  BY <3>2 DEF q, o
  <2>4. OneToken(buf[pu].eject, pu, NumFwd(pu))'
    BY <1>2, <2>1, <2>2, TokensStay DEF Chosen, OneToken
  <2>5. QED  BY <2>2, <2>3, <2>4 DEF Chosen
<1>3. QED  BY <1>1, <1>2

LEMMA InterfacesStay ==
    ASSUME LinksFixed, links' = links, \A q \in PU : routers'[q].queues = routers[q].queues,
           NEW m \in Memif, memifs'[m] = memifs[m]
    PROVE  /\ PortsChosen(m) => PortsChosen(m)'
           /\ AcceptSure(m) => AcceptSure(m)'
<1>1. ASSUME PortsChosen(m)
      PROVE  PortsChosen(m)'
  <2>1. \A q \in PU : Table(q)' = Table(q)
    BY DEF Table
  <2>2. ASSUME NEW p \in Ports(m)
        PROVE  OneToken(memifs[m].tokens[p], PortPU(m, p), NumFwd(PortPU(m, p)) + 1)'
    <3> DEFINE q == PortPU(m, p)
    <3>1. q \in PU /\ q' = q /\ NumFwd(q)' = NumFwd(q)
      BY TokensStay
    <3>2. OneToken(memifs[m].tokens[p], q, NumFwd(q) + 1)
      BY <1>1 DEF PortsChosen
    <3> HIDE DEF q
    <3>3. OneToken(memifs[m].tokens[p], q, NumFwd(q) + 1)'
      BY <2>1, <3>1, <3>2, TokensStay DEF OneToken
    <3>4. QED  BY <3>3 DEF q
  <2>3. QED  BY <2>2 DEF PortsChosen, Ports
<1>2. QED  BY <1>1 DEF AcceptSure

Moves(t, next) == \A u \in Threads : pc'[u] = IF u = t THEN next ELSE pc[u]

LEMMA ResolveStep ==
    ASSUME Shape, Deciding, NEW t \in Threads, Resolve(t), Moves(t, "drive"), UNCHANGED links
    PROVE  Shape' /\ Deciding'
<1>1. /\ \A pu \in PU :
            /\ pu \in Owned(t) => routers'[pu] = Resolved(pu).rt /\ buf'[pu] = Resolved(pu).buf
            /\ pu \notin Owned(t) => routers'[pu] = routers[pu] /\ buf'[pu] = buf[pu]
      /\ memifs' = memifs /\ cores' = cores /\ links' = links /\ pc[t] = "resolve"
  BY DEF Resolve
<1>2. /\ LinksFixed /\ \A pu \in PU : RouterFull(pu)
      /\ \A m \in Memif : memifs[m] \in MemifType(m)
  BY DEF Shape, Deciding
<1>3. ASSUME NEW pu \in PU
      PROVE  /\ routers'[pu] \in RouterType(Inputs(pu), Outputs(pu))
             /\ routers'[pu].queues = routers[pu].queues
             /\ buf'[pu] \in BufType(pu) /\ cores'[pu] \in Flits \cup {NoFlit}
  BY <1>1, <1>2, ResolvedFacts DEF Shape
<1>4. \A pu \in PU : RouterFull(pu)'
  BY <1>1, <1>2, <1>3, TokensStay
<1>5. Shape'
  <2>1. LinksFixed'
    BY <1>1, <1>2, <1>3, TokensStay
  <2>2. \A m \in Memif : memifs'[m] \in MemifType(m)
    BY <1>1, <1>2
  <2>3. QED  BY <1>3, <2>1, <2>2 DEF Shape, Inputs, Outputs, BufType, MemifType, Ports
<1>6. ASSUME NEW pu \in Owned(t)
      PROVE  Reserved(pu)' /\ CoreHas(pu)' /\ Chosen(pu)'
  <2>1. pu \in PU /\ routers'[pu] = Resolved(pu).rt /\ buf'[pu] = Resolved(pu).buf
    BY <1>1, RangesApart
  <2>2. NumFwd(pu)' = NumFwd(pu) /\ \A k : Fwd(pu, k)' = Fwd(pu, k)
    BY <1>1, <1>2, <1>3, <2>1, TokensStay
  <2>3. Reserved(pu)'
    <3>1. \A i \in Inputs(pu) :
             /\ \A s, r \in routers'[pu].enqs[i] : s = r
             /\ \A s \in routers'[pu].enqs[i] : s \notin routers'[pu].queues[i].occupied
      BY <1>2, <1>3, <2>1, ResolvedFacts
    <3>2. /\ \A k \in 0 .. NumFwd(pu) - 1 :
                /\ buf'[pu].fwdOk[k] <=> routers'[pu].enqs[k] # {}
                /\ buf'[pu].fwdOk[k] => buf'[pu].fwd[k] # {}
          /\ buf'[pu].injectOk <=> routers'[pu].enqs[NumFwd(pu)] # {}
          /\ buf'[pu].noticeOk
                <=> (NumFwd(pu) + 1 \in Inputs(pu) /\ routers'[pu].enqs[NumFwd(pu) + 1] # {})
          /\ buf'[pu].noticeOk => buf'[pu].notice # {}
      BY <1>2, <2>1, ResolvedFacts
    <3>3. QED  BY <2>2, <3>1, <3>2 DEF Reserved, Inputs
  <2>4. CoreHas(pu)'
    BY <1>1, <1>2, <2>1, ResolvedFacts DEF CoreHas
  <2>5. ASSUME NEW q \in PU, NEW o, NEW T, OneToken(T, q, o)
        PROVE  /\ \A x, y \in T : x = y
               /\ \A x \in T : /\ Held(q, x)'
                               /\ Table(q)'[routers'[q].queues[x.input].buffer[x.slot]] = o
    <3>1. Table(q)' = Table(q)
      BY <1>1 DEF Table
    <3>2. QED  BY <1>1, <1>2, <1>3, <2>5, <3>1, TokensStay DEF OneToken
  <2>6. ASSUME NEW k \in 0 .. NumFwd(pu) - 1
        PROVE  OneToken(buf[pu].fwd[k], Fwd(pu, k).pu, Fwd(pu, k).port)'
    <3> DEFINE q == Fwd(pu, k).pu
               o == Fwd(pu, k).port
               T == LinkToken(pu, k)
    <3>1. q \in PU /\ o \in Outputs(q)
      BY <1>2, <2>1, Wiring, OwnPorts
    <3>2. OneToken(T, q, o)
      <4>1. T = PeekToken(routers[q], Table(q), o)
        BY DEF LinkToken
      <4> HIDE DEF q, o, T
      <4>2. QED  BY <1>2, <3>1, <4>1, TokenOf
    <3>3. buf'[pu].fwd[k] = T /\ q' = q /\ o' = o
      BY <1>2, <2>1, <2>2, ResolvedFacts
    <3> HIDE DEF q, o, T
    <3>4. /\ \A x, y \in T : x = y
          /\ \A x \in T : /\ Held(q, x)'
                          /\ Table(q)'[routers'[q].queues[x.input].buffer[x.slot]] = o
      BY <2>5, <3>1, <3>2, <3>3
    <3>5. OneToken(buf[pu].fwd[k], q, o)'
      BY <3>3, <3>4 DEF OneToken
    <3>6. QED  BY <3>5 DEF q, o
  <2>7. OneToken(buf[pu].eject, pu, NumFwd(pu))'
    <3> DEFINE o == NumFwd(pu)
               T == PeekToken(routers[pu], Table(pu), o)
    <3>1. OneToken(T, pu, o)
      BY <1>2, <2>1, OwnPorts, TokenOf
    <3>2. buf'[pu].eject = T /\ o' = o
      BY <1>2, <2>1, <2>2, ResolvedFacts
    <3> HIDE DEF o, T
    <3>3. /\ \A x, y \in T : x = y
          /\ \A x \in T : /\ Held(pu, x)'
                          /\ Table(pu)'[routers'[pu].queues[x.input].buffer[x.slot]] = o
      BY <2>1, <2>5, <3>1
    <3>4. OneToken(buf[pu].eject, pu, o)'
      BY <3>2, <3>3 DEF OneToken
    <3>5. QED  BY <3>4 DEF o
  <2>8. Chosen(pu)'
    BY <2>2, <2>6, <2>7 DEF Chosen
  <2>9. QED  BY <2>3, <2>4, <2>8
<1>7. ASSUME NEW u \in Threads, u # t, NEW pu \in Owned(u)
      PROVE  /\ Reserved(pu) => Reserved(pu)'
             /\ CoreHas(pu) => CoreHas(pu)'
             /\ Chosen(pu) => Chosen(pu)'
             /\ EjectSure(pu) => EjectSure(pu)'
  <2>1. pu \in PU /\ pu \notin Owned(t)
    BY <1>7, RangesApart
  <2>2. routers'[pu] = routers[pu] /\ buf'[pu] = buf[pu] /\ cores'[pu] = cores[pu]
    BY <1>1, <2>1
  <2>3. QED  BY <1>1, <1>2, <1>3, <2>1, <2>2, DecisionsStay
<1>8. ASSUME NEW m \in Memif
      PROVE  /\ PortsChosen(m) => PortsChosen(m)'
             /\ AcceptSure(m) => AcceptSure(m)'
  BY <1>1, <1>2, <1>3, InterfacesStay
<1>9. Deciding'
  <2>1. ASSUME NEW u \in Threads
        PROVE  /\ pc'[u] \notin {"stageStart", "resolve"}
                    => \A pu \in Owned(u) : Reserved(pu)' /\ CoreHas(pu)' /\ Chosen(pu)'
               /\ pc'[u] \notin {"stageStart", "resolve", "drive"}
                    => \A pu \in Owned(u) : EjectSure(pu)'
               /\ pc'[u] \notin {"stageStart", "resolve", "drive", "memif"}
                    => \A m \in ThreadMemifs(u) : PortsChosen(m)' /\ AcceptSure(m)'
    <3>1. CASE u = t
      BY <1>6, <3>1 DEF Moves
    <3>2. CASE u # t
      <4>1. pc'[u] = pc[u] /\ ThreadMemifs(u) \subseteq Memif
        BY <3>2 DEF Moves, ThreadMemifs
      <4>2. QED  BY <1>7, <1>8, <3>2, <4>1 DEF Deciding
    <3>3. QED  BY <3>1, <3>2
  <2>2. QED  BY <1>4, <2>1 DEF Deciding
<1>10. QED  BY <1>5, <1>9

LEMMA DriveStep ==
    ASSUME Shape, Deciding, NEW t \in Threads, Drive(t), Moves(t, "memif"), UNCHANGED links
    PROVE  Shape' /\ Deciding'
<1>1. PICK ready \in SUBSET {pu \in Owned(t) : buf[pu].eject # {} /\ inReset = 0} :
         buf' = [pu \in PU |-> IF pu \in Owned(t) THEN [buf[pu] EXCEPT !.ejectOk = pu \in ready]
                               ELSE buf[pu]]
  BY DEF Drive
<1>2. /\ routers' = routers /\ memifs' = memifs /\ cores' = cores /\ links' = links
      /\ pc[t] = "drive"
  BY DEF Drive
<1>3. /\ LinksFixed /\ \A pu \in PU : RouterFull(pu)
      /\ \A pu \in PU : buf[pu] \in BufType(pu)
  BY DEF Shape, Deciding
<1>4. ASSUME NEW pu \in PU
      PROVE  /\ buf'[pu] \in BufType(pu)
             /\ buf'[pu].eject = buf[pu].eject /\ buf'[pu].fwd = buf[pu].fwd
             /\ buf'[pu].fwdOk = buf[pu].fwdOk /\ buf'[pu].injectOk = buf[pu].injectOk
             /\ buf'[pu].notice = buf[pu].notice /\ buf'[pu].noticeOk = buf[pu].noticeOk
             /\ pu \in Owned(t) => (buf'[pu].ejectOk => buf'[pu].eject # {})
             /\ pu \notin Owned(t) => buf'[pu] = buf[pu]
  <2>1. CASE pu \in Owned(t)
    <3> DEFINE ok == pu \in ready
               new == [buf[pu] EXCEPT !.ejectOk = ok]
    <3>1. buf'[pu] = new /\ ok \in BOOLEAN /\ (ok => buf[pu].eject # {})
      BY <1>1, <2>1
    <3> HIDE DEF ok
    <3>2. /\ new \in BufType(pu)
          /\ new.eject = buf[pu].eject /\ new.fwd = buf[pu].fwd /\ new.ejectOk = ok
          /\ new.fwdOk = buf[pu].fwdOk /\ new.injectOk = buf[pu].injectOk
          /\ new.notice = buf[pu].notice /\ new.noticeOk = buf[pu].noticeOk
      BY <1>3, <3>1 DEF BufType
    <3>3. QED  BY <2>1, <3>1, <3>2
  <2>2. CASE pu \notin Owned(t)
    BY <1>1, <1>3, <2>2
  <2>3. QED  BY <2>1, <2>2
<1>5. Shape'
  <2>1. LinksFixed'
    BY <1>2, <1>3, TokensStay
  <2>2. QED  BY <1>2, <1>4, <2>1 DEF Shape, Inputs, Outputs, BufType, MemifType, Ports
<1>6. ASSUME NEW pu \in PU
      PROVE  /\ Reserved(pu) => Reserved(pu)'
             /\ CoreHas(pu) => CoreHas(pu)'
             /\ Chosen(pu) => Chosen(pu)'
             /\ pu \in Owned(t) => EjectSure(pu)'
             /\ pu \notin Owned(t) => (EjectSure(pu) => EjectSure(pu)')
  <2>1. Reserved(pu) => Reserved(pu)'
    <3>1. NumFwd(pu)' = NumFwd(pu)
      BY <1>2, <1>3, TokensStay
    <3>2. QED  BY <1>2, <1>4, <3>1 DEF Reserved, Inputs
  <2>2. Chosen(pu) => Chosen(pu)'
    BY <1>2, <1>3, <1>4, DecisionsStay
  <2>3. QED  BY <1>2, <1>4, <2>1, <2>2 DEF CoreHas, EjectSure
<1>7. ASSUME NEW m \in Memif
      PROVE  /\ PortsChosen(m) => PortsChosen(m)'
             /\ AcceptSure(m) => AcceptSure(m)'
  BY <1>2, <1>3, InterfacesStay
<1>8. \A pu \in PU : RouterFull(pu)'
  BY <1>2, <1>3, TokensStay
<1>9. ASSUME NEW u \in Threads
      PROVE  /\ pc'[u] \notin {"stageStart", "resolve"}
                  => \A pu \in Owned(u) : Reserved(pu)' /\ CoreHas(pu)' /\ Chosen(pu)'
             /\ pc'[u] \notin {"stageStart", "resolve", "drive"}
                  => \A pu \in Owned(u) : EjectSure(pu)'
             /\ pc'[u] \notin {"stageStart", "resolve", "drive", "memif"}
                  => \A m \in ThreadMemifs(u) : PortsChosen(m)' /\ AcceptSure(m)'
  <2>1. Owned(u) \subseteq PU /\ ThreadMemifs(u) \subseteq Memif
    BY RangesApart DEF ThreadMemifs
  <2>2. CASE u = t
    <3>1. pc'[u] = "memif" /\ pc[u] = "drive"
      BY <1>2, <2>2 DEF Moves
    <3>2. QED  BY <1>6, <2>1, <2>2, <3>1 DEF Deciding
  <2>3. CASE u # t
    <3>1. pc'[u] = pc[u] /\ \A pu \in Owned(u) : pu \notin Owned(t)
      BY <2>3, RangesApart DEF Moves
    <3>2. QED  BY <1>6, <1>7, <2>1, <3>1 DEF Deciding
  <2>4. QED  BY <2>2, <2>3
<1>10. QED  BY <1>5, <1>8, <1>9 DEF Deciding

LEMMA MemifStep ==
    ASSUME Shape, Deciding, NEW t \in Threads, StageMemif(t), Moves(t, "stageDone"), UNCHANGED links
    PROVE  Shape' /\ Deciding'
<1> DEFINE peek(m, p) == PeekToken(routers[PortPU(m, p)], Table(PortPU(m, p)),
                                   NumFwd(PortPU(m, p)) + 1)
           tokens == [m \in Memif |-> [p \in DOMAIN memifs[m].tokens |-> peek(m, p)]]
           ready == {x \in ThreadMemifs(t) \X (0 .. NumPU) :
                        x[2] \in DOMAIN tokens[x[1]] /\ tokens[x[1]][x[2]] # {}}
<1>1. PICK accept \in SUBSET ready :
         /\ \A x, y \in accept : x[1] = y[1] => x = y
         /\ memifs' = [m \in Memif |->
               IF m \in ThreadMemifs(t)
               THEN [memifs[m] EXCEPT !.tokens = tokens[m],
                                      !.accept = {x[2] : x \in {y \in accept : y[1] = m}}]
               ELSE memifs[m]]
  BY DEF StageMemif
<1>2. /\ routers' = routers /\ buf' = buf /\ cores' = cores /\ links' = links
      /\ pc[t] = "memif"
  BY DEF StageMemif
<1>3. /\ LinksFixed /\ \A pu \in PU : RouterFull(pu)
      /\ \A m \in Memif : memifs[m] \in MemifType(m)
  BY DEF Shape, Deciding
<1>4. ASSUME NEW m \in Memif, NEW p \in Ports(m)
      PROVE  peek(m, p) \in SUBSET Token /\ OneToken(peek(m, p), PortPU(m, p), NumFwd(PortPU(m, p)) + 1)
  <2> DEFINE q == PortPU(m, p)
  <2>1. q \in PU /\ links[q].memif # {}
    <3>1. /\ PortPU(m, p) \in PU
          /\ links[PortPU(m, p)].memif = {[memif |-> m, port |-> p]}
      BY <1>3, Wiring
    <3>2. QED  BY <3>1
  <2> HIDE DEF q
  <2>2. NumFwd(q) + 1 \in Outputs(q)
    BY <1>3, <2>1, OwnPorts
  <2>3. /\ PeekToken(routers[q], Table(q), NumFwd(q) + 1) \in SUBSET Token
        /\ OneToken(PeekToken(routers[q], Table(q), NumFwd(q) + 1), q, NumFwd(q) + 1)
    BY <1>3, <2>1, <2>2, TokenOf
  <2>4. QED  BY <2>3 DEF q
<1>5. \A m \in Memif : tokens[m] = [p \in Ports(m) |-> peek(m, p)]
  BY <1>3 DEF MemifType
<1>6. ASSUME NEW m \in ThreadMemifs(t)
      PROVE  /\ memifs'[m] \in MemifType(m)
             /\ \A p \in Ports(m) : memifs'[m].tokens[p] = peek(m, p)
             /\ \A p, r \in memifs'[m].accept : p = r
             /\ \A p \in memifs'[m].accept : memifs'[m].tokens[p] # {}
  <2> DEFINE mine == {x[2] : x \in {y \in accept : y[1] = m}}
             tk == [p \in Ports(m) |-> peek(m, p)]
             new == [memifs[m] EXCEPT !.tokens = tk, !.accept = mine]
  <2>1. m \in Memif
    BY DEF ThreadMemifs
  <2>2. memifs'[m] = new
    BY <1>1, <1>5, <2>1
  <2>3. ASSUME NEW p \in mine
        PROVE  p \in Ports(m) /\ tk[p] # {}
    <3>1. PICK x \in accept : x[1] = m /\ x[2] = p
      OBVIOUS
    <3>2. x[2] \in DOMAIN tokens[x[1]] /\ tokens[x[1]][x[2]] # {}
      OBVIOUS
    <3>3. tokens[m] = tk
      BY <1>5, <2>1
    <3> HIDE DEF tokens
    <3>4. QED  BY <3>1, <3>2, <3>3
  <2>4. \A p, r \in mine : p = r
    BY <1>1
  <2>5. tk \in [Ports(m) -> SUBSET Token] /\ \A p \in Ports(m) : tk[p] = peek(m, p)
    BY <1>4, <2>1
  <2> HIDE DEF mine, tk
  <2>6. new \in MemifType(m) /\ new.tokens = tk /\ new.accept = mine
    BY <1>3, <2>1, <2>3, <2>5 DEF MemifType
  <2>7. QED  BY <2>2, <2>3, <2>4, <2>5, <2>6
<1>7. \A m \in Memif : m \notin ThreadMemifs(t) => memifs'[m] = memifs[m]
  BY <1>1
<1>8. Shape'
  <2>1. LinksFixed'
    BY <1>2, <1>3, TokensStay
  <2>2. \A m \in Memif : memifs'[m] \in MemifType(m)
    BY <1>3, <1>6, <1>7
  <2>3. QED  BY <1>2, <2>1, <2>2 DEF Shape, Inputs, Outputs, BufType, MemifType, Ports
<1> HIDE DEF peek
<1>9. ASSUME NEW m \in ThreadMemifs(t)
      PROVE  PortsChosen(m)' /\ AcceptSure(m)'
  <2>1. m \in Memif
    BY DEF ThreadMemifs
  <2>2. ASSUME NEW p \in Ports(m)
        PROVE  OneToken(memifs[m].tokens[p], PortPU(m, p), NumFwd(PortPU(m, p)) + 1)'
    <3> DEFINE q == PortPU(m, p)
               o == NumFwd(q) + 1
               T == peek(m, p)
    <3>1. OneToken(T, q, o) /\ q \in PU
      BY <1>3, <1>4, <2>1, Wiring
    <3>2. q' = q /\ NumFwd(q)' = NumFwd(q) /\ Table(q)' = Table(q)
      BY <1>2, <1>3, <2>1, <3>1, TokensStay DEF Table
    <3>3. memifs'[m].tokens[p] = T
      BY <1>6
    <3>4. o' = o
      BY <3>2
    <3> HIDE DEF q, o, T
    <3>5. OneToken(memifs[m].tokens[p], q, o)'
      BY <1>2, <1>3, <3>1, <3>2, <3>3, <3>4, TokensStay DEF OneToken
    <3>6. QED  BY <3>5 DEF q, o
  <2>3. PortsChosen(m)'
    BY <2>2 DEF PortsChosen, Ports
  <2>4. QED  BY <1>6, <2>3 DEF AcceptSure
<1>10. ASSUME NEW m \in Memif, m \notin ThreadMemifs(t)
       PROVE  /\ PortsChosen(m) => PortsChosen(m)'
              /\ AcceptSure(m) => AcceptSure(m)'
  BY <1>2, <1>3, <1>7, <1>10, InterfacesStay
<1>11. ASSUME NEW pu \in PU
       PROVE  /\ RouterFull(pu)'
              /\ Reserved(pu) => Reserved(pu)'
              /\ CoreHas(pu) => CoreHas(pu)'
              /\ Chosen(pu) => Chosen(pu)'
              /\ EjectSure(pu) => EjectSure(pu)'
  BY <1>2, <1>3, TokensStay, DecisionsStay
<1>12. ASSUME NEW u \in Threads
       PROVE  /\ pc'[u] \notin {"stageStart", "resolve"}
                  => \A pu \in Owned(u) : Reserved(pu)' /\ CoreHas(pu)' /\ Chosen(pu)'
              /\ pc'[u] \notin {"stageStart", "resolve", "drive"}
                  => \A pu \in Owned(u) : EjectSure(pu)'
              /\ pc'[u] \notin {"stageStart", "resolve", "drive", "memif"}
                  => \A m \in ThreadMemifs(u) : PortsChosen(m)' /\ AcceptSure(m)'
  <2>1. Owned(u) \subseteq PU /\ ThreadMemifs(u) \subseteq Memif
    BY RangesApart DEF ThreadMemifs
  <2>2. CASE u = t
    <3>1. pc'[u] = "stageDone" /\ pc[u] = "memif"
      BY <1>2, <2>2 DEF Moves
    <3>2. QED  BY <1>9, <1>11, <2>1, <2>2, <3>1 DEF Deciding
  <2>3. CASE u # t
    <3>1. pc'[u] = pc[u] /\ \A m \in ThreadMemifs(u) : m \notin ThreadMemifs(t)
      BY <2>3 DEF Moves, ThreadMemifs
    <3>2. QED  BY <1>10, <1>11, <2>1, <3>1 DEF Deciding
  <2>4. QED  BY <2>2, <2>3
<1>13. QED  BY <1>8, <1>11, <1>12 DEF Deciding

\* The statistics, and the barriers, leave all of this alone.
LEMMA DecidingStays ==
    ASSUME Shape, UNCHANGED <<links, routers, buf, memifs, cores>>
    PROVE  /\ Shape'
           /\ (Deciding /\ \A u \in Threads :
                  /\ pc'[u] \notin {"stageStart", "resolve"} => pc[u] \notin {"stageStart", "resolve"}
                  /\ pc'[u] \in {"drive", "memif"} => pc'[u] = pc[u]
                  /\ pc'[u] \notin {"stageStart", "resolve", "drive", "memif"}
                        => pc[u] \notin {"stageStart", "resolve", "drive", "memif"})
                => Deciding'
<1>1. LinksFixed /\ LinksFixed'
  BY DEF Shape, LinksFixed, LinkStatus
<1>2. Shape'
  BY <1>1 DEF Shape, Inputs, Outputs, BufType, MemifType, Ports
<1>3. ASSUME NEW pu \in PU
      PROVE  /\ RouterFull(pu) => RouterFull(pu)'
             /\ Reserved(pu) => Reserved(pu)'
             /\ CoreHas(pu) => CoreHas(pu)'
             /\ Chosen(pu) => Chosen(pu)'
             /\ EjectSure(pu) => EjectSure(pu)'
  BY <1>1, TokensStay, DecisionsStay
<1>4. ASSUME NEW m \in Memif
      PROVE  /\ PortsChosen(m) => PortsChosen(m)'
             /\ AcceptSure(m) => AcceptSure(m)'
  BY <1>1, InterfacesStay
<1>5. \A u \in Threads : Owned(u) \subseteq PU /\ ThreadMemifs(u) \subseteq Memif
  BY RangesApart DEF ThreadMemifs
<1>6. QED  BY <1>2, <1>3, <1>4, <1>5 DEF Deciding

----------------------------------------------------------------------------
(* Between stepStart and stepDone: flits move *)

\* The tokens that the taker of an output has accepted.
Claim(pu, o) ==
    IF o < NumFwd(pu)
    THEN LET f == Fwd(pu, o) IN IF buf[f.pu].fwdOk[f.port] THEN buf[f.pu].fwd[f.port] ELSE {}
    ELSE IF o = NumFwd(pu) THEN IF buf[pu].ejectOk THEN buf[pu].eject ELSE {}
    ELSE LET mp == The(links[pu].memif)
         IN  IF memifs[mp.memif].accept = {mp.port} THEN memifs[mp.memif].tokens[mp.port] ELSE {}

\* Each output claims at most one slot, an occupied one, and no two the same.
Sure(pu) ==
    /\ \A o \in Outputs(pu) : /\ \A x, y \in Claim(pu, o) : x = y
                              /\ \A x \in Claim(pu, o) : Held(pu, x)
    /\ \A o, r \in Outputs(pu) : \A x \in Claim(pu, o) : \A y \in Claim(pu, r) :
          x.input = y.input /\ x.slot = y.slot => o = r

\* The thread that takes the flit from an output, and whether it has done so.
TakenBy(t, pu, o) ==
    IF o < NumFwd(pu) THEN Fwd(pu, o).pu \in Owned(t)
    ELSE IF o = NumFwd(pu) THEN pu \in Owned(t)
    ELSE The(links[pu].memif).memif \in ThreadMemifs(t)

Took(pu, o) ==
    \E t \in Threads : /\ TakenBy(t, pu, o)
                       /\ pc[t] \in IF o <= NumFwd(pu) THEN {"step", "stepDone"} ELSE {"stepDone"}

\* Whether the flit for a reserved slot has been placed.
Put(pu, i) ==
    \E t \in Threads : /\ pu \in Owned(t)
                       /\ pc[t] \in IF i < NumFwd(pu) THEN {"step", "stepDone"}
                                    ELSE {"transfer", "step", "stepDone"}

\* An occupied slot holds its flit until the one who claims it has taken it.
Present(pu) ==
    \A i \in Inputs(pu) : \A s \in routers[pu].queues[i].occupied :
        \/ routers[pu].queues[i].buffer[s] \in Flits
        \/ \E o \in Outputs(pu) : /\ Took(pu, o)
                                  /\ \E x \in Claim(pu, o) : x.input = i /\ x.slot = s

Placed(pu) ==
    \A i \in Inputs(pu) :
        Put(pu, i) => \A s \in routers[pu].enqs[i] : routers[pu].queues[i].buffer[s] \in Flits

Settled ==
    /\ \A pu \in PU : Reserved(pu) /\ EjectSure(pu) /\ Sure(pu)
    /\ \A m \in Memif : AcceptSure(m)

Moving ==
    /\ Settled
    /\ \A pu \in PU : Present(pu) /\ Placed(pu)
    /\ \A t \in Threads : pc[t] \in {"stepStart", "post"} => \A pu \in Owned(t) : CoreHas(pu)

\* A router's interface has the router's own port.
LEMMA PortOf ==
    ASSUME LinksFixed, NEW pu \in PU, links[pu].memif # {}
    PROVE  /\ links[pu].memif = {The(links[pu].memif)}
           /\ The(links[pu].memif).memif \in Memif
           /\ The(links[pu].memif).port \in Ports(The(links[pu].memif).memif)
           /\ PortPU(The(links[pu].memif).memif, The(links[pu].memif).port) = pu
<1> DEFINE mp == The(links[pu].memif)
<1>1. links[pu].memif = topo.pu_memif[pu]
  BY Wiring
<1>2. mp \in links[pu].memif
  BY DEF The
<1>3. \A x, y \in links[pu].memif : x = y
  BY <1>1, TopologyFields, WiringAssumption DEF LinksPair
<1> HIDE DEF mp
<1>4. links[pu].memif = {mp}
  BY <1>2, <1>3
<1>5. /\ mp = [memif |-> mp.memif, port |-> mp.port]
      /\ mp.memif \in Memif /\ mp.port \in Ports(mp.memif)
      /\ topo.memif_req_at[mp.memif][mp.port + 1] = pu
  BY <1>1, <1>2, MemifAt
<1> DEFINE m == mp.memif
           p == mp.port
           q == PortPU(m, p)
<1>6. m \in Memif /\ p \in Ports(m)
  BY <1>5
<1> HIDE DEF m, p
<1>7. q \in PU /\ [memif |-> m, port |-> p] \in links[q].memif
  BY <1>6, Wiring
<1> HIDE DEF q
<1>8. [memif |-> m, port |-> p] \in topo.pu_memif[q]
  BY <1>7, Wiring
<1>9. topo.memif_req_at[m][p + 1] = q
  BY <1>7, <1>8, MemifAt
<1>10. q = pu
  BY <1>5, <1>9 DEF m, p
<1>11. QED  BY <1>4, <1>5, <1>10 DEF mp, m, p, q

\* What the parts of step take are the claims.
LEMMA ClaimCases ==
    ASSUME LinksFixed
    PROVE  /\ \A pu \in PU : \A k \in 0 .. NumFwd(pu) - 1 :
                 Claim(Fwd(pu, k).pu, Fwd(pu, k).port)
                    = IF buf[pu].fwdOk[k] THEN buf[pu].fwd[k] ELSE {}
           /\ \A pu \in PU : Claim(pu, NumFwd(pu)) = IF buf[pu].ejectOk THEN buf[pu].eject ELSE {}
           /\ \A m \in Memif : \A p \in Ports(m) :
                 Claim(PortPU(m, p), NumFwd(PortPU(m, p)) + 1)
                    = IF memifs[m].accept = {p} THEN memifs[m].tokens[p] ELSE {}
<1>1. ASSUME NEW pu \in PU, NEW k \in 0 .. NumFwd(pu) - 1
      PROVE  Claim(Fwd(pu, k).pu, Fwd(pu, k).port)
                = IF buf[pu].fwdOk[k] THEN buf[pu].fwd[k] ELSE {}
  <2> DEFINE q == Fwd(pu, k).pu
             o == Fwd(pu, k).port
  <2>1. /\ q \in PU /\ o \in 0 .. NumFwd(q) - 1
        /\ Fwd(q, o).pu = pu /\ Fwd(q, o).port = k
    BY Wiring
  <2> HIDE DEF q, o
  <2>2. NumFwd(q) \in Nat
    BY <2>1, Wiring
  <2>3. o < NumFwd(q)
    BY <2>1, <2>2
  <2>4. Claim(q, o) = IF buf[pu].fwdOk[k] THEN buf[pu].fwd[k] ELSE {}
    BY <2>1, <2>3 DEF Claim
  <2>5. QED  BY <2>4 DEF q, o
<1>2. ASSUME NEW pu \in PU
      PROVE  Claim(pu, NumFwd(pu)) = IF buf[pu].ejectOk THEN buf[pu].eject ELSE {}
  <2>1. NumFwd(pu) \in Nat
    BY Wiring
  <2>2. QED  BY <2>1 DEF Claim
<1>3. ASSUME NEW m \in Memif, NEW p \in Ports(m)
      PROVE  Claim(PortPU(m, p), NumFwd(PortPU(m, p)) + 1)
                = IF memifs[m].accept = {p} THEN memifs[m].tokens[p] ELSE {}
  <2> DEFINE q == PortPU(m, p)
             mp == [memif |-> m, port |-> p]
  <2>1. q \in PU /\ links[q].memif = {mp}
    BY Wiring
  <2>2. The({mp}) = mp /\ mp.memif = m /\ mp.port = p
    BY DEF The
  <2> HIDE DEF q, mp
  <2>3. NumFwd(q) \in Nat
    BY <2>1, Wiring
  <2>4. ~ (NumFwd(q) + 1 < NumFwd(q)) /\ NumFwd(q) + 1 # NumFwd(q)
    BY <2>3
  <2>5. Claim(q, NumFwd(q) + 1) = IF memifs[m].accept = {p} THEN memifs[m].tokens[p] ELSE {}
    BY <2>1, <2>2, <2>4 DEF Claim
  <2>6. QED  BY <2>5 DEF q
<1>4. QED  BY <1>1, <1>2, <1>3

\* Every output of a router is one of these.
LEMMA OutputCases ==
    ASSUME LinksFixed, NEW pu \in PU, NEW o \in Outputs(pu)
    PROVE  \/ /\ o \in 0 .. NumFwd(pu) - 1
              /\ Fwd(pu, o).pu \in PU /\ Fwd(pu, o).port \in 0 .. NumFwd(Fwd(pu, o).pu) - 1
              /\ Fwd(Fwd(pu, o).pu, Fwd(pu, o).port).pu = pu
              /\ Fwd(Fwd(pu, o).pu, Fwd(pu, o).port).port = o
           \/ o = NumFwd(pu)
           \/ \E m \in Memif : \E p \in Ports(m) :
                 /\ pu = PortPU(m, p) /\ o = NumFwd(pu) + 1 /\ The(links[pu].memif).memif = m
<1>1. NumFwd(pu) \in Nat
  BY Wiring
<1>2. /\ o \in Nat /\ o <= NumFwd(pu) + 1
      /\ o > NumFwd(pu) => o = NumFwd(pu) + 1 /\ links[pu].memif # {}
  BY OwnPorts
<1>3. CASE o < NumFwd(pu)
  <2>1. o \in 0 .. NumFwd(pu) - 1
    BY <1>1, <1>2, <1>3
  <2>2. QED  BY <2>1, Wiring
<1>4. CASE o > NumFwd(pu)
  BY <1>2, <1>4, PortOf
<1>5. QED  BY <1>1, <1>2, <1>3, <1>4

\* When all threads have decided, what they will take is settled: a flit has
\* one way to go, so that two outputs never claim one slot.
LEMMA AllSettled ==
    ASSUME Shape, Deciding, \A t \in Threads : pc[t] = "stepStart"
    PROVE  Settled /\ \A pu \in PU : CoreHas(pu) /\ RouterFull(pu)
<1>1. LinksFixed
  BY DEF Shape
<1>2. ASSUME NEW pu \in PU
      PROVE  Reserved(pu) /\ CoreHas(pu) /\ Chosen(pu) /\ EjectSure(pu) /\ RouterFull(pu)
  BY OwnerOwns DEF Deciding
<1>3. ASSUME NEW m \in Memif
      PROVE  PortsChosen(m) /\ AcceptSure(m)
  <2>1. MemifOwner(m) \in Threads /\ m \in ThreadMemifs(MemifOwner(m))
    BY MemifOwned DEF ThreadMemifs
  <2>2. QED  BY <2>1 DEF Deciding
<1>4. ASSUME NEW pu \in PU, NEW o \in Outputs(pu)
      PROVE  OneToken(Claim(pu, o), pu, o)
  <2>1. \A q, r : OneToken({}, q, r)
    BY DEF OneToken
  <2>2. CASE o \in 0 .. NumFwd(pu) - 1
    <3> DEFINE q == Fwd(pu, o).pu
               k == Fwd(pu, o).port
    <3>1. q \in PU /\ k \in 0 .. NumFwd(q) - 1 /\ Fwd(q, k).pu = pu /\ Fwd(q, k).port = o
      BY <1>1, <2>2, Wiring
    <3> HIDE DEF q, k
    <3>2. Claim(pu, o) = IF buf[q].fwdOk[k] THEN buf[q].fwd[k] ELSE {}
      BY <1>1, <3>1, ClaimCases
    <3>3. OneToken(buf[q].fwd[k], pu, o)
      BY <1>2, <3>1 DEF Chosen
    <3>4. QED  BY <2>1, <3>2, <3>3
  <2>3. CASE o = NumFwd(pu)
    <3>1. Claim(pu, o) = IF buf[pu].ejectOk THEN buf[pu].eject ELSE {}
      BY <1>1, <2>3, ClaimCases
    <3>2. OneToken(buf[pu].eject, pu, o)
      BY <1>2, <2>3 DEF Chosen
    <3>3. QED  BY <2>1, <3>1, <3>2
  <2>4. ASSUME NEW m \in Memif, NEW p \in Ports(m), pu = PortPU(m, p), o = NumFwd(pu) + 1
        PROVE  OneToken(Claim(pu, o), pu, o)
    <3>1. Claim(pu, o) = IF memifs[m].accept = {p} THEN memifs[m].tokens[p] ELSE {}
      BY <1>1, <2>4, ClaimCases
    <3>2. OneToken(memifs[m].tokens[p], pu, o)
      BY <1>3, <2>4 DEF PortsChosen
    <3>3. QED  BY <2>1, <3>1, <3>2
  <2>5. QED  BY <1>1, <2>2, <2>3, <2>4, OutputCases
<1>5. ASSUME NEW pu \in PU
      PROVE  Sure(pu)
  <2>1. \A o \in Outputs(pu) : /\ \A x, y \in Claim(pu, o) : x = y
                               /\ \A x \in Claim(pu, o) : Held(pu, x)
    BY <1>4 DEF OneToken
  <2>2. \A o \in Outputs(pu) : \A x \in Claim(pu, o) :
           Table(pu)[routers[pu].queues[x.input].buffer[x.slot]] = o
    BY <1>4 DEF OneToken
  <2>3. QED  BY <2>1, <2>2 DEF Sure
<1>6. QED  BY <1>2, <1>3, <1>5 DEF Settled

\* What has been decided is not touched by those who move the flits.
LEMMA SettledStays ==
    ASSUME LinksFixed, links' = links, buf' = buf,
           \A q \in PU : routers'[q].enqs = routers[q].enqs,
           \A q \in PU : \A i \in Inputs(q) :
               routers'[q].queues[i].occupied = routers[q].queues[i].occupied,
           \A m \in Memif : memifs'[m].tokens = memifs[m].tokens /\ memifs'[m].accept = memifs[m].accept
    PROVE  /\ LinksFixed'
           /\ \A pu : NumFwd(pu)' = NumFwd(pu) /\ \A t, o : TakenBy(t, pu, o)' <=> TakenBy(t, pu, o)
           /\ \A pu \in PU : \A o \in Outputs(pu) : Claim(pu, o)' = Claim(pu, o)
           /\ \A pu \in PU : \A x : Held(pu, x)' <=> Held(pu, x)
           /\ Settled => Settled'
<1>1. LinksFixed'
  BY DEF LinksFixed, LinkStatus
<1>2. \A pu : NumFwd(pu)' = NumFwd(pu) /\ \A k : Fwd(pu, k)' = Fwd(pu, k)
  BY DEF NumFwd, Fwd
<1>3. \A pu, t, o : TakenBy(t, pu, o)' <=> TakenBy(t, pu, o)
  BY <1>2 DEF TakenBy
<1>4. ASSUME NEW pu \in PU, NEW o \in Outputs(pu)
      PROVE  Claim(pu, o)' = Claim(pu, o)
  <2>1. CASE o < NumFwd(pu)
    BY <1>2, <2>1 DEF Claim
  <2>2. CASE ~ (o < NumFwd(pu)) /\ o = NumFwd(pu)
    BY <1>2, <2>2 DEF Claim
  <2>3. CASE ~ (o < NumFwd(pu)) /\ o # NumFwd(pu)
    <3> DEFINE mp == The(links[pu].memif)
    <3>1. links[pu].memif # {}
      <4>1. o > NumFwd(pu)
        BY <2>3, OwnPorts, Wiring
      <4>2. QED  BY <4>1, OwnPorts
    <3>2. mp.memif \in Memif /\ mp' = mp
      BY <3>1, PortOf
    <3>3. /\ memifs'[mp.memif].tokens = memifs[mp.memif].tokens
          /\ memifs'[mp.memif].accept = memifs[mp.memif].accept
      BY <3>2
    <3>4. Claim(pu, o) = IF memifs[mp.memif].accept = {mp.port}
                         THEN memifs[mp.memif].tokens[mp.port] ELSE {}
      BY <2>3 DEF Claim
    <3>5. Claim(pu, o)' = IF memifs'[mp.memif].accept = {mp.port}
                          THEN memifs'[mp.memif].tokens[mp.port] ELSE {}
      BY <1>2, <2>3 DEF Claim
    <3>6. QED  BY <3>3, <3>4, <3>5
  <2>4. QED  BY <2>1, <2>2, <2>3
<1>5. \A pu \in PU : \A x : Held(pu, x)' <=> Held(pu, x)
  BY DEF Held, Inputs
<1>6. ASSUME NEW pu \in PU, Reserved(pu), EjectSure(pu), Sure(pu)
      PROVE  Reserved(pu)' /\ EjectSure(pu)' /\ Sure(pu)'
  <2>1. Reserved(pu)'
    BY <1>2, <1>6 DEF Reserved, Inputs
  <2>2. EjectSure(pu)'
    BY <1>6 DEF EjectSure
  <2>3. Sure(pu)'
    BY <1>4, <1>5, <1>6 DEF Sure, Outputs
  <2>4. QED  BY <2>1, <2>2, <2>3
<1>7. \A m \in Memif : AcceptSure(m) => AcceptSure(m)'
  BY DEF AcceptSure
<1>8. Settled => Settled'
  BY <1>6, <1>7 DEF Settled
<1>9. QED  BY <1>1, <1>2, <1>3, <1>4, <1>5, <1>8

\* When the barrier opens nothing has moved yet.
LEMMA StartMoving ==
    ASSUME Shape, Deciding, \A t \in Threads : pc[t] = "stepStart",
           UNCHANGED <<links, routers, buf, memifs, cores>>,
           \A t \in Threads : pc'[t] \in {"stepStart", "post"}
    PROVE  Moving'
<1>1. LinksFixed
  BY DEF Shape
<1>2. Settled /\ \A pu \in PU : CoreHas(pu) /\ RouterFull(pu)
  BY AllSettled
<1>3. Settled'
  BY <1>1, <1>2, SettledStays
<1>4. ASSUME NEW pu \in PU
      PROVE  Present(pu)' /\ Placed(pu)' /\ CoreHas(pu)'
  <2>1. Present(pu)'
    BY <1>2 DEF Present, RouterFull, QueueFull, Inputs
  <2>2. Placed(pu)'
    BY DEF Placed, Put
  <2>3. CoreHas(pu)'
    BY <1>2 DEF CoreHas
  <2>4. QED  BY <2>1, <2>2, <2>3
<1>5. QED  BY <1>3, <1>4, RangesApart DEF Moving

\* The barriers on the way move no flit.
LEMMA MovingKept ==
    ASSUME Shape, Moving, UNCHANGED <<links, routers, buf, memifs, cores>>,
           \A t \in Threads : pc'[t] = pc[t] \/ (pc[t] = "stepStart" /\ pc'[t] = "post")
    PROVE  Moving'
<1>1. LinksFixed /\ Settled
  BY DEF Shape, Moving
<1>2. Settled' /\ \A pu : NumFwd(pu)' = NumFwd(pu)
  BY <1>1, SettledStays
<1>3. \A t \in Threads : /\ pc[t] \in {"step", "stepDone"} <=> pc'[t] \in {"step", "stepDone"}
                         /\ pc[t] = "stepDone" <=> pc'[t] = "stepDone"
                         /\ pc[t] = "transfer" <=> pc'[t] = "transfer"
                         /\ pc'[t] \in {"stepStart", "post"} => pc[t] \in {"stepStart", "post"}
  OBVIOUS
<1>4. \A pu, o : Took(pu, o) => Took(pu, o)'
  <2>1. \A t, pu, o : TakenBy(t, pu, o)' <=> TakenBy(t, pu, o)
    BY <1>1, SettledStays
  <2>2. QED  BY <1>2, <1>3, <2>1 DEF Took
<1>5. \A pu, i : Put(pu, i)' => Put(pu, i)
  BY <1>2, <1>3 DEF Put
<1>6. ASSUME NEW pu \in PU
      PROVE  Present(pu)' /\ Placed(pu)'
  <2>1. \A o \in Outputs(pu) : Claim(pu, o)' = Claim(pu, o)
    BY <1>1, SettledStays
  <2>2. Present(pu)'
    BY <1>4, <2>1 DEF Moving, Present, Inputs, Outputs
  <2>3. Placed(pu)'
    BY <1>5 DEF Moving, Placed, Inputs
  <2>4. QED  BY <2>2, <2>3
<1>7. \A pu \in PU : CoreHas(pu) => CoreHas(pu)'
  BY DEF CoreHas
<1>8. QED  BY <1>2, <1>3, <1>6, <1>7, RangesApart DEF Moving

Cell(pu, i, s) == routers[pu].queues[i].buffer[s]
At(x, i, s) == x.input = i /\ x.slot = s

\* A part of step may fill slots, and it may empty those that it takes from.
LEMMA MovingStays ==
    ASSUME Shape, Moving, NEW t \in Threads, NEW next, Moves(t, next),
           <<pc[t], next>> \in {<<"post", "transfer">>, <<"transfer", "step">>, <<"step", "stepDone">>},
           links' = links, buf' = buf,
           \A q \in PU : routers'[q] \in RouterType(Inputs(q), Outputs(q)),
           \A q \in PU : routers'[q].enqs = routers[q].enqs,
           \A q \in PU : \A i \in Inputs(q) :
               routers'[q].queues[i].occupied = routers[q].queues[i].occupied,
           \A q \in PU : cores'[q] \in Flits \cup {NoFlit} /\ (q \notin Owned(t) => cores'[q] = cores[q]),
           \A m \in Memif : /\ memifs'[m] \in MemifType(m)
                            /\ memifs'[m].tokens = memifs[m].tokens
                            /\ memifs'[m].accept = memifs[m].accept,
           \A q \in PU : \A i \in Inputs(q) : \A s \in Places :
               \/ Cell(q, i, s)' \in Flits
               \/ Cell(q, i, s)' = Cell(q, i, s)
               \/ \E o \in Outputs(q) :
                     Took(q, o)' /\ \E x \in Claim(q, o) : At(x, i, s) /\ Held(q, x),
           \A q \in Owned(t) : \A i \in Inputs(q) :
               Put(q, i)' /\ ~ Put(q, i) => \A s \in routers[q].enqs[i] : Cell(q, i, s)' \in Flits
    PROVE  Shape' /\ Moving'
<1>1. LinksFixed /\ Settled
  BY DEF Shape, Moving
<1>2. /\ Settled' /\ LinksFixed'
      /\ \A pu : NumFwd(pu)' = NumFwd(pu)
      /\ \A pu \in PU : \A o \in Outputs(pu) : Claim(pu, o)' = Claim(pu, o)
  BY <1>1, SettledStays
<1>3. Shape'
  BY <1>2 DEF Shape, Inputs, Outputs, BufType, MemifType, Ports
<1>4. \A u \in Threads : /\ pc[u] \in {"step", "stepDone"} => pc'[u] \in {"step", "stepDone"}
                         /\ pc[u] = "stepDone" => pc'[u] = "stepDone"
                         /\ pc'[u] \in {"stepStart", "post"} => u # t /\ pc'[u] = pc[u]
  BY DEF Moves
<1>5. \A pu, o : Took(pu, o) => Took(pu, o)'
  <2>1. \A u, pu, o : TakenBy(u, pu, o)' <=> TakenBy(u, pu, o)
    BY <1>1, SettledStays
  <2>2. QED  BY <1>2, <1>4, <2>1 DEF Took
<1>6. ASSUME NEW pu \in PU
      PROVE  Present(pu)'
  <2> SUFFICES ASSUME NEW i \in Inputs(pu), NEW s \in routers[pu].queues[i].occupied
               PROVE  \/ Cell(pu, i, s)' \in Flits
                      \/ \E o \in Outputs(pu) : Took(pu, o)' /\ \E x \in Claim(pu, o) : At(x, i, s)
    <3>1. \A i \in Inputs(pu) : \A s \in routers'[pu].queues[i].occupied :
             \/ routers'[pu].queues[i].buffer[s] \in Flits
             \/ \E o \in Outputs(pu) : Took(pu, o)' /\ \E x \in Claim(pu, o)' : x.input = i /\ x.slot = s
      BY <1>2 DEF Cell, At
    <3>2. QED  BY <3>1 DEF Present, Inputs, Outputs
  <2>1. s \in Places
    BY DEF Shape, RouterType, QueueType
  <2>2. \/ Cell(pu, i, s) \in Flits
        \/ \E o \in Outputs(pu) : Took(pu, o) /\ \E x \in Claim(pu, o) : At(x, i, s)
    BY DEF Moving, Present, Cell, At
  <2>3. QED  BY <1>5, <2>1, <2>2
<1>7. ASSUME NEW pu \in PU
      PROVE  Placed(pu)'
  <2> SUFFICES ASSUME NEW i \in Inputs(pu), Put(pu, i)', NEW s \in routers[pu].enqs[i]
               PROVE  Cell(pu, i, s)' \in Flits
    BY DEF Placed, Inputs, Cell
  <2>1. CASE Put(pu, i)
    <3>1. Cell(pu, i, s) \in Flits
      BY <2>1 DEF Moving, Placed, Cell
    <3>2. s \in Places /\ s \notin routers[pu].queues[i].occupied
      BY DEF Shape, RouterType, Moving, Settled, Reserved
    <3>3. \A x : At(x, i, s) => ~ Held(pu, x)
      BY <3>2 DEF At, Held
    <3>4. QED  BY <3>1, <3>2, <3>3
  <2>2. CASE ~ Put(pu, i)
    <3>1. PICK u \in Threads : /\ pu \in Owned(u)
                               /\ pc'[u] \in IF i < NumFwd(pu) THEN {"step", "stepDone"}
                                             ELSE {"transfer", "step", "stepDone"}
      BY <1>2 DEF Put
    <3>2. u = t
      BY <2>2, <3>1 DEF Put, Moves
    <3>3. QED  BY <2>2, <3>1, <3>2
  <2>3. QED  BY <2>1, <2>2
<1>8. ASSUME NEW u \in Threads, pc'[u] \in {"stepStart", "post"}, NEW pu \in Owned(u)
      PROVE  CoreHas(pu)'
  <2>1. pu \in PU /\ pu \notin Owned(t) /\ pc[u] \in {"stepStart", "post"}
    BY <1>4, <1>8, RangesApart
  <2>2. cores'[pu] = cores[pu] /\ CoreHas(pu)
    BY <1>8, <2>1 DEF Moving
  <2>3. QED  BY <2>2 DEF CoreHas
<1>9. QED  BY <1>2, <1>3, <1>6, <1>7, <1>8 DEF Moving

\* A flit put into a slot, or taken out, changes that slot alone.
LEMMA WriteSlot ==
    ASSUME NEW ins, NEW outs, NEW rt \in RouterType(ins, outs), NEW i \in ins, NEW s \in Places,
           NEW f \in Flits \cup {NoFlit}
    PROVE  LET new == [rt EXCEPT !.queues[i] = [@ EXCEPT !.buffer[s] = f]]
           IN  /\ new \in RouterType(ins, outs)
               /\ new.enqs = rt.enqs /\ new.arbs = rt.arbs
               /\ \A j \in ins : new.queues[j].occupied = rt.queues[j].occupied
               /\ \A j \in ins : \A r \in Places :
                     new.queues[j].buffer[r] = IF j = i /\ r = s THEN f ELSE rt.queues[j].buffer[r]
<1> DEFINE q == [rt.queues[i] EXCEPT !.buffer[s] = f]
           qs == [rt.queues EXCEPT ![i] = q]
           new == [rt EXCEPT !.queues[i] = [@ EXCEPT !.buffer[s] = f]]
<1>1. /\ rt.queues \in [ins -> QueueType] /\ rt.queues[i] \in QueueType
      /\ DOMAIN rt.queues = ins
  BY DEF RouterType
<1>2. /\ q \in QueueType /\ q.occupied = rt.queues[i].occupied
      /\ \A r \in Places : q.buffer[r] = IF r = s THEN f ELSE rt.queues[i].buffer[r]
  BY <1>1 DEF QueueType
<1>3. new = [rt EXCEPT !.queues = qs]
  BY <1>1 DEF RouterType
<1> HIDE DEF q, new
<1>4. qs \in [ins -> QueueType] /\ \A j \in ins : qs[j] = IF j = i THEN q ELSE rt.queues[j]
  BY <1>1, <1>2
<1> HIDE DEF qs
<1>5. new \in RouterType(ins, outs) /\ new.enqs = rt.enqs /\ new.arbs = rt.arbs /\ new.queues = qs
  BY <1>3, <1>4 DEF RouterType
<1>6. /\ \A j \in ins : new.queues[j].occupied = rt.queues[j].occupied
      /\ \A j \in ins : \A r \in Places :
            new.queues[j].buffer[r] = IF j = i /\ r = s THEN f ELSE rt.queues[j].buffer[r]
  BY <1>2, <1>4, <1>5
<1>7. QED  BY <1>5, <1>6 DEF new

LEMMA PlaceFacts ==
    ASSUME NEW ins, NEW outs, NEW rt \in RouterType(ins, outs), NEW i \in ins, NEW f \in Flits,
           \A s, r \in rt.enqs[i] : s = r, rt.enqs[i] # {}
    PROVE  /\ PlaceFlit(rt, i, f) \in RouterType(ins, outs)
           /\ PlaceFlit(rt, i, f).enqs = rt.enqs /\ PlaceFlit(rt, i, f).arbs = rt.arbs
           /\ \A j \in ins : PlaceFlit(rt, i, f).queues[j].occupied = rt.queues[j].occupied
           /\ \A j \in ins : \A r \in Places :
                 PlaceFlit(rt, i, f).queues[j].buffer[r]
                    = IF j = i /\ r \in rt.enqs[i] THEN f ELSE rt.queues[j].buffer[r]
<1> DEFINE s == The(rt.enqs[i])
           new == [rt EXCEPT !.queues[i] = [@ EXCEPT !.buffer[s] = f]]
<1>1. s \in rt.enqs[i] /\ rt.enqs[i] \subseteq Places
  BY DEF The, RouterType
<1>2. \A r : r \in rt.enqs[i] <=> r = s
  BY <1>1
<1>3. PlaceFlit(rt, i, f) = new
  BY DEF PlaceFlit, PlaceIn
<1> HIDE DEF s
<1>4. /\ new \in RouterType(ins, outs)
      /\ new.enqs = rt.enqs /\ new.arbs = rt.arbs
      /\ \A j \in ins : new.queues[j].occupied = rt.queues[j].occupied
      /\ \A j \in ins : \A r \in Places :
            new.queues[j].buffer[r] = IF j = i /\ r = s THEN f ELSE rt.queues[j].buffer[r]
  BY <1>1, WriteSlot
<1> HIDE DEF new
<1>5. QED  BY <1>2, <1>3, <1>4

LEMMA TakeFacts ==
    ASSUME NEW ins, NEW outs, NEW rt \in RouterType(ins, outs), NEW x,
           x.input \in ins, x.slot \in Places
    PROVE  /\ TakeFlit(rt, x) \in RouterType(ins, outs)
           /\ TakeFlit(rt, x).enqs = rt.enqs /\ TakeFlit(rt, x).arbs = rt.arbs
           /\ \A j \in ins : TakeFlit(rt, x).queues[j].occupied = rt.queues[j].occupied
           /\ \A j \in ins : \A r \in Places :
                 TakeFlit(rt, x).queues[j].buffer[r]
                    = IF j = x.input /\ r = x.slot THEN NoFlit ELSE rt.queues[j].buffer[r]
<1> DEFINE i == x.input
           s == x.slot
           new == [rt EXCEPT !.queues[i] = [@ EXCEPT !.buffer[s] = NoFlit]]
<1>1. TakeFlit(rt, x) = new
  BY DEF TakeFlit, TakeFrom
<1>2. i \in ins /\ s \in Places
  OBVIOUS
<1> HIDE DEF i, s
<1>3. /\ new \in RouterType(ins, outs)
      /\ new.enqs = rt.enqs /\ new.arbs = rt.arbs
      /\ \A j \in ins : new.queues[j].occupied = rt.queues[j].occupied
      /\ \A j \in ins : \A r \in Places :
            new.queues[j].buffer[r] = IF j = i /\ r = s THEN NoFlit ELSE rt.queues[j].buffer[r]
  BY <1>2, WriteSlot
<1> HIDE DEF new
<1>4. QED  BY <1>1, <1>3 DEF i, s

\* A sender offers a flit of its own, or none.
LEMMA OfferedFacts ==
    ASSUME NEW new, new \subseteq Flits, NEW place
    PROVE  Offered(new, place) \in Flits \cup {NoFlit}
<1> DEFINE own == {f \in new : SrcOf[f] = place}
<1>1. own # {} => The(own) \in own
  BY DEF The
<1>2. Offered(new, place) = IF own = {} THEN NoFlit ELSE The(own)
  BY DEF Offered
<1>3. QED  BY <1>1, <1>2

LEMMA PostStep ==
    ASSUME Shape, Moving, NEW t \in Threads, Post(t), Moves(t, "transfer"), UNCHANGED links
    PROVE  Shape' /\ Moving'
<1> DEFINE withCore(pu) == IF buf[pu].injectOk THEN PlaceFlit(routers[pu], NumFwd(pu), cores[pu])
                           ELSE routers[pu]
           free == {pu \in Owned(t) : cores[pu] = NoFlit \/ buf[pu].injectOk}
           injected == {cores[pu] : pu \in {p \in Owned(t) : buf[p].injectOk}}
<1>1. /\ pc[t] = "post" /\ buf' = buf /\ memifs' = memifs /\ links' = links
      /\ \A pu \in PU : pu \notin Owned(t) => routers'[pu] = routers[pu]
      /\ \A pu \in PU : pu \in Owned(t) =>
            routers'[pu] = IF buf[pu].noticeOk
                           THEN PlaceFlit(withCore(pu), NumFwd(pu) + 1, The(buf[pu].notice))
                           ELSE withCore(pu)
  BY DEF Post
<1>2. PICK new \in Offers({Core(pu) : pu \in free}, sent \cup injected) :
         cores' = [pu \in PU |-> IF pu \in free THEN Offered(new, Core(pu)) ELSE cores[pu]]
  BY DEF Post
<1>3. new \subseteq Flits
  BY DEF Offers
<1>4. \A q \in PU : cores'[q] \in Flits \cup {NoFlit} /\ (q \notin Owned(t) => cores'[q] = cores[q])
  BY <1>2, <1>3, OfferedFacts DEF Shape
<1>5. ASSUME NEW pu \in Owned(t)
      PROVE  /\ pu \in PU
             /\ routers'[pu] \in RouterType(Inputs(pu), Outputs(pu))
             /\ routers'[pu].enqs = routers[pu].enqs
             /\ \A i \in Inputs(pu) : routers'[pu].queues[i].occupied = routers[pu].queues[i].occupied
             /\ \A i \in Inputs(pu) : \A s \in Places :
                   Cell(pu, i, s)' \in Flits \/ Cell(pu, i, s)' = Cell(pu, i, s)
             /\ \A i \in Inputs(pu) : i >= NumFwd(pu) =>
                   \A s \in routers[pu].enqs[i] : Cell(pu, i, s)' \in Flits
  <2> DEFINE nf == NumFwd(pu)
             rt == routers[pu]
             w == withCore(pu)
             r == routers'[pu]
  <2>1. pu \in PU /\ LinksFixed /\ rt \in RouterType(Inputs(pu), Outputs(pu)) /\ buf[pu] \in BufType(pu)
    BY RangesApart DEF Shape
  <2>2. /\ nf \in Inputs(pu) /\ nf \in Nat
        /\ \A i \in Inputs(pu) : i \in Nat /\ i <= nf + 1
    BY <2>1, OwnPorts, Wiring
  <2>3. /\ \A i \in Inputs(pu) : \A a, b \in rt.enqs[i] : a = b
        /\ buf[pu].injectOk <=> rt.enqs[nf] # {}
        /\ buf[pu].noticeOk <=> (nf + 1 \in Inputs(pu) /\ rt.enqs[nf + 1] # {})
        /\ buf[pu].noticeOk => buf[pu].notice # {}
    BY <2>1 DEF Moving, Settled, Reserved
  <2>4. buf[pu].injectOk => cores[pu] \in Flits
    BY <1>1 DEF Moving, CoreHas
  <2>5. buf[pu].noticeOk => The(buf[pu].notice) \in Flits
    <3>1. buf[pu].notice \subseteq Flits
      BY <2>1 DEF BufType
    <3>2. QED  BY <2>3, <3>1 DEF The
  <2>6. /\ w \in RouterType(Inputs(pu), Outputs(pu)) /\ w.enqs = rt.enqs
        /\ \A i \in Inputs(pu) : w.queues[i].occupied = rt.queues[i].occupied
        /\ \A i \in Inputs(pu) : \A s \in Places :
              w.queues[i].buffer[s] = IF i = nf /\ s \in rt.enqs[nf] THEN cores[pu]
                                      ELSE rt.queues[i].buffer[s]
    <3>1. CASE buf[pu].injectOk
      <4>1. w = PlaceFlit(rt, nf, cores[pu])
        BY <3>1
      <4> HIDE DEF w, rt, nf
      <4>2. QED  BY <2>1, <2>2, <2>3, <2>4, <3>1, <4>1, PlaceFacts
    <3>2. CASE ~ buf[pu].injectOk
      <4>1. w = rt /\ rt.enqs[nf] = {}
        BY <2>3, <3>2
      <4> HIDE DEF w, rt, nf
      <4>2. QED  BY <2>1, <4>1
    <3>3. QED  BY <3>1, <3>2
  <2>7. r = IF buf[pu].noticeOk THEN PlaceFlit(w, nf + 1, The(buf[pu].notice)) ELSE w
    BY <1>1, <2>1
  <2> DEFINE f == The(buf[pu].notice)
             n1 == nf + 1
  <2> HIDE DEF w, r, rt, nf, f
  <2>8. /\ r \in RouterType(Inputs(pu), Outputs(pu)) /\ r.enqs = rt.enqs
        /\ \A i \in Inputs(pu) : r.queues[i].occupied = rt.queues[i].occupied
        /\ \A i \in Inputs(pu) : \A s \in Places :
              r.queues[i].buffer[s] = IF i = n1 /\ s \in rt.enqs[n1] THEN f
                                      ELSE w.queues[i].buffer[s]
    <3>1. CASE buf[pu].noticeOk
      <4>1. r = PlaceFlit(w, n1, f) /\ f \in Flits /\ n1 \in Inputs(pu) /\ rt.enqs[n1] # {}
        BY <2>3, <2>5, <2>7, <3>1 DEF f
      <4>2. w.enqs[n1] # {} /\ \A a, b \in w.enqs[n1] : a = b
        BY <2>3, <2>6, <4>1
      <4> HIDE DEF n1
      <4>3. /\ PlaceFlit(w, n1, f) \in RouterType(Inputs(pu), Outputs(pu))
            /\ PlaceFlit(w, n1, f).enqs = w.enqs
            /\ \A j \in Inputs(pu) : PlaceFlit(w, n1, f).queues[j].occupied = w.queues[j].occupied
            /\ \A j \in Inputs(pu) : \A s \in Places :
                 PlaceFlit(w, n1, f).queues[j].buffer[s]
                    = IF j = n1 /\ s \in w.enqs[n1] THEN f ELSE w.queues[j].buffer[s]
        BY <2>6, <4>1, <4>2, PlaceFacts
      <4>4. QED  BY <2>6, <4>1, <4>3
    <3>2. CASE ~ buf[pu].noticeOk
      <4>1. r = w /\ (n1 \in Inputs(pu) => rt.enqs[n1] = {})
        BY <2>3, <2>7, <3>2
      <4> HIDE DEF n1
      <4>2. QED  BY <2>6, <4>1
    <3>3. QED  BY <3>1, <3>2
  <2>9. \A i \in Inputs(pu) : \A s \in Places :
           r.queues[i].buffer[s] \in Flits \/ r.queues[i].buffer[s] = rt.queues[i].buffer[s]
    <3> SUFFICES ASSUME NEW i \in Inputs(pu), NEW s \in Places
                 PROVE  r.queues[i].buffer[s] \in Flits \/ r.queues[i].buffer[s] = rt.queues[i].buffer[s]
      OBVIOUS
    <3>1. CASE i = n1 /\ s \in rt.enqs[n1]
      BY <2>3, <2>5, <2>8, <3>1 DEF f
    <3>2. CASE ~ (i = n1 /\ s \in rt.enqs[n1])
      BY <2>3, <2>4, <2>6, <2>8, <3>2
    <3>3. QED  BY <3>1, <3>2
  <2>10. ASSUME NEW i \in Inputs(pu), i >= nf, NEW s \in rt.enqs[i]
         PROVE  r.queues[i].buffer[s] \in Flits
    <3>1. s \in Places /\ (i = nf \/ i = n1) /\ nf # n1
      <4>1. rt.enqs \in [Inputs(pu) -> SUBSET Places]
        BY <2>1 DEF RouterType
      <4>2. i \in Nat /\ i <= nf + 1 /\ nf \in Nat
        BY <2>2
      <4>3. QED  BY <2>10, <4>1, <4>2
    <3>2. CASE i = n1
      BY <2>3, <2>5, <2>8, <2>10, <3>1, <3>2 DEF f
    <3>3. CASE i = nf
      BY <2>3, <2>4, <2>6, <2>8, <2>10, <3>1, <3>3
    <3>4. QED  BY <3>1, <3>2, <3>3
  <2>11. QED
    BY <2>1, <2>8, <2>9, <2>10 DEF r, rt, nf, Cell
<1>6. ASSUME NEW q \in PU
      PROVE  /\ routers'[q] \in RouterType(Inputs(q), Outputs(q))
             /\ routers'[q].enqs = routers[q].enqs
             /\ \A i \in Inputs(q) : routers'[q].queues[i].occupied = routers[q].queues[i].occupied
             /\ \A i \in Inputs(q) : \A s \in Places :
                   Cell(q, i, s)' \in Flits \/ Cell(q, i, s)' = Cell(q, i, s)
  <2>1. CASE q \in Owned(t)
    BY <1>5, <2>1
  <2>2. CASE q \notin Owned(t)
    BY <1>1, <2>2 DEF Shape, Cell
  <2>3. QED  BY <2>1, <2>2
<1>7. ASSUME NEW q \in Owned(t), NEW i \in Inputs(q), Put(q, i)', ~ Put(q, i), NEW s \in routers[q].enqs[i]
      PROVE  Cell(q, i, s)' \in Flits
  <2>1. NumFwd(q)' = NumFwd(q) /\ q \in PU /\ NumFwd(q) \in Nat /\ i \in Nat
    BY <1>1, RangesApart, Wiring, OwnPorts DEF NumFwd, Shape
  <2>2. i >= NumFwd(q)
    BY <1>7, <2>1 DEF Put, Moves
  <2>3. QED  BY <1>5, <2>2
<1>8. \A m \in Memif : memifs[m] \in MemifType(m)
  BY DEF Shape
<1>9. <<pc[t], "transfer">> \in {<<"post", "transfer">>, <<"transfer", "step">>, <<"step", "stepDone">>}
  BY <1>1
<1>10. QED  BY <1>1, <1>4, <1>6, <1>7, <1>8, <1>9, MovingStays

LEMMA TransferStep ==
    ASSUME Shape, Moving, NEW t \in Threads, Transfer(t), Moves(t, "step"), UNCHANGED links
    PROVE  Shape' /\ Moving'
<1> DEFINE moves == {x \in Owned(t) \X (0 .. 3) : x[2] < NumFwd(x[1]) /\ buf[x[1]].fwdOk[x[2]]}
           ejects == {pu \in Owned(t) : buf[pu].ejectOk}
           flit(x) == PeekFlit(routers[Fwd(x[1], x[2]).pu], The(buf[x[1]].fwd[x[2]]))
           arrived(pu, i, s) == {x \in moves : x = <<pu, i>> /\ s \in routers[pu].enqs[i]}
           gone(pu, i, s) ==
               \/ \E x \in moves : /\ Fwd(x[1], x[2]).pu = pu
                                   /\ The(buf[x[1]].fwd[x[2]]).input = i
                                   /\ The(buf[x[1]].fwd[x[2]]).slot = s
               \/ pu \in ejects /\ The(buf[pu].eject).input = i /\ The(buf[pu].eject).slot = s
           now(pu, i, s) == IF arrived(pu, i, s) # {}
                            THEN flit(CHOOSE x \in arrived(pu, i, s) : TRUE)
                            ELSE IF gone(pu, i, s) THEN NoFlit
                            ELSE routers[pu].queues[i].buffer[s]
           queue(pu, i) == [routers[pu].queues[i] EXCEPT !.buffer =
                               [s \in 0 .. QDepth - 1 |-> now(pu, i, s)]]
<1>1. /\ pc[t] = "transfer" /\ buf' = buf /\ memifs' = memifs /\ cores' = cores /\ links' = links
      /\ routers' = [pu \in PU |-> [routers[pu] EXCEPT !.queues =
                        [i \in DOMAIN routers[pu].queues |-> queue(pu, i)]]]
  BY DEF Transfer
<1>2. LinksFixed /\ Settled
  BY DEF Shape, Moving
<1>3. ASSUME NEW pu \in Owned(t), NEW k \in 0 .. NumFwd(pu) - 1, buf[pu].fwdOk[k]
      PROVE  /\ Fwd(pu, k).pu \in PU /\ Fwd(pu, k).port \in Outputs(Fwd(pu, k).pu)
             /\ The(buf[pu].fwd[k]) \in Claim(Fwd(pu, k).pu, Fwd(pu, k).port)
             /\ Held(Fwd(pu, k).pu, The(buf[pu].fwd[k]))
             /\ Took(Fwd(pu, k).pu, Fwd(pu, k).port)'
             /\ flit(<<pu, k>>) \in Flits
  <2> DEFINE q == Fwd(pu, k).pu
             o == Fwd(pu, k).port
             T == buf[pu].fwd[k]
             x == The(T)
  <2>1. /\ pu \in PU /\ q \in PU /\ o \in 0 .. NumFwd(q) - 1
        /\ Fwd(q, o).pu = pu /\ NumFwd(q) \in Nat
    BY <1>2, RangesApart, Wiring
  <2>2. Claim(q, o) = T
    BY <1>2, <1>3, <2>1, ClaimCases
  <2>3. T # {}
    BY <1>2, <1>3, <2>1 DEF Settled, Reserved
  <2>4. x \in T
    BY <2>3 DEF The
  <2>5. flit(<<pu, k>>) = Cell(q, x.input, x.slot)
    BY DEF PeekFlit, Cell
  <2>6. q' = q /\ o' = o
    BY <1>1 DEF Fwd
  <2> HIDE DEF q, o, x, T, flit
  <2>7. o \in Outputs(q) /\ o < NumFwd(q)
    BY <1>2, <2>1, OwnPorts
  <2>8. Held(q, x)
    BY <1>2, <2>1, <2>2, <2>4, <2>7 DEF Settled, Sure
  <2>9. \A u \in Threads : TakenBy(u, q, o) <=> u = t
    BY <2>1, <2>7, RangesApart DEF TakenBy
  <2>10. ~ Took(q, o)
    BY <1>1, <2>9 DEF Took
  <2>11. Took(q, o)'
    <3>1. NumFwd(q)' = NumFwd(q) /\ TakenBy(t, q, o)'
      BY <1>1, <2>9, <2>6 DEF NumFwd, Fwd, TakenBy
    <3>2. pc'[t] = "step"
      BY DEF Moves
    <3>3. o <= NumFwd(q)'
      BY <2>1, <2>7, <2>6, <3>1
    <3>4. QED  BY <2>6, <3>1, <3>2, <3>3 DEF Took
  <2>12. Cell(q, x.input, x.slot) \in Flits
    <3>1. \/ Cell(q, x.input, x.slot) \in Flits
          \/ \E r \in Outputs(q) : Took(q, r) /\ \E y \in Claim(q, r) : y.input = x.input /\ y.slot = x.slot
      BY <2>1, <2>8 DEF Moving, Present, Held, Cell
    <3>2. ASSUME NEW r \in Outputs(q), NEW y \in Claim(q, r), y.input = x.input, y.slot = x.slot
          PROVE  r = o
      BY <1>2, <2>1, <2>2, <2>4, <2>7, <3>2 DEF Settled, Sure
    <3>3. QED  BY <2>10, <3>1, <3>2
  <2>13. QED
    BY <2>1, <2>2, <2>4, <2>5, <2>7, <2>8, <2>11, <2>12 DEF q, o, x, T
<1>4. ASSUME NEW pu \in ejects
      PROVE  /\ NumFwd(pu) \in Outputs(pu) /\ The(buf[pu].eject) \in Claim(pu, NumFwd(pu))
             /\ Held(pu, The(buf[pu].eject)) /\ Took(pu, NumFwd(pu))'
  <2>1. pu \in PU /\ pu \in Owned(t) /\ buf[pu].ejectOk /\ NumFwd(pu) \in Nat
    BY <1>2, RangesApart, Wiring
  <2>2. NumFwd(pu) \in Outputs(pu) /\ Claim(pu, NumFwd(pu)) = buf[pu].eject
    BY <1>2, <2>1, OwnPorts, ClaimCases
  <2>3. The(buf[pu].eject) \in buf[pu].eject
    BY <1>2, <2>1 DEF Settled, EjectSure, The
  <2>4. Held(pu, The(buf[pu].eject))
    BY <1>2, <2>1, <2>2, <2>3 DEF Settled, Sure
  <2>5. NumFwd(pu)' = NumFwd(pu)
    BY <1>1 DEF NumFwd
  <2>6. Took(pu, NumFwd(pu))'
    BY <2>1, <2>5 DEF Took, TakenBy, Moves
  <2>7. QED  BY <2>2, <2>3, <2>4, <2>6
<1>5. ASSUME NEW x \in moves
      PROVE  x = <<x[1], x[2]>> /\ x[1] \in Owned(t) /\ x[2] \in 0 .. NumFwd(x[1]) - 1 /\ buf[x[1]].fwdOk[x[2]]
  <2>1. x = <<x[1], x[2]>> /\ x[1] \in Owned(t) /\ x[2] \in 0 .. 3 /\ x[2] < NumFwd(x[1]) /\ buf[x[1]].fwdOk[x[2]]
    OBVIOUS
  <2>2. NumFwd(x[1]) \in Nat
    BY <1>2, <2>1, RangesApart, Wiring
  <2>3. QED  BY <2>1, <2>2
<1>6. ASSUME NEW q \in PU, NEW i \in Inputs(q), NEW s \in Places
      PROVE  /\ now(q, i, s) \in Flits \cup {NoFlit}
             /\ \/ now(q, i, s) \in Flits
                \/ now(q, i, s) = Cell(q, i, s)
                \/ \E o \in Outputs(q) :
                      Took(q, o)' /\ \E x \in Claim(q, o) : At(x, i, s) /\ Held(q, x)
  <2>1. CASE arrived(q, i, s) # {}
    <3>1. PICK x : x \in arrived(q, i, s) /\ now(q, i, s) = flit(x)
      BY <2>1
    <3>2. x \in moves
      BY <3>1
    <3> HIDE DEF moves, flit, now, arrived
    <3>3. flit(x) \in Flits
      <4>1. flit(<<x[1], x[2]>>) \in Flits
        BY <1>3, <1>5, <3>2
      <4>2. QED  BY <1>5, <3>2, <4>1
    <3>4. QED  BY <3>1, <3>3
  <2>2. CASE arrived(q, i, s) = {} /\ gone(q, i, s)
    <3>1. now(q, i, s) = NoFlit
      BY <2>2
    <3>2. ASSUME NEW x \in moves, Fwd(x[1], x[2]).pu = q,
                 The(buf[x[1]].fwd[x[2]]).input = i, The(buf[x[1]].fwd[x[2]]).slot = s
          PROVE  \E o \in Outputs(q) :
                    Took(q, o)' /\ \E y \in Claim(q, o) : At(y, i, s) /\ Held(q, y)
      <4> DEFINE pu == x[1]
                 k == x[2]
                 o == Fwd(pu, k).port
                 y == The(buf[pu].fwd[k])
      <4>1. pu \in Owned(t) /\ k \in 0 .. NumFwd(pu) - 1 /\ buf[pu].fwdOk[k]
        BY <1>5
      <4>2. Fwd(pu, k).pu = q /\ y.input = i /\ y.slot = s
        BY <3>2
      <4> HIDE DEF pu, k
      <4>3. /\ o \in Outputs(Fwd(pu, k).pu) /\ y \in Claim(Fwd(pu, k).pu, o) /\ Held(Fwd(pu, k).pu, y)
            /\ Took(Fwd(pu, k).pu, o)'
        BY <1>3, <4>1
      <4>4. Fwd(pu, k)' = Fwd(pu, k)
        BY <1>1 DEF Fwd
      <4> HIDE DEF y
      <4>5. PICK r : r = o /\ r' = o
        BY <4>4
      <4>6. r \in Outputs(q) /\ y \in Claim(q, r) /\ Held(q, y)
        BY <4>2, <4>3, <4>5
      <4>7. Took(q, r)'
        BY <4>2, <4>3, <4>4, <4>5 DEF Took, TakenBy
      <4>8. QED  BY <4>2, <4>6, <4>7 DEF At
    <3>3. ASSUME q \in ejects, The(buf[q].eject).input = i, The(buf[q].eject).slot = s
          PROVE  \E o \in Outputs(q) :
                    Took(q, o)' /\ \E y \in Claim(q, o) : At(y, i, s) /\ Held(q, y)
      <4>1. PICK o : o = NumFwd(q)
        OBVIOUS
      <4>2. NumFwd(q)' = NumFwd(q)
        BY <1>1 DEF NumFwd
      <4>3. o \in Outputs(q) /\ The(buf[q].eject) \in Claim(q, o) /\ Held(q, The(buf[q].eject))
        BY <1>4, <3>3, <4>1
      <4>4. Took(q, o)'
        BY <1>4, <3>3, <4>1, <4>2 DEF Took, TakenBy
      <4>5. QED  BY <3>3, <4>3, <4>4 DEF At
    <3>4. \E o \in Outputs(q) : Took(q, o)' /\ \E y \in Claim(q, o) : At(y, i, s) /\ Held(q, y)
      BY <2>2, <3>2, <3>3
    <3> HIDE DEF now
    <3>5. QED  BY <3>1, <3>4
  <2>3. CASE arrived(q, i, s) = {} /\ ~ gone(q, i, s)
    <3>1. now(q, i, s) = Cell(q, i, s)
      BY <2>3 DEF Cell
    <3> HIDE DEF now
    <3>2. Cell(q, i, s) \in Flits \cup {NoFlit}
      BY DEF Shape, RouterType, QueueType, Cell
    <3>3. QED  BY <3>1, <3>2
  <2>4. QED  BY <2>1, <2>2, <2>3
<1>7. ASSUME NEW q \in Owned(t), NEW i \in 0 .. NumFwd(q) - 1, NEW s \in routers[q].enqs[i]
      PROVE  now(q, i, s) \in Flits
  <2>1. q \in PU /\ NumFwd(q) \in 0 .. 4
    BY <1>2, RangesApart, Wiring
  <2>2. buf[q].fwdOk[i]
    BY <1>2, <2>1 DEF Settled, Reserved
  <2>3. i \in 0 .. 3 /\ i < NumFwd(q)
    BY <2>1
  <2>4. <<q, i>> \in moves
    BY <2>2, <2>3
  <2>5. <<q, i>> \in arrived(q, i, s)
    BY <2>4
  <2>6. PICK x : x \in arrived(q, i, s) /\ now(q, i, s) = flit(x)
    BY <2>5
  <2>7. x = <<q, i>>
    BY <2>6
  <2> HIDE DEF flit, now, arrived
  <2>8. QED  BY <1>3, <2>2, <2>6, <2>7
<1> HIDE DEF now
<1>8. ASSUME NEW q \in PU
      PROVE  /\ routers'[q] \in RouterType(Inputs(q), Outputs(q))
             /\ routers'[q].enqs = routers[q].enqs
             /\ \A i \in Inputs(q) : routers'[q].queues[i].occupied = routers[q].queues[i].occupied
             /\ \A i \in Inputs(q) : \A s \in Places : Cell(q, i, s)' = now(q, i, s)
  <2> DEFINE rt == routers[q]
             buffers(i) == [s \in Places |-> now(q, i, s)]
             qs == [i \in DOMAIN rt.queues |-> [rt.queues[i] EXCEPT !.buffer = buffers(i)]]
  <2>1. rt \in RouterType(Inputs(q), Outputs(q))
    BY DEF Shape
  <2>2. routers'[q] = [rt EXCEPT !.queues = qs]
    BY <1>1 DEF Places
  <2>3. DOMAIN rt.queues = Inputs(q) /\ \A i \in Inputs(q) : rt.queues[i] \in QueueType
    BY <2>1 DEF RouterType
  <2>4. ASSUME NEW i \in Inputs(q)
        PROVE  /\ buffers(i) \in [Places -> Flits \cup {NoFlit}]
               /\ \A s \in Places : buffers(i)[s] = now(q, i, s)
    BY <1>6
  <2> HIDE DEF rt, buffers
  <2>5. ASSUME NEW i \in Inputs(q)
        PROVE  /\ qs[i] \in QueueType /\ qs[i].occupied = rt.queues[i].occupied
               /\ qs[i].buffer = buffers(i)
    <3> DEFINE new == [rt.queues[i] EXCEPT !.buffer = buffers(i)]
    <3>1. qs[i] = new
      BY <2>3
    <3> HIDE DEF qs
    <3>2. new \in QueueType /\ new.occupied = rt.queues[i].occupied /\ new.buffer = buffers(i)
      BY <2>3, <2>4 DEF QueueType
    <3>3. QED  BY <3>1, <3>2
  <2>6. qs \in [Inputs(q) -> QueueType]
    BY <2>3, <2>5
  <2> HIDE DEF qs
  <2>7. /\ routers'[q] \in RouterType(Inputs(q), Outputs(q))
        /\ routers'[q].enqs = rt.enqs /\ routers'[q].queues = qs
    BY <2>1, <2>2, <2>6 DEF RouterType
  <2>8. QED  BY <2>4, <2>5, <2>7 DEF rt, Cell
<1>9. ASSUME NEW q \in Owned(t), NEW i \in Inputs(q), Put(q, i)', ~ Put(q, i), NEW s \in routers[q].enqs[i]
      PROVE  Cell(q, i, s)' \in Flits
  <2>1. NumFwd(q)' = NumFwd(q) /\ q \in PU /\ NumFwd(q) \in Nat /\ i \in Nat
    BY <1>1, <1>2, RangesApart, Wiring, OwnPorts DEF NumFwd
  <2>2. i < NumFwd(q)
    BY <1>1, <1>9, <2>1 DEF Put, Moves
  <2>3. i \in 0 .. NumFwd(q) - 1 /\ s \in Places
    BY <2>1, <2>2 DEF Shape, RouterType
  <2>4. QED  BY <1>7, <1>8, <2>1, <2>3
<1>10. /\ \A m \in Memif : memifs[m] \in MemifType(m)
       /\ \A q \in PU : cores[q] \in Flits \cup {NoFlit}
  BY DEF Shape
<1>11. <<pc[t], "step">> \in {<<"post", "transfer">>, <<"transfer", "step">>, <<"step", "stepDone">>}
  BY <1>1
<1>12. \A q \in PU : \A i \in Inputs(q) : \A s \in Places :
          \/ Cell(q, i, s)' \in Flits
          \/ Cell(q, i, s)' = Cell(q, i, s)
          \/ \E o \in Outputs(q) :
                Took(q, o)' /\ \E x \in Claim(q, o) : At(x, i, s) /\ Held(q, x)
  BY <1>6, <1>8
<1>13. QED  BY <1>1, <1>8, <1>9, <1>10, <1>11, <1>12, MovingStays

LEMMA StepMemifStep ==
    ASSUME Shape, Moving, NEW t \in Threads, StepMemif(t), Moves(t, "stepDone"), UNCHANGED links
    PROVE  Shape' /\ Moving'
<1> DEFINE taking == {m \in ThreadMemifs(t) : memifs[m].accept # {}}
           port(m) == PortPU(m, The(memifs[m].accept))
           token(m) == The(memifs[m].tokens[The(memifs[m].accept)])
           here(pu) == {m \in taking : port(m) = pu}
           free == {m \in ThreadMemifs(t) : memifs[m].notice = NoFlit \/ buf[PortPU(m, 0)].noticeOk}
           left == {memifs[m].notice : m \in free}
<1>1. /\ pc[t] = "step" /\ buf' = buf /\ cores' = cores /\ links' = links
      /\ routers' = [pu \in PU |-> IF here(pu) = {} THEN routers[pu]
                                   ELSE TakeFlit(routers[pu], token(The(here(pu))))]
  BY DEF StepMemif
<1>2. PICK new \in Offers({Interface(m) : m \in free}, sent \cup left) :
         memifs' = [m \in Memif |->
             IF m \in free THEN [memifs[m] EXCEPT !.notice = Offered(new, Interface(m))]
             ELSE memifs[m]]
  BY DEF StepMemif
<1>3. LinksFixed /\ Settled
  BY DEF Shape, Moving
<1>4. ASSUME NEW m \in taking
      PROVE  /\ port(m) \in PU /\ NumFwd(port(m)) + 1 \in Outputs(port(m))
             /\ token(m) \in Claim(port(m), NumFwd(port(m)) + 1)
             /\ Held(port(m), token(m))
             /\ \A q \in PU : q = port(m) => Took(q, NumFwd(q) + 1)'
  <2> DEFINE p == The(memifs[m].accept)
             q == port(m)
             T == memifs[m].tokens[p]
             mp == [memif |-> m, port |-> p]
  <2>1. m \in Memif /\ m \in ThreadMemifs(t) /\ memifs[m].accept # {}
    BY DEF ThreadMemifs
  <2>2. p \in memifs[m].accept
    BY <2>1 DEF The
  <2>3. p \in Ports(m) /\ memifs[m].accept = {p} /\ T # {}
    BY <1>3, <2>1, <2>2 DEF Shape, MemifType, Settled, AcceptSure
  <2>4. token(m) \in T /\ q = PortPU(m, p)
    BY <2>3 DEF The
  <2>5. The({mp}) = mp /\ mp.memif = m
    BY DEF The
  <2> HIDE DEF p, q, T, mp, token
  <2>6. q \in PU /\ links[q].memif = {mp}
    BY <1>3, <2>1, <2>3, <2>4, Wiring DEF mp
  <2>7. NumFwd(q) + 1 \in Outputs(q) /\ NumFwd(q) \in Nat
    BY <1>3, <2>6, OwnPorts, Wiring
  <2>8. Claim(q, NumFwd(q) + 1) = T
    BY <1>3, <2>1, <2>3, <2>4, ClaimCases DEF T
  <2>9. Held(q, token(m))
    BY <1>3, <2>4, <2>6, <2>7, <2>8 DEF Settled, Sure
  <2>10. ASSUME NEW r \in PU, r = q
         PROVE  Took(r, NumFwd(r) + 1)'
    <3>1. NumFwd(r)' = NumFwd(r) /\ NumFwd(r) \in Nat
      BY <1>1, <2>7, <2>10 DEF NumFwd
    <3>2. links'[r].memif = {mp}
      BY <1>1, <2>6, <2>10
    <3>3. The(links'[r].memif).memif \in ThreadMemifs(t)
      BY <2>1, <2>5, <3>2
    <3>4. TakenBy(t, r, NumFwd(r) + 1)'
      BY <3>1, <3>3 DEF TakenBy
    <3>5. QED  BY <3>1, <3>4 DEF Took, Moves
  <2>11. QED  BY <2>4, <2>6, <2>7, <2>8, <2>9, <2>10 DEF q
<1>5. \A pu \in PU : here(pu) # {} => The(here(pu)) \in taking /\ port(The(here(pu))) = pu
  BY DEF The
<1> HIDE DEF taking, port, token, here
<1>6. ASSUME NEW q \in PU
      PROVE  /\ routers'[q] \in RouterType(Inputs(q), Outputs(q))
             /\ routers'[q].enqs = routers[q].enqs
             /\ \A i \in Inputs(q) : routers'[q].queues[i].occupied = routers[q].queues[i].occupied
             /\ \A i \in Inputs(q) : \A s \in Places :
                   \/ Cell(q, i, s)' = Cell(q, i, s)
                   \/ \E o \in Outputs(q) :
                         Took(q, o)' /\ \E x \in Claim(q, o) : At(x, i, s) /\ Held(q, x)
  <2>1. routers[q] \in RouterType(Inputs(q), Outputs(q))
    BY DEF Shape
  <2>2. CASE here(q) = {}
    BY <1>1, <2>1, <2>2 DEF Cell
  <2>3. CASE here(q) # {}
    <3>1. PICK m \in taking : m = The(here(q)) /\ port(m) = q
      BY <1>5, <2>3
    <3>2. routers'[q] = TakeFlit(routers[q], token(m))
      BY <1>1, <2>3, <3>1
    <3>3. PICK o : o = NumFwd(q) + 1
      OBVIOUS
    <3>4. /\ o \in Outputs(q) /\ token(m) \in Claim(q, o) /\ Held(q, token(m))
      BY <1>4, <3>1, <3>3
    <3>5. Took(q, o)'
      <4>1. NumFwd(q)' = NumFwd(q)
        BY <1>1 DEF NumFwd
      <4>2. Took(q, NumFwd(q) + 1)'
        BY <1>4, <3>1
      <4>3. QED  BY <3>3, <4>1, <4>2 DEF Took, TakenBy
    <3>6. token(m).input \in Inputs(q) /\ token(m).slot \in Places
      BY <2>1, <3>4 DEF Held, RouterType, QueueType
    <3>7. /\ TakeFlit(routers[q], token(m)) \in RouterType(Inputs(q), Outputs(q))
          /\ TakeFlit(routers[q], token(m)).enqs = routers[q].enqs
          /\ \A i \in Inputs(q) :
                TakeFlit(routers[q], token(m)).queues[i].occupied = routers[q].queues[i].occupied
          /\ \A i \in Inputs(q) : \A s \in Places :
                TakeFlit(routers[q], token(m)).queues[i].buffer[s]
                   = IF i = token(m).input /\ s = token(m).slot THEN NoFlit
                     ELSE routers[q].queues[i].buffer[s]
      BY <2>1, <3>6, TakeFacts
    <3>8. QED  BY <3>2, <3>4, <3>5, <3>7 DEF Cell, At
  <2>4. QED  BY <2>2, <2>3
<1>7. ASSUME NEW m \in Memif
      PROVE  /\ memifs'[m] \in MemifType(m)
             /\ memifs'[m].tokens = memifs[m].tokens /\ memifs'[m].accept = memifs[m].accept
  <2>1. memifs[m] \in MemifType(m)
    BY DEF Shape
  <2>2. CASE m \in free
    <3> DEFINE f == Offered(new, Interface(m))
               now == [memifs[m] EXCEPT !.notice = f]
    <3>1. memifs'[m] = now
      BY <1>2, <2>2
    <3>2. f \in Flits \cup {NoFlit}
      <4>1. new \subseteq Flits
        BY DEF Offers
      <4> HIDE DEF free
      <4>2. QED  BY <4>1, OfferedFacts
    <3> HIDE DEF f
    <3>3. now \in MemifType(m) /\ now.tokens = memifs[m].tokens /\ now.accept = memifs[m].accept
      BY <2>1, <3>2 DEF MemifType
    <3>4. QED  BY <3>1, <3>3
  <2>3. CASE m \notin free
    BY <1>2, <2>1, <2>3
  <2>4. QED  BY <2>2, <2>3
<1>8. ASSUME NEW q \in Owned(t), NEW i \in Inputs(q), Put(q, i)', ~ Put(q, i)
      PROVE  FALSE
  <2>1. NumFwd(q)' = NumFwd(q)
    BY <1>1 DEF NumFwd
  <2>2. QED  BY <1>1, <1>8, <2>1 DEF Put, Moves
<1>9. \A q \in PU : cores[q] \in Flits \cup {NoFlit}
  BY DEF Shape
<1>10. <<pc[t], "stepDone">> \in {<<"post", "transfer">>, <<"transfer", "step">>, <<"step", "stepDone">>}
  BY <1>1
<1>11. /\ \A q \in PU : routers'[q] \in RouterType(Inputs(q), Outputs(q))
       /\ \A q \in PU : routers'[q].enqs = routers[q].enqs
       /\ \A q \in PU : \A i \in Inputs(q) :
             routers'[q].queues[i].occupied = routers[q].queues[i].occupied
       /\ \A q \in PU : cores'[q] \in Flits \cup {NoFlit} /\ (q \notin Owned(t) => cores'[q] = cores[q])
       /\ \A q \in Owned(t) : \A i \in Inputs(q) :
             Put(q, i)' /\ ~ Put(q, i) => \A s \in routers[q].enqs[i] : Cell(q, i, s)' \in Flits
  BY <1>1, <1>6, <1>8, <1>9
<1>12. \A q \in PU : \A i \in Inputs(q) : \A s \in Places :
          \/ Cell(q, i, s)' \in Flits
          \/ Cell(q, i, s)' = Cell(q, i, s)
          \/ \E o \in Outputs(q) :
                Took(q, o)' /\ \E x \in Claim(q, o) : At(x, i, s) /\ Held(q, x)
  BY <1>6
<1> HIDE DEF free, left
<1>13. QED  BY <1>1, <1>7, <1>10, <1>11, <1>12, MovingStays

----------------------------------------------------------------------------
(* Between stepDone and stageStart: the masks follow *)

\* What step has left in a router: an occupied slot is empty only if an output
\* has claimed it, and what was reserved is there.
Left(pu) ==
    /\ \A i \in Inputs(pu) :
          /\ \A s \in routers[pu].queues[i].occupied :
                \/ Cell(pu, i, s) \in Flits
                \/ \E o \in Outputs(pu) : \E x \in Claim(pu, o) : At(x, i, s)
          /\ \A s \in routers[pu].enqs[i] : Cell(pu, i, s) \in Flits
    /\ \A o \in Outputs(pu) : /\ \A x, y \in Claim(pu, o) : x = y
                              /\ \A x \in Claim(pu, o) : Held(pu, x)

Committing ==
    \A t \in Threads : \A pu \in Owned(t) :
        IF pc[t] \in {"peek", "stageStart"} THEN RouterFull(pu) ELSE Left(pu)

\* A commit clears the slots that were taken from and marks those reserved.
LEMMA CommitFacts ==
    ASSUME NEW n \in Nat \ {0}, NEW outs, NEW rt \in RouterType(0 .. n - 1, outs),
           NEW accepted, DOMAIN accepted = outs,
           \A o \in outs : /\ \A x, y \in accepted[o] : x = y
                           /\ \A x \in accepted[o] : x.input \in 0 .. n - 1
    PROVE  /\ RouterStep(rt, accepted) \in RouterType(0 .. n - 1, outs)
           /\ \A i \in 0 .. n - 1 :
                 RouterStep(rt, accepted).queues[i].buffer = rt.queues[i].buffer
           /\ \A i \in 0 .. n - 1 : \A s \in RouterStep(rt, accepted).queues[i].occupied :
                 \/ s \in rt.enqs[i]
                 \/ /\ s \in rt.queues[i].occupied
                    /\ \A o \in outs : \A x \in accepted[o] : ~ At(x, i, s)
<1> DEFINE deqs(i) == {The(accepted[o]).slot :
                          o \in {p \in DOMAIN accepted : \E t \in accepted[p] : t.input = i}}
           c == Cardinality(DOMAIN rt.queues)
           qs == [i \in DOMAIN rt.queues |-> Commit(rt.queues[i], deqs(i), rt.enqs[i])]
           es == [i \in DOMAIN rt.enqs |-> {}]
           as == [o \in DOMAIN rt.arbs |->
                     IF accepted[o] = {} THEN rt.arbs[o] ELSE ArbCommit(c, The(accepted[o]).input)]
           new == [queues |-> qs, enqs |-> es, arbs |-> as]
<1>1. RouterStep(rt, accepted) = new
  BY DEF RouterStep
<1>2. /\ rt.queues \in [0 .. n - 1 -> QueueType] /\ DOMAIN rt.queues = 0 .. n - 1
      /\ rt.enqs \in [0 .. n - 1 -> SUBSET Places] /\ DOMAIN rt.enqs = 0 .. n - 1
      /\ rt.arbs \in [outs -> 0 .. n - 1] /\ DOMAIN rt.arbs = outs
  BY DEF RouterType
<1>3. c = n
  BY <1>2, FS_Interval
<1>4. ASSUME NEW i \in 0 .. n - 1, NEW s, NEW o \in outs, NEW x \in accepted[o], At(x, i, s)
      PROVE  s \in deqs(i)
  <2>1. The(accepted[o]) = x
    BY DEF The
  <2>2. o \in {p \in DOMAIN accepted : \E t \in accepted[p] : t.input = i}
    BY <1>4 DEF At
  <2>3. The(accepted[o]).slot \in deqs(i)
    BY <2>2
  <2>4. QED  BY <1>4, <2>1, <2>3 DEF At
<1> HIDE DEF deqs
<1>5. ASSUME NEW i \in 0 .. n - 1
      PROVE  /\ qs[i] \in QueueType /\ qs[i].buffer = rt.queues[i].buffer
             /\ qs[i].occupied = (rt.queues[i].occupied \ deqs(i)) \cup rt.enqs[i]
  <2> DEFINE q == rt.queues[i]
             occ == (q.occupied \ deqs(i)) \cup rt.enqs[i]
             com == [q EXCEPT !.occupied = occ]
  <2>1. qs[i] = com
    BY <1>2 DEF Commit
  <2>2. q \in QueueType /\ rt.enqs[i] \subseteq Places
    BY <1>2
  <2> HIDE DEF q, qs
  <2>3. com \in QueueType /\ com.buffer = q.buffer /\ com.occupied = occ
    BY <2>2 DEF QueueType
  <2>4. QED  BY <2>1, <2>3 DEF q
<1>6. qs \in [0 .. n - 1 -> QueueType]
  BY <1>2, <1>5
<1>7. es \in [0 .. n - 1 -> SUBSET Places]
  BY <1>2
<1>8. as \in [outs -> 0 .. n - 1]
  <2>1. ASSUME NEW o \in outs
        PROVE  as[o] \in 0 .. n - 1
    <3>1. CASE accepted[o] = {}
      BY <1>2, <3>1
    <3>2. CASE accepted[o] # {}
      <4>1. The(accepted[o]) \in accepted[o]
        BY <3>2 DEF The
      <4>2. The(accepted[o]).input \in 0 .. n - 1
        BY <4>1
      <4>3. as[o] = ArbCommit(n, The(accepted[o]).input)
        BY <1>2, <1>3, <3>2
      <4> HIDE DEF as
      <4>4. QED  BY <4>2, <4>3 DEF ArbCommit
    <3>3. QED  BY <3>1, <3>2
  <2>2. QED  BY <1>2, <2>1
<1> HIDE DEF qs, es, as
<1>9. new \in RouterType(0 .. n - 1, outs) /\ new.queues = qs
  BY <1>6, <1>7, <1>8 DEF RouterType
<1>10. \A i \in 0 .. n - 1 : \A s \in qs[i].occupied :
          \/ s \in rt.enqs[i]
          \/ s \in rt.queues[i].occupied /\ \A o \in outs : \A x \in accepted[o] : ~ At(x, i, s)
  BY <1>4, <1>5
<1> HIDE DEF new
<1>11. QED  BY <1>1, <1>5, <1>9, <1>10

\* When the barrier opens, all flits have moved.
LEMMA StartCommitting ==
    ASSUME Shape, Moving, \A t \in Threads : pc[t] = "stepDone",
           UNCHANGED <<links, routers, buf, memifs, cores>>,
           \A t \in Threads : pc'[t] \notin {"peek", "stageStart"}
    PROVE  Committing'
<1>1. LinksFixed /\ Settled
  BY DEF Shape, Moving
<1>2. ASSUME NEW pu \in PU
      PROVE  Left(pu)
  <2>1. \A i : Put(pu, i)
    BY OwnerOwns DEF Put
  <2>2. \A i \in Inputs(pu) : \A s \in routers[pu].enqs[i] : Cell(pu, i, s) \in Flits
    BY <2>1 DEF Moving, Placed, Cell
  <2>3. \A i \in Inputs(pu) : \A s \in routers[pu].queues[i].occupied :
           \/ Cell(pu, i, s) \in Flits
           \/ \E o \in Outputs(pu) : \E x \in Claim(pu, o) : At(x, i, s)
    BY DEF Moving, Present, Cell, At
  <2>4. \A o \in Outputs(pu) : /\ \A x, y \in Claim(pu, o) : x = y
                               /\ \A x \in Claim(pu, o) : Held(pu, x)
    BY <1>1 DEF Settled, Sure
  <2>5. QED  BY <2>2, <2>3, <2>4 DEF Left
<1>3. ASSUME NEW pu \in PU
      PROVE  Left(pu)'
  <2>1. Left(pu) /\ \A o \in Outputs(pu) : Claim(pu, o)' = Claim(pu, o)
    BY <1>1, <1>2, SettledStays
  <2>2. \A x : Held(pu, x)' <=> Held(pu, x)
    BY DEF Held, Inputs
  <2>3. \A i, s : Cell(pu, i, s)' = Cell(pu, i, s)
    BY DEF Cell
  <2>4. QED  BY <2>1, <2>2, <2>3 DEF Left, Inputs, Outputs
<1>4. QED  BY <1>3, RangesApart DEF Committing

\* A router that nobody touches stays as it is, whatever the others do.
LEMMA LeftStays ==
    ASSUME Shape, UNCHANGED <<links, buf, memifs>>, NEW pu \in PU, routers'[pu] = routers[pu]
    PROVE  (Left(pu) => Left(pu)') /\ (RouterFull(pu) => RouterFull(pu)')
<1>1. LinksFixed
  BY DEF Shape
<1>2. ASSUME NEW o \in Outputs(pu)
      PROVE  Claim(pu, o)' = Claim(pu, o)
  BY DEF Claim, NumFwd, Fwd
<1>3. \A x : Held(pu, x)' <=> Held(pu, x)
  BY DEF Held, Inputs
<1>4. \A i, s : Cell(pu, i, s)' = Cell(pu, i, s)
  BY DEF Cell
<1>5. QED  BY <1>2, <1>3, <1>4 DEF Left, RouterFull, Inputs, Outputs

LEMMA CommittingKept ==
    ASSUME Shape, Committing, UNCHANGED <<links, routers, buf, memifs, cores>>,
           \A t \in Threads : pc'[t] \in {"peek", "stageStart"} <=> pc[t] \in {"peek", "stageStart"}
    PROVE  Committing'
  BY LeftStays, RangesApart DEF Committing

LEMMA CleanupStep ==
    ASSUME Shape, Committing, NEW t \in Threads, Cleanup(t),
           Moves(t, IF t = 0 THEN "peek" ELSE "stageStart"), UNCHANGED links
    PROVE  Shape' /\ Committing'
<1>1. /\ pc[t] = "cleanup" /\ buf' = buf /\ memifs' = memifs /\ cores' = cores /\ links' = links
      /\ \A q \in PU : q \notin Owned(t) => routers'[q] = routers[q]
      /\ \A q \in PU : q \in Owned(t) => routers'[q] = RouterStep(routers[q], Accepted(q))
  BY DEF Cleanup
<1>2. ASSUME NEW q \in Owned(t)
      PROVE  /\ routers'[q] \in RouterType(Inputs(q), Outputs(q))
             /\ \A i \in Inputs(q) : QueueFull(routers'[q].queues[i])
  <2> DEFINE n == NumInputs(topo, q)
             outs == Outputs(q)
             acc == Accepted(q)
             rt == routers[q]
  <2>1. q \in PU /\ Left(q)
    BY <1>1, RangesApart DEF Committing
  <2>2. n \in Nat \ {0} /\ rt \in RouterType(0 .. n - 1, outs) /\ Inputs(q) = 0 .. n - 1
    BY <2>1, PortCounts DEF Shape, Inputs
  <2>3. DOMAIN acc = outs /\ \A o \in outs : acc[o] = Claim(q, o)
    <3>1. DOMAIN routers[q].arbs = outs
      BY <2>2 DEF RouterType
    <3>2. QED  BY <3>1 DEF Accepted, Claim
  <2>4. routers'[q] = RouterStep(rt, acc)
    BY <1>1, <2>1
  <2> HIDE DEF n, outs, acc, rt
  <2>5. \A o \in outs : /\ \A x, y \in acc[o] : x = y
                        /\ \A x \in acc[o] : x.input \in 0 .. n - 1
    BY <2>1, <2>2, <2>3 DEF Left, Held, outs
  <2>6. /\ RouterStep(rt, acc) \in RouterType(0 .. n - 1, outs)
        /\ \A i \in 0 .. n - 1 : RouterStep(rt, acc).queues[i].buffer = rt.queues[i].buffer
        /\ \A i \in 0 .. n - 1 : \A s \in RouterStep(rt, acc).queues[i].occupied :
              \/ s \in rt.enqs[i]
              \/ s \in rt.queues[i].occupied /\ \A o \in outs : \A x \in acc[o] : ~ At(x, i, s)
    BY <2>2, <2>3, <2>5, CommitFacts
  <2>7. ASSUME NEW i \in Inputs(q), NEW s \in routers'[q].queues[i].occupied
        PROVE  routers'[q].queues[i].buffer[s] \in Flits
    <3>1. /\ routers'[q].queues[i].buffer[s] = Cell(q, i, s)
          /\ \/ s \in rt.enqs[i]
             \/ s \in rt.queues[i].occupied /\ \A o \in outs : \A x \in acc[o] : ~ At(x, i, s)
      BY <2>2, <2>4, <2>6 DEF Cell, rt
    <3>2. s \in rt.enqs[i] => Cell(q, i, s) \in Flits
      BY <2>1 DEF Left, rt
    <3>3. s \in rt.queues[i].occupied => \/ Cell(q, i, s) \in Flits
                                         \/ \E o \in outs : \E x \in acc[o] : At(x, i, s)
      BY <2>1, <2>3 DEF Left, rt, outs
    <3>4. QED  BY <3>1, <3>2, <3>3
  <2>8. QED  BY <2>2, <2>4, <2>6, <2>7 DEF QueueFull, outs
<1>3. Shape'
  <2>1. LinksFixed'
    BY <1>1 DEF Shape, LinksFixed, LinkStatus
  <2>2. \A q \in PU : routers'[q] \in RouterType(Inputs(q), Outputs(q))
    BY <1>1, <1>2 DEF Shape
  <2>3. QED  BY <1>1, <2>1, <2>2 DEF Shape, Inputs, Outputs, BufType, MemifType, Ports
<1>4. ASSUME NEW u \in Threads, NEW q \in Owned(u)
      PROVE  IF pc'[u] \in {"peek", "stageStart"} THEN RouterFull(q)' ELSE Left(q)'
  <2>1. CASE u = t
    <3>1. RouterFull(q)'
      BY <1>2, <2>1 DEF RouterFull, Inputs
    <3>2. pc'[u] \in {"peek", "stageStart"}
      BY <2>1 DEF Moves
    <3>3. QED  BY <3>1, <3>2
  <2>2. CASE u # t
    <3>1. pc'[u] = pc[u] /\ q \in PU /\ routers'[q] = routers[q]
      BY <1>1, <2>2, RangesApart DEF Moves
    <3>2. (Left(q) => Left(q)') /\ (RouterFull(q) => RouterFull(q)')
      BY <1>1, <3>1, LeftStays
    <3>3. QED  BY <3>1, <3>2 DEF Committing
  <2>3. QED  BY <2>1, <2>2
<1>5. QED  BY <1>3, <1>4 DEF Committing

LEMMA StartDeciding ==
    ASSUME Shape, Committing, \A t \in Threads : pc[t] = "stageStart",
           UNCHANGED <<links, routers, buf, memifs, cores>>,
           \A t \in Threads : pc'[t] \in {"stageStart", "resolve"}
    PROVE  Deciding'
<1>1. ASSUME NEW pu \in PU
      PROVE  RouterFull(pu)'
  <2>1. RouterFull(pu)
    BY OwnerOwns DEF Committing
  <2>2. QED  BY <2>1 DEF RouterFull, Inputs
<1>2. QED  BY <1>1 DEF Deciding

----------------------------------------------------------------------------
(* The inductive invariant *)

\* What holds while the threads are on their way to a barrier.
Phase(b) ==
    CASE b \in {"stageDone", "stepStart"} -> Deciding
      [] b = "stepDone" -> Moving
      [] b = "stageStart" -> Committing

DataInv == Shape /\ ControlOK /\ \E b \in Barriers : Around(b) /\ Phase(b)

LEMMA InitData == Init => DataInv
<1> SUFFICES ASSUME Init PROVE DataInv
  OBVIOUS
<1>1. ControlOK /\ \E b \in Barriers : Around(b)
  BY InitInv DEF IInv
<1>2. /\ pc = [t \in Threads |-> IF t = 0 THEN "peek" ELSE "stageStart"]
      /\ at = [t \in Threads |-> "arrive"]
  BY DEF Init
<1>3. Around("stageStart")
  <2>1. PICK b \in Barriers : Around(b)
    BY <1>1
  <2>2. pc[0] = "peek" /\ at[0] = "arrive" /\ 0 \in Threads
    BY <1>2, ThreadsFinite
  <2>3. b = "stageStart"
    BY <2>1, <2>2 DEF Around, Together, Released, Heading
  <2>4. QED  BY <2>1, <2>3
<1>4. LinksFixed
  BY DEF Init, LinksFixed
<1>5. ASSUME NEW pu \in PU
      PROVE  /\ routers[pu] \in RouterType(Inputs(pu), Outputs(pu)) /\ RouterFull(pu)
             /\ buf[pu] \in BufType(pu) /\ cores[pu] \in Flits \cup {NoFlit}
  <2> DEFINE n == NumInputs(topo, pu)
             m == NumOutputs(topo, pu)
  <2>1. n \in Nat \ {0} /\ QDepth \in Nat \ {0}
    BY PortCounts, BackendAssumption
  <2>2. routers[pu] = NewRouter(n, m, QDepth)
    BY DEF Init
  <2>3. Inputs(pu) = 0 .. n - 1 /\ Outputs(pu) = 0 .. m - 1
    BY DEF Inputs, Outputs
  <2> HIDE DEF n, m
  <2>4. ArbStart(n) \in 0 .. n - 1
    BY <2>1 DEF ArbStart
  <2>5. NewQueue(QDepth) \in QueueType /\ NewQueue(QDepth).occupied = {}
    BY DEF NewQueue, QueueType, Places
  <2>6. /\ NewRouter(n, m, QDepth) \in RouterType(0 .. n - 1, 0 .. m - 1)
        /\ \A i \in 0 .. n - 1 : NewRouter(n, m, QDepth).queues[i].occupied = {}
    BY <2>4, <2>5 DEF NewRouter, RouterType
  <2>7. buf[pu] = NoDecision(pu) /\ cores[pu] = NoFlit
    BY DEF Init
  <2>8. NoDecision(pu) \in BufType(pu)
    BY DEF NoDecision, BufType
  <2>9. QED  BY <2>2, <2>3, <2>6, <2>7, <2>8 DEF RouterFull, QueueFull
<1>6. ASSUME NEW m \in Memif
      PROVE  memifs[m] \in MemifType(m)
  <2>1. memifs[m] = [tokens |-> [p \in Ports(m) |-> {}], accept |-> {}, notice |-> NoFlit]
    BY DEF Init, Ports
  <2>2. QED  BY <2>1 DEF MemifType
<1>7. Committing
  BY <1>2, <1>5, RangesApart DEF Committing
<1>8. QED  BY <1>1, <1>3, <1>4, <1>5, <1>6, <1>7 DEF DataInv, Shape, Phase, Barriers

\* Parts of a cycle.
LEMMA WorkData ==
    ASSUME Shape, ControlOK, NEW b \in Barriers, Around(b), Phase(b),
           NEW t \in Threads, Work(t), links' = links
    PROVE  Shape' /\ Phase(b)'
<1>1. pc[t] \in Parts /\ Heading(pc[t]) = b
  BY WorkStep, BarrierOrder DEF Around, Together, Released
<1>2. ASSUME NEW next, pc' = [pc EXCEPT ![t] = next]
      PROVE  Moves(t, next)
  BY <1>2 DEF Moves, ControlOK
<1>3. CASE Resolve(t)
  <2>1. b = "stageDone" /\ Moves(t, "drive")
    BY <1>1, <1>2, <1>3 DEF Resolve, Goto, Heading
  <2>2. QED  BY <1>3, <2>1, ResolveStep DEF Phase
<1>4. CASE Drive(t)
  <2>1. b = "stageDone" /\ Moves(t, "memif")
    BY <1>1, <1>2, <1>4 DEF Drive, Goto, Heading
  <2>2. QED  BY <1>4, <2>1, DriveStep DEF Phase
<1>5. CASE StageMemif(t)
  <2>1. b = "stageDone" /\ Moves(t, "stageDone")
    BY <1>1, <1>2, <1>5 DEF StageMemif, Goto, Heading
  <2>2. QED  BY <1>5, <2>1, MemifStep DEF Phase
<1>6. CASE Stats(t)
  <2>1. b = "stepStart" /\ Moves(t, "stepStart") /\ pc[t] = "stats"
    BY <1>1, <1>2, <1>6 DEF Stats, Goto, Heading
  <2>2. UNCHANGED <<links, routers, buf, memifs, cores>>
    BY <1>6 DEF Stats
  <2>3. QED  BY <2>1, <2>2, DecidingStays DEF Phase, Moves
<1>7. CASE Post(t)
  <2>1. b = "stepDone" /\ Moves(t, "transfer")
    BY <1>1, <1>2, <1>7 DEF Post, Goto, Heading
  <2>2. QED  BY <1>7, <2>1, PostStep DEF Phase
<1>8. CASE Transfer(t)
  <2>1. b = "stepDone" /\ Moves(t, "step")
    BY <1>1, <1>2, <1>8 DEF Transfer, Goto, Heading
  <2>2. QED  BY <1>8, <2>1, TransferStep DEF Phase
<1>9. CASE StepMemif(t)
  <2>1. b = "stepDone" /\ Moves(t, "stepDone")
    BY <1>1, <1>2, <1>9 DEF StepMemif, Goto, Heading
  <2>2. QED  BY <1>9, <2>1, StepMemifStep DEF Phase
<1>10. CASE Cleanup(t)
  <2>1. b = "stageStart" /\ Moves(t, IF t = 0 THEN "peek" ELSE "stageStart")
    BY <1>1, <1>2, <1>10 DEF Cleanup, Goto, Heading
  <2>2. QED  BY <1>10, <2>1, CleanupStep DEF Phase
<1>11. CASE Ring(t) \/ Prepare(t) \/ Peek(t)
  <2>1. /\ b = "stageStart"
        /\ UNCHANGED <<links, routers, buf, memifs, cores>>
        /\ \E now, next \in Parts \cup Barriers :
              /\ pc[t] = now /\ pc' = [pc EXCEPT ![t] = next]
              /\ now \in {"peek", "stageStart"} <=> next \in {"peek", "stageStart"}
    BY <1>1, <1>11 DEF Ring, Prepare, Peek, Goto, Heading, system, Parts, Barriers
  <2>2. \A u \in Threads : pc'[u] \in {"peek", "stageStart"} <=> pc[u] \in {"peek", "stageStart"}
    BY <2>1 DEF ControlOK
  <2>3. QED  BY <2>1, <2>2, DecidingStays, CommittingKept DEF Phase
<1>12. QED
  BY <1>3, <1>4, <1>5, <1>6, <1>7, <1>8, <1>9, <1>10, <1>11 DEF Work

\* The barriers: who waits, or notices that a barrier is open.
LEMMA WaitData ==
    ASSUME Shape, ControlOK, NEW b \in Barriers, Around(b), Phase(b), NEW t \in Threads,
           NEW c \in Barriers, Arrive(t, c) \/ Reset(t, c) \/ Spin(t, c), links' = links
    PROVE  Shape' /\ Phase(b)'
<1>1. UNCHANGED <<links, routers, buf, memifs, cores>>
  BY DEF Arrive, Reset, Spin, Leave, system
<1>2. \/ pc' = pc
      \/ c = Before(b) /\ pc[t] = c /\ pc' = [pc EXCEPT ![t] = After(t, c)]
  <2>1. CASE Spin(t, c)
    <3>1. /\ pc[t] = c /\ at[t] = "spin" /\ barriers[c].generation # gen[t]
          /\ pc' = [pc EXCEPT ![t] = After(t, c)]
      BY <2>1 DEF Spin, Leave, Goto
    <3>2. c # b
      BY <3>1 DEF Around, Together, Arrived
    <3>3. c = Before(b)
      BY <3>1, <3>2, BarrierOrder DEF Around, Together, Released
    <3>4. QED  BY <3>1, <3>3
  <2>2. CASE Arrive(t, c) \/ Reset(t, c)
    BY <2>2 DEF Arrive, Reset
  <2>3. QED  BY <2>1, <2>2
<1>3. \A u \in Threads : \/ pc'[u] = pc[u]
                         \/ pc[u] = Before(b) /\ pc'[u] = After(u, Before(b))
  BY <1>2 DEF ControlOK
<1>4. Shape'
  BY <1>1, DecidingStays
<1>5. CASE b = "stageDone"
  <2>1. \A u \in Threads : pc'[u] = pc[u] \/ (pc[u] = "stageStart" /\ pc'[u] = "resolve")
    BY <1>3, <1>5 DEF Before, After
  <2>2. Deciding'
    BY <1>1, <1>5, <2>1, DecidingStays DEF Phase
  <2>3. QED  BY <1>4, <1>5, <2>2 DEF Phase
<1>6. CASE b = "stepStart"
  <2>1. \A u \in Threads : \/ pc'[u] = pc[u]
                           \/ pc[u] = "stageDone" /\ pc'[u] \in {"stats", "stepStart"}
    BY <1>3, <1>6 DEF Before, After
  <2>2. Deciding'
    BY <1>1, <1>6, <2>1, DecidingStays DEF Phase
  <2>3. QED  BY <1>4, <1>6, <2>2 DEF Phase
<1>7. CASE b = "stepDone"
  <2>1. \A u \in Threads : pc'[u] = pc[u] \/ (pc[u] = "stepStart" /\ pc'[u] = "post")
    BY <1>3, <1>7 DEF Before, After
  <2>2. Moving'
    BY <1>1, <1>7, <2>1, MovingKept DEF Phase
  <2>3. QED  BY <1>4, <1>7, <2>2 DEF Phase
<1>8. CASE b = "stageStart"
  <2>1. \A u \in Threads : \/ pc'[u] = pc[u]
                           \/ pc[u] = "stepDone" /\ pc'[u] \in {"ring", "prepare"}
    BY <1>3, <1>8 DEF Before, After
  <2>2. Committing'
    BY <1>1, <1>8, <2>1, CommittingKept DEF Phase
  <2>3. QED  BY <1>4, <1>8, <2>2 DEF Phase
<1>9. QED  BY <1>5, <1>6, <1>7, <1>8 DEF Barriers

\* The last to arrive opens the barrier, and the next phase begins.
LEMMA ReleaseData ==
    ASSUME Shape, ControlOK, NEW b \in Barriers, Around(b), Phase(b), NEW t \in Threads,
           NEW c \in Barriers, Release(t, c), links' = links,
           NEW next \in Barriers, Before(next) = b
    PROVE  Shape' /\ Phase(next)'
<1>1. /\ UNCHANGED <<links, routers, buf, memifs, cores>>
      /\ pc[t] = c /\ at[t] = "release" /\ pc' = [pc EXCEPT ![t] = After(t, c)]
  BY DEF Release, Leave, Goto, system
<1>2. c = b
  BY <1>1, BarrierOrder DEF Around, Together, Released
<1>3. \A u \in Threads : pc[u] = b
  <2>1. t \in Closing
    BY <1>1 DEF Closing
  <2>2. Arrived(b) = Threads
    BY <2>1 DEF Around, LastCloses
  <2>3. QED  BY <2>2 DEF Arrived
<1>4. \A u \in Threads : pc'[u] \in {b, After(u, b)}
  BY <1>1, <1>2, <1>3 DEF ControlOK
<1>5. Shape'
  BY <1>1, DecidingStays
<1>6. CASE b = "stageStart"
  <2>1. next = "stageDone" /\ \A u \in Threads : pc'[u] \in {"stageStart", "resolve"}
    BY <1>4, <1>6 DEF Before, After, Barriers
  <2>2. Deciding'
    BY <1>1, <1>3, <1>6, <2>1, StartDeciding DEF Phase
  <2>3. QED  BY <1>5, <2>1, <2>2 DEF Phase
<1>7. CASE b = "stageDone"
  <2>1. next = "stepStart" /\ \A u \in Threads : pc'[u] \in {"stageDone", "stats", "stepStart"}
    BY <1>4, <1>7 DEF Before, After, Barriers
  <2>2. Deciding'
    BY <1>1, <1>3, <1>7, <2>1, DecidingStays DEF Phase
  <2>3. QED  BY <1>5, <2>1, <2>2 DEF Phase
<1>8. CASE b = "stepStart"
  <2>1. next = "stepDone" /\ \A u \in Threads : pc'[u] \in {"stepStart", "post"}
    BY <1>4, <1>8 DEF Before, After, Barriers
  <2>2. Moving'
    BY <1>1, <1>3, <1>8, <2>1, StartMoving DEF Phase
  <2>3. QED  BY <1>5, <2>1, <2>2 DEF Phase
<1>9. CASE b = "stepDone"
  <2>1. next = "stageStart" /\ \A u \in Threads : pc'[u] \notin {"peek", "stageStart"}
    BY <1>4, <1>9 DEF Before, After, Barriers
  <2>2. Committing'
    BY <1>1, <1>3, <1>9, <2>1, StartCommitting DEF Phase
  <2>3. QED  BY <1>5, <2>1, <2>2 DEF Phase
<1>10. QED  BY <1>6, <1>7, <1>8, <1>9 DEF Barriers

LEMMA NextData == DataInv /\ [Next]_vars => DataInv'
<1>1. ASSUME DataInv, Next
      PROVE  DataInv'
  <2>1. PICK b \in Barriers : Around(b) /\ Phase(b)
    BY <1>1 DEF DataInv
  <2>2. PICK t \in Threads : (Work(t) \/ Wait(t)) /\ links' = links
    BY <1>1 DEF Next, Thread
  <2>3. Shape /\ ControlOK
    BY <1>1 DEF DataInv
  <2>4. CASE Work(t)
    <3>1. ControlOK' /\ Around(b)'
      BY <2>1, <2>3, <2>4, WorkInv
    <3>2. Shape' /\ Phase(b)'
      BY <2>1, <2>2, <2>3, <2>4, WorkData
    <3>3. QED  BY <3>1, <3>2 DEF DataInv
  <2>5. CASE Wait(t)
    <3>1. PICK c \in Barriers : Arrive(t, c) \/ Reset(t, c) \/ Release(t, c) \/ Spin(t, c)
      BY <2>5 DEF Wait
    <3>2. CASE Arrive(t, c) \/ Reset(t, c) \/ Spin(t, c)
      <4>1. ControlOK' /\ Around(b)'
        BY <2>1, <2>3, <3>2, ArriveInv, ResetInv, SpinInv
      <4>2. Shape' /\ Phase(b)'
        BY <2>1, <2>2, <2>3, <3>2, WaitData
      <4>3. QED  BY <4>1, <4>2 DEF DataInv
    <3>3. CASE Release(t, c)
      <4>1. PICK next \in Barriers : Before(next) = b
        BY DEF Barriers, Before
      <4>2. ControlOK' /\ Around(next)'
        BY <2>1, <2>3, <3>3, <4>1, ReleaseInv
      <4>3. Shape' /\ Phase(next)'
        BY <2>1, <2>2, <2>3, <3>3, <4>1, ReleaseData
      <4>4. QED  BY <4>2, <4>3 DEF DataInv
    <3>4. QED  BY <3>1, <3>2, <3>3
  <2>6. QED  BY <2>2, <2>4, <2>5
<1>2. ASSUME DataInv, UNCHANGED vars
      PROVE  DataInv'
  <2>1. /\ UNCHANGED <<links, routers, buf, memifs, cores>>
        /\ pc' = pc /\ at' = at /\ gen' = gen /\ ahead' = ahead /\ barriers' = barriers
    BY <1>2 DEF vars, system
  <2>2. PICK b \in Barriers : Around(b) /\ Phase(b)
    BY <1>2 DEF DataInv
  <2>3. Shape /\ ControlOK
    BY <1>2 DEF DataInv
  <2>4. Around(b)'
    <3>1. \A c \in Barriers : Arrived(c)' = Arrived(c)
      BY <2>1 DEF Arrived
    <3>2. QED  BY <2>1, <2>2, <3>1
               DEF Around, Together, Released, Counts, LastCloses, Closing, Counters
  <2>5. Shape' /\ (Deciding => Deciding')
    BY <2>1, <2>3, DecidingStays
  <2>6. (Moving => Moving') /\ (Committing => Committing')
    BY <2>1, <2>3, MovingKept, CommittingKept
  <2>7. Phase(b)'
    BY <2>2, <2>5, <2>6 DEF Phase, Barriers
  <2>8. QED  BY <2>1, <2>3, <2>4, <2>5, <2>7 DEF DataInv, ControlOK
<1>3. QED  BY <1>1, <1>2

----------------------------------------------------------------------------
(* Who touches which object *)

\* An object of some kind belongs to a PU, an interface or a thread.
LEMMA Kinds ==
    /\ \A pu : \A x \in Slots(pu) : x[1] = "slot"
    /\ \A pu : \A x \in Masks(pu) : x[1] = "mask" /\ x[2] = pu
    /\ \A pu : \A x \in Arbs(pu) : x[1] = "arb" /\ x[2] = pu
    /\ \A pu : \A x \in Enqs(pu) : x[1] = "enq" /\ x[2] = pu
    /\ \A pu : \A x \in FwdBufs(pu) : x[1] = "fwd" /\ x[2] = pu
    /\ \A kind, S : \A x \in One(kind, S) : x[1] = kind /\ x[2] \in S
    /\ \A S, phase : \A x \in Marks(S, phase) : x[1] = phase /\ x[2] \in S
    /\ \A S : \A x \in Tokens(S) : x[1] = "token" /\ x[2] \in S
    /\ \A pu, T : \A x \in SlotOf(pu, T) :
          x[1] = "slot" /\ \E y \in T : x = <<"slot", pu, y.input, y.slot>>
    /\ \A pu, i : \A x \in EnqSlot(pu, i) :
          x[1] = "slot" /\ \E s \in routers[pu].enqs[i] : x = <<"slot", pu, i, s>>
<1>1. /\ \A pu : \A x \in Slots(pu) : x[1] = "slot"
      /\ \A pu : \A x \in Masks(pu) : x[1] = "mask" /\ x[2] = pu
      /\ \A pu : \A x \in Arbs(pu) : x[1] = "arb" /\ x[2] = pu
      /\ \A pu : \A x \in Enqs(pu) : x[1] = "enq" /\ x[2] = pu
      /\ \A pu : \A x \in FwdBufs(pu) : x[1] = "fwd" /\ x[2] = pu
  BY DEF Slots, Masks, Arbs, Enqs, FwdBufs
<1>2. /\ \A kind, S : \A x \in One(kind, S) : x[1] = kind /\ x[2] \in S
      /\ \A S, phase : \A x \in Marks(S, phase) : x[1] = phase /\ x[2] \in S
  BY DEF One, Marks
<1>3. \A S : \A x \in Tokens(S) : x[1] = "token" /\ x[2] \in S
  BY DEF Tokens
<1>4. /\ \A pu, T : \A x \in SlotOf(pu, T) :
            x[1] = "slot" /\ \E y \in T : x = <<"slot", pu, y.input, y.slot>>
      /\ \A pu, i : \A x \in EnqSlot(pu, i) :
            x[1] = "slot" /\ \E s \in routers[pu].enqs[i] : x = <<"slot", pu, i, s>>
  BY DEF SlotOf, EnqSlot
<1>5. QED  BY <1>1, <1>2, <1>3, <1>4

\* Decisions: a thread writes what belongs to its PUs and interfaces, and
\* reads of others only what nobody writes.
LEMMA StageTouches ==
    ASSUME NEW t \in Threads, pc[t] \in {"resolve", "drive", "memif"}, NEW x
    PROVE  /\ x \in Writes(t) =>
                 \/ x[1] \in {"inject", "eject", "fwd", "enq", "core", "ejectOk"} /\ x[2] \in Owned(t)
                 \/ x[1] \in {"bcst", "StageTimes", "StageDone"} /\ x[2] = t
                 \/ x[1] \in {"accept", "ringAccept", "token"} /\ x[2] \in ThreadMemifs(t)
           /\ x \in Reads(t) =>
                 \/ x[1] \in {"core", "eject", "inject"} /\ x[2] \in Owned(t)
                 \/ x[1] \in {"coreMem", "idle", "slot", "mask", "arb", "memif", "ringSlot", "ring",
                              "StageStart", "StepTimes"}
<1>1. CASE pc[t] = "resolve"
  <2>1. x \in Writes(t) => \/ x \in Marks({t}, "StageTimes")
                           \/ x \in One("inject", Owned(t)) \/ x \in One("eject", Owned(t))
                           \/ \E pu \in Owned(t) : x \in FwdBufs(pu) \/ x \in Enqs(pu)
    BY <1>1 DEF Writes, ProfileWrites
  <2>2. x \in Reads(t) => \/ x \in Marks(Threads, "StageStart") \/ x \in Marks(Threads, "StepTimes")
                          \/ x \in One("core", Owned(t)) \/ \E S : x \in One("idle", S)
                          \/ \E pu : x \in Slots(pu) \/ x \in Masks(pu) \/ x \in Arbs(pu)
    BY <1>1 DEF Reads, ProfileReads, Queues
  <2>3. QED  BY <2>1, <2>2, Kinds
<1>2. CASE pc[t] = "drive"
  <2>1. x \in Writes(t) => \/ x \in Marks({t}, "StageTimes")
                           \/ x \in One("core", Owned(t)) \/ x \in One("ejectOk", Owned(t))
                           \/ x \in One("bcst", {t})
    BY <1>2 DEF Writes, ProfileWrites
  <2>2. x \in Reads(t) => \/ x \in One("eject", Owned(t)) \/ x \in One("inject", Owned(t))
                          \/ x \in One("coreMem", Owned(t))
                          \/ \E pu, T : x \in SlotOf(pu, T)
    BY <1>2 DEF Reads, ProfileReads
  <2>3. QED  BY <2>1, <2>2, Kinds
<1>3. CASE pc[t] = "memif"
  <2>1. x \in Writes(t) => \/ x \in Marks({t}, "StageTimes") \/ x \in Marks({t}, "StageDone")
                           \/ x \in One("accept", ThreadMemifs(t))
                           \/ x \in One("ringAccept", ThreadMemifs(t))
                           \/ x \in Tokens(ThreadMemifs(t))
    BY <1>3 DEF Writes, ProfileWrites
  <2>2. x \in Reads(t) => \/ x \in One("memif", ThreadMemifs(t))
                          \/ x \in One("ringSlot", ThreadMemifs(t)) \/ x \in One("ring", {0})
                          \/ \E pu : x \in Slots(pu) \/ x \in Masks(pu) \/ x \in Arbs(pu)
    BY <1>3 DEF Reads, ProfileReads, Queues
  <2>3. QED  BY <2>1, <2>2, Kinds
<1>4. QED  BY <1>1, <1>2, <1>3

\* The slot x is reserved in a router of t, or claimed by what t takes.
Puts(t, x) ==
    \E q \in Owned(t) : \E i \in Inputs(q) : \E s \in routers[q].enqs[i] : x = <<"slot", q, i, s>>
Takes(t, x) ==
    \E q \in PU : \E o \in Outputs(q) : \E y \in Claim(q, o) :
        x = <<"slot", q, y.input, y.slot>> /\ TakenBy(t, q, o)

\* Transfers: besides what is its own, a thread writes the slots it fills and
\* those it takes flits from, in any router.
LEMMA StepTouches ==
    ASSUME Shape, Settled, NEW t \in Threads, pc[t] \in {"post", "transfer", "step"}, NEW x
    PROVE  /\ x \in Writes(t) =>
                 \/ x[1] = "core" /\ x[2] \in Owned(t)
                 \/ x[1] = "StepDone" /\ x[2] = t
                 \/ x[1] \in {"memif", "idle", "ringSlot", "injected"} /\ x[2] \in ThreadMemifs(t)
                 \/ x[1] = "slot" /\ (Puts(t, x) \/ Takes(t, x))
           /\ x \in Reads(t) =>
                 x[1] \in {"inject", "enq", "reset", "eject", "ejectOk", "fwd", "accept", "token",
                           "ring", "ringAccept", "ext", "bcst", "StepStart"}
<1>1. /\ LinksFixed /\ Owned(t) \subseteq PU /\ ThreadMemifs(t) \subseteq Memif
      /\ \A q \in PU : Reserved(q) /\ EjectSure(q)
  BY RangesApart DEF Shape, Settled, ThreadMemifs
<1>2. ASSUME NEW pu \in Owned(t), NEW i \in Inputs(pu), x \in EnqSlot(pu, i)
      PROVE  x[1] = "slot" /\ Puts(t, x)
  BY <1>2, Kinds DEF Puts
<1>3. ASSUME NEW q \in PU, NEW o \in Outputs(q), TakenBy(t, q, o), x \in SlotOf(q, Claim(q, o))
      PROVE  x[1] = "slot" /\ Takes(t, x)
  BY <1>3, Kinds DEF Takes
<1>4. CASE pc[t] = "post"
  <2>1. x \in Writes(t) =>
           \/ x \in One("core", Owned(t))
           \/ \E pu \in Owned(t) : buf[pu].injectOk /\ x \in EnqSlot(pu, NumFwd(pu))
           \/ \E pu \in Owned(t) : buf[pu].noticeOk /\ x \in EnqSlot(pu, NumFwd(pu) + 1)
    BY <1>4 DEF Writes, ProfileWrites
  <2>2. x \in Reads(t) => \/ x \in Marks(Threads, "StepStart")
                          \/ x \in One("inject", Owned(t)) \/ x \in One("reset", {0})
                          \/ \E pu : x \in Enqs(pu)
    BY <1>4 DEF Reads, ProfileReads
  <2>3. ASSUME NEW pu \in Owned(t)
        PROVE  NumFwd(pu) \in Inputs(pu) /\ (buf[pu].noticeOk => NumFwd(pu) + 1 \in Inputs(pu))
    BY <1>1, OwnPorts DEF Reserved
  <2>4. QED  BY <1>2, <2>1, <2>2, <2>3, Kinds
<1>5. CASE pc[t] = "transfer"
  <2>1. x \in Writes(t) =>
           \/ \E pu \in Owned(t) : \E k \in Links(pu) :
                 buf[pu].fwdOk[k] /\ (x \in SlotOf(Fwd(pu, k).pu, buf[pu].fwd[k]) \/ x \in EnqSlot(pu, k))
           \/ \E pu \in Owned(t) : buf[pu].ejectOk /\ x \in SlotOf(pu, buf[pu].eject)
    BY <1>5 DEF Writes, ProfileWrites
  <2>2. x \in Reads(t) => \/ x \in One("eject", Owned(t)) \/ x \in One("ejectOk", Owned(t))
                          \/ \E pu : x \in FwdBufs(pu) \/ x \in Enqs(pu)
    BY <1>5 DEF Reads, ProfileReads
  <2>3. ASSUME NEW pu \in Owned(t), NEW k \in Links(pu), buf[pu].fwdOk[k],
               x \in SlotOf(Fwd(pu, k).pu, buf[pu].fwd[k]) \/ x \in EnqSlot(pu, k)
        PROVE  x[1] = "slot" /\ (Puts(t, x) \/ Takes(t, x))
    <3>1. pu \in PU /\ k \in 0 .. NumFwd(pu) - 1 /\ k \in Inputs(pu)
      BY <1>1, OwnPorts DEF Links
    <3> DEFINE q == Fwd(pu, k).pu
               o == Fwd(pu, k).port
    <3>2. /\ q \in PU /\ o \in 0 .. NumFwd(q) - 1 /\ Fwd(q, o).pu = pu /\ NumFwd(q) \in Nat
          /\ Claim(q, o) = buf[pu].fwd[k]
      BY <1>1, <2>3, <3>1, Wiring, ClaimCases
    <3>3. x \in SlotOf(q, Claim(q, o)) \/ x \in EnqSlot(pu, k)
      BY <2>3, <3>2
    <3> HIDE DEF q, o
    <3>4. o \in Outputs(q) /\ o < NumFwd(q)
      BY <1>1, <3>2, OwnPorts
    <3>5. TakenBy(t, q, o)
      BY <3>2, <3>4 DEF TakenBy
    <3>6. QED  BY <1>2, <1>3, <3>1, <3>2, <3>3, <3>4, <3>5
  <2>4. ASSUME NEW pu \in Owned(t), buf[pu].ejectOk, x \in SlotOf(pu, buf[pu].eject)
        PROVE  x[1] = "slot" /\ Takes(t, x)
    <3>1. /\ pu \in PU /\ NumFwd(pu) \in Outputs(pu) /\ Claim(pu, NumFwd(pu)) = buf[pu].eject
          /\ NumFwd(pu) \in Nat
      BY <1>1, <2>4, OwnPorts, ClaimCases, Wiring
    <3>2. TakenBy(t, pu, NumFwd(pu))
      BY <3>1 DEF TakenBy
    <3>3. QED  BY <1>3, <2>4, <3>1, <3>2
  <2>5. QED  BY <2>1, <2>2, <2>3, <2>4, Kinds
<1>6. CASE pc[t] = "step"
  <2>1. x \in Writes(t) =>
           \/ x \in Marks({t}, "StepDone")
           \/ x \in One("memif", ThreadMemifs(t)) \/ x \in One("idle", ThreadMemifs(t))
           \/ x \in One("ringSlot", ThreadMemifs(t)) \/ x \in One("injected", ThreadMemifs(t))
           \/ \E m \in ThreadMemifs(t) : \E p \in memifs[m].accept :
                 x \in SlotOf(PortPU(m, p), memifs[m].tokens[p])
    BY <1>6 DEF Writes, ProfileWrites
  <2>2. x \in Reads(t) => \/ x \in One("accept", ThreadMemifs(t)) \/ x \in One("ring", {0})
                          \/ x \in One("ringAccept", ThreadMemifs(t))
                          \/ x \in One("ext", ThreadMemifs(t)) \/ x \in One("bcst", Threads)
                          \/ \E S : x \in Tokens(S) \/ x \in One("inject", S)
    BY <1>6 DEF Reads, ProfileReads
  <2>3. ASSUME NEW m \in ThreadMemifs(t), NEW p \in memifs[m].accept,
               x \in SlotOf(PortPU(m, p), memifs[m].tokens[p])
        PROVE  x[1] = "slot" /\ Takes(t, x)
    <3> DEFINE q == PortPU(m, p)
               mp == [memif |-> m, port |-> p]
    <3>1. m \in Memif /\ p \in Ports(m) /\ memifs[m].accept = {p}
      BY <1>1 DEF Shape, MemifType, Settled, AcceptSure
    <3>2. /\ q \in PU /\ links[q].memif = {mp} /\ NumFwd(q) \in Nat
          /\ Claim(q, NumFwd(q) + 1) = memifs[m].tokens[p]
      BY <1>1, <3>1, Wiring, ClaimCases
    <3>3. The({mp}) = mp /\ mp.memif = m
      BY DEF The
    <3>4. x \in SlotOf(q, Claim(q, NumFwd(q) + 1))
      BY <2>3, <3>2
    <3> HIDE DEF q, mp
    <3>5. NumFwd(q) + 1 \in Outputs(q)
      BY <1>1, <3>2, OwnPorts
    <3>6. TakenBy(t, q, NumFwd(q) + 1)
      BY <3>2, <3>3 DEF TakenBy
    <3>7. QED  BY <1>3, <3>2, <3>4, <3>5, <3>6
  <2>4. QED  BY <2>1, <2>2, <2>3, Kinds
<1>7. QED  BY <1>4, <1>5, <1>6

\* The commit: a thread writes its own routers, the leader also what the
\* others leave alone.
LEMMA CommitTouches ==
    ASSUME ControlOK, NEW t \in Threads, pc[t] \in {"ring", "prepare", "cleanup", "peek"}, NEW x
    PROVE  /\ x \in Writes(t) =>
                 \/ x[1] \in {"coreMem", "mask", "arb", "enq"} /\ x[2] \in Owned(t)
                 \/ x[1] = "StepTimes" /\ x[2] = t
                 \/ x[1] \in {"idle", "ring", "ringSlot", "ext"} /\ t = 0
           /\ x \in Reads(t) =>
                 \/ x[1] = "enq" /\ x[2] \in Owned(t)
                 \/ x[1] \in {"injected", "ringAccept", "StepDone", "memif", "eject", "ejectOk",
                              "fwd", "accept", "token"}
<1>1. CASE pc[t] = "ring"
  <2>1. t = 0
    BY <1>1 DEF ControlOK
  <2>2. x \in Writes(t) => x \in One("idle", Memif) \/ x \in One("ring", {0}) \/ x \in One("ringSlot", Memif)
    BY <1>1 DEF Writes, ProfileWrites
  <2>3. x \in Reads(t) => \/ x \in Marks(Threads, "StepDone")
                          \/ x \in One("injected", Memif) \/ x \in One("ringAccept", Memif)
    BY <1>1 DEF Reads, ProfileReads
  <2>4. QED  BY <2>1, <2>2, <2>3, Kinds
<1>2. CASE pc[t] = "prepare"
  <2>1. x \in Writes(t) => x \in One("coreMem", Owned(t)) \/ x \in Marks({t}, "StepTimes")
    BY <1>2 DEF Writes, ProfileWrites
  <2>2. x \in Reads(t) => \E S : x \in One("memif", S)
    BY <1>2 DEF Reads, ProfileReads
  <2>3. QED  BY <2>1, <2>2, Kinds
<1>3. CASE pc[t] = "cleanup"
  <2>1. x \in Writes(t) => \/ x \in Marks({t}, "StepTimes")
                           \/ \E pu \in Owned(t) : x \in Masks(pu) \/ x \in Arbs(pu) \/ x \in Enqs(pu)
    BY <1>3 DEF Writes, ProfileWrites
  <2>2. x \in Reads(t) => \/ x \in One("eject", Owned(t)) \/ x \in One("ejectOk", Owned(t))
                          \/ \E pu \in Owned(t) : x \in Enqs(pu)
                          \/ \E pu : x \in FwdBufs(pu)
                          \/ \E S : x \in One("accept", S) \/ x \in Tokens(S)
    BY <1>3 DEF Reads, ProfileReads
  <2>3. QED  BY <2>1, <2>2, Kinds
<1>4. CASE pc[t] = "peek"
  <2>1. t = 0
    BY <1>4 DEF ControlOK
  <2>2. x \in Writes(t) => x \in One("ext", Memif)
    BY <1>4 DEF Writes, ProfileWrites
  <2>3. x \in Reads(t) => x \in One("memif", Memif)
    BY <1>4 DEF Reads, ProfileReads
  <2>4. QED  BY <2>1, <2>2, <2>3, Kinds
<1>5. QED  BY <1>1, <1>2, <1>3, <1>4

\* No two threads put a flit into one slot or take one from it, or one each.
LEMMA SlotsApart ==
    ASSUME Shape, Settled, NEW t \in Threads, NEW u \in Threads, t # u, NEW x,
           Puts(t, x) \/ Takes(t, x), Puts(u, x) \/ Takes(u, x)
    PROVE  FALSE
<1>1. \A q \in PU : Reserved(q) /\ Sure(q)
  BY DEF Settled
<1>2. ASSUME NEW v \in Threads, NEW w \in Threads, Puts(v, x), Takes(w, x)
      PROVE  FALSE
  <2>1. PICK q \in Owned(v) : \E i \in Inputs(q) : \E s \in routers[q].enqs[i] : x = <<"slot", q, i, s>>
    BY <1>2 DEF Puts
  <2>2. PICK i \in Inputs(q) : \E s \in routers[q].enqs[i] : x = <<"slot", q, i, s>>
    BY <2>1
  <2>3. PICK s \in routers[q].enqs[i] : x = <<"slot", q, i, s>>
    BY <2>2
  <2>4. PICK r \in PU : \E o \in Outputs(r) : \E y \in Claim(r, o) : x = <<"slot", r, y.input, y.slot>>
    BY <1>2 DEF Takes
  <2>5. PICK o \in Outputs(r) : \E y \in Claim(r, o) : x = <<"slot", r, y.input, y.slot>>
    BY <2>4
  <2>6. PICK y \in Claim(r, o) : x = <<"slot", r, y.input, y.slot>>
    BY <2>5
  <2>7. r = q /\ y.input = i /\ y.slot = s
    BY <2>3, <2>6
  <2>8. s \in routers[q].queues[i].occupied
    BY <1>1, <2>6, <2>7 DEF Sure, Held
  <2>9. s \notin routers[q].queues[i].occupied
    BY <1>1, <2>3, <2>4, <2>7 DEF Reserved
  <2>10. QED  BY <2>8, <2>9
<1>3. CASE Puts(t, x) /\ Puts(u, x)
  <2>1. PICK q \in Owned(t) : x[2] = q
    BY <1>3 DEF Puts
  <2>2. PICK r \in Owned(u) : x[2] = r
    BY <1>3 DEF Puts
  <2>3. QED  BY <2>1, <2>2, RangesApart
<1>4. CASE Takes(t, x) /\ Takes(u, x)
  <2>1. PICK q \in PU : \E o \in Outputs(q) : \E y \in Claim(q, o) :
           x = <<"slot", q, y.input, y.slot>> /\ TakenBy(t, q, o)
    BY <1>4 DEF Takes
  <2>2. PICK o \in Outputs(q) : \E y \in Claim(q, o) :
            x = <<"slot", q, y.input, y.slot>> /\ TakenBy(t, q, o)
    BY <2>1
  <2>3. PICK y \in Claim(q, o) : x = <<"slot", q, y.input, y.slot>> /\ TakenBy(t, q, o)
    BY <2>2
  <2>4. PICK r \in PU : \E p \in Outputs(r) : \E z \in Claim(r, p) :
           x = <<"slot", r, z.input, z.slot>> /\ TakenBy(u, r, p)
    BY <1>4 DEF Takes
  <2>5. PICK p \in Outputs(r) : \E z \in Claim(r, p) :
            x = <<"slot", r, z.input, z.slot>> /\ TakenBy(u, r, p)
    BY <2>4
  <2>6. PICK z \in Claim(r, p) : x = <<"slot", r, z.input, z.slot>> /\ TakenBy(u, r, p)
    BY <2>5
  <2>7. r = q /\ y.input = z.input /\ y.slot = z.slot
    BY <2>3, <2>6
  <2>8. o = p
    BY <1>1, <2>3, <2>6, <2>7 DEF Sure
  <2>9. \A pu \in PU : ~ (pu \in Owned(t) /\ pu \in Owned(u))
    BY RangesApart
  <2>10. \A m : ~ (m \in ThreadMemifs(t) /\ m \in ThreadMemifs(u))
    BY DEF ThreadMemifs
  <2>11. \A pu : pu \in Owned(t) => pu \in PU
    BY RangesApart
  <2>12. QED  BY <2>3, <2>6, <2>7, <2>8, <2>9, <2>10, <2>11 DEF TakenBy
<1>5. QED  BY <1>2, <1>3, <1>4

----------------------------------------------------------------------------
(* No two threads touch one object *)

\* A thread at a barrier touches nothing.
LEMMA WaitersTouchNothing ==
    ASSUME NEW t \in Threads, pc[t] \in Barriers
    PROVE  Writes(t) = {} /\ Reads(t) = {}
<1>1. ProfileReads(t) = {} /\ ProfileWrites(t) = {}
  BY DEF ProfileReads, ProfileWrites, Barriers
<1>2. QED  BY <1>1 DEF Reads, Writes, Barriers

\* A cycle's parts share the way to a barrier with few others.
LEMMA PartsOnTheWay ==
    ASSUME NEW part \in Parts
    PROVE  /\ Heading(part) = "stageDone" => part \in {"resolve", "drive", "memif"}
           /\ Heading(part) = "stepStart" => part = "stats"
           /\ Heading(part) = "stepDone" => part \in {"post", "transfer", "step"}
           /\ Heading(part) = "stageStart" => part \in {"ring", "prepare", "cleanup", "peek"}
  BY DEF Parts, Heading

\* Whatever objects a thread writes, no other thread reads or writes them at
\* the same time: the code shares routers, cores and interfaces between
\* threads without a lock, between the barriers of SoftBackend.
THEOREM NoRaces == Spec => []NoDataRace
<1>1. DataInv => NoDataRace
  <2> SUFFICES ASSUME DataInv, NEW t \in Threads, NEW u \in Threads, t # u, NEW x,
                      x \in Writes(t), x \in Reads(u) \/ x \in Writes(u)
               PROVE  FALSE
    BY DEF NoDataRace
  <2>1. PICK b \in Barriers : Around(b) /\ Phase(b)
    BY DEF DataInv
  <2>2. Shape /\ ControlOK
    BY DEF DataInv
  <2>3. pc[t] \in Parts /\ pc[u] \in Parts
    BY <2>2, WaitersTouchNothing DEF ControlOK
  <2>4. Heading(pc[t]) = b /\ Heading(pc[u]) = b
    BY <2>1, <2>3, BarrierOrder DEF Around, Together, Released
  <2>5. \A v, w : ~ (v \in Owned(t) /\ v \in Owned(u)) /\ ~ (w \in ThreadMemifs(t) /\ w \in ThreadMemifs(u))
    BY RangesApart DEF ThreadMemifs
  <2>6. CASE b = "stageDone"
    <3>1. pc[t] \in {"resolve", "drive", "memif"} /\ pc[u] \in {"resolve", "drive", "memif"}
      BY <2>3, <2>4, <2>6, PartsOnTheWay
    <3>2. QED  BY <2>5, <3>1, StageTouches
  <2>7. CASE b = "stepStart"
    <3>1. pc[t] = "stats" /\ pc[u] = "stats"
      BY <2>3, <2>4, <2>7, PartsOnTheWay
    <3>2. QED  BY <2>2, <3>1 DEF ControlOK
  <2>8. CASE b = "stepDone"
    <3>1. pc[t] \in {"post", "transfer", "step"} /\ pc[u] \in {"post", "transfer", "step"}
      BY <2>3, <2>4, <2>8, PartsOnTheWay
    <3>2. Settled
      BY <2>1, <2>8 DEF Phase, Moving
    <3>3. CASE x[1] = "slot"
      BY <2>2, <3>1, <3>2, <3>3, StepTouches, SlotsApart
    <3>4. CASE x[1] # "slot"
      BY <2>2, <2>5, <3>1, <3>2, <3>4, StepTouches
    <3>5. QED  BY <3>3, <3>4
  <2>9. CASE b = "stageStart"
    <3>1. /\ pc[t] \in {"ring", "prepare", "cleanup", "peek"}
          /\ pc[u] \in {"ring", "prepare", "cleanup", "peek"}
      BY <2>3, <2>4, <2>9, PartsOnTheWay
    <3>2. QED  BY <2>2, <2>5, <3>1, CommitTouches
  <2>10. QED  BY <2>1, <2>6, <2>7, <2>8, <2>9 DEF Barriers
<1>2. QED  BY <1>1, InitData, NextData, PTL DEF Spec

=============================================================================
