------------------------------- MODULE AmSched -------------------------------
(***************************************************************************)
(* Active messages in one core: the messaging half of exec/Exec.scala with *)
(* BIU.scala.  Two hardware threads share one execute stage (s1), a send   *)
(* queue and one event queue per handler.  A thread that executed WFI, or  *)
(* a yielding send, is idle; an event whose handler is enabled on an idle  *)
(* thread and whose margin fits is started there.  A thread carries the    *)
(* quota of the handler it runs and spends it on its sends.                *)
(*                                                                         *)
(* One step is one clock cycle.  Message contents, addresses and results   *)
(* are abstracted; the send queue and the event queues are their lengths.  *)
(***************************************************************************)
EXTENDS Integers, FiniteSets, Encoders

CONSTANTS
    Handlers,   \* handler numbers, the lowest is started first
    Depth,      \* param.sendQueueDepth
    EvDepth,    \* depth of an event queue (16 in BIU.scala)
    NumPrio,    \* priorities of a flit (4)
    Quota,      \* quota CSR of each handler, written before it is enabled
    Margin,     \* margin CSR of each handler, written before it is enabled
    Masks,      \* thread masks the software writes to a handler's enmask CSR
    Outside,    \* handlers that messages from outside the core address
    Inside,     \* handlers the software addresses on its own core
    YieldBits,  \* values the software gives bit 0 (yield) of a local send
    NbBits      \* values it gives bit 1 (non-blocking) of any send

Threads == {0, 1}       \* param.pipeCnt; doc/msg.md: two threads at most
Prios == 0 .. NumPrio - 1

\* The instructions that matter here. "other" is any instruction but a jump,
\* loads and stores included.
Remote == [op : {"remote"}, thr : Threads, prio : Prios,
           yield : BOOLEAN, nb : NbBits]
Local  == [op : {"local"}, thr : Threads, han : Inside,
           yield : YieldBits, nb : NbBits]
Csr    == [op : {"csr"}, thr : Threads, han : Handlers, mask : Masks]
Other  == [op : {"branch", "other"}, thr : Threads]
Instr  == Remote \cup Local \cup Csr \cup Other

Bubble == [op |-> "none"]

ASSUME AmSchedAssumption ==
    /\ Handlers \subseteq Nat /\ IsFiniteSet(Handlers) /\ Handlers # {}
    /\ Depth \in Nat /\ EvDepth \in Nat \ {0}
    /\ NumPrio \in Nat \ {0} /\ NumPrio <= Depth
    /\ Quota \in [Handlers -> 0 .. Depth]
    /\ Margin \in [Handlers -> 0 .. Depth]
    /\ Masks \subseteq SUBSET Threads
    /\ Outside \subseteq Handlers /\ Inside \subseteq Handlers
    /\ YieldBits \subseteq BOOLEAN /\ NbBits \subseteq BOOLEAN

\* doc/deadlock.md, SMT Quota: "This value should always be less than or
\* equal to its margin."
ASSUME QuotaWithinMargin == \A h \in Handlers : Quota[h] <= Margin[h]

VARIABLES
    atWFI,      \* threads that have (or fetch next) a WFI in decode; the kind
                \* of another instruction is chosen when it is issued
    s1,         \* the instruction in the execute stage, or Bubble
    idlings,    \* threads waiting for an event
    liveQuota,  \* sends left to the handler each thread runs
    sqcnt,      \* flits in the send queue
    evq,        \* events waiting for each handler
    enmask      \* threads each handler may be started on

vars == <<atWFI, s1, idlings, liveQuota, sqcnt, evq, enmask>>

TypeOK ==
    /\ atWFI \subseteq Threads
    /\ s1 \in Instr \cup {Bubble}
    /\ idlings \subseteq Threads
    /\ liveQuota \in [Threads -> 0 .. Depth]
    /\ sqcnt \in 0 .. Depth
    /\ evq \in [Handlers -> 0 .. EvDepth]
    /\ enmask \in [Handlers -> Masks \cup {{}}]

\* Reset: both threads run the boot code, nothing is enabled.
Init ==
    /\ atWFI = {}
    /\ s1 = Bubble
    /\ idlings = {}
    /\ liveQuota = [t \in Threads |-> 0]
    /\ sqcnt = 0
    /\ evq = [h \in Handlers |-> 0]
    /\ enmask = [h \in Handlers |-> {}]

----------------------------------------------------------------------------
(* Admission: the margin test of BIU.scala and of the fast path            *)

Live(t) == IF t \in idlings THEN 0 ELSE liveQuota[t]
LiveSum == Live(0) + Live(1)

\* mutant: the other threads' quotas are not counted
MarginAlone(h) == sqcnt + Margin[h] <= Depth
MarginSatisfied(h) == sqcnt + Margin[h] + LiveSum <= Depth

----------------------------------------------------------------------------
(* The send in s1                                                          *)

IsSend == s1.op \in {"remote", "local"}

\* A yielding send to the own core starts its handler at once, without an
\* event, when it fits and nothing else could be started on this thread.
\* mutant: pending events are not looked at
FastPathEager ==
    /\ s1.op = "local" /\ s1.yield
    /\ s1.thr \in enmask[s1.han]
    /\ MarginSatisfied(s1.han)
FastPath ==
    /\ s1.op = "local" /\ s1.yield
    /\ s1.thr \in enmask[s1.han]
    /\ MarginSatisfied(s1.han)
    /\ \A h \in Handlers : MarginSatisfied(h) /\ evq[h] > 0 => s1.thr \notin enmask[h]

MsgFire  == s1.op = "remote" /\ sqcnt + s1.prio < Depth
PushFire == s1.op = "local" /\ ~FastPath /\ evq[s1.han] < EvDepth
AcceptedRemote == MsgFire       \* mutant: pushes are not acknowledged
Accepted == MsgFire \/ PushFire

\* s1 completes. An accepted non-blocking send does not (Exec.scala:481).
S1Done(mem) ==
    CASE IsSend -> (Accepted /\ ~s1.nb) \/ FastPath
      [] s1.op = "other" -> mem
      [] OTHER -> TRUE

----------------------------------------------------------------------------
(* Scheduling                                                              *)

EYield == IsSend /\ s1.yield /\ Accepted

\* Threads that can take an event now: idle ones, one that yields with the
\* send it completes, and those with a WFI in decode that is not held back by
\* their own instruction in s1.
\* mutant: nothing holds a WFI back
HeldNever(mem) == {}
HeldBack(mem) ==
    IF s1 # Bubble /\ (~S1Done(mem) \/ FastPath \/ s1.op \in {"csr", "branch"})
    THEN {s1.thr} ELSE {}

Accepting(mem) ==
    idlings \cup (IF S1Done(mem) /\ EYield THEN {s1.thr} ELSE {})
            \cup (atWFI \ HeldBack(mem))

\* At most one event starts: that of the lowest handler, on the lowest thread
\* of those that accept (acc).
Schedulable(acc) ==
    {h \in Handlers : evq[h] > 0 /\ enmask[h] \cap acc # {} /\ MarginSatisfied(h)}
Started(acc) ==
    IF Schedulable(acc) = {} THEN {} ELSE {Lowest(Schedulable(acc))}
Wakeup(acc) == {Lowest(acc \cap enmask[h]) : h \in Started(acc)}

----------------------------------------------------------------------------
(* One clock cycle                                                         *)

DecrementBare(q) == q - 1       \* mutant: no floor
Decrement(q) == IF q > 0 THEN q - 1 ELSE q

\* The last assignment wins: a start overrides the decrement of its cycle.
QuotaNext(t, acc) ==
    IF FastPath /\ s1.thr = t THEN Quota[s1.han]
    ELSE IF t \in Wakeup(acc) THEN Quota[Lowest(Started(acc))]
    ELSE IF IsSend /\ s1.thr = t /\ Accepted THEN Decrement(liveQuota[t])
    ELSE liveQuota[t]

\* An event enters a queue with room: the core's own push first, then one
\* unicast and one broadcast event from outside.
Arrives(h, arrive) == \/ PushFire /\ s1.han = h
                      \/ h \in arrive /\ evq[h] < EvDepth
EvqNext(h, acc, arrive) ==
    evq[h] + (IF Arrives(h, arrive) THEN 1 ELSE 0)
           - (IF h \in Started(acc) THEN 1 ELSE 0)

\* Threads that branch, to a handler or within their code.
Branched(acc) ==
    Wakeup(acc) \cup (IF FastPath \/ s1.op = "branch" THEN {s1.thr} ELSE {})

\* The software keeps to its quota: it sends to another core only when the
\* quota of its handler covers it, and to itself only when its event queue
\* has room (doc/deadlock.md, bounded event relaxation).
Allowed(i, acc, arrive) ==
    /\ i.op = "remote" => QuotaNext(i.thr, acc) > 0
    /\ i.op = "local" => EvqNext(i.han, acc, arrive) < EvDepth

\* s1 advances to an instruction of a thread that is neither waiting nor
\* branched and has no WFI in decode, or to a bubble when none is fetched.
Advance(mem) == s1 = Bubble \/ S1Done(mem)
S1Next(mem, acc, arrive) ==
    IF ~Advance(mem) THEN {s1}
    ELSE {Bubble} \cup
         {i \in Instr : /\ i.thr \notin atWFI \cup acc \cup Branched(acc)
                        /\ Allowed(i, acc, arrive)}

\* A thread comes to a WFI when it branches or after the instruction it issues.
MayReachWFI(mem, acc, next) ==
    Branched(acc) \cup (IF Advance(mem) /\ next # Bubble THEN {next.thr} ELSE {})

\* mem: the load or store in s1 is done;  arrive: handlers an event arrives
\* for;  out: the network takes a flit;  next: what s1 holds next.
Cycle(mem, arrive, out) ==
    LET acc == Accepting(mem)
        woken == Wakeup(acc)
    IN  /\ s1' \in S1Next(mem, acc, arrive)
        /\ \E reach \in SUBSET MayReachWFI(mem, acc, s1') :
               atWFI' = (atWFI \ Branched(acc)) \cup reach
        /\ idlings' = acc \ woken
        /\ liveQuota' = [t \in Threads |-> QuotaNext(t, acc)]
        /\ sqcnt' = sqcnt + (IF MsgFire THEN 1 ELSE 0)
                         - (IF out /\ sqcnt > 0 THEN 1 ELSE 0)
        /\ evq' = [h \in Handlers |-> EvqNext(h, acc, arrive)]
        /\ enmask' = IF s1.op = "csr" THEN [enmask EXCEPT ![s1.han] = s1.mask] ELSE enmask

\* At most one unicast and one broadcast event arrive in a cycle.
Arrivals == {A \in SUBSET {h \in Outside : evq[h] < EvDepth} : Cardinality(A) <= 2}

Next == \E mem, out \in BOOLEAN, arrive \in Arrivals :
            /\ s1.op # "other" => mem
            /\ out => sqcnt > 0
            /\ Cycle(mem, arrive, out)

Spec == Init /\ [][Next]_vars

\* Fairness. The clock ticks and the network takes flits; a load or store is
\* answered; code runs to its end: a thread that gets to issue again and again
\* comes to a WFI that it does not jump over, or to a yielding send.
Quiet == s1 = Bubble /\ idlings = Threads /\ Schedulable(idlings) = {}
Drained == sqcnt' # sqcnt + (IF MsgFire THEN 1 ELSE 0)
CanIssue(t) == Advance(TRUE) /\ t \notin atWFI \cup Accepting(TRUE)
ReachWFI(t) == /\ t \notin atWFI /\ t \in atWFI'
               /\ ~(s1'.op = "branch" /\ s1'.thr = t)
IssueYield(t) == /\ Advance(TRUE)
                 /\ s1'.op \in {"remote", "local"} /\ s1'.thr = t /\ s1'.yield

Fairness ==
    /\ []<>Quiet \/ []<><<vars' # vars>>_vars
    /\ []<>(sqcnt = 0) \/ []<><<Drained>>_vars
    /\ []<>(s1.op # "other") \/ []<><<s1' # s1>>_vars
    /\ \A t \in Threads : <>[]~CanIssue(t) \/ []<><<ReachWFI(t) \/ IssueYield(t)>>_vars
FairSpec == Spec /\ Fairness

----------------------------------------------------------------------------
(* Safety *)

\* Exec.scala:217: the instruction in s1 belongs to a thread that runs.
ActiveThread == s1 # Bubble => s1.thr \notin idlings

\* doc/deadlock.md, SMT Quota: the threads do not contend for the same queue
\* space. The flits in the send queue and the sends that running handlers
\* may still make fit the queue together; in particular liveQuotaSum is
\* within the depth (Exec.scala:221).
QuotaCovered == sqcnt + LiveSum <= Depth

\* assert(liveQuotaSum <= param.sendQueueDepth.U), Exec.scala:221.
LiveSumFits == LiveSum <= Depth

\* A most urgent send never waits for the send queue: the execute stage,
\* which both threads share, is not held up by it.
UrgentSendFits == s1.op = "remote" /\ s1.prio = 0 => sqcnt < Depth

----------------------------------------------------------------------------
(* Liveness *)

\* A handler that sends nothing (margin 0) can always be started: as long as
\* it is enabled on both threads its event queue does not stay full.
Sinks == {h \in Handlers : Margin[h] = 0}
SinkDrains ==
    \A h \in Sinks : <>[](enmask[h] = Threads) => []<>(evq[h] < EvDepth)

\* The execute stage, which both threads share, does not hang.
ExecuteMoves == []<>Advance(TRUE)

=============================================================================
