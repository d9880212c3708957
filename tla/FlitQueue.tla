----------------------------- MODULE FlitQueue -----------------------------
(***************************************************************************)
(* The priority flit queue of the network: bus/FlitQueue.scala.            *)
(*                                                                         *)
(* One step is one clock cycle.  A queue has Depth slots, a slot holds a   *)
(* flit with the one-hot mask of its priority (a set of priorities here),  *)
(* priority 0 being the most urgent.  The same cycle may accept a flit and *)
(* release one; both decisions read the registers of the previous cycle.   *)
(* Routers, send queues and event queues of a core are instances of it.    *)
(***************************************************************************)
EXTENDS Integers, FiniteSets, Encoders

CONSTANTS
    Flits,      \* flit instances; one instance is in the queue at most once
    PrioOf,     \* the priority of a flit, from the top two bits of its tag
    NoFlit,     \* "enq.valid is low"
    Depth,      \* number of slots
    NumPrio     \* number of priorities

Slots == 0 .. Depth - 1
Prios == 0 .. NumPrio - 1

\* The "require" of the constructor. That Depth is a power of two only makes
\* the comparison in CanAlloc a test of one bit.
ASSUME FlitQueueAssumption ==
    /\ NumPrio \in Nat \ {0}
    /\ Depth \in Nat
    /\ Depth >= NumPrio
    /\ PrioOf \in [Flits -> Prios]
    /\ NoFlit \notin Flits

VARIABLES
    buffer,     \* the flit last written to each slot (stale when not valid)
    valid,      \* is the slot occupied?
    prio,       \* one-hot priority mask of each slot, {} when free
    cnt         \* number of occupied slots, kept as a register of its own

vars == <<buffer, valid, prio, cnt>>

TypeOK ==
    /\ buffer \in [Slots -> Flits \cup {NoFlit}]
    /\ valid \in [Slots -> BOOLEAN]
    /\ prio \in [Slots -> SUBSET Prios]
    /\ cnt \in 0 .. Depth

Init ==
    /\ buffer = [i \in Slots |-> NoFlit]
    /\ valid = [i \in Slots |-> FALSE]
    /\ prio = [i \in Slots |-> {}]
    /\ cnt = 0

----------------------------------------------------------------------------
(* Combinational logic *)

DeqCandidatesLast ==    \* mutant: the priority encoder the wrong way round
    {i \in Slots : \E p \in prio[i] : \A j \in Slots : \A q \in prio[j] : p >= q}

\* Slots that hold a flit of the most urgent priority present.
DeqCandidates ==
    {i \in Slots : \E p \in prio[i] : \A j \in Slots : \A q \in prio[j] : p <= q}

DeqValid == \E i \in Slots : prio[i] # {}

\* A flit of priority p needs p + 1 free slots.
CanAllocAny(p) == cnt < Depth                   \* mutant: no reserved slots
CanAlloc(p) == cnt + p < Depth

FreeSlots == {i \in Slots : ~valid[i]}

EnqReady(p) == FreeSlots # {} /\ CanAlloc(p)

----------------------------------------------------------------------------
(* One clock cycle: flit f is offered (NoFlit: none), out is deq.ready.    *)

EnqAt(f) == IF f # NoFlit /\ EnqReady(PrioOf[f]) THEN {Lowest(FreeSlots)} ELSE {}
DeqAt(out) == IF out /\ DeqValid THEN {Lowest(DeqCandidates)} ELSE {}

\* mutant: the counter misses an arrival in the cycle of a release
CountDrop(enq, deq) == IF deq # {} THEN cnt - 1 ELSE cnt + Cardinality(enq)
Count(enq, deq) == cnt + Cardinality(enq) - Cardinality(deq)

PrioNext(f, enq, deq) ==
    [i \in Slots |-> CASE i \in enq -> {PrioOf[f]}
                       [] i \in deq \ enq -> {}
                       [] OTHER -> prio[i]]

Cycle(f, out) ==
    LET enq == EnqAt(f)
        deq == DeqAt(out)
    IN  /\ cnt' = Count(enq, deq)
        /\ valid' = [i \in Slots |-> (valid[i] /\ i \notin deq) \/ i \in enq]
        /\ prio' = PrioNext(f, enq, deq)
        /\ buffer' = [i \in Slots |-> IF i \in enq THEN f ELSE buffer[i]]

Held == {buffer[i] : i \in {j \in Slots : valid[j]}}

\* The sender offers any flit that is not already inside, or nothing; the
\* receiver is ready or not, in any cycle.
Next == \E f \in (Flits \ Held) \cup {NoFlit}, out \in BOOLEAN : Cycle(f, out)

Spec == Init /\ [][Next]_vars

----------------------------------------------------------------------------
(* Safety *)

AtLeast(p) == {i \in Slots : \E q \in prio[i] : q >= p}

\* The assertions of FlitQueue.scala: a slot is valid exactly when it has a
\* priority, the mask is one-hot, and the counter is the number of valid
\* slots, whatever arrives and leaves in the same cycle.
SlotsConsistent ==
    /\ \A i \in Slots : valid[i] <=> prio[i] # {}
    /\ \A i \in Slots : Cardinality(prio[i]) <= 1
    /\ \A i \in Slots : valid[i] => prio[i] = {PrioOf[buffer[i]]}
    /\ cnt = Cardinality({i \in Slots : valid[i]})

\* The least urgent flits never take the slots kept for more urgent ones:
\* flits of priority p or less urgent never hold more than Depth - p slots.
Headroom == \A p \in 0 .. NumPrio : Cardinality(AtLeast(p)) <= Depth - p

\* doc/deadlock.md: "lower priority flits cannot fill up a queue and block
\* higher priority flits from passing through". When the queue refuses a
\* flit of priority p, it holds a flit at least as urgent.
BlockedOnlyByPeers ==
    \A p \in Prios : ~EnqReady(p) => \E i \in Slots : \E q \in prio[i] : q <= p

----------------------------------------------------------------------------
(* Refinement and liveness *)

\* The slots, masks and counter implement a plain bounded set of flits that
\* releases a most urgent member (PriorityBuffer): nothing is lost,
\* duplicated or altered, also when a slot is freed and filled in one cycle.
Buffer == INSTANCE PriorityBuffer WITH held <- Held
ImplementsBuffer == Buffer!Spec

\* A step in which a flit at least as urgent as f leaves.
Overtaken(f) == \E g \in Held \ Held' : PrioOf[g] <= PrioOf[f]

\* A flit that stays for ever is overtaken again and again by flits at least
\* as urgent: less urgent traffic alone cannot hold it back. (The queue does
\* not keep the order of flits of one priority, so it promises no more.)
NoInversion ==
    \A f \in Flits : <>[](f \in Held) => []<><<Overtaken(f)>>_vars

=============================================================================
