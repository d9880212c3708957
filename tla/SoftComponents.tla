--------------------------- MODULE SoftComponents ---------------------------
(***************************************************************************)
(* The building blocks of the cycle simulator, sim/src/soft_components.h:  *)
(* the fixed-length queue, the flit arbiter, the priority flit queue and   *)
(* the router, as operators on records.  An "optional" of the code is a    *)
(* set with at most one member.  A moved-from unique_ptr is NoFlit.        *)
(***************************************************************************)
EXTENDS Integers, FiniteSets, Sequences, Encoders

CONSTANTS
    NoFlit,     \* the null pointer
    PrioOf      \* priority of each flit: the top two bits of its tag

The(option) == CHOOSE x \in option : TRUE

----------------------------------------------------------------------------
(* FixedLenQueue: a ring of capacity cells; equal pointers are empty or    *)
(* full, as maybeFull says.  Cells outside the queue hold NoFlit here, in  *)
(* the code what was last written to them.                                 *)

FixedLenQueue(capacity) ==
    [head |-> 0, tail |-> 0, maybeFull |-> FALSE,
     data |-> [i \in 0 .. capacity - 1 |-> NoFlit]]

Capacity(q) == Cardinality(DOMAIN q.data)
QEmpty(q) == q.head = q.tail /\ ~q.maybeFull
QFull(q) == q.head = q.tail /\ q.maybeFull
QFront(q) == IF QEmpty(q) THEN {} ELSE {q.data[q.head]}

Advance(q, i) == IF i + 1 = Capacity(q) THEN 0 ELSE i + 1

QPop(q) ==
    IF QEmpty(q) THEN [q EXCEPT !.maybeFull = FALSE]
    ELSE [q EXCEPT !.head = Advance(q, @), !.data[q.head] = NoFlit,
                   !.maybeFull = FALSE]

QPush(q, x) ==
    IF QFull(q) THEN q
    ELSE [q EXCEPT !.data[q.tail] = x, !.tail = Advance(q, @),
                   !.maybeFull = TRUE]

QSize(q) ==
    IF q.head = q.tail THEN IF q.maybeFull THEN Capacity(q) ELSE 0
    ELSE IF q.tail > q.head THEN q.tail - q.head
    ELSE Capacity(q) - q.head + q.tail

\* The members, oldest first.
QItems(q) == [k \in 1 .. QSize(q) |-> q.data[(q.head + k - 1) % Capacity(q)]]

----------------------------------------------------------------------------
(* FlitArb: the search starts at nextGrant and keeps the first of the most *)
(* urgent inputs; prio is defined on the inputs that present something.    *)

ArbStart(n) == IF n > 1 THEN 1 ELSE 0

ArbPeek(n, nextGrant, prio) ==
    LET turn(i) == (i - nextGrant) % n
        better(i, j) == \/ prio[i] < prio[j]
                        \/ prio[i] = prio[j] /\ turn(i) <= turn(j)
    IN  {i \in DOMAIN prio : \A j \in DOMAIN prio : better(i, j)}

ArbCommit(n, selected) == IF selected + 1 = n THEN 0 ELSE selected + 1

----------------------------------------------------------------------------
(* FlitQueue: occupied is the bit mask of the slots in use.                *)

NewQueue(depth) == [buffer |-> [i \in 0 .. depth - 1 |-> NoFlit], occupied |-> {}]

PeekIdx(q) ==
    LET urgent(i) == \A j \in q.occupied : PrioOf[q.buffer[i]] <= PrioOf[q.buffer[j]]
    IN  IF q.occupied = {} THEN {} ELSE {Lowest({i \in q.occupied : urgent(i)})}

QueueSize(q) == Cardinality(q.occupied)

CanEnq(q, p) == Cardinality(DOMAIN q.buffer) - QueueSize(q) > p

FirstFreeSlot(q) ==
    LET free == DOMAIN q.buffer \ q.occupied
    IN  IF free = {} THEN {} ELSE {Lowest(free)}

\* take and place move the flit, commit changes the mask: between them the
\* slot is neither here nor there.
TakeFrom(q, slot) == [q EXCEPT !.buffer[slot] = NoFlit]
PlaceIn(q, slot, f) == [q EXCEPT !.buffer[slot] = f]

CommitLate(q, deq, enq) ==  \* mutant: a release hides the arrival
    [q EXCEPT !.occupied = IF deq # {} THEN @ \ deq ELSE @ \cup enq]
Commit(q, deq, enq) == [q EXCEPT !.occupied = (@ \ deq) \cup enq]

----------------------------------------------------------------------------
(* Router: queues and enqs by input port, arbs by output port.  tbl maps   *)
(* a flit to its output port (the routing table of SoftTopology).          *)

NewRouter(numInputs, numOutputs, depth) ==
    [queues |-> [i \in 0 .. numInputs - 1 |-> NewQueue(depth)],
     enqs |-> [i \in 0 .. numInputs - 1 |-> {}],
     arbs |-> [o \in 0 .. numOutputs - 1 |-> ArbStart(numInputs)]]

\* The token of an output port: the input and slot that would be moved.
PeekToken(rt, tbl, o) ==
    LET head(i) == PeekIdx(rt.queues[i])
        flit(i) == rt.queues[i].buffer[The(head(i))]
        wants == {i \in DOMAIN rt.queues : head(i) # {} /\ tbl[flit(i)] = o}
        win == ArbPeek(Cardinality(DOMAIN rt.queues), rt.arbs[o],
                       [i \in wants |-> PrioOf[flit(i)]])
    IN  {[input |-> i, slot |-> The(head(i)), prio |-> PrioOf[flit(i)]] : i \in win}

PeekFlit(rt, token) == rt.queues[token.input].buffer[token.slot]

\* prio: the priority offered to the input, {} when there is none.
PrepareEnq(rt, i, prio) ==
    [rt EXCEPT !.enqs[i] =
        IF prio # {} /\ CanEnq(rt.queues[i], The(prio))
        THEN FirstFreeSlot(rt.queues[i]) ELSE {}]

TakeFlit(rt, token) == [rt EXCEPT !.queues[token.input] = TakeFrom(@, token.slot)]
PlaceFlit(rt, i, f) == [rt EXCEPT !.queues[i] = PlaceIn(@, The(rt.enqs[i]), f)]

\* accepted: the tokens the receivers took, by output port.
RouterStep(rt, accepted) ==
    LET deqs(i) == {The(accepted[o]).slot :
                       o \in {p \in DOMAIN accepted : \E t \in accepted[p] : t.input = i}}
        n == Cardinality(DOMAIN rt.queues)
    IN  [queues |-> [i \in DOMAIN rt.queues |->
                        Commit(rt.queues[i], deqs(i), rt.enqs[i])],
         enqs |-> [i \in DOMAIN rt.enqs |-> {}],
         arbs |-> [o \in DOMAIN rt.arbs |->
                      IF accepted[o] = {} THEN rt.arbs[o]
                      ELSE ArbCommit(n, The(accepted[o]).input)]]

TotalFlits(rt) ==
    LET upTo[i \in -1 .. Cardinality(DOMAIN rt.queues) - 1] ==
            IF i = -1 THEN 0 ELSE upTo[i - 1] + QueueSize(rt.queues[i])
    IN  upTo[Cardinality(DOMAIN rt.queues) - 1]

=============================================================================
