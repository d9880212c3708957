-------------------------------- MODULE Mesh --------------------------------
(***************************************************************************)
(* The mesh of bus/Router.scala, all routers in one clock: the synchronous *)
(* system that the threads of the cycle simulator have to reproduce.  A    *)
(* router has one FlitQueue per input (links, core, memory interface) and  *)
(* one FlitArb per output.                                                 *)
(***************************************************************************)
EXTENDS Integers, FiniteSets, FlitArb

CONSTANTS
    Flits, NoFlit, PrioOf,
    SourceAt(_),    \* SourceAt(f): where f enters: [mem, idx]
    Wiring,         \* by router: forwards (router and link at the other end
                    \* of each link), memif, memif_inject, table (the output
                    \* port of each flit)
    QueueDepth

Nodes == DOMAIN Wiring

VARIABLES
    clock,          \* parity of the cycle
    wiring,         \* Wiring, for ever
    queues,         \* per router and input: flit in each slot, or NoFlit
    lastGrant,      \* per router and output
    coreOut,        \* flit each core offers
    notice,         \* flit each memory interface offers
    sent,           \* flits that have left their sender
    received        \* flits that have reached their receiver

meshVars == <<clock, wiring, queues, lastGrant, coreOut, notice, sent, received>>

Links(pu) == Cardinality(DOMAIN wiring[pu].forwards)
Peer(pu, k) == wiring[pu].forwards[k]
Locals(pu) == {x.memif : x \in wiring[pu].memif}
Injects(pu) == wiring[pu].memif_inject
Target(pu, f) == wiring[pu].table[f]
Inputs(pu) == 0 .. Links(pu) + Cardinality(Injects(pu))
Outputs(pu) == 0 .. Links(pu) + Cardinality(Locals(pu))
Memifs == UNION {{x.memif : x \in Wiring[pu].memif} : pu \in Nodes}
From(place) == {f \in Flits : SourceAt(f) = place}
Core(pu) == [mem |-> FALSE, idx |-> pu]
Interface(m) == [mem |-> TRUE, idx |-> m]

Init ==
    /\ clock = 0
    /\ wiring = Wiring
    /\ queues = [pu \in Nodes |-> [i \in Inputs(pu) |-> [s \in 0 .. QueueDepth - 1 |-> NoFlit]]]
    /\ lastGrant = [pu \in Nodes |-> [o \in Outputs(pu) |-> 0]]
    /\ coreOut = [pu \in Nodes |-> NoFlit]
    /\ notice = [m \in Memifs |-> NoFlit]
    /\ sent = {}
    /\ received = {}

----------------------------------------------------------------------------
(* Combinational logic of one router                                       *)

Filled(q) == {s \in DOMAIN q : q[s] # NoFlit}
MostUrgent(q) == {s \in Filled(q) : \A r \in Filled(q) : PrioOf[q[s]] <= PrioOf[q[r]]}
DeqSlot(pu, i) == Lowest(MostUrgent(queues[pu][i]))
DeqFlit(pu, i) == queues[pu][i][DeqSlot(pu, i)]

\* FlitQueue.enq.ready for a flit of priority p.
Ready(pu, i, p) == Cardinality(Filled(queues[pu][i])) + p < QueueDepth

\* The input that output o presents, as a set.
Presented(pu, o) ==
    LET wants == {i \in Inputs(pu) : Filled(queues[pu][i]) # {} /\ Target(pu, DeqFlit(pu, i)) = o}
    IN  Grant(lastGrant[pu][o], wants, [i \in wants |-> PrioOf[DeqFlit(pu, i)]])

OutFlit(pu, o) ==
    IF Presented(pu, o) = {} THEN NoFlit
    ELSE DeqFlit(pu, CHOOSE i \in Presented(pu, o) : TRUE)

\* The flit on the wires of an input.
Incoming(pu, i) ==
    IF i < Links(pu) THEN OutFlit(Peer(pu, i).pu, Peer(pu, i).port)
    ELSE IF i = Links(pu) THEN coreOut[pu]
    ELSE notice[CHOOSE m \in Injects(pu) : TRUE]

Enters(pu, i) == Incoming(pu, i) # NoFlit /\ Ready(pu, i, PrioOf[Incoming(pu, i)])

\* Is the flit at output o taken? ejects: cores that are ready; takes:
\* memory interfaces that take from a port, with that port's router.
Leaves(pu, o, ejects, takes) ==
    /\ Presented(pu, o) # {}
    /\ CASE o < Links(pu) -> Enters(Peer(pu, o).pu, Peer(pu, o).port)
         [] o = Links(pu) -> pu \in ejects
         [] OTHER -> pu \in takes

----------------------------------------------------------------------------
(* One clock cycle                                                         *)

Cycle(ejects, takes) ==
    LET out(pu) == {o \in Outputs(pu) : Leaves(pu, o, ejects, takes)}
        freed(pu, i) == \E o \in out(pu) : i \in Presented(pu, o)
        slot(pu, i) == Lowest(DOMAIN queues[pu][i] \ Filled(queues[pu][i]))
        entered == {Incoming(y[1], y[2]) : y \in
                       {x \in Nodes \X (0 .. 5) : /\ x[2] \in Inputs(x[1])
                                                /\ x[2] >= Links(x[1])
                                                /\ Enters(x[1], x[2])}}
        left == {OutFlit(y[1], y[2]) : y \in
                       {x \in Nodes \X (0 .. 5) : x[2] \in out(x[1]) /\ x[2] >= Links(x[1])}}
    IN  /\ clock' = 1 - clock
        /\ UNCHANGED wiring
        /\ queues' = [pu \in Nodes |-> [i \in Inputs(pu) |-> [s \in 0 .. QueueDepth - 1 |->
              IF Enters(pu, i) /\ s = slot(pu, i) THEN Incoming(pu, i)
              ELSE IF freed(pu, i) /\ s = DeqSlot(pu, i) THEN NoFlit
              ELSE queues[pu][i][s]]]]
        /\ lastGrant' = [pu \in Nodes |-> [o \in Outputs(pu) |->
              IF o \in out(pu) THEN CHOOSE i \in Presented(pu, o) : TRUE
              ELSE lastGrant[pu][o]]]
        /\ sent' = sent \cup entered
        /\ received' = received \cup left

\* A sender offers a flit until it is taken, then any other one or none.
Offers(out, from) ==
    IF out \in from /\ out \notin sent' THEN {out} ELSE (from \ sent') \cup {NoFlit}

Clock ==
    /\ clock' # clock
    /\ \E ejects \in SUBSET {pu \in Nodes : Presented(pu, Links(pu)) # {}},
          takes \in SUBSET {pu \in Nodes : Locals(pu) # {} /\ Presented(pu, Links(pu) + 1) # {}} :
           /\ \A pu, qu \in takes : Locals(pu) = Locals(qu) => pu = qu
           /\ Cycle(ejects, takes)
           /\ \A pu \in Nodes : coreOut'[pu] \in Offers(coreOut[pu], From(Core(pu)))
           /\ \A m \in Memifs : notice'[m] \in Offers(notice[m], From(Interface(m)))
           /\ DOMAIN coreOut' = Nodes
           /\ DOMAIN notice' = Memifs

Spec == Init /\ [][Clock]_meshVars

=============================================================================
