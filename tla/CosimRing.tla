------------------------------ MODULE CosimRing ------------------------------
(***************************************************************************)
(* The response ring of the cycle simulator in lockstep with the hardware. *)
(* Where the hardware has a queue of two between each pair of neighbours,  *)
(* sim/src/soft_mem.h has one cell per node and turns the numbering of the *)
(* cells; where it has a valid/ready handshake, soft_backend.cpp decides   *)
(* from the cells of two neighbours whether a node may inject.             *)
(*                                                                         *)
(* Node k of the hardware is node Succ(k) of the simulator (the peripheral *)
(* interface is number 0 there); cell i holds what the hardware's          *)
(* predecessor presents to that node.                                      *)
(***************************************************************************)
EXTENDS ResponseRing

CONSTANT PU         \* PU[c]: the PU that stands for cluster c

BeatsOf(line) == {}
S == INSTANCE SoftMem WITH
    NoFlit <- None, PrioOf <- <<>>, Packet <- <<>>, BeatPUs <- BeatsOf,
    MshrCount <- 1, BroadcastBound <- 0, BulkDepth <- 1, ClusterSize <- 1,
    LineWidth <- 1, MaxIdle <- 0

VARIABLES
    ring,       \* Ringbus
    pipes       \* unicastPipes of each DRAMIf

softVars == <<ring, pipes>>

MC == Nodes \ {Last}
Memif(k) == Succ(k)                     \* its number in the simulator
Domain(k) == {PU[c] : c \in {d \in Clusters : Zone[d] = k}}

\* The PUs of an interface are puStart .. puEnd - 1.
ASSUME PUAssumption ==
    /\ IsFiniteSet(Clusters)
    /\ PU \in [Clusters -> Nat]
    /\ \A c, d \in Clusters : PU[c] = PU[d] => c = d
    /\ \A c, d \in Clusters : Zone[c] = Zone[d] => PU[c] .. PU[d] \subseteq Domain(Zone[c])

Response(r) == [tag |-> r, dst |-> PU[Dst[r]], ident |-> 0, data |-> 0]

CosimInit ==
    /\ Init
    /\ ring = S!NewRing(Last + 1)
    /\ pipes = [k \in MC |-> [d \in 0 .. Cardinality(Domain(k)) - 1 |-> {}]]

\* stageMemifWork: a local response is always accepted, the periphery has none.
RingAccept(k) == k # Last /\ \E r \in S!PeekAt(ring, Memif(k)) : r.dst \in Domain(k)

\* The unicast parts of DRAMIf::step and PeriphIf::step, the leader's update
\* of the valid bits, and the turn of the ring.
SoftCycle(own) ==
    LET mine(k) == {Response(r) : r \in {q \in own : Src[q] = k}}
        peek(k) == S!UnicastPeek(Domain(k), S!PeekAt(ring, Memif(k)), mine(k))
        remote(k) == IF k = Last THEN mine(k) ELSE peek(k).mshrRemote
        ejected == {Memif(k) : k \in {n \in Nodes : RingAccept(n)}}
        injected == UNION {{<<Memif(k), r>> : r \in remote(k)} :
                           k \in {n \in Nodes : S!RingCanInject(ring, Memif(n), ejected)}}
    IN  /\ ring' = S!Progress(S!UpdateValid(ring, injected, ejected))
        /\ pipes' = [k \in MC |-> S!Pipes(Domain(k), peek(k))]

Both(own) == Cycle(own) /\ SoftCycle(own)
CosimNext == \E own \in Offers : Both(own)

\* The clock ticks for ever; every cycle is enabled and turns the ring.
Ticks == []<><<ring'.offset # ring.offset>>_<<vars, softVars>>
CosimSpec == CosimInit /\ [][CosimNext]_<<vars, softVars>> /\ Ticks

\* After every cycle, for the same responses offered by the interfaces, the
\* same responses are on the same stretches of the ring and on their way to
\* the same cores. (So an interface gives up the same ones in each cycle.)
RingsAgree ==
    /\ \A k \in Nodes :
           S!PeekAt(ring, Memif(Succ(k))) = {Response(r) : r \in Entries(fwd[k])}
    /\ \A k \in MC : UNION {pipes[k][d] : d \in DOMAIN pipes[k]} =
           {Response(r) : r \in {port[c] : c \in {d \in Clusters : Zone[d] = k}} \ {None}}

=============================================================================
