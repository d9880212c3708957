----------------------------- MODULE CosimScatter -----------------------------
(***************************************************************************)
(* The broadcast path of the cycle simulator (the central queue and the    *)
(* distributors of DRAMIf, sim/src/soft_mem.h) in lockstep with the        *)
(* hardware's.  The hardware's queues shift and its masks are registers;   *)
(* the simulator's queues are circular and one function feeds and drains   *)
(* them all, so that what it reads late must not be what it wrote early.   *)
(* The state machine of a core is hardware in both.                        *)
(***************************************************************************)
EXTENDS Scatter, FiniteSetsExt

CONSTANT PU     \* PU[c]: the number of core c; those of a cluster follow each other

PUs == {PU[c] : c \in Cores}
Width == Max({Cardinality({c \in Cores : Home[c] = k}) : k \in Clusters})
Number(k) == (Min({PU[c] : c \in {d \in Cores : Home[d] = k}}) - Min(PUs)) \div Width
\* A distributor has Width numbers of its own, in the order of distributors.
ASSUME PUAssumption ==
    /\ PU \in [Cores -> Nat] /\ \A c, d \in Cores : PU[c] = PU[d] => c = d
    /\ Width \in Nat \ {0} /\ Min(PUs) \in Nat
    /\ IsFiniteSet(Clusters)
    /\ {Number(k) : k \in Clusters} = 0 .. Cardinality(Clusters) - 1
    /\ \A k, m \in Clusters : Number(k) = Number(m) => k = m
    /\ \A c \in Cores : /\ Width * Number(Home[c]) <= PU[c] - Min(PUs)
                        /\ PU[c] - Min(PUs) < Width * (Number(Home[c]) + 1)

BeatsOf(l) == {PU[Addressee[l][b]] : b \in 1 .. Beats}

S == INSTANCE SoftMem WITH
    NoFlit <- None, PrioOf <- <<>>, Packet <- <<>>, BeatPUs <- BeatsOf,
    MshrCount <- 1, BroadcastBound <- 0, BulkDepth <- 1, ClusterSize <- Width,
    LineWidth <- 1, MaxIdle <- 0

VARIABLE soft       \* the broadcast fields of a DRAMIf

cosimVars == <<vars, soft>>

CosimInit == Init /\ soft = S!NewBcst(Cardinality(Clusters))

Line(l) == [line |-> l, tag |-> 0, carried |-> 0]
Lane(c) == (PU[c] - Min(PUs)) % Width

\* The PUs that are presented a line and have room for it: bcstMask. The line
\* of the MSHRs leaves only when the central queue has room.
SoftMasks ==
    [d \in DOMAIN soft.queues |->
        {Lane(c) : c \in {e \in Readies : Number(Home[e]) = d}}
            \cap S!Presented(soft, d, Min(PUs) + d * Width)]
SoftCycle(offer) ==
    LET line == IF S!QFull(soft.egress) THEN {} ELSE {Line(l) : l \in offer}
    IN  soft' = S!BcstStep(soft, Min(PUs), SoftMasks, line)

Both(offer, taken) == Cycle(offer, taken) /\ SoftCycle(offer)
Offers == {{}} \cup {{l} : l \in Lines \ UnderWay}
CosimNext ==
    \E offer \in Offers, taken \in SUBSET {c \in Cores : Avail(c) # {}} : Both(offer, taken)
CosimSpec == CosimInit /\ [][CosimNext]_cosimVars /\ Fairness

\* After every cycle each queue holds the same lines, and each mask names the
\* same receivers, of the line at the head of its queue.
DistributorsAgree ==
    MasksMatch /\
    LET lines(q) == [i \in DOMAIN S!QItems(q) |-> S!QItems(q)[i].line]
    IN  /\ lines(soft.egress) = bcstQueue
        /\ soft.distAccepted = {Number(k) : k \in bcstAccepted}
        /\ \A k \in Clusters :
               /\ lines(soft.queues[Number(k)]) = distQueue[k]
               /\ soft.puAccepted[Number(k)] = {Lane(c) : c \in distAccepted[k]}

=============================================================================
