------------------------------ MODULE CosimMemIf ------------------------------
(***************************************************************************)
(* The memory interface of the cycle simulator (MemIf and the request side *)
(* of DRAMIf, sim/src/soft_mem.h) in lockstep with the hardware's.  The    *)
(* hardware computes with the flags of all MSHRs at once; the simulator    *)
(* chooses its slots first and then commits them one after the other, so   *)
(* that the order of its commits must not show.                            *)
(***************************************************************************)
EXTENDS MemIf

\* The flit of a request. Its lines have the addresses 0, 1, ...; source 0
\* is no PU.
KindOf(r) == IF r \in Scatters THEN "scatter" ELSE IF r \in Scalars THEN "load" ELSE "bulk"
FlitOf ==
    [r \in Requests |->
        [kind |-> KindOf(r), src |-> Port[r] + 1, id |-> r, addr |-> 0, size |-> 1,
         count |-> Lines[r], gate |-> 0, data |-> 0]]
BeatsOf(line) == {}

S == INSTANCE SoftMem WITH
    NoFlit <- None, PrioOf <- Prio, Packet <- FlitOf, BeatPUs <- BeatsOf,
    MshrCount <- Inflight, BroadcastBound <- BcstBound, ClusterSize <- 1,
    LineWidth <- 1, MaxIdle <- 0

VARIABLE soft       \* the fields table, bulk and reqArb of a DRAMIf

cosimVars == <<vars, soft>>

CosimInit ==
    /\ Init
    /\ soft = [table |-> S!NewTable(Inflight), bulk |-> S!NewBulk,
               reqArb |-> S!ArbStart(NumPorts)]

\* The request at the arbiter and the port it is accepted from.
SoftPort ==
    S!NocAcceptMultiple(soft.reqArb, nocIn,
                        {f \in Requests : S!NocCanAccept(soft.table, soft.bulk, S!ResetIdle, f)})

\* The part of DRAMIf::step that concerns requests. What the memory and the
\* receivers take is up to them, in the same way as for the hardware.
SoftCycle(issue, answer, ucst, bcst) ==
    LET port == SoftPort
        flit == {nocIn[p] : p \in port}
        taken(leaves, slot) == IF leaves = {} THEN {} ELSE slot
        dealloc == taken(ucst, S!ReturnSlot(soft.table, FALSE))
        eject == taken(bcst, S!ReturnSlot(soft.table, TRUE))
        req == taken(issue, S!ReqSlot(soft.table))
        resp == {[id |-> s, data |-> S!Fill(0)] : s \in answer}
    IN  soft' = [table |-> S!TableStep(soft.table, soft.bulk, flit, dealloc, req, resp, eject),
                 bulk |-> S!BulkStep(soft.table, soft.bulk, flit, eject),
                 reqArb |-> S!NocAcceptCommit(NumPorts, soft.reqArb, port)]

Both(arrive, issue, answer, ucst, bcst) ==
    Cycle(arrive, issue, answer, ucst, bcst) /\ SoftCycle(issue, answer, ucst, bcst)

CosimNext ==
    \E arrive \in Arrivals, issue \in Taken(Issue), ucst \in Taken(Ucst), bcst \in Taken(Bcst) :
        \E answer \in OneOf(Asked \cup issue) : Both(arrive, issue, answer, ucst, bcst)

CosimSpec == CosimInit /\ [][CosimNext]_cosimVars /\ Fairness

\* After every cycle the MSHRs, their flags, the bulk queue, the counters and
\* the position of every round robin are the same; so both take the same
\* request, and choose the same MSHR to issue, to answer and to broadcast.
MshrsAgree ==
    /\ soft.table.allocated = Allocated
    /\ soft.table.issued = issued \cap Allocated
    /\ soft.table.fulfilled = fulfilled \cap Allocated
    /\ \A s \in Allocated :
           /\ <<soft.table.mshrs[s].id, soft.table.mshrs[s].addr>> = mshrs[s]
           /\ S!IsBroadcast(soft.table, s) <=> IsScatter(mshrs[s])
    /\ S!ReqSlot(soft.table) = Issue
    /\ S!ReturnSlot(soft.table, FALSE) = Ucst /\ S!ReturnSlot(soft.table, TRUE) = Bcst
BulkAgrees ==
    /\ S!QItems(soft.bulk.queue) = bulkQueue
    /\ soft.bulk.count = bulkCnt /\ soft.bulk.inflight = bcstInflight
PortAgrees == SoftPort = {p \in Granted : nocIn[p] \in Accepted}
MemIfsAgree == MshrsAgree /\ BulkAgrees /\ PortAgrees

=============================================================================
