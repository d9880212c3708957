------------------------------- MODULE SoftMem -------------------------------
(***************************************************************************)
(* The memory interfaces of the cycle simulator, sim/src/soft_mem.h, as    *)
(* operators on records: the MSHR table, bulk requests, the idle notifier, *)
(* the broadcast and unicast paths with their distributors, the response   *)
(* ring, and the step of both kinds of interface.                          *)
(*                                                                         *)
(* A flit is a name; Packet gives its fields:                              *)
(*   [kind, src, id, addr, size, count, gate, data]                        *)
(* where kind is the low byte of the tag.  Addresses count lanes, the      *)
(* unit of a write mask.  A bit mask is a set, an optional a set with at   *)
(* most one member.                                                        *)
(***************************************************************************)
EXTENDS SoftComponents

CONSTANTS
    Packet,         \* fields of each flit
    BeatPUs(_),     \* the PUs that the beats of a line of data are for
    MshrCount,      \* DRAM_MSHR_COUNT
    BroadcastBound, \* DRAM_BROADCAST_BOUND
    BulkDepth,      \* DRAM_BULK_QUEUE_DEPTH
    ClusterSize,    \* CLUSTER_SIZE
    LineWidth,      \* MEM_BUS_WIDTH_B
    MaxIdle         \* UINT16_MAX

IsScalar(f) == Packet[f].kind \in {"load", "store"}
IsBulk(f) == Packet[f].kind \in {"scatter", "bulk"}
IsIdle(f) == Packet[f].kind \in {"register", "unregister"}

----------------------------------------------------------------------------
(* MSHRs *)

Fill(value) == [lane \in 1 .. LineWidth |-> value]

FromScalarFlit(f) ==
    LET p == Packet[f]
    IN  [addr |-> p.addr, src |-> p.src, id |-> p.id, rwdata |-> Fill(p.data),
         carried |-> 0, size |-> p.size, write |-> p.kind = "store"]

\* BulkDispatcher: the request itself; the MSHR of its line number n. A
\* broadcast has source 0, which no PU has.
Dispatch(f, n) ==
    LET p == Packet[f]
        broadcast == p.kind = "scatter"
    IN  [addr |-> p.addr + n * LineWidth, src |-> IF broadcast THEN 0 ELSE p.src,
         id |-> p.id, rwdata |-> Fill(0), carried |-> IF broadcast THEN p.data ELSE n,
         size |-> LineWidth, write |-> FALSE]

NewTable(inflight) ==
    [mshrs |-> [s \in 0 .. inflight - 1 |-> NoFlit],
     allocated |-> {}, issued |-> {}, fulfilled |-> {},
     issueArb |-> ArbStart(inflight),
     unicastArb |-> ArbStart(inflight), broadcastArb |-> ArbStart(inflight)]

TableSize(t) == Cardinality(DOMAIN t.mshrs)
IsBroadcast(t, s) == t.mshrs[s].src = 0

\* The winner of an arbiter whose inputs all have the same priority.
First(t, nextGrant, S) == ArbPeek(TableSize(t), nextGrant, [s \in S |-> 0])

AllocSlot(t) ==
    LET free == DOMAIN t.mshrs \ t.allocated
    IN  IF free = {} THEN {} ELSE {Lowest(free)}

ReqSlotAgain(t) == First(t, t.issueArb, t.allocated) \* mutant: issued MSHRs too
ReqSlot(t) == First(t, t.issueArb, t.allocated \ t.issued)

ReturnSlot(t, broadcast) ==
    First(t, IF broadcast THEN t.broadcastArb ELSE t.unicastArb,
          {s \in t.allocated \cap t.fulfilled : IsBroadcast(t, s) = broadcast})

AllocCommit(t, slot, m) ==
    IF slot = {} THEN t
    ELSE [t EXCEPT !.mshrs[The(slot)] = m, !.allocated = @ \cup slot,
                   !.issued = @ \ slot, !.fulfilled = @ \ slot]

\* An MSHR that is not allocated holds NoFlit here, its last use in the code.
DeallocCommit(t, slot) ==
    [t EXCEPT !.mshrs = [s \in DOMAIN @ |-> IF s \in slot THEN NoFlit ELSE @[s]],
              !.allocated = @ \ slot, !.issued = @ \ slot, !.fulfilled = @ \ slot]

ReqCommit(t, slot) ==
    IF slot = {} THEN t
    ELSE [t EXCEPT !.issued = @ \cup slot,
                   !.issueArb = ArbCommit(TableSize(t), The(slot))]

\* resp: [id, data]. (The code asserts that the MSHR is allocated and issued.)
RespAccept(t, resp) ==
    IF resp = {} THEN t
    ELSE LET id == The(resp).id
             answered(m) == IF m = NoFlit THEN m ELSE [m EXCEPT !.rwdata = The(resp).data]
         IN  [t EXCEPT !.mshrs[id] = answered(@), !.fulfilled = @ \cup {id}]

ReturnShared(t, slot, broadcast) == \* mutant: one arbiter serves both
    IF slot = {} THEN t
    ELSE DeallocCommit([t EXCEPT !.unicastArb = ArbCommit(TableSize(t), The(slot))], slot)
ReturnCommit(t, slot, broadcast) ==
    IF slot = {} THEN t
    ELSE LET next == ArbCommit(TableSize(t), The(slot))
         IN  DeallocCommit(IF broadcast THEN [t EXCEPT !.broadcastArb = next]
                           ELSE [t EXCEPT !.unicastArb = next], slot)

MshrReq(t, s) ==
    [id |-> s, addr |-> t.mshrs[s].addr, size |-> t.mshrs[s].size,
     wdata |-> t.mshrs[s].rwdata, write |-> t.mshrs[s].write]
MshrUnicast(t, s) ==
    [tag |-> t.mshrs[s].id, dst |-> t.mshrs[s].src, ident |-> t.mshrs[s].carried,
     data |-> t.mshrs[s].rwdata]
MshrBroadcast(t, s) ==
    [line |-> t.mshrs[s].rwdata, tag |-> t.mshrs[s].id, carried |-> t.mshrs[s].carried]

----------------------------------------------------------------------------
(* The idle notifier; a reply is <<request, success>> *)

ResetIdle == [notifier |-> {}, ret |-> {}, cycles |-> 0]

ElapsedExactly(i) == i.cycles = Packet[The(i.notifier)].gate + 1 \* mutant
Elapsed(i) == i.cycles > Packet[The(i.notifier)].gate

FiresOver(i, request) == \* mutant: a request does not hold the notification back
    i.notifier # {} /\ i.ret = {} /\ Elapsed(i)
Fires(i, request) == i.notifier # {} /\ i.ret = {} /\ request = {} /\ Elapsed(i)

IdleStep(i, idleNow, flit, sent) ==
    LET request == {f \in flit : IsIdle(f)}
        registers == \E f \in request : Packet[f].kind = "register"
        fires == Fires(i, request)
        reply == IF fires THEN {<<The(i.notifier), TRUE>>}
                 ELSE IF request = {} \/ (registers /\ i.notifier = {}) THEN i.ret
                 ELSE {<<The(request), ~registers /\ i.notifier # {}>>}
    IN  [notifier |-> IF fires \/ (request # {} /\ ~registers) THEN {}
                      ELSE IF registers /\ i.notifier = {} THEN request ELSE i.notifier,
         ret |-> IF sent THEN {} ELSE reply,
         cycles |-> IF ~idleNow THEN 0 ELSE IF i.cycles = MaxIdle THEN MaxIdle ELSE i.cycles + 1]

----------------------------------------------------------------------------
(* Bulk requests: queue, lines of its head that have an MSHR, and the      *)
(* number of MSHRs that broadcasts hold                                    *)

NewBulk == [queue |-> FixedLenQueue(BulkDepth), count |-> 0, inflight |-> 0]

BroadcastBlocked(b) ==
    /\ b.inflight = BroadcastBound
    /\ \E f \in QFront(b.queue) : Packet[f].kind = "scatter"

BulkAlloc(t, b, flit) ==
    /\ AllocSlot(t) # {} /\ ~QEmpty(b.queue)
    /\ \A f \in flit : ~IsScalar(f)
    /\ ~BroadcastBlocked(b)

\* The MSHRs that broadcasts hold, when one is dispatched or leaves.
InflightNoRelease(b, broadcast, eject) ==   \* mutant: those that leave still count
    IF broadcast /\ eject = {} THEN b.inflight + 1 ELSE b.inflight
InflightNext(b, broadcast, eject) ==
    IF broadcast /\ eject = {} THEN b.inflight + 1
    ELSE IF ~broadcast /\ eject # {} THEN b.inflight - 1 ELSE b.inflight

\* eject: the slot whose broadcast leaves in this cycle.
BulkStep(t, b, flit, eject) ==
    LET alloc == BulkAlloc(t, b, flit)
        head == The(QFront(b.queue))
        done == alloc /\ b.count + 1 = Packet[head].count
        popped == IF done THEN QPop(b.queue) ELSE b.queue
        more == {f \in flit : IsBulk(f) /\ Packet[f].count # 0}
        broadcast == alloc /\ Packet[head].kind = "scatter"
    IN  [queue |-> IF more = {} THEN popped ELSE QPush(popped, The(more)),
         count |-> IF done THEN 0 ELSE IF alloc THEN b.count + 1 ELSE b.count,
         inflight |-> InflightNext(b, broadcast, eject)]

\* The table after one edge: dealloc and eject are the slots whose unicast
\* and broadcast leave, issue the one the memory accepts, resp its answer.
\* The slots were chosen before the edge.
TableStep(t, b, flit, dealloc, issue, resp, eject) ==
    LET scalar == {f \in flit : IsScalar(f)}
        returned == ReturnCommit(t, dealloc, FALSE)
        answered == RespAccept(ReqCommit(returned, issue), resp)
        ejected == ReturnCommit(answered, eject, TRUE)
    IN  IF scalar # {} THEN AllocCommit(ejected, AllocSlot(t), FromScalarFlit(The(scalar)))
        ELSE IF BulkAlloc(t, b, flit)
        THEN AllocCommit(ejected, AllocSlot(t), Dispatch(The(QFront(b.queue)), b.count))
        ELSE ejected

----------------------------------------------------------------------------
(* Requests from the mesh: the most urgent port, if it can be accepted *)

NocCanAccept(t, b, i, f) ==
    \/ IsIdle(f) /\ i.ret = {}
    \/ IsBulk(f) /\ (Packet[f].count = 0 \/ ~QFull(b.queue))
    \/ IsScalar(f) /\ AllocSlot(t) # {}

\* flits: what each port presents; acceptable: those that can be.
NocAcceptMultiple(nextGrant, flits, acceptable) ==
    LET wants == {p \in DOMAIN flits : flits[p] # NoFlit}
    IN  {p \in ArbPeek(Cardinality(DOMAIN flits), nextGrant,
                       [p \in wants |-> PrioOf[flits[p]]]) : flits[p] \in acceptable}

NocAcceptCommit(numReq, nextGrant, port) ==
    IF port = {} THEN nextGrant ELSE ArbCommit(numReq, The(port))

----------------------------------------------------------------------------
(* Broadcasts: the central queue of an interface feeds the queue of each   *)
(* distributor, which feeds the PUs its first line is for                  *)

NewBcst(clusters) ==
    [egress |-> FixedLenQueue(2), distAccepted |-> {},
     queues |-> [d \in 0 .. clusters - 1 |-> FixedLenQueue(2)],
     puAccepted |-> [d \in 0 .. clusters - 1 |-> {}]]

BcastValidsMask(bl, clusterStart) ==
    {p \in 0 .. ClusterSize - 1 : clusterStart + p \in BeatPUs(bl.line)}

\* The PUs of a distributor that its first line is presented to.
Presented(b, d, clusterStart) ==
    (UNION {BcastValidsMask(bl, clusterStart) : bl \in QFront(b.queues[d])}) \ b.puAccepted[d]

CentralPush(b) ==
    {d \in DOMAIN b.queues : ~QEmpty(b.egress) /\ d \notin b.distAccepted /\ ~QFull(b.queues[d])}

DistStepLate(b, d, clusterStart, accepted) ==   \* mutant: this cycle's acceptance is missed
    LET done == \E bl \in QFront(b.queues[d]) :
                    BcastValidsMask(bl, clusterStart) \subseteq b.puAccepted[d]
    IN  [puAccepted |-> IF done THEN {} ELSE b.puAccepted[d] \cup accepted,
         queue |-> IF done THEN QPop(b.queues[d]) ELSE b.queues[d]]
DistStep(b, d, clusterStart, accepted) ==
    LET taken == b.puAccepted[d] \cup accepted
        done == \E bl \in QFront(b.queues[d]) : BcastValidsMask(bl, clusterStart) \subseteq taken
    IN  [puAccepted |-> IF done THEN {} ELSE taken,
         queue |-> IF done THEN QPop(b.queues[d]) ELSE b.queues[d]]

\* masks: the PUs of each distributor that accept; line: the broadcast that
\* leaves the MSHRs. A queue that is full before the edge accepts nothing.
BcstStep(b, puStart, masks, line) ==
    LET push == CentralPush(b)
        pop == ~QEmpty(b.egress) /\ b.distAccepted \cup push = DOMAIN b.queues
        dist(d) == DistStep(b, d, puStart + d * ClusterSize, masks[d])
        rest == IF pop THEN QPop(b.egress) ELSE b.egress
    IN  [egress |-> IF line = {} THEN rest ELSE QPush(rest, The(line)),
         distAccepted |-> IF pop THEN {} ELSE b.distAccepted \cup push,
         queues |-> [d \in DOMAIN b.queues |->
                        IF d \in push THEN QPush(dist(d).queue, The(QFront(b.egress)))
                        ELSE dist(d).queue],
         puAccepted |-> [d \in DOMAIN b.queues |-> dist(d).puAccepted]]

----------------------------------------------------------------------------
(* Unicast responses: from the ring or the interface's own MSHRs into the  *)
(* pipe of a distributor, or onto the ring                                 *)

\* domain: the interface's PUs; ingress: the ring's response at this node;
\* own: the one its MSHRs return. The ring goes first into a distributor.
UnicastPeekBoth(domain, ingress, own) ==    \* mutant: they are not kept apart
    LET ring == {r \in ingress : r.dst \in domain}
        mshr == {r \in own : r.dst \in domain}
    IN  [ringLocal |-> ring, mshrLocal |-> mshr, mshrRemote |-> own \ mshr]
UnicastPeek(domain, ingress, own) ==
    LET ring == {r \in ingress : r.dst \in domain}
        mshr == {r \in own : r.dst \in domain}
        dist(r) == (r.dst - Lowest(domain)) \div ClusterSize
    IN  [ringLocal |-> ring,
         mshrLocal |-> {m \in mshr : \A r \in ring : dist(r) # dist(m)},
         mshrRemote |-> own \ mshr]

Pipes(domain, peek) ==
    [d \in 0 .. Cardinality(domain) \div ClusterSize - 1 |->
        {r \in peek.ringLocal \cup peek.mshrLocal :
            (r.dst - Lowest(domain)) \div ClusterSize = d}]

(* Ringbus: progress turns the numbering of the cells, not the cells. A    *)
(* cell that is not valid holds NoFlit here.                               *)

NewRing(size) == [offset |-> 0, valid |-> {}, buffers |-> [i \in 0 .. size - 1 |-> NoFlit]]
RingSize(r) == Cardinality(DOMAIN r.buffers)
Cell(r, i) == (i + r.offset) % RingSize(r)
ValidAt(r, i) == Cell(r, i) \in r.valid
PeekAt(r, i) == IF ValidAt(r, i) THEN {r.buffers[Cell(r, i)]} ELSE {}

\* Each node writes the response it injects into its cell, and the masks
\* follow: injected is a set of pairs <<node, response>>, ejected of nodes.
UpdateValid(r, injected, ejected) ==
    LET gone == {Cell(r, i) : i \in ejected}
        come == {<<Cell(r, x[1]), x[2]>> : x \in injected}
        at(c) == {x \in come : x[1] = c}
    IN  [r EXCEPT !.valid = (@ \ gone) \cup {x[1] : x \in come},
                  !.buffers = [c \in DOMAIN @ |->
                      IF at(c) # {} THEN The(at(c))[2]
                      ELSE IF c \in gone THEN NoFlit ELSE @[c]]]

\* ringCanInject: the next node's cell is free, and so is the node's own, or
\* it is taken from the ring now.
RingCanInject(r, i, ejected) ==
    /\ ~ValidAt(r, (i + 1) % RingSize(r))
    /\ ~ValidAt(r, i) \/ i \in ejected

Progress(r) == [r EXCEPT !.offset = (@ + RingSize(r) - 1) % RingSize(r)]

----------------------------------------------------------------------------
(* DRAMIf *)

NewDram(puStart, puEnd) ==
    [domain |-> puStart .. puEnd - 1, table |-> NewTable(MshrCount), idle |-> ResetIdle,
     bulk |-> NewBulk, bcst |-> NewBcst((puEnd - puStart) \div ClusterSize),
     reqArb |-> ArbStart((puEnd - puStart) \div ClusterSize),
     pipes |-> [d \in 0 .. (puEnd - puStart) \div ClusterSize - 1 |-> {}]]

RingIsLocal(u, resp) == resp.dst \in u.domain
PeekMem(u) == {MshrReq(u.table, s) : s \in ReqSlot(u.table)}
DramCanAccept(u, f) == NocCanAccept(u.table, u.bulk, u.idle, f)

\* What is presented to each PU.
PeekPUs(u) ==
    LET start == Lowest(u.domain)
        dist(pu) == (pu - start) \div ClusterSize
    IN  [pu \in u.domain |->
            [unicast |-> {r \in u.pipes[dist(pu)] : r.dst = pu},
             bcast |-> {bl \in QFront(u.bcst.queues[dist(pu)]) :
                 (pu - start) % ClusterSize \in
                     Presented(u.bcst, dist(pu), start + dist(pu) * ClusterSize)}]]

\* DRAMIf::step. ring: [ingress, canInject]; mem: [reqAccepting, resp]; flit:
\* the request accepted, by port; sent: the idle reply is accepted.
DramStep(u, ring, mem, port, flit, masks, sent) ==
    LET unicast == ReturnSlot(u.table, FALSE)
        eject == IF QFull(u.bcst.egress) THEN {} ELSE ReturnSlot(u.table, TRUE)
        peek == UnicastPeek(u.domain, ring.ingress, {MshrUnicast(u.table, s) : s \in unicast})
        injected == IF ring.canInject THEN peek.mshrRemote ELSE {}
        dealloc == IF peek.mshrLocal \cup injected = {} THEN {} ELSE unicast
        issue == IF mem.reqAccepting THEN ReqSlot(u.table) ELSE {}
        idleNow == u.table.allocated = {} /\ QEmpty(u.bulk.queue) /\ QEmpty(u.bcst.egress)
    IN  [injected |-> injected,
         next |->
            [domain |-> u.domain,
             table |-> TableStep(u.table, u.bulk, flit, dealloc, issue, mem.resp, eject),
             idle |-> IdleStep(u.idle, idleNow, flit, sent),
             bulk |-> BulkStep(u.table, u.bulk, flit, eject),
             bcst |-> BcstStep(u.bcst, Lowest(u.domain), masks,
                               {MshrBroadcast(u.table, s) : s \in eject}),
             reqArb |-> NocAcceptCommit(Cardinality(DOMAIN u.pipes), u.reqArb, port),
             pipes |-> Pipes(u.domain, peek)]]

\* What the profiler is told of an edge, and of the state.
CycleEvents(u, ring, mem) ==
    LET peek == UnicastPeek(u.domain, ring.ingress,
                            {MshrUnicast(u.table, s) : s \in ReturnSlot(u.table, FALSE)})
    IN  [externalRequestPresented |-> PeekMem(u) # {},
         externalRequestAccepted |-> mem.reqAccepting /\ PeekMem(u) # {},
         externalResponseAccepted |-> mem.resp # {},
         mshrUnicastLocalRetired |-> peek.mshrLocal # {},
         mshrUnicastRemoteInjected |-> ring.canInject /\ peek.mshrRemote # {},
         ringUnicastLocalDelivered |-> peek.ringLocal # {},
         broadcastRetired |-> ~QFull(u.bcst.egress) /\ ReturnSlot(u.table, TRUE) # {}]
IssuedUnfulfilled(t) == Cardinality((t.allocated \cap t.issued) \ t.fulfilled)

----------------------------------------------------------------------------
(* PeriphIf: no PUs of its own, and a ROM that answers by itself.  rom is  *)
(* a function on line addresses.                                           *)

NewPeriph(inflight) == [table |-> NewTable(inflight), idle |-> ResetIdle]

Aligned(addr) == addr - (addr % LineWidth)
PeriphPeekMem(u, rom) ==
    {r \in {MshrReq(u.table, s) : s \in ReqSlot(u.table)} : Aligned(r.addr) \notin DOMAIN rom}
PeriphCanAccept(u, f) ==
    \/ IsIdle(f) /\ u.idle.ret = {}
    \/ IsScalar(f) /\ AllocSlot(u.table) # {}

\* The ROM answers when the memory does not, in the cycle of the request.
RomServed(u, mem, rom) ==
    {s \in ReqSlot(u.table) : mem.resp = {} /\ Aligned(u.table.mshrs[s].addr) \in DOMAIN rom}

PeriphStep(u, canInject, mem, flit, sent, rom) ==
    LET unicast == IF canInject THEN ReturnSlot(u.table, FALSE) ELSE {}
        served == RomServed(u, mem, rom)
        issue == IF served # {} \/ (mem.reqAccepting /\ PeriphPeekMem(u, rom) # {})
                 THEN ReqSlot(u.table) ELSE {}
        resp == mem.resp \cup {[id |-> s, data |-> rom[Aligned(u.table.mshrs[s].addr)]] : s \in served}
        scalar == {f \in flit : IsScalar(f)}
        answered == ReqCommit(RespAccept(ReturnCommit(u.table, unicast, FALSE), resp), issue)
    IN  [injected |-> {MshrUnicast(u.table, s) : s \in unicast},
         next |->
            [table |-> IF scalar = {} THEN answered
                       ELSE AllocCommit(answered, AllocSlot(u.table), FromScalarFlit(The(scalar))),
             idle |-> IdleStep(u.idle, u.table.allocated = {}, flit, sent)]]

=============================================================================
