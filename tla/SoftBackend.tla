---------------------------- MODULE SoftBackend ----------------------------
(***************************************************************************)
(* The threads of the cycle simulator: sim/src/soft_backend.cpp.  Thread 0 *)
(* is the leader (System::run calls peek, stage and step), the others run  *)
(* worker().  Each owns a range of PUs with their routers, and some memory *)
(* interfaces.  Four spin barriers divide a cycle:                         *)
(*                                                                         *)
(*   stageStart - resolve, drive, memif - stageDone - (leader: stats)      *)
(*   - stepStart - post, transfer, step - stepDone - (leader: ring)        *)
(*   - prepare, cleanup -, and for the leader the frontend's peek.         *)
(*                                                                         *)
(* One action is one such part of one thread, or one atomic operation of a *)
(* barrier.  Cores (Verilator models) and memory interfaces (SoftMem) are  *)
(* reduced to the flits they offer and take.                               *)
(***************************************************************************)
EXTENDS SoftTopology, SoftComponents

CONSTANTS
    Configurations,     \* other topologies to look at
    Flits,
    SrcOf, DstOf,       \* ends of a flit: [mem |-> BOOLEAN, idx |-> number]
    NumPU, NumMC, ClusterSize,
    NumThreads,
    QDepth,             \* ROUTER_Q_DEPTH
    ReleaseResetAfter   \* last cycle in which the cores are held in reset

Config == [numPU |-> NumPU, numMC |-> NumMC, clusterSize |-> ClusterSize]
topo == Topology(Config)
PU == PUs(Config)
Memif == Memifs(Config)
Threads == 0 .. NumThreads - 1

ASSUME BackendAssumption ==
    /\ NumPU \in Nat \ {0} /\ NumMC \in Nat \ {0} /\ QDepth \in Nat \ {0}
    /\ \A c \in Configurations \cup {Config} : IsTopology(c)
    /\ NumThreads \in 1 .. NumPU
    /\ SrcOf \in [Flits -> [mem : BOOLEAN, idx : Nat]]
    /\ DstOf \in [Flits -> [mem : BOOLEAN, idx : Nat]]
    /\ PrioOf \in [Flits -> Nat]
    /\ NoFlit \notin Flits

\* The constructor throws when two interfaces want one PU and buildRouter
\* when a link has no way back (TopologySound checks that neither happens).
ASSUME WiringAssumption == LinksPair(topo)

Owned(t) == PuWorkRange(NumPU, NumThreads, t)

\* memif_owner and thread_memifs: an interface belongs to the thread of the
\* first PU of its domain.
MemifOwner(m) ==
    PuOwner(NumPU, NumThreads, IF m = 0 THEN 1 ELSE 1 + (m - 1) * (NumPU \div NumMC))
ThreadMemifs(t) == {m \in Memif : MemifOwner(m) = t}

VARIABLES
    links,      \* per PU: LinkStatus and routing table, fixed at construction
    routers,    \* per PU, see SoftComponents
    buf,        \* LinkDecisionBuffer of each PU
    memifs,     \* per interface: ejection tokens, accepted port, NoC flit
    cores,      \* per PU: the flit it offers, or NoFlit
    sent,       \* flits that have left their sender
    received,   \* flits that have reached their receiver
    inReset,    \* cycles of reset left
    stats,      \* total_hops, total_injections, total_mem_requests
    sample,     \* what accumulateNocProfile saw in this cycle
    barriers,   \* remaining and generation (modulo 2) of the four barriers
    pc,         \* per thread: its next part, or the barrier it is at
    at,         \* per thread: where in the barrier
    gen,        \* per thread: the generation it waits for
    ahead,      \* per thread: its cycle counter minus the leader's
    mesh        \* history: the routers as of the last complete cycle

system == <<routers, buf, memifs, cores, sent, received, inReset, stats, sample>>
vars == <<links, system, barriers, pc, at, gen, ahead, mesh>>

NumFwd(pu) == Cardinality(DOMAIN links[pu].forwards)
Fwd(pu, k) == links[pu].forwards[k]
Table(pu) == links[pu].table
PortPU(m, p) == CHOOSE pu \in PU : [memif |-> m, port |-> p] \in links[pu].memif

\* buildRouter: links to the neighbours, interface, routing table.
LinkStatus(pu) ==
    [forwards |-> [k \in 0 .. NumForwards(topo, pu) - 1 |-> Forward(topo, pu, k)],
     memif |-> topo.pu_memif[pu],
     memif_inject |-> topo.pu_memif_inject[pu],
     table |-> [f \in Flits |-> Route(topo, pu, DstOf[f])]]

Barriers == {"stageStart", "stageDone", "stepStart", "stepDone"}

NoDecision(pu) ==
    [inject |-> {}, injectOk |-> FALSE, eject |-> {}, ejectOk |-> FALSE,
     notice |-> {}, noticeOk |-> FALSE,
     fwd |-> [k \in 0 .. NumForwards(topo, pu) - 1 |-> {}],
     fwdOk |-> [k \in 0 .. NumForwards(topo, pu) - 1 |-> FALSE]]

\* The state of the mesh that other cycles can see.
Snapshot ==
    [clock |-> 1 - mesh.clock,
     queues |-> [pu \in PU |-> [i \in DOMAIN routers[pu].queues |->
                    routers'[pu].queues[i].buffer]],
     arbs |-> [pu \in PU |-> routers'[pu].arbs],
     out |-> [pu \in PU |-> cores[pu]],
     notice |-> [m \in Memif |-> memifs[m].notice],
     sent |-> sent, received |-> received]

Init ==
    /\ links = [pu \in PU |-> LinkStatus(pu)]
    /\ routers = [pu \in PU |-> NewRouter(NumInputs(topo, pu), NumOutputs(topo, pu), QDepth)]
    /\ buf = [pu \in PU |-> NoDecision(pu)]
    /\ memifs = [m \in Memif |->
                    [tokens |-> [p \in 0 .. Len(topo.memif_req_at[m]) - 1 |-> {}],
                     accept |-> {}, notice |-> NoFlit]]
    /\ cores = [pu \in PU |-> NoFlit]
    /\ sent = {} /\ received = {}
    /\ inReset = ReleaseResetAfter
    /\ stats = [hops |-> 0, injections |-> 0, memRequests |-> 0]
    /\ sample = [router_flits |-> 0, full_input_queues |-> 0,
                 injections_presented |-> 0, injections_accepted |-> 0,
                 links_presented |-> 0, links_accepted |-> 0,
                 memif_arrivals |-> 0, noticed |-> 0, ejected |-> 0]
    /\ barriers = [b \in Barriers |-> [remaining |-> NumThreads, generation |-> 0]]
    /\ pc = [t \in Threads |-> IF t = 0 THEN "peek" ELSE "stageStart"]
    /\ at = [t \in Threads |-> "arrive"]
    /\ gen = [t \in Threads |-> 0]
    /\ ahead = [t \in Threads |-> IF t = 0 THEN 0 ELSE 1]
    /\ mesh = [clock |-> 0,
               queues |-> [pu \in PU |-> [i \in 0 .. NumInputs(topo, pu) - 1 |->
                              [s \in 0 .. QDepth - 1 |-> NoFlit]]],
               arbs |-> [pu \in PU |-> [o \in 0 .. NumOutputs(topo, pu) - 1 |->
                            ArbStart(NumInputs(topo, pu))]],
               out |-> [pu \in PU |-> NoFlit],
               notice |-> [m \in Memif |-> NoFlit],
               sent |-> {}, received |-> {}]

Goto(t, next) == pc' = [pc EXCEPT ![t] = next]

----------------------------------------------------------------------------
(* stage: decisions, from the queues as the last cycle left them           *)

Prio(f) == IF f = NoFlit THEN {} ELSE {PrioOf[f]}

\* What router pu is offered by neighbour k.
LinkToken(pu, k) ==
    LET from == Fwd(pu, k).pu
    IN  PeekToken(routers[from], Table(from), Fwd(pu, k).port)

\* The first loop of stageWorkResolve, for one router: its own decisions and
\* the slots reserved for what it will accept.
Resolved(pu) ==
    LET nf == NumFwd(pu)
        inject == Prio(cores[pu])
        notice == UNION {Prio(memifs[m].notice) : m \in links[pu].memif_inject}
        fwd == [k \in 0 .. nf - 1 |-> LinkToken(pu, k)]
        offered(i) == IF i < nf THEN {x.prio : x \in fwd[i]}
                      ELSE IF i = nf THEN inject ELSE notice
        rt == [routers[pu] EXCEPT !.enqs =
                  [i \in DOMAIN @ |-> PrepareEnq(routers[pu], i, offered(i)).enqs[i]]]
    IN  [rt |-> rt,
         buf |-> [inject |-> inject, injectOk |-> rt.enqs[nf] # {},
                  notice |-> UNION {{memifs[m].notice} : m \in {x \in links[pu].memif_inject :
                                                      memifs[x].notice # NoFlit}},
                  noticeOk |-> nf + 1 \in DOMAIN rt.enqs /\ rt.enqs[nf + 1] # {},
                  fwd |-> fwd, fwdOk |-> [k \in 0 .. nf - 1 |-> rt.enqs[k] # {}],
                  eject |-> PeekToken(routers[pu], Table(pu), nf),
                  ejectOk |-> buf[pu].ejectOk]]

Resolve(t) ==
    /\ pc[t] = "resolve"
    /\ LET resolved == [pu \in Owned(t) |-> Resolved(pu)]
       IN  /\ routers' = [pu \in PU |-> IF pu \in Owned(t) THEN resolved[pu].rt ELSE routers[pu]]
           /\ buf' = [pu \in PU |-> IF pu \in Owned(t) THEN resolved[pu].buf ELSE buf[pu]]
    /\ Goto(t, "drive")
    /\ UNCHANGED <<memifs, cores, sent, received, inReset, stats, sample>>

\* Drive the cores, evaluate the falling edge, capture what they accept. A
\* core in reset accepts nothing.
Drive(t) ==
    /\ pc[t] = "drive"
    /\ \E ready \in SUBSET {pu \in Owned(t) : buf[pu].eject # {} /\ inReset = 0} :
         buf' = [pu \in PU |-> IF pu \in Owned(t) THEN [buf[pu] EXCEPT !.ejectOk = pu \in ready]
                               ELSE buf[pu]]
    /\ Goto(t, "memif")
    /\ UNCHANGED <<routers, memifs, cores, sent, received, inReset, stats, sample>>

\* stageMemifWork: the token at each request port, and the port accepted
\* (which of them, and whether, is decided in SoftMem).
StageMemif(t) ==
    /\ pc[t] = "memif"
    /\ LET tokens == [m \in Memif |-> [p \in DOMAIN memifs[m].tokens |->
                         PeekToken(routers[PortPU(m, p)], Table(PortPU(m, p)),
                                   NumFwd(PortPU(m, p)) + 1)]]
           ready == {x \in ThreadMemifs(t) \X (0 .. NumPU) :
                        x[2] \in DOMAIN tokens[x[1]] /\ tokens[x[1]][x[2]] # {}}
       IN  \E accept \in SUBSET ready :
             /\ \A x, y \in accept : x[1] = y[1] => x = y
             /\ memifs' = [m \in Memif |->
                   IF m \in ThreadMemifs(t)
                   THEN [memifs[m] EXCEPT !.tokens = tokens[m],
                                          !.accept = {x[2] : x \in {y \in accept : y[1] = m}}]
                   ELSE memifs[m]]
    /\ Goto(t, "stageDone")
    /\ UNCHANGED <<routers, buf, cores, sent, received, inReset, stats, sample>>

----------------------------------------------------------------------------
(* step: the leader's statistics, the transfers, the commit                *)

Count(S) == Cardinality(S)
LinksOf(P(_, _)) == {x \in PU \X (0 .. 3) : x[2] < NumFwd(x[1]) /\ P(x[1], x[2])}

\* accumulateStats: hops of all kinds, counted at the destination of a link.
EjectedOffered == {pu \in PU : buf[pu].eject # {}}     \* mutant: what is presented counts
Ejected == {pu \in PU : buf[pu].eject # {} /\ buf[pu].ejectOk}
Hops ==
    LET taken(pu, k) == buf[pu].fwd[k] # {} /\ buf[pu].fwdOk[k]
    IN  Count({pu \in PU : buf[pu].inject # {} /\ buf[pu].injectOk})
        + Count(Ejected)
        + Count(LinksOf(taken))
        + Count({m \in Memif : memifs[m].accept # {}})

InFlight ==
    LET upTo[pu \in 0 .. NumPU] == IF pu = 0 THEN 0 ELSE upTo[pu - 1] + TotalFlits(routers[pu])
    IN  upTo[NumPU]

\* The router part of accumulateNocProfile, for one cycle; then two counts
\* that no profile has: flits that enter from an interface or go to a core.
RouterSample ==
    LET presented(pu, k) == buf[pu].fwd[k] # {}
        accepted(pu, k) == presented(pu, k) /\ buf[pu].fwdOk[k]
    IN  [router_flits |-> InFlight,
         full_input_queues |->
             Count(UNION {{<<pu, i>> : i \in {j \in DOMAIN routers[pu].queues :
                               QueueSize(routers[pu].queues[j]) = QDepth}} : pu \in PU}),
         injections_presented |-> Count({pu \in PU : buf[pu].inject # {}}),
         injections_accepted |-> Count({pu \in PU : buf[pu].inject # {} /\ buf[pu].injectOk}),
         links_presented |-> Count(LinksOf(presented)),
         links_accepted |-> Count(LinksOf(accepted)),
         memif_arrivals |-> Count({m \in Memif : memifs[m].accept # {}}),
         noticed |-> Count({pu \in PU : buf[pu].notice # {} /\ buf[pu].noticeOk}),
         ejected |-> Count(Ejected)]

\* accumulateStats and accumulateNocProfile; step then tells the workers
\* whether this edge ends the reset.
Stats(t) ==
    /\ pc[t] = "stats"
    /\ stats' = [hops |-> stats.hops + Hops,
                 injections |-> stats.injections
                     + Count({pu \in PU : buf[pu].inject # {} /\ buf[pu].injectOk}),
                 memRequests |-> stats.memRequests + Count({m \in Memif : memifs[m].accept # {}})]
    /\ sample' = RouterSample
    /\ Goto(t, "stepStart")
    /\ UNCHANGED <<routers, buf, memifs, cores, sent, received, inReset>>

\* What the senders at S may offer after an edge: each that is free any flit
\* of its own that has not left yet, or none; nothing while in reset.
Offers(S, gone) ==
    LET unsent == {f \in Flits \ gone : inReset = 0 /\ SrcOf[f] \in S}
    IN  {new \in SUBSET unsent : \A f, g \in new : SrcOf[f] = SrcOf[g] => f = g}

Offered(new, place) ==
    LET own == {f \in new : SrcOf[f] = place}
    IN  IF own = {} THEN NoFlit ELSE The(own)

Core(pu) == [mem |-> FALSE, idx |-> pu]
Interface(m) == [mem |-> TRUE, idx |-> m]

\* stepWork, first loop: accepted flits of cores and interfaces are placed,
\* then the cores take the rising edge.
Post(t) ==
    /\ pc[t] = "post"
    /\ LET nf(pu) == NumFwd(pu)
           free == {pu \in Owned(t) : cores[pu] = NoFlit \/ buf[pu].injectOk}
           injected == {cores[pu] : pu \in {p \in Owned(t) : buf[p].injectOk}}
           noticed == UNION {buf[pu].notice : pu \in {p \in Owned(t) : buf[p].noticeOk}}
           withCore(pu) == IF buf[pu].injectOk THEN PlaceFlit(routers[pu], nf(pu), cores[pu])
                           ELSE routers[pu]
       IN  /\ routers' = [pu \in PU |->
                 IF pu \notin Owned(t) THEN routers[pu]
                 ELSE IF buf[pu].noticeOk
                 THEN PlaceFlit(withCore(pu), nf(pu) + 1, The(buf[pu].notice))
                 ELSE withCore(pu)]
           /\ sent' = sent \cup injected \cup noticed
           /\ \E new \in Offers({Core(pu) : pu \in free}, sent \cup injected) :
                cores' = [pu \in PU |-> IF pu \in free THEN Offered(new, Core(pu)) ELSE cores[pu]]
    /\ Goto(t, "transfer")
    /\ UNCHANGED <<buf, memifs, received, inReset, stats, sample>>

\* stepWork, second loop: each router fetches the flits it accepted from its
\* neighbours' slots; a flit taken by a core leaves the mesh.
Transfer(t) ==
    /\ pc[t] = "transfer"
    /\ LET moves == {x \in Owned(t) \X (0 .. 3) : x[2] < NumFwd(x[1]) /\ buf[x[1]].fwdOk[x[2]]}
           ejects == {pu \in Owned(t) : buf[pu].ejectOk}
           flit(x) == PeekFlit(routers[Fwd(x[1], x[2]).pu], The(buf[x[1]].fwd[x[2]]))
           arrived(pu, i, s) == {x \in moves : x = <<pu, i>> /\ s \in routers[pu].enqs[i]}
           gone(pu, i, s) ==
               \/ \E x \in moves : /\ Fwd(x[1], x[2]).pu = pu
                                   /\ The(buf[x[1]].fwd[x[2]]).input = i
                                   /\ The(buf[x[1]].fwd[x[2]]).slot = s
               \/ pu \in ejects /\ The(buf[pu].eject).input = i /\ The(buf[pu].eject).slot = s
           now(pu, i, s) == IF arrived(pu, i, s) # {}
                            THEN flit(CHOOSE x \in arrived(pu, i, s) : TRUE)
                            ELSE IF gone(pu, i, s) THEN NoFlit
                            ELSE routers[pu].queues[i].buffer[s]
           queue(pu, i) == [routers[pu].queues[i] EXCEPT !.buffer =
                               [s \in 0 .. QDepth - 1 |-> now(pu, i, s)]]
       IN  /\ routers' = [pu \in PU |-> [routers[pu] EXCEPT !.queues =
                 [i \in DOMAIN routers[pu].queues |-> queue(pu, i)]]]
           /\ received' = received \cup
                 {PeekFlit(routers[pu], The(buf[pu].eject)) : pu \in ejects}
    /\ Goto(t, "step")
    /\ UNCHANGED <<buf, memifs, cores, sent, inReset, stats, sample>>

\* stepPeriphWork and stepMemifWork: each interface takes the flit it
\* accepted, and the flit it offered is gone if the router accepted it.
StepMemif(t) ==
    /\ pc[t] = "step"
    /\ LET taking == {m \in ThreadMemifs(t) : memifs[m].accept # {}}
           port(m) == PortPU(m, The(memifs[m].accept))
           token(m) == The(memifs[m].tokens[The(memifs[m].accept)])
           free == {m \in ThreadMemifs(t) : memifs[m].notice = NoFlit \/ buf[PortPU(m, 0)].noticeOk}
           gone == {memifs[m].notice : m \in free}
       IN  /\ routers' = [pu \in PU |->
                 LET here == {m \in taking : port(m) = pu}
                 IN  IF here = {} THEN routers[pu] ELSE TakeFlit(routers[pu], token(The(here)))]
           /\ received' = received \cup {PeekFlit(routers[port(m)], token(m)) : m \in taking}
           /\ \E new \in Offers({Interface(m) : m \in free}, sent \cup gone) :
                memifs' = [m \in Memif |->
                    IF m \in free THEN [memifs[m] EXCEPT !.notice = Offered(new, Interface(m))]
                    ELSE memifs[m]]
    /\ Goto(t, "stepDone")
    /\ UNCHANGED <<buf, cores, sent, inReset, stats, sample>>

\* The leader alone: idle registers held in reset, the response ring moves.
Ring(t) ==
    /\ pc[t] = "ring"
    /\ inReset' = IF inReset > 0 THEN inReset - 1 ELSE 0
    /\ Goto(t, "prepare")
    /\ UNCHANGED <<routers, buf, memifs, cores, sent, received, stats, sample>>

\* prepareNextCoreMem: responses for the cores, see SoftMem.
Prepare(t) ==
    /\ pc[t] = "prepare"
    /\ Goto(t, "cleanup")
    /\ UNCHANGED system

AcceptedPlain(pu) ==    \* mutant: the memory port is not committed
    [o \in DOMAIN routers[pu].arbs |->
        IF o < NumFwd(pu)
        THEN LET f == Fwd(pu, o) IN IF buf[f.pu].fwdOk[f.port] THEN buf[f.pu].fwd[f.port] ELSE {}
        ELSE IF o = NumFwd(pu) /\ buf[pu].ejectOk THEN buf[pu].eject ELSE {}]

\* The tokens taken from a router, read where the decision was made.
Accepted(pu) ==
    [o \in DOMAIN routers[pu].arbs |->
        IF o < NumFwd(pu)
        THEN LET f == Fwd(pu, o) IN IF buf[f.pu].fwdOk[f.port] THEN buf[f.pu].fwd[f.port] ELSE {}
        ELSE IF o = NumFwd(pu) THEN IF buf[pu].ejectOk THEN buf[pu].eject ELSE {}
        ELSE LET mp == The(links[pu].memif)
             IN  IF memifs[mp.memif].accept = {mp.port} THEN memifs[mp.memif].tokens[mp.port]
                 ELSE {}]

\* stepCleanup: the masks and arbiters of the thread's routers are committed.
\* A worker then counts the next cycle.
Cleanup(t) ==
    /\ pc[t] = "cleanup"
    /\ routers' = [pu \in PU |-> IF pu \in Owned(t) THEN RouterStep(routers[pu], Accepted(pu))
                                 ELSE routers[pu]]
    /\ Goto(t, IF t = 0 THEN "peek" ELSE "stageStart")
    /\ UNCHANGED <<buf, memifs, cores, sent, received, inReset, stats, sample>>

\* The leader counts the cycle, and the frontend reads the interfaces and
\* prepares the inputs.
Peek(t) ==
    /\ pc[t] = "peek"
    /\ Goto(t, "stageStart")
    /\ UNCHANGED system

\* The counters of the threads, relative to the leader's.
CountCycle(t) ==
    ahead' = CASE pc[t] = "cleanup" /\ t # 0 -> [ahead EXCEPT ![t] = @ + 1]
               [] pc[t] = "peek" -> [u \in Threads |-> IF u = 0 THEN 0 ELSE ahead[u] - 1]
               [] OTHER -> ahead

\* The cycle is complete when the last thread has committed.
Record(t) ==
    mesh' = IF pc[t] = "cleanup" /\ \A u \in Threads \ {t} : pc[u] \in {"peek", "stageStart"}
            THEN Snapshot ELSE mesh

Work(t) ==
    /\ \/ Resolve(t) \/ Drive(t) \/ StageMemif(t) \/ Stats(t) \/ Post(t)
       \/ Transfer(t) \/ StepMemif(t) \/ Ring(t) \/ Prepare(t) \/ Cleanup(t) \/ Peek(t)
    /\ CountCycle(t)
    /\ Record(t)
    /\ UNCHANGED <<barriers, at, gen>>

----------------------------------------------------------------------------
(* SpinBarrier::arrive_and_wait (util.h)                                   *)

AfterEager(t, b) == \* mutant: workers do not wait for the leader's statistics
    CASE b = "stageStart" -> "resolve"
      [] b = "stageDone" -> IF t = 0 THEN "stats" ELSE "post"
      [] b = "stepStart" -> "post"
      [] b = "stepDone" -> IF t = 0 THEN "ring" ELSE "prepare"

\* What a thread does behind a barrier.
After(t, b) ==
    CASE b = "stageStart" -> "resolve"
      [] b = "stageDone" -> IF t = 0 THEN "stats" ELSE "stepStart"
      [] b = "stepStart" -> "post"
      [] b = "stepDone" -> IF t = 0 THEN "ring" ELSE "prepare"

\* Load the generation and count down. (Nobody can change the generation
\* between the two: that takes the arrival of this thread.)
Arrive(t, b) ==
    /\ pc[t] = b
    /\ at[t] = "arrive"
    /\ gen' = [gen EXCEPT ![t] = barriers[b].generation]
    /\ barriers' = [barriers EXCEPT ![b].remaining = @ - 1]
    /\ at' = [at EXCEPT ![t] = IF barriers[b].remaining = 1 THEN "reset" ELSE "spin"]
    /\ UNCHANGED <<system, pc, ahead, mesh>>

\* The last to arrive sets the count again, and only then the others free.
Reset(t, b) ==
    /\ pc[t] = b
    /\ at[t] = "reset"
    /\ barriers' = [barriers EXCEPT ![b].remaining = NumThreads]
    /\ at' = [at EXCEPT ![t] = "release"]
    /\ UNCHANGED <<system, pc, gen, ahead, mesh>>

Leave(t, b) ==
    /\ at' = [at EXCEPT ![t] = "arrive"]
    /\ Goto(t, After(t, b))
    /\ UNCHANGED <<system, gen, ahead, mesh>>

Release(t, b) ==
    /\ pc[t] = b
    /\ at[t] = "release"
    /\ barriers' = [barriers EXCEPT ![b].generation = (gen[t] + 1) % 2]
    /\ Leave(t, b)

Spin(t, b) ==
    /\ pc[t] = b
    /\ at[t] = "spin"
    /\ barriers[b].generation # gen[t]
    /\ UNCHANGED barriers
    /\ Leave(t, b)

Wait(t) == \E b \in Barriers : Arrive(t, b) \/ Reset(t, b) \/ Release(t, b) \/ Spin(t, b)

Thread(t) == (Work(t) \/ Wait(t)) /\ UNCHANGED links
Next == \E t \in Threads : Thread(t)

\* The host runs every thread.
Spec == Init /\ [][Next]_vars /\ \A t \in Threads : WF_vars(Thread(t))

=============================================================================
