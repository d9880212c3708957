---------------------------- MODULE SoftThreads ----------------------------
(***************************************************************************)
(* What the threads of the cycle simulator owe the simulated hardware: no  *)
(* two of them touch one object at a time, each cycle is one clock of the  *)
(* synchronous mesh, and the statistics count what happened.               *)
(***************************************************************************)
EXTENDS SoftBackend

----------------------------------------------------------------------------
(* The objects that each part of a cycle reads and writes.  An object is   *)
(* <<kind, owner, index, index>>; a queue slot (a unique_ptr), its queue's *)
(* mask and its reservation are different objects.                         *)

Links(pu) == 0 .. NumFwd(pu) - 1
Slots(pu) == {<<"slot", pu, i, s>> : i \in DOMAIN routers[pu].queues, s \in 0 .. QDepth - 1}
Masks(pu) == {<<"mask", pu, i, 0>> : i \in DOMAIN routers[pu].queues}
Arbs(pu) == {<<"arb", pu, o, 0>> : o \in DOMAIN routers[pu].arbs}
Enqs(pu) == {<<"enq", pu, i, 0>> : i \in DOMAIN routers[pu].enqs}
FwdBufs(pu) == {<<"fwd", pu, k, 0>> : k \in Links(pu)}
One(kind, S) == {<<kind, x, 0, 0>> : x \in S}
Tokens(S) == {<<"token", x[1], x[2], 0>> :
                 x \in {y \in S \X (0 .. NumPU) : y[2] \in DOMAIN memifs[y[1]].tokens}}
Marks(S, phase) == {<<phase, t, 0, 0>> : t \in S}      \* workProfileTimes

\* What peekToken reads in a router.
Queues(pu) == Slots(pu) \cup Masks(pu)
SlotOf(pu, token) == {<<"slot", pu, x.input, x.slot>> : x \in token}
EnqSlot(pu, i) == {<<"slot", pu, i, s>> : s \in routers[pu].enqs[i]}
Domain(m) == (m - 1) * (NumPU \div NumMC) + 1 .. m * (NumPU \div NumMC)

\* The profiler: each thread writes its own slot, the leader reads all of
\* them behind the barrier.
ProfileReads(t) ==
    IF t # 0 THEN {}
    ELSE CASE pc[t] = "resolve" -> Marks(Threads, "StageStart") \cup Marks(Threads, "StepTimes")
           [] pc[t] = "stats" -> Marks(Threads, "StageDone") \cup Marks(Threads, "StageTimes")
           [] pc[t] = "post" -> Marks(Threads, "StepStart")
           [] pc[t] = "ring" -> Marks(Threads, "StepDone")
           [] OTHER -> {}

ProfileWrites(t) ==
    CASE pc[t] \in {"resolve", "drive"} -> Marks({t}, "StageTimes")
      [] pc[t] = "memif" -> Marks({t}, "StageTimes") \cup Marks({t}, "StageDone")
      [] pc[t] = "step" -> Marks({t}, "StepDone")
      [] pc[t] \in {"prepare", "cleanup"} -> Marks({t}, "StepTimes")
      [] OTHER -> {}

Reads(t) ==
    LET mine == Owned(t)
        from == UNION {{Fwd(pu, k).pu : k \in Links(pu)} : pu \in mine}
        own == ThreadMemifs(t)
        ports == {pu \in PU : \E mp \in links[pu].memif : mp.memif \in own}
        inject == {m \in Memif : \E pu \in mine : m \in links[pu].memif_inject}
        taken == UNION {Tokens({m}) : m \in own}
    IN  ProfileReads(t) \cup
        CASE pc[t] = "resolve" ->
               One("core", mine) \cup One("idle", inject)
                   \cup UNION {Queues(pu) \cup Arbs(pu) : pu \in mine \cup from}
          [] pc[t] = "drive" ->
               One("eject", mine) \cup One("inject", mine) \cup One("coreMem", mine)
                   \cup UNION {SlotOf(pu, buf[pu].eject) : pu \in mine}
          [] pc[t] = "memif" ->
               One("memif", own) \cup One("ringSlot", own) \cup One("ring", {0})
                   \cup UNION {Queues(pu) \cup Arbs(pu) : pu \in ports}
          [] pc[t] = "stats" ->
               (UNION {Queues(pu) \cup FwdBufs(pu) : pu \in PU}) \cup One("core", PU)
                   \cup One("inject", PU) \cup One("eject", PU) \cup One("ejectOk", PU)
                   \cup One("accept", Memif) \cup One("memif", Memif) \cup One("ring", {0})
          [] pc[t] = "post" ->
               One("inject", mine) \cup One("reset", {0}) \cup UNION {Enqs(pu) : pu \in mine}
          [] pc[t] = "transfer" ->
               One("eject", mine) \cup One("ejectOk", mine)
                   \cup UNION {FwdBufs(pu) \cup Enqs(pu) : pu \in mine}
          [] pc[t] = "step" ->
               One("accept", own) \cup taken \cup One("ring", {0}) \cup One("ringAccept", own)
                   \cup One("ext", own) \cup One("bcst", Threads)
                   \cup One("inject", {PortPU(m, 0) : m \in own})
          [] pc[t] = "ring" ->
               One("injected", Memif) \cup One("ringAccept", Memif)
          [] pc[t] = "prepare" ->
               One("memif", {m \in Memif \ {0} : Domain(m) \cap mine # {}})
          [] pc[t] = "cleanup" ->
               One("eject", mine) \cup One("ejectOk", mine) \cup (UNION {Enqs(pu) : pu \in mine})
                   \cup (UNION {FwdBufs(pu) : pu \in mine \cup from})
                   \cup UNION {One("accept", {mp.memif : mp \in links[pu].memif})
                               \cup Tokens({mp.memif : mp \in links[pu].memif}) : pu \in mine}
          [] pc[t] = "peek" -> One("memif", Memif)
          [] OTHER -> {}

Writes(t) ==
    LET mine == Owned(t)
        own == ThreadMemifs(t)
        moved(pu) == UNION {IF buf[pu].fwdOk[k]
                            THEN SlotOf(Fwd(pu, k).pu, buf[pu].fwd[k]) \cup EnqSlot(pu, k)
                            ELSE {} : k \in Links(pu)}
        ejected(pu) == IF buf[pu].ejectOk THEN SlotOf(pu, buf[pu].eject) ELSE {}
        taken(m) == UNION {SlotOf(PortPU(m, p), memifs[m].tokens[p]) : p \in memifs[m].accept}
    IN  ProfileWrites(t) \cup
        CASE pc[t] = "resolve" ->
               One("inject", mine) \cup One("eject", mine)
                   \cup UNION {FwdBufs(pu) \cup Enqs(pu) : pu \in mine}
          [] pc[t] = "drive" ->
               One("core", mine) \cup One("ejectOk", mine) \cup One("bcst", {t})
          [] pc[t] = "memif" ->
               One("accept", own) \cup One("ringAccept", own) \cup Tokens(own)
          [] pc[t] = "stats" -> One("reset", {0})
          [] pc[t] = "post" ->
               One("core", mine)
                   \cup (UNION {EnqSlot(pu, NumFwd(pu)) : pu \in {x \in mine : buf[x].injectOk}})
                   \cup UNION {EnqSlot(pu, NumFwd(pu) + 1) : pu \in {x \in mine : buf[x].noticeOk}}
          [] pc[t] = "transfer" -> UNION {moved(pu) \cup ejected(pu) : pu \in mine}
          [] pc[t] = "step" ->
               One("memif", own) \cup One("idle", own) \cup One("ringSlot", own)
                   \cup One("injected", own) \cup UNION {taken(m) : m \in own}
          [] pc[t] = "ring" -> One("idle", Memif) \cup One("ring", {0}) \cup One("ringSlot", Memif)
          [] pc[t] = "prepare" -> One("coreMem", mine)
          [] pc[t] = "cleanup" -> UNION {Masks(pu) \cup Arbs(pu) \cup Enqs(pu) : pu \in mine}
          [] pc[t] = "peek" -> One("ext", Memif)
          [] OTHER -> {}

\* No object is written by one thread while another one reads or writes it:
\* the parts that the barriers let overlap are disjoint, down to the slots
\* of a queue that two owners move flits out of and into.
NoDataRace ==
    \A t, u \in Threads : t # u => Writes(t) \cap (Reads(u) \cup Writes(u)) = {}

----------------------------------------------------------------------------
(* Barriers                                                                *)

\* The interval between two barriers that a part belongs to.
Interval(part) ==
    CASE part \in {"resolve", "drive", "memif"} -> 1
      [] part = "stats" -> 2
      [] part \in {"post", "transfer", "step"} -> 3
      [] part \in {"ring", "prepare", "cleanup", "peek"} -> 4

Working == {t \in Threads : pc[t] \notin Barriers}

\* No thread passes a barrier that another one has not reached: threads at
\* work are in one interval and, before the last one, in one cycle by their
\* own counters (which decide what each of them samples).
InStep ==
    \A t, u \in Working :
        /\ Interval(pc[t]) = Interval(pc[u])
        /\ Interval(pc[t]) < 4 => ahead[t] = ahead[u]

----------------------------------------------------------------------------
(* Statistics and topology                                                 *)

\* Hops of a flit from its sender to its receiver: interfaces inject for
\* nothing, the core's link, the mesh's links and the last one count.
Distance(f) ==
    LET end(e) == IF e.mem THEN topo.memif_req_at[e.idx][1] ELSE e.idx
    IN  (IF SrcOf[f].mem THEN 1 ELSE 2) + MeshDist(topo, end(SrcOf[f]), end(DstOf[f]))
TotalDistance[S \in SUBSET Flits] ==
    IF S = {} THEN 0 ELSE LET f == CHOOSE f \in S : TRUE IN Distance(f) + TotalDistance[S \ {f}]

Boundary == \A t \in Threads : pc[t] \in {"peek", "stageStart"}

\* What the leader adds up from the decisions of a cycle, while nothing has
\* moved, is what has moved at its end: every flit that left a core counts as
\* one injection, one that reached memory as one request, those between as
\* messages in flight, which agree with what the profile samples; what the
\* profile calls blocked is blocked by other flits; and a flit makes as many
\* hops as its path has links.
StatsExact ==
    Boundary =>
        /\ stats.injections = Count({f \in sent : ~SrcOf[f].mem})
        /\ stats.memRequests = Count({f \in received : DstOf[f].mem})
        /\ InFlight = Count(sent \ received)
        /\ InFlight = sample.router_flits + sample.injections_accepted + sample.noticed
                      - sample.ejected - sample.memif_arrivals
        /\ sample.injections_presented + sample.links_presented
               > sample.injections_accepted + sample.links_accepted => sample.router_flits > 0
        /\ sent = received => stats.hops = TotalDistance[received]

\* In every configuration that the constructor accepts, the Hilbert numbering
\* makes neighbours in number neighbours in the mesh; each router's own choice of a port (for memory, of
\* the nearest one) brings flits to their destination by a shortest path;
\* links come in pairs; and every PU belongs to exactly one thread.
Constructed == pc[0] = "peek" /\ inReset = ReleaseResetAfter
TopologySound == Constructed => \A c \in Configurations : Sound(c)

----------------------------------------------------------------------------
(* Refinement                                                              *)

SourceAt0(f) == SrcOf[f]
Wiring0 == [pu \in PU |-> LinkStatus(pu)]

\* lastGrant of the hardware is the input before the simulator's next one.
Hardware == INSTANCE Mesh WITH
    SourceAt <- SourceAt0, Wiring <- Wiring0, QueueDepth <- QDepth,
    clock <- mesh.clock, wiring <- links,
    queues <- mesh.queues,
    lastGrant <- [pu \in PU |-> [o \in DOMAIN mesh.arbs[pu] |->
                     (mesh.arbs[pu][o] - 1) % Cardinality(DOMAIN mesh.queues[pu])]],
    coreOut <- mesh.out, notice <- mesh.notice,
    sent <- mesh.sent, received <- mesh.received

\* Whatever the order in which the threads run, what they leave behind after
\* each cycle is what one clock of the routers of Router.scala makes of what
\* they left after the cycle before.
ImplementsMesh == Hardware!Spec

=============================================================================
