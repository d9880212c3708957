------------------------------ MODULE SimSystem ------------------------------
(***************************************************************************)
(* The frontend of the cycle simulator (System, sim/src/system.cpp) with   *)
(* the two kinds of memory interface of its soft backend (sim/src/         *)
(* soft_mem.h): one memory controller and the peripheral interface.        *)
(*                                                                         *)
(* A cycle has the phases of System::run: peek the interfaces' requests,   *)
(* tick the memory and serve, stage and step.  The mesh is reduced to the  *)
(* request it presents to each interface; what the threads of the backend  *)
(* do in a step is in SoftBackend.  The other backend of a cosimulation    *)
(* and Ramulator are external: the one presents the same requests or not,  *)
(* the other accepts requests and completes them in any order.             *)
(***************************************************************************)
EXTENDS SoftMem, SequencesExt

CONSTANTS
    Bootrom, RandomWord(_, _), ConfigOf,    \* see SimDevices
    Interface,      \* the interface each flit is sent to: "dram" or "periph"
    Domain,         \* PUs of the memory controller, [first, end]
    PeriphInflight, \* MSHRs of the peripheral interface
    RespDepth,      \* RESP_QUEUE_DEPTH
    ReleaseResetAfter,
    Seed,
    CycleCap,       \* where the model stops counting the cycles of an unlimited run
    CommandLines    \* command lines to start with

Unlimited == -1

\* The interfaces have MSHRs, and the model counts every cycle of a run that
\* keeps a profile or statistics of the timer's window.
Built == MshrCount \in Nat \ {0} /\ PeriphInflight \in Nat \ {0} /\ ReleaseResetAfter \in Nat
Limited == \A o \in CommandLines : o.profile \/ o.timerOnly => o.limit # Unlimited

ASSUME SimAssumption == Built /\ Limited

Devices == INSTANCE SimDevices

\* The lines of the configuration ROM, that the peripheral interface has too.
Rom == [line \in {a \in Devices!ConfigBase .. Devices!ConfigBase + Devices!ConfigSize - 1 :
                     Aligned(a) = a} |->
           [i \in 1 .. LineWidth |-> Devices!At(ConfigOf, line - Devices!ConfigBase + i - 1)]]

VARIABLES
    opts,       \* the command line, and the requests its program sends
    pc,         \* phase of the cycle
    cycle,
    exiting,
    device,     \* PeripheralDevice
    image,      \* McImage of the controller
    periphResps, respQueue,     \* responses waiting in the frontend
    inRam,      \* requests inside Ramulator
    timed,      \* TimedMemoryStats, statistics of the workload timer's window
    busIn,      \* what the frontend gives each interface in this cycle
    dram, periph, ring,         \* the interfaces and the response ring
    mesh,       \* the request the mesh presents to each interface
    unsent,     \* requests not yet sent
    profile     \* the backend's NoC profile

frontend == <<device, image, periphResps, respQueue, inRam, timed, busIn>>
backend == <<dram, periph, ring, mesh, unsent>>
vars == <<opts, pc, cycle, exiting, frontend, backend, profile>>

----------------------------------------------------------------------------
(* main *)

\* Command lines that main starts a simulation for. Options that are not
\* given are {}.
Accepts(o) ==
    /\ o.soft \/ o.hard
    /\ o.images = o.mc
    /\ o.freq > 0
    /\ o.profile => o.soft
    /\ o.start \cup o.stop # {} => o.profile
    /\ o.stop # {} => o.start # {}
    /\ \A a \in o.start, b \in o.stop : a <= b
    /\ o.ramulatorStats \/ o.timerOnly => o.ramulator
    /\ o.traceStart > 0 => o.trace

NoBus == [reqAccepting |-> FALSE, resp |-> {}]

NoTimed ==
    [active |-> FALSE, started |-> FALSE, captured |-> FALSE, start |-> 0, stop |-> 0,
     requests |-> 0, rejected |-> 0, completions |-> 0, outstanding |-> 0, samples |-> 0,
     stopped |-> FALSE, written |-> FALSE]

NoProfile ==
    [active |-> FALSE, written |-> FALSE, start |-> 0, stop |-> 0, samples |-> 0,
     base |-> 0, net |-> 0, events |-> 0]

Init ==
    /\ opts \in {o \in CommandLines : Accepts(o)}
    /\ pc = "loop" /\ cycle = 0 /\ exiting = FALSE
    /\ device = Devices!NewDevice(Seed)
    /\ image = [a \in {} |-> 0]
    /\ periphResps = <<>> /\ respQueue = <<>> /\ inRam = {}
    /\ timed = NoTimed
    /\ busIn = [periph |-> NoBus, dram |-> NoBus]
    /\ dram = NewDram(Domain[1], Domain[2])
    /\ periph = NewPeriph(PeriphInflight)
    /\ ring = NewRing(2)
    /\ mesh = [dram |-> NoFlit, periph |-> NoFlit]
    /\ unsent = opts.flits
    /\ profile = NoProfile

----------------------------------------------------------------------------
(* The backend's profile (the soft backend only has one with --noc-profile) *)

StartProfile(p, at) ==
    IF ~opts.profile \/ p.active \/ p.written THEN p
    ELSE [NoProfile EXCEPT !.active = TRUE, !.start = at]

StopProfile(p, at) ==
    IF p.active THEN [p EXCEPT !.active = FALSE, !.stop = at, !.written = TRUE] ELSE p

\* mutant: as if the timer counted in the cycle of the write
TimerStartNow(p, at) == IF opts.start # {} THEN p ELSE StartProfile(p, at)
\* timerStatsStart: it counts from the cycle after it.
TimerStart(p, at) == IF opts.start # {} THEN p ELSE StartProfile(p, at + 1)

\* The memory part of accumulateNocProfile, reduced to the requests that the
\* memory owes an answer for: their number is sampled before the edge, and
\* the events are those of the edge before. base is the number in the first
\* sample, net what the events of the later ones add to it.
Accumulate(p) ==
    IF ~p.active \/ cycle < p.start THEN p
    ELSE IF p.samples = 0
    THEN [p EXCEPT !.samples = 1, !.base = IssuedUnfulfilled(dram.table)]
    ELSE [p EXCEPT !.samples = @ + 1, !.net = @ + p.events]

\* The end of accumulateStats: a window given on the command line.
ManualWindow(p) ==
    LET started == IF \E a \in opts.start : cycle >= a THEN StartProfile(p, cycle) ELSE p
        sampled == Accumulate(started)
    IN  IF \E b \in opts.stop : cycle >= b THEN StopProfile(sampled, cycle) ELSE sampled

----------------------------------------------------------------------------
(* System::run *)

\* After the loop: a result, a timeout or an interrupt. An interval of the
\* timer that is open is reported up to this cycle, by both kinds of
\* statistics.
End ==
    /\ pc' = "done"
    /\ profile' = StopProfile(profile, cycle)
    /\ timed' = IF opts.timerOnly /\ ~timed.written /\ timed.started
                THEN [timed EXCEPT !.stop = cycle, !.written = TRUE]
                ELSE [timed EXCEPT !.written = @ \/ (opts.ramulator /\ ~opts.timerOnly)]

\* The condition of the loop, and peekAndCompare. Another backend may present
\* something else: that ends the run.
InReset == cycle <= ReleaseResetAfter
Loop ==
    /\ pc = "loop"
    /\ IF device.result = {} /\ cycle # opts.limit /\ ~exiting
       THEN /\ pc' = "serve"
            /\ cycle' = IF opts.limit = Unlimited /\ cycle = CycleCap THEN cycle ELSE cycle + 1
            /\ \E mismatch \in {FALSE, opts.soft /\ opts.hard} : exiting' = mismatch
            /\ UNCHANGED <<timed, profile>>
       ELSE /\ End
            /\ UNCHANGED <<cycle, exiting>>
    /\ UNCHANGED <<opts, device, image, periphResps, respQueue, inRam, busIn, backend>>

\* The requests that the interfaces present.
PeriphReq == IF InReset THEN {} ELSE PeriphPeekMem(periph, Rom)
DramReq == IF InReset THEN {} ELSE PeekMem(dram)

\* Callbacks of Ramulator, in the order of q.
Completed(t, q) ==
    LET mine == {i \in DOMAIN q : q[i].timed /\ t.active}
    IN  [t EXCEPT !.completions = @ + Cardinality(mine), !.outstanding = @ - Cardinality(mine)]

Sampled(t) == [t EXCEPT !.samples = IF t.active THEN @ + 1 ELSE @]

BeginTimed(t) ==
    IF ~opts.timerOnly \/ t.started THEN t
    ELSE [NoTimed EXCEPT !.active = TRUE, !.started = TRUE, !.start = cycle]

\* timer_stopped_this_cycle is set for the backends, with Ramulator or not.
FinishTimed(t) ==
    LET flagged == [t EXCEPT !.stopped = TRUE]
    IN  IF ~opts.timerOnly \/ ~t.active THEN flagged
        ELSE [flagged EXCEPT !.stop = cycle, !.active = FALSE, !.captured = TRUE, !.written = TRUE]

Submitted(t, accepted) ==
    IF ~t.active THEN t
    ELSE IF accepted THEN [t EXCEPT !.requests = @ + 1, !.outstanding = @ + 1]
    ELSE [t EXCEPT !.rejected = @ + 1]

Oldest(q) == IF q = <<>> THEN {} ELSE {Head(q)}
Rest(q) == IF q = <<>> THEN <<>> ELSE Tail(q)

\* tickMemory and buildBusInAndServe. done: what Ramulator completes, in this
\* order; accepts: whether it takes the request of the controller.
ServeWith(done, accepts) ==
    LET queue == respQueue \o [i \in DOMAIN done |-> done[i].resp]
        ticked == Devices!Tick(device)
        pAccepting == Len(periphResps) < RespDepth
        dAccepting == IF opts.ramulator THEN accepts ELSE Len(queue) < RespDepth
        served == {Devices!ServePeriph(ticked, r) : r \in {x \in PeriphReq : pAccepting}}
        after == IF served = {} THEN ticked ELSE The(served).device
        starts == ~device.timerEnabled /\ after.timerEnabled
        stops == device.timerEnabled /\ ~after.timerEnabled
        taken == {r \in DramReq : dAccepting}
        access(r) == Devices!Prepare(image, r)
        counted == Sampled(Completed(timed, done))
        begun == IF starts THEN BeginTimed(counted) ELSE counted
        submitted == IF opts.ramulator /\ DramReq # {} THEN Submitted(begun, accepts) ELSE begun
    IN  /\ device' = after
        /\ image' = IF taken = {} THEN image
                    ELSE Devices!CommitWrite(image, The(taken), access(The(taken)))
        /\ periphResps' = Rest(periphResps) \o SetToSeq({s.resp : s \in served})
        /\ respQueue' = Rest(queue) \o (IF opts.ramulator THEN <<>>
                                        ELSE SetToSeq({access(r).resp : r \in taken}))
        /\ inRam' = (inRam \ Range(done)) \cup
                    (IF opts.ramulator
                     THEN {[resp |-> access(r).resp, timed |-> begun.active] : r \in taken}
                     ELSE {})
        /\ timed' = IF stops THEN FinishTimed(submitted) ELSE submitted
        /\ profile' = IF starts THEN TimerStart(profile, cycle) ELSE profile
        /\ busIn' = [periph |-> [reqAccepting |-> pAccepting, resp |-> Oldest(periphResps)],
                     dram |-> [reqAccepting |-> dAccepting, resp |-> Oldest(queue)]]

\* Ramulator completes any of the requests it holds, and may refuse one.
Serve ==
    /\ pc = "serve"
    /\ ~exiting
    /\ \E done \in UNION {SetToSeqs(S) : S \in SUBSET inRam},
          accepts \in {TRUE, ~(opts.ramulator /\ DramReq # {})} : ServeWith(done, accepts)
    /\ pc' = "step"
    /\ UNCHANGED <<opts, cycle, exiting, backend>>

\* An interrupt or a mismatch: the cycle is given up.
GiveUp ==
    /\ pc = "serve"
    /\ exiting
    /\ End
    /\ UNCHANGED <<opts, cycle, exiting, device, image, periphResps, respQueue, inRam, busIn,
                   backend>>

\* SIGINT, at any time.
Interrupt ==
    /\ opts.interrupt
    /\ ~exiting /\ pc # "done"
    /\ exiting' = TRUE
    /\ UNCHANGED <<opts, pc, cycle, frontend, backend, profile>>

----------------------------------------------------------------------------
(* stage and step of the backend *)

\* stageMemifWork: what comes from the ring, and the request each interface
\* accepts.
RingAccept == {i \in {1} : \E r \in PeekAt(ring, i) : RingIsLocal(dram, r)}
DramPort ==
    NocAcceptMultiple(dram.reqArb, (0 :> mesh.dram),
                      {f \in {mesh.dram} \ {NoFlit} : DramCanAccept(dram, f)})
PeriphTaken == {f \in {mesh.periph} \ {NoFlit} : PeriphCanAccept(periph, f)}
DramTaken == {mesh.dram : p \in DramPort}

RingIntf(i) == [ingress |-> PeekAt(ring, i), canInject |-> RingCanInject(ring, i, RingAccept)]

\* The cores take every broadcast line that is presented to them.
Masks == [d \in DOMAIN dram.bcst.queues |->
             Presented(dram.bcst, d, Lowest(dram.domain) + d * ClusterSize)]

\* What the mesh may present next at an interface whose place is free.
Offers(at, taken) ==
    IF mesh[at] # NoFlit /\ taken = {} THEN {mesh[at]}
    ELSE {NoFlit} \cup (IF InReset THEN {} ELSE {f \in unsent : Interface[f] = at})

\* sent: the interfaces whose reply (peekNoc) the mesh takes.
StepWith(sent, toDram, toPeriph) ==
    LET p == PeriphStep(periph, RingIntf(0).canInject, busIn.periph, PeriphTaken,
                        "periph" \in sent, Rom)
        d == DramStep(dram, RingIntf(1), busIn.dram, DramPort, DramTaken, Masks, "dram" \in sent)
        e == CycleEvents(dram, RingIntf(1), busIn.dram)
        reset(u) == IF InReset THEN [u EXCEPT !.idle = ResetIdle] ELSE u
        injected == {<<0, r>> : r \in p.injected} \cup {<<1, r>> : r \in d.injected}
        sampled == [ManualWindow(profile) EXCEPT !.events =
                       Cardinality({x \in DramReq : e.externalRequestAccepted})
                       - Cardinality(busIn.dram.resp)]
    IN  /\ periph' = reset(p.next)
        /\ dram' = reset(d.next)
        /\ ring' = Progress(UpdateValid(ring, injected, RingAccept))
        /\ mesh' = [dram |-> toDram, periph |-> toPeriph]
        /\ unsent' = unsent \ {toDram, toPeriph}
        /\ profile' = IF timed.stopped THEN StopProfile(sampled, cycle) ELSE sampled

Replies == {i \in {"dram"} : dram.idle.ret # {}} \cup {i \in {"periph"} : periph.idle.ret # {}}

Step ==
    /\ pc = "step"
    /\ \E sent \in SUBSET Replies, toDram \in Offers("dram", DramTaken),
          toPeriph \in Offers("periph", PeriphTaken) : StepWith(sent, toDram, toPeriph)
    /\ timed' = [timed EXCEPT !.stopped = FALSE]
    /\ pc' = "loop"
    /\ UNCHANGED <<opts, cycle, exiting, device, image, periphResps, respQueue, inRam, busIn>>

Run == Loop \/ Serve \/ GiveUp \/ Step
Next == Run \/ Interrupt

\* Fairness: the program runs; the mesh takes every reply; Ramulator takes
\* and completes every request.
Stopped == pc = "done"
Fairness ==
    /\ []<>Stopped \/ []<><<pc' # pc>>_vars
    /\ []<>(Stopped \/ dram.idle.ret = {}) /\ []<>(Stopped \/ periph.idle.ret = {})
    /\ []<>(Stopped \/ DramReq = {} \/ busIn.dram.reqAccepting)
    /\ \A s \in 0 .. MshrCount - 1 : []<>(Stopped \/ \A r \in inRam : r.resp.id # s)

Spec == Init /\ [][Next]_vars /\ Fairness

----------------------------------------------------------------------------
(* Properties *)

Flits == UNION {o.flits : o \in CommandLines}

\* The null pointer is neither a request nor a reply of the notifier, whose
\* counter stops at a number.
Notifying ==
    MaxIdle \in Nat /\ NoFlit \notin Flits /\ \A f \in Flits, ok \in BOOLEAN : NoFlit # <<f, ok>>
ASSUME NotifierAssumption == Notifying

Issuing(bus, req) == IF pc = "step" /\ bus.reqAccepting THEN {r.id : r \in req} ELSE {}
Owes(t, issuing) == ((t.allocated \cap t.issued) \ t.fulfilled) \cup issuing
Ids(responses) == [i \in DOMAIN responses |-> responses[i].id]
Once(q, S) == Range(q) = S /\ Len(q) = Cardinality(S)
Given(bus) == IF pc = "step" THEN SetToSeq(bus.resp) ELSE <<>>

\* The assertions of mshrRespAccept, which the build leaves out: the frontend
\* and Ramulator hold exactly one answer for each MSHR that is issued, or in
\* the cycle of its issue, and none for another; so every answer finds its
\* MSHR, and no answer is lost, duplicated or left over for a later use.
AnswersOwed ==
    /\ Once(Ids(Given(busIn.periph) \o periphResps), Owes(periph.table, Issuing(busIn.periph, PeriphReq)))
    /\ Once(Ids(Given(busIn.dram) \o respQueue \o SetToSeq({r.resp : r \in inRam})),
            Owes(dram.table, Issuing(busIn.dram, DramReq)))

\* The accesses of the requests to the controller: one, or one per line.
Accesses ==
    UNION {{<<f, n>> : n \in 0 .. (IF IsScalar(f) THEN 0 ELSE Packet[f].count - 1)} :
           f \in {g \in Flits : Interface[g] = "dram" /\ (IsScalar(g) \/ Packet[g].kind = "bulk")}}
AccessAddr == [a \in Accesses |-> Packet[a[1]].addr + a[2] * LineWidth]
AccessSize == [a \in Accesses |-> IF IsScalar(a[1]) THEN Packet[a[1]].size ELSE LineWidth]
AccessWrite == [a \in Accesses |-> Packet[a[1]].kind = "store"]
AccessData == [a \in Accesses |-> Packet[a[1]].data]

Slots(S) == {s \in S : ~IsBroadcast(dram.table, s)}
Access(s) == <<dram.table.mshrs[s].id, dram.table.mshrs[s].carried>>
Queued ==
    LET q == QItems(dram.bulk.queue)
    IN  UNION {{<<q[i], n>> : n \in (IF i = 1 THEN dram.bulk.count ELSE 0) .. Packet[q[i]].count - 1} :
               i \in {j \in DOMAIN q : Packet[q[j]].kind = "bulk"}}
Waiting ==
    Queued \cup {Access(s) : s \in Slots((dram.table.allocated \ dram.table.issued)
                                         \ Issuing(busIn.dram, DramReq))}
Responses == Range(Given(busIn.dram)) \cup Range(respQueue) \cup {r.resp : r \in inRam}
Ready ==
    {<<Access(r.id), r.data>> : r \in {x \in Responses : ~IsBroadcast(dram.table, x.id)}}
    \cup {<<Access(s), dram.table.mshrs[s].rwdata>> : s \in Slots(dram.table.fulfilled)}
Arrived ==
    {<<<<r.tag, r.ident>>, r.data>> : r \in {x \in UNION {dram.pipes[d] : d \in DOMAIN dram.pipes} :
                                             Interface[x.tag] = "dram"}}

\* With flat memory and with Ramulator, whatever it delays or refuses, each
\* access takes effect once, and the core that asked gets the line as it was
\* then. (In the code the data moves when the request is accepted, and the
\* answer carries a copy through queues and MSHRs for as long as it takes.)
Memory == INSTANCE AtomicMemory WITH
    AddrOf <- AccessAddr, SizeOf <- AccessSize, WriteOf <- AccessWrite, DataOf <- AccessData,
    store <- image, waiting <- Waiting, ready <- Ready, arrived <- Arrived
ImplementsMemory == Memory!Spec

\* The simulator's idle notifier is the hardware's (IdleNotifier), among all
\* the traffic of the interface, and so keeps its promises.
OrNone(option) == IF option = {} THEN NoFlit ELSE The(option)
Idle == dram.table.allocated = {} /\ QEmpty(dram.bulk.queue) /\ QEmpty(dram.bcst.egress)
Notifier == INSTANCE IdleNotifier WITH
    Requests <- {f \in Flits : IsIdle(f)},
    Registers <- {f \in Flits : Packet[f].kind = "register"},
    Gate <- [f \in Flits |-> Packet[f].gate], MaxCycles <- MaxIdle, None <- NoFlit,
    port <- OrNone({f \in {mesh.dram} \ {NoFlit} : IsIdle(f)}), idle <- Idle,
    idleCycles <- dram.idle.cycles, notifier <- OrNone(dram.idle.notifier),
    idleReturn <- OrNone(dram.idle.ret)
ImplementsNotifier == Notifier!Spec /\ Notifier!ImplementsService /\ Notifier!NeverFires

\* The three clocks of a workload agree. While the timer is on for the first
\* time, and in the cycle that switches it off, its count is the number of
\* cycles since the write that switched it on; the memory statistics have a
\* sample for each of them; and the NoC profile's window is these cycles. A
\* window that is cut short by a result or the limit has all its samples too.
Window(p) == p.stop - p.start + 1
TimerWindow ==
    pc = "loop" =>
        /\ timed.active =>
               /\ device.timerCount = cycle - timed.start
               /\ timed.samples = device.timerCount
        /\ timed.captured =>
               /\ timed.samples = timed.stop - timed.start
               /\ timed.stop = cycle => device.timerCount = timed.samples
               /\ profile.written /\ opts.start = {} =>
                     profile.start = timed.start + 1 /\ profile.stop = timed.stop
ProfileWindow == profile.written /\ ~exiting => profile.samples = Window(profile)
\* Requests of the window are completed in it or still outstanding, and the
\* samples of the profile account for all that the memory owes.
WindowCounts ==
    /\ timed.active =>
           /\ timed.outstanding = Cardinality({r \in inRam : r.timed})
           /\ timed.requests = timed.completions + timed.outstanding
    /\ profile.active /\ profile.samples > 0 /\ pc = "loop" =>
           profile.base + profile.net + profile.events = IssuedUnfulfilled(dram.table)
WindowsAgree == TimerWindow /\ ProfileWindow /\ WindowCounts

\* Every request is answered, unless the run ends first: programs send each
\* request once, so that all of them are answered at some time.
UnderWay(f) ==
    \/ f \in {mesh.dram, mesh.periph}
    \/ \E s \in dram.table.allocated : dram.table.mshrs[s].id = f
    \/ \E s \in periph.table.allocated : periph.table.mshrs[s].id = f
    \/ f \in Range(QItems(dram.bulk.queue))
    \/ \E r \in Range(ring.buffers) \ {NoFlit} : r.tag = f
Served == []<>(Stopped \/ \A f \in Flits : ~IsIdle(f) => ~UnderWay(f))

\* A registration on an interface that stays idle is notified.
Notified == <>Stopped \/ Notifier!Notified

=============================================================================
