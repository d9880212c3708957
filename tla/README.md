# ActiveN in TLA+

ActiveN is a many-core neuromorphic processor: RISC-V cores with active
messages, a mesh of priority routers, memory controllers that scatter synapse
lists back to the cores, and a runtime in assembly that advances a spiking
network step by step.  This directory holds TLA+ models of the parts where
several actors meet, the TLC runs that check them, and TLAPS proofs.

Paths such as `exec/Exec.scala` are relative to
`src/ActiveN/src/main/scala/koneko/`.

## 1. Inventory

| Part | State | Operations | What makes it correct |
|---|---|---|---|
| Flit queue (`bus/FlitQueue.scala`) | slots, valid bits, priority masks, counter | accept, release, both in one cycle | less urgent flits leave room for more urgent ones; most urgent first; no flit lost |
| Flit arbiter, round robin (`bus/FlitArb.scala`, `Common.scala`) | last grant | choose | most urgent class, round robin in it |
| Active messages (`exec/Exec.scala`, `BIU.scala`) | idle threads, execute stage, quotas, send queue, event queues, enable masks | send, yield, fast path, push, WFI, start of a handler, CSR writes | a handler is started only where its sends fit; a thread runs or waits, never both |
| Memory interface (`bus/MemIf.scala`) | ports, MSHRs, bulk request and queue, broadcast counter | accept, split, issue, answer, eject | each line read and answered once; scatters leave MSHRs to loads |
| Idle notifier (`bus/MemIf.scala:331`) | idle counter, registration, reply buffer | register, unregister, fire, reply | one answer for each request |
| Response ring (`bus/MemIf.scala`, `System.scala`) | ring queues, distributor registers | inject, pass on, deliver | never blocks; nothing lost or misdelivered |
| Scatter path (`bus/MemIf.scala`, `bus/Distributor.scala`, `BIU.scala`) | three queues of lines, three acceptance masks | hand over, pick entries | each entry becomes one event, in order |
| Router and mesh (`bus/Router.scala`, `System.scala`) | input queues, one arbiter per output | accept, route, grant | deadlock freedom, delivery |
| Load/store unit (`exec/LSU.scala`) | request, reservations, copy progress | load, store, AMO, LR/SC, copy | AMO and LR/SC are atomic |
| Fetch and cache (`fetch/Fetch.scala`, `fetch/ICache.scala`) | PCs, held instructions, tags, refill | fetch, kill, refill, replace | one instruction each, of the right address |
| SNN runtime (`sim/payloads/sys/snn_main.S`) | counters and neuron state of each core | boot, start tree, update, drain, preparation | a step ends when its spikes are integrated; each core takes each step once |
| Simulator's uncore (`sim/src/soft_*.{h,cpp}`, `util.h`) | copies of queues, routers, interfaces and ring; decisions of a cycle; barriers of the threads; statistics | stage and step, in parts that threads run in parallel | cycle by cycle what the hardware does, no data race, exact counts |
| Simulator's front end (`sim/src/system.*`, `devices.h`) | memory images, peripheral device, answers waiting, statistics windows | peek, tick and serve, stage and step, end | each access takes effect once and is answered once; windows agree |

**Interaction.**  A core's sends and memory requests leave through one arbiter
into the mesh; messages come back through a flit queue into the event queues of
`BIU`.  Memory responses take another way: the ring for unicast ones, the
scatter path for lines of synapses, which become events too.  The runtime
learns from the idle notifier of each memory interface that a step's scatters
are done.  The simulator replaces everything outside the cores by C++: its front
end peeks the requests of the interfaces, serves them from an image or through
Ramulator, and lets the backend stage (decide from the old state) and step
(move, then commit) a cycle on several threads.

**Hard behaviour.**  Two hardware threads share the execute stage, the send
queue and the scratchpad.  Admission of a handler reads registers that others
change in the same cycle.  Every queue is bounded and every ring or mesh is a
candidate for deadlock.  Receivers of a broadcast accept it in different
cycles.  The runtime's barrier is made of messages of different priorities and
a timeout.  The simulator rewrites registers that change at once as assignments
one after the other, and divides them among threads that meet at four barriers.
`PROJECT.json` lists each hazard at its line.

## 2. Modules

One step of a hardware model is one clock cycle, and a definition is a wire or a
register update of the Chisel source; registers are the VARIABLES, ports that
the environment drives are the parameters of `Cycle`, chosen in `Next`.

| Module | Models | Abstracted |
|---|---|---|
| `Encoders` | priority encoder, round robin | |
| `FlitArb` | `FlitArb.scala`, as operators | flit contents |
| `FlitQueue` | `FlitQueue.scala`, whole | flit contents |
| `PriorityBuffer` | abstract: what a flit queue promises | slots |
| `AmSched` | scheduling and sends of a core | register values; queues are lengths |
| `MemIf` | ports, arbiter, MSHRs, bulk dispatcher, ejection | addresses, data |
| `MemoryService` | abstract: each line of each accepted request is answered once | MSHRs |
| `IdleNotifier` | idle counter, registration, reply buffer | what keeps the interface busy |
| `NotifierService` | abstract: one answer for each request | the counter |
| `ResponseRing` | ring, cluster arbiters, distributor registers | data |
| `ResponseService` | abstract: a response comes out once, at its cluster | the ring |
| `Scatter` | DRAMIf, distributor and BIU stages of a line | entries are identities |
| `ScatterService` | abstract: each core receives its entries once, in the order of lines and entries | the stages, their queues and masks |
| `SnnStep` | `sim/payloads/sys/snn_main.S`: every handler, both drain protocols | potentials, weights, checksum; a spike is an identity |
| `Mesh` | `Router.scala`: all routers in one clock | flit contents; a route is a table |
| `SoftComponents` | `sim/src/soft_components.h`: ring buffer, arbiter, flit queue, router, as operators on records | flit contents |
| `SoftTopology` | Hilbert placement, ports of the interfaces, routing tables, links | |
| `SoftMem` | `sim/src/soft_mem.h`: MSHRs, bulk requests, notifier, distributors, ring, step of both interfaces | widths of data |
| `SoftBackend` | `sim/src/soft_backend.cpp`: what each thread does between barriers, `SpinBarrier` | cores and interfaces: the flits they offer and take |
| `SoftThreads` | properties of `SoftBackend`: objects read and written by each part, statistics, refinement | |
| `SimSystem` | `System::run`, the interfaces behind it, both statistics windows | the mesh: a request at each interface; Ramulator |
| `SimDevices` | memory image, peripheral device | a lane is a value; one lane is a word |
| `AtomicMemory` | abstract: accesses take effect one at a time, each is answered with what it found | queues, MSHRs |
| `CosimFlitQueue`, `CosimRing`, `CosimMemIf`, `CosimScatter` | the simulator's version of a part in lockstep with the hardware's | |
| `MC*` | values of the constants for TLC | |
| `*_proofs` | theorems | |

`MemIf` uses `FlitArb`; `FlitQueue`, `FlitArb`, `Scatter` and `MemIf` use
`Encoders`.  `MemIf`'s unicast port is the input of `ResponseRing`, its
broadcast port the input of `Scatter`; `SnnStep` stands on all of them: messages
arrive in any order, scattered spikes after any time, and the notifier fires
when no spike of its domain is on the way; in each model the other side is an
environment that may accept in any cycle.  `SoftBackend` uses `SoftTopology` and
`SoftComponents`, `SimSystem` uses `SoftMem`, which stands on `SoftComponents`
too.  Each `Cosim*` module EXTENDS the hardware's module, adds the simulator's
state and drives both with the same inputs.  `AmSched` receives the events that
`Scatter` delivers as free arrivals.

**Correspondence.**  In `AmSched`, `s1` is the execute register, `idlings` and
`liveQuota` have the source's names, `atWFI` says that decode holds a WFI and
abstracts the rest of the program: any instruction may be next that the code's
own rules allow.  In `MemIf` an MSHR is the line it serves and two flags; the
memory answers in any order, in the cycle of the request too (the configuration
ROM does).  In `SnnStep` one step is a handler,
named by its label; `pu[p]` holds the words of the scratchpad and the registers
that handlers share, with the source's names in lower case.  The jumps between
handlers are operators (`Start`, `Update`, `Reduce`).  `window`, `fires` and the
step of a spike are there for the properties only.  Both threads of a core run
what the code enables on both: spikes and handlers 0, 2 and 3.  What a drain
handler does after its last send is a step of its own (`tail`), since the answer
to the send may come back meanwhile, and so is the store that adds a spike
(`adding`), since the other thread may close the core meanwhile.  `overtaken`
records that a thread went ahead of the other in one of the three ways that the
code leaves to timing (section 4).  In the simulator's modules a C++ object is a record with its
member names, a bit mask a set, an optional a set of at most one member, and a
const method or a step an operator from the old record to a value or the new
record.  In `SoftBackend` an action is the part of one thread between two
barriers that touches one kind of object (the source's phases and substeps), or
one atomic operation of a barrier; `mesh` records what each complete cycle left,
and is what refines `Mesh`.  In `SimSystem` an action is a phase of
`System::run`; the command line is chosen in `Init` among those that `main`
accepts.  In `ResponseRing` the injection test is the code's `count === 0`,
stricter than needed: since clusters always take a response the queues stay at
one entry, and the check shows that the second place is never used.

## 3. Runs

| Run | Instance | Shows |
|---|---|---|
| `flit_queue` | 4 slots, 3 priorities, 7 flits | masks, valid bits and counter agree; a flit is refused only because of its own or more urgent ones; refines `PriorityBuffer`; no flit waits for ever while only less urgent ones leave; the simulator's queue agrees |
| `am_sched` | 2 threads, a sink and a sender that does not fit twice, queue of 3 | sends of running handlers are always covered; urgent sends never wait; a handler without sends is never starved; the execute stage never hangs |
| `am_sched_race` | handlers on single threads | **violated**: two admissions in one cycle exceed the send queue |
| `mem_if` | 3 MSHRs (2 for scatters), 2 ports, a load, a bulk load, a scatter of 3 lines | exactly one answer per line; exact broadcast counter; refines `MemoryService`; as long as the ring takes responses, loads are taken and answered although nobody takes broadcasts; the simulator's table, bulk requests and arbiters agree |
| `response_ring` | 3 controllers and the peripheral | refines `ResponseService`; every response delivered; the simulator's ring agrees |
| `scatter` | 2 clusters, 3 cores, 4 lines | masks match what was handed over; refines `ScatterService`; lines leave while cores drain their events; the simulator's distributors agree |
| `snn` | 4 cores in 2 domains, 5 neurons, 2 steps, a spike across, both drain protocols | until a thread is overtaken: reductions never overflow, no notifier refuses; a core that accepts spikes is prepared; spikes are integrated in their step; reports are right; without an overtaking the program stops, with everything done |
| `snn_empty` | 2 cores, one without neurons | **violated**: the program never stops |
| `snn_tree` | 2 domains of one core, tree drain | **violated**: PU1 starts a step unprepared |
| `snn_late` | 2 cores in one domain, reverse drain | **violated**: a core accepts spikes before its other thread has queued the preparation |
| `soft_mesh` | 2 threads, 4 routers, 1 controller, 3 flits; topologies of 4 to 64 PUs | threads never touch one object at a time; they stay in one interval; refines `Mesh`; counters and profile samples are exact; routes are shortest paths |
| `sim_system` | 1 controller with 2 PUs and 3 MSHRs, the peripheral, 9 command lines | no answer is lost, doubled or late; refines `AtomicMemory` with flat memory and with Ramulator; refines `IdleNotifier`, with its service; timer, memory statistics and profile count the same interval; every request is served, every registration notified |

**Bounds.**  Counters and queues have the code's bounds as constants; the
instances take the smallest that reach full, empty and the boundary between
(the room kept for urgent flits needs a queue deeper than the number of
priorities; the broadcast bound needs one MSHR less than there are).  Requests and flits are identities
that are under way at most once, and return, so that runs are unbounded in
length.  A scatter in `mem_if` has more lines than the broadcast bound; requests
of no lines are modelled but not in the instance.  Three ring nodes and the peripheral give a response that passes
through, one that enters and one that leaves at one node.  The threads of the
runtime are always two.  Four cores and two domains are the least with a start tree
of two levels, a chain of two leaders, a member in each drain chain, and a tree
drain that goes on between leaders.  Two steps tell the counters of one from
those of the other.  PU1 starts the second step first, so that its spike may
reach a last core that is still shut, or come when its controller is about to
be idle; that core has two neurons and can be overtaken by the token while it
prepares.  One neuron in the instance may fire (with two the states are twice
as many); `ReportsRight` is about every network.  The run goes no further than a
state in which a thread is overtaken (`NoneOvertaken`): it stays so, and the
properties hold of it by their form.  Two threads
and four routers have links within a thread and across, an interface whose ports
belong to both, and a flit that passes a router of the other thread; a barrier's
generation is counted modulo 2, which is all that a thread compares.  The six
topologies cover square and 2:1 grids, one and two memory controllers and both
cluster sizes; `TopologySound` is evaluated once per run.  The command lines of
`sim_system` combine requests so that each pair that can meet does: a partial
and a full store with a load and a bulk load of the same line, registrations
with an unregister and traffic, the timer switched on and off with memory
traffic, windows from the command line.  `CycleCap` stops the count of cycles
where no statistics look at it; runs with a profile or timer statistics have a
limit.

**Fairness.**  Everywhere the clock ticks.  In addition: `flit_queue`, the
output is taken; `am_sched`, the network takes flits, loads are answered
and handlers end: a thread that issues again and again comes to a WFI or a
yielding send (nothing is assumed of arrivals); `mem_if`, the memory
takes and answers what it is asked, and nothing of the ring or of
broadcasts: the ring gives what passes through priority (`Injects`), so that a
busy ring can keep a response out, and `ScalarsServed` says only that loads are
served if the unicast port is taken again and again; `response_ring`,
nothing else, so `Delivered` speaks of responses that are on the ring (one that
wants to enter can wait for ever while others pass); `scatter`, each core's
event queue drains: that is an assumption on software (the spike handler is not
the most urgent one, so that `SinkDrains` does not cover it; handlers before it
must leave it time), and `LinesLeave` rests on it; `snn`,
something that can happen does: every step of the model is one of the cores,
the mesh or the memory; `soft_mesh`, the host runs every thread; `sim_system`,
the program goes on, the mesh takes replies of the notifier, and Ramulator
takes a request that is presented and completes what it took.  `Notified` holds
when requests stop coming: requests that keep coming postpone a notification
for ever, as the code allows.

**Software discipline.**  `AmSched` lets software do what `doc/deadlock.md` and
`doc/msg.md` allow: a handler sends no more than its quota, quotas are at most
margins, pushes to the own core only where the event queue has room.  The proof
of `QuotaCovered` needs more, `Disciplined`: sends are blocking and handlers
are enabled on both threads or on none; `am_sched_race` shows what happens
otherwise, section 4 says what non-blocking sends do.  `snn_main.S` writes quota 0 for handlers that send and
relies on margins alone, unlike `doc/deadlock.md:57`.

## 4. Findings

1. `am_sched_race` (`exec/Exec.scala:235`): the fast path of one thread and the
   wake-up of another pass the margin test in one cycle; the assertion at
   `Exec.scala:221` fails.
2. `snn_empty` (`sim/payloads/sys/snn_main.S:1046`): a core without neurons never
   reports its final preparation.  `datagen` makes such cores when there are
   more cores than neurons.
3. `snn_tree` (`snn_main.S:950`): with tree drain and one core per domain, PU1's
   next preparation is not scheduled when its own contribution is the last.
   Spikes of the step are then integrated a step late, and the program does not
   stop.

The next is about the two threads of a core.  Handlers 0, 2 and 3 and the spike
handler are enabled on both (`snn_main.S:459-460`, `503-517`), and nothing in the
program orders what they do:

4. `snn_late` (`snn_main.S:1001`): a drain handler sends its message before it
   queues the preparation.  If thread 1 is that slow, thread 0 takes the next
   start token first, reads the state as done, prepares nothing and accepts the
   spikes of the step; a later write then queues a preparation during the step.

`SnnStep` marks two more places where one thread can go ahead of the other, with
no run of their own.  In the tree drain the other thread of PU1 may handle the
reports of all subtrees while this one is between its messages and its own
count; `termination_tree_root_down` (949-952), "reachable only for a one-PU
system/domain tree", is then reached with several cores, and prepares nothing
(`Count`).  And a spike that one thread has taken from the event queue is no
longer "ahead of this low-priority notification" (792): the other thread may
close the core, and prepare, between its LR and its SC (`Overtakes`).

Only time keeps the threads apart: a message needs longer through the mesh, and the
notifier waits longer, than a thread needs for the rest of its handler.  No
model here measures that.  `overtaken` becomes true where one of the three
happens, and the properties of the passing runs say what holds until then; the
steps after it are the same code, but what the late thread reads and writes is
modelled no finer than its tail, so nothing is claimed of them.

Observations that no run shows as a violation:

- A yielding non-blocking send marks its thread idle as soon as it is sent, but
  its instruction never completes and stays in the execute stage
  (`exec/Exec.scala:481`); the assertion at `Exec.scala:289` fails.  `AmSched`
  models such sends (`NbBits`), its runs make blocking ones.
- `System::run` ends with `? 0 : 1` (`sim/src/system.cpp:803`): false for a run
  with result 0 and true otherwise, as `main` wants for its exit code and the
  reverse of `system.h:193`.
- The requests of a timed-memory interval are counted in the cycle of the
  stopping write too, one cycle more than its `cycles`.
- The profile samples the interfaces' events of the edge before the sample
  (`WindowCounts` states how they add up), and a window given on the command
  line is cut short when the workload stops its timer.
- Flits that the interfaces inject are no hops; a request at a port that cannot
  be accepted holds back the other ports of its interface.
- `mshrRespAccept` and others state their conditions as assertions that
  `ASSERTIONS_ENABLED` leaves out of the build; `AnswersOwed`, `MemIfsAgree` and
  `DistributorsAgree` check those conditions.

**Assumption.**  `Notify` waits until no spike of the domain is on the way.  The
code relies on 256 idle cycles (`IDLE_GATE`, `snn_main.S:139`) for that, which no
model here measures.

## 5. Proofs

For every value of the constants (under the named assumptions of each module):

- `FlitQueue_proofs`: type correctness with `SlotsConsistent`, `Headroom`,
  `BlockedOnlyByPeers`; the refinement of `PriorityBuffer`; the simulator's
  queue agrees (`QueuesAgree`).  Inductive invariant: the mask of a slot is empty
  exactly when it is free, a singleton otherwise, and the counter is the number
  of occupied slots.  Without the counter's meaning the test of one counter bit
  says nothing about slots.  For the refinement it also says which slot each
  flit is in; what leaves is then the oldest mask's most urgent flit.
- `AmSched_proofs`: `TypeCorrect` and `ActiveThreads` for all software;
  `QuotaIsCovered` and `UrgentSendsFit` assuming `Disciplined`.  The invariant
  adds that the send in the execute stage has quota left: a send moves one unit
  from the live quota to the queue.
- `ResponseRing_proofs`: `TypeCorrect`, `RingNeverBlocks`, the refinement of
  `ResponseService`, and `RingsAgree` (`PUAssumption`: a cluster belongs to one
  controller).  The invariant says that a response is in one place only
  and that no queue holds more than one.  The simulator keeps the ring still and
  moves its origin; its invariant says that the cell of a node, counted from the
  origin, is the head of the node's queue, and what was injected in a cycle is
  what the hardware injects.
- `MemIf_proofs`: `TypeCorrect`, `AnswersMeetRequests` (the code's assertions on
  answers), the refinement of `MemoryService`, and `MemIfsAgree`.  The invariant
  says of each MSHR what its flags mean: which lines are waiting, at the memory
  or back, each in one MSHR, and that the broadcast counter counts the MSHRs of
  scatters.  The line counter of the bulk request at the head divides its lines
  into those given to MSHRs and those queued; with that the refinement maps each
  line to one state of the service.  `MemIfsAgree` needs the simulator's
  circular bulk queue to hold the hardware's sequence (`Holding`), and that a
  request offered in one cycle keeps its place among the ports.
- `Scatter_proofs`: `MasksAreOfHead`, the refinement of `ScatterService`
  (`ScatterDelivers`), and the simulator's distributors agree
  (`DistributorsAgree`).  Invariant: in each stage the mask of receivers names
  only receivers of the line at the head, and is empty when there is none, so
  that a line is never let go on account of the one before it.  The refinement
  maps what is on its way to a core to the concatenation of the core's queue,
  its distributor's and the central one, the last two without their first line
  when the mask says that it was handed over: a hand-over in a cycle then only
  moves a line from one part to the next, and the distributor leaves out a line
  that has nothing for the core.  The simulator's
  queues are rings of two cells that hold the hardware's sequence (`Holding`),
  and a receiver is a lane of its distributor: `PUAssumption` says that a
  distributor has the `Width` numbers from `Width` times its own on, which is
  how the elaboration numbers the cores.
- `SoftThreads_proofs`: `ThreadsInStep` and `BarriersOpen` (the threads never
  all spin), for every number of threads.  The invariant says that there is one
  barrier that all threads are around: they head for it, wait at it, or were
  released from the one before and have not looked yet; its count is the number
  of threads still to come, and the other barriers are set for their next use.
  A spinning thread that misses a generation could otherwise be counted twice.
  Then `NoRaces`: the threads touch no object at the same time,
  for every number of threads and every topology.  Which slots a thread moves
  flits out of and into depends on what was decided, so the invariant of the
  barriers is joined by one of the data, in three phases: while deciding, a
  thread that is through has chosen, for each output, an occupied slot with a
  flit for that output, and reserved free slots; while moving, no two choices of
  the whole mesh share a slot, and a slot is full until the owner of the chosen
  output empties it; while committing, the slots that will be marked occupied are
  full.  Each phase ends where the next begins, at the barrier.  Assumed:
  `BackendAssumption` and `WiringAssumption` (links come in pairs, a port of an
  interface belongs to one router; the constructor throws otherwise or builds it
  so, and `TopologySound` checks it on six topologies).
- `SnnStep_proofs`: `TypesCorrect` (no reduction exceeds its subtree, no notifier
  refuses), `OpensPrepared` and `SpikesTimely`, for every number of cores, domains
  and steps and every network, with the two threads of each core, from
  `Invariant`.  Each property is about one core; what
  makes it true is global.  The invariant puts every core in one of three
  states, waiting for the step, live or shut, and says which messages may be
  under way for it: a token only below a core that has started, one update
  message for each core that updates, a report only from a complete subtree,
  installations of notifiers only after all updates, and a drain message only at
  the border of what is shut.  A core is counted as preparing for the next step
  while its drain handler still has to say so (`Aim`), and the two threads never
  both have a tail, so that the tails of all cores may stay where they are while
  the rest goes on.  The four reductions (updates, domains, drain tree,
  end state) share one lemma about a tally over the start tree: a core's count
  is the number of cores of its subtree that are counted, and it is the whole
  subtree only if each is.  So PU1 starts the next step when every core is
  shut and every spike integrated.  The shape of the tree (`Parent`,
  `SubtreeSize`, `Domain`) is arithmetic of powers of two, proved first.
  Then `ReportsRight`: each report has the firings of all cores since the one
  before.  A second invariant, `Summed`, says where they are on the way to PU1.
  `Holds` gives every core one number: what its own word has while it is live;
  then what the message has that it is answerable for (the token of its domain,
  or the count of its subtree), or nothing when another core has taken it over;
  and PU1's word, once it adds up domains, is a holder of its own.  The numbers
  sum to the firings since the last report, and each step of a drain moves a
  number from one holder to another.  The sum is the cardinality of a set of
  pairs, so that the library's facts on unions take the place of an induction.
  All of it holds until a thread is overtaken: the formulas are
  `[](overtaken \/ Inv)`, and `overtaken` is a part of `PreparedWhenOpen`,
  `Timely` and `FiringsReported`.  Assumed: `SnnAssumption` and `Proper`, that is, each core has a
  neuron, and the tree drain is not built with domains of one core; `Proper`
  excludes the configurations of `snn_empty` and `snn_tree`, for which the
  properties are false of the code.
- `SimSystem_proofs`: `AnswersAreOwed` (`AnswersOwed`), `ClocksAgree`
  (`WindowsAgree`) and `NotifierRefines` (`ImplementsNotifier`), for every command
  line, set of requests and number of MSHRs.  The invariant of the first,
  `SimAnswering`, follows the one answer of each issued MSHR: in the cycle of its
  issue it is a request on the bus, then it is in Ramulator, in a queue of the
  frontend or on the bus back (`Held`), and these places hold no number twice; the
  table moves underneath, since retiring, answering, issuing and allocating are
  one step of the code.  The second, `SimTiming`, says what each of the three
  clocks has counted in each phase of a cycle: the timer's count is a difference
  of cycle numbers, the samples of memory and profile are one for each cycle of
  their window, and the profile's base, net flits and events add up to what the
  table owes.  For the third, `NotifierHeld` says that what the notifier keeps or
  answers was sent, so that a request that comes to the port is not under way; a
  cycle of the simulator's notifier, which makes its updates one after the other,
  is then one cycle of `IdleNotifier`, which makes them at once.  That every such
  cycle is a step of `NotifierService` takes one more fact, `NotifierTold`: the
  counter is at most its limit, and a registration that is pending has not been
  notified.  Assumed: `SimAssumption` (the interfaces have MSHRs; a run with a
  profile or with timer statistics has a cycle limit, since the model stops
  counting cycles at `CycleCap` where the code does not) and `NotifierAssumption` (a null pointer is no
  request and no reply).

Where an induction on one number is all it takes, the proofs use the least
member of the set of counterexamples; that lemma, and those on round robin (the
choice after a grant is the first in cyclic order, which is how the hardware's
mask and the simulator's rotation meet), are stated in each module that needs
them.

`HeadroomKept`, `RingNeverBlocks` and `BarriersOpen` are proved and not checked
by a run of their own: `BlockedOnlyByPeers`, `Delivered` and deadlock checking
fail where they would.

The prover reads `UNION A \cup B` as `UNION (A \cup B)`, TLC as
`(UNION A) \cup B`; such terms have parentheses in these modules.

Only model-checked: every liveness property, which includes what depends on
ENABLED; `StatsExact` and `TopologySound`, which need induction over data (folds
over sets of flits, the levels of the Hilbert curve); and two refinements that
are not proved: `ImplementsMesh`, where one clock of the routers is many
steps of the threads in any order, so that the abstract state is a fold over
what has been moved so far, and `ImplementsMemory`, where each request carries a
copy of the data it had when it was accepted.

## 6. Not modelled, and the plan

1. `Lsu`: two-cycle AMO with retry, reservations of two threads, asynchronous
   copy; refinement of an atomic memory.
2. `Fetch`: holding registers, kill and refill; victim choice of the cache.
3. Deadlock freedom of the mesh under load: `ImplementsMesh` shows what the
   routers do, not that a saturated mesh moves; `BlockedOnlyByPeers` is its
   local part.
4. Proofs of `ImplementsMemory` and `ImplementsMesh`.

Not modelled in the simulator: `sim_single` (`single.cpp`, one core and no
mesh), the parsing of images and configurations, writing of statistics and
profiles, wall-clock profiling (what it writes is in the race check), waveform
traces.  Ramulator, the Verilated cores and the second backend of a
cosimulation are environments.

Left out for good: arithmetic (FPU, ALUs), the decoder (no state), elaboration
parameters, generators, scripts, tests and vendored code.  `PROJECT.json` has a
line for each.
