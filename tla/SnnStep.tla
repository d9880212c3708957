------------------------------ MODULE SnnStep ------------------------------
(***************************************************************************)
(* The runtime of a spiking network, sim/payloads/sys/snn_main.S: how PU1  *)
(* starts a step on all cores, how they report their updates, how the idle *)
(* notifiers of the memory controllers and the drain protocol establish    *)
(* that every spike of the step is integrated, and how the next step is    *)
(* prepared at low priority meanwhile.  Neurons are current-based.         *)
(*                                                                         *)
(* A message is an event for a handler and is handled in any order; a      *)
(* handler is atomic up to its last send: what the drain handlers do after *)
(* it is the tail of the thread, while the other thread of the core runs.  *)
(* Spikes are taken by whichever thread is free, before the handlers of a  *)
(* greater index, and added in a second step.  A neuron that may fire      *)
(* fires or not.  A thread may be slow: nothing in the program keeps the   *)
(* other thread of the core from going ahead of it, and overtaken records  *)
(* that one did.                                                           *)
(***************************************************************************)
EXTENDS Integers, FiniteSets, Sequences

CONSTANTS
    NumPU,      \* cores, numbered from 1, a power of two
    NumMC,      \* memory controllers and their domains of cores, likewise
    Neurons,    \* Neurons[p] is the number of neurons of core p
    Synapses,   \* pairs <<source, target>> of neurons <<core, index>>
    MayFire,    \* pairs <<neuron, step>>: it may reach the threshold then
    Steps,      \* SNN_TOTAL_STEPS
    Drains      \* the values of SNN_DRAIN_MODE: "reverse", "tree"

Threads == {0, 1}
PUs == 1 .. NumPU
Powers == {b \in PUs : \A d \in 1 .. b : b % d = 0 => d = 1 \/ d % 2 = 0}   \* of two
AllNeurons == UNION {{<<p, i>> : i \in 1 .. Neurons[p]} : p \in PUs}

ASSUME SnnAssumption ==
    /\ NumPU \in Nat \ {0} /\ NumPU \in Powers /\ NumMC \in Powers /\ Steps \in Nat \ {0}
    /\ Neurons \in [PUs -> Nat]
    /\ Synapses \subseteq AllNeurons \X AllNeurons /\ MayFire \subseteq AllNeurons \X (0 .. Steps - 1)
    /\ Drains \subseteq {"reverse", "tree"}

----------------------------------------------------------------------------
(* Trees and domains *)

DomainSize == NumPU \div NumMC
Domain(p) == (p - 1) \div DomainSize
IsLeader(p) == (p - 1) % DomainSize = 0

Lowbit(n) == CHOOSE b \in Powers : n % b = 0 /\ n % (2 * b) # 0
SubtreeSize(p) == IF p = 1 THEN NumPU ELSE Lowbit(p - 1)
Parent(p) == p - SubtreeSize(p)
Below(p, size) == {p + b : b \in {c \in Powers : c < size}}
StartChildren(p) == Below(p, SubtreeSize(p))
DrainChildren(p) == Below(p, IF IsLeader(p) THEN DomainSize ELSE Lowbit(p - 1))

----------------------------------------------------------------------------
(* State *)

PrepDone == 0
PrepQueued == 1
PrepRunning == 2

VARIABLES
    drain,      \* the drain protocol the program was built with
    net,        \* messages that no handler has taken yet
    memory,     \* spikes of scatters that have not reached their core
    notifier,   \* controllers with a registered idle notifier
    queue,      \* queue[p]: spikes waiting at core p
    pu,         \* pu[p]: the words and registers the handlers share
    tail,       \* tail[p][t]: the rest of the handler thread t runs
    adding,     \* adding[p][t]: the spike thread t adds to its neuron
    halted,     \* "no", "ok" or "fail"
    printed,    \* the reports on the console: how many, the last count
    \* What the properties compare these with:
    window,     \* window[p][i]: how often neuron i of p was prepared
    fires,      \* neurons that fired since the last report
    overtaken   \* a thread went ahead of what its core's other one was at

handlerVars == <<net, pu, memory, notifier, tail, halted, printed, window, fires>>
vars == <<handlerVars, drain, queue, adding, overtaken>>

Msg(handler, from, to, args) == [handler |-> handler, from |-> from, to |-> to, args |-> args]

\* The end of setup: thread 1 of each core has sent the prewarm event, which
\* PU1 ignores if there are other cores.
Init ==
    /\ drain \in Drains
    /\ net = {Msg("boot_control", p, p, <<0>>) : p \in IF NumPU = 1 THEN {1} ELSE PUs \ {1}}
    /\ memory = {} /\ notifier = {} /\ queue = [p \in PUs |-> {}]
    /\ pu = [p \in PUs |->
           [counter |-> 0, fired |-> 0, drained |-> 0, prepared |-> 0, step |-> 0,
            prep |-> <<0, PrepQueued>>, s8 |-> 1, spikeOn |-> FALSE]]
    /\ tail = [p \in PUs |-> [t \in Threads |-> "none"]]
    /\ adding = [p \in PUs |-> [t \in Threads |-> {}]]
    /\ halted = "no" /\ printed = [steps |-> 0, count |-> 0] /\ fires = 0 /\ overtaken = FALSE
    /\ window = [p \in PUs |-> [i \in 1 .. Neurons[p] |-> 0]]

----------------------------------------------------------------------------
(* Pieces of handlers: m is the message taken, r the new state of its core *)

Becomes(m, r, sent) ==
    /\ pu' = [pu EXCEPT ![m.to] = r]
    /\ net' = (net \ {m}) \cup sent

Fails(excess) == halted' = IF excess THEN "fail" ELSE halted

\* Register with the notifier of a domain: one that has a registration keeps
\* it and answers with an error.
Leader(d) == d * DomainSize + 1
Reply(d, error) == Msg("termination_idle", 0, Leader(d), <<error>>)
Refused(d) == IF d \in notifier THEN {Reply(d, 1)} ELSE {}

\* Pass the installation on to the next leader.
InstallShort(p, domain) ==      \* mutant: the last domain is left out
    IF domain + 2 < NumMC
    THEN {Msg("termination_install", p, p + DomainSize, <<domain + 1>>)} ELSE {}
Install(p, domain) ==
    IF domain + 1 < NumMC
    THEN {Msg("termination_install", p, p + DomainSize, <<domain + 1>>)} ELSE {}

\* termination_reduce: n more cores of the subtree are updated.
Reduce(m, r, n, sent) ==
    LET p == m.to
        sum == r.counter + n
        all == SubtreeSize(p)
        report == IF sum = all THEN {Msg("termination_reduce", p, Parent(p), <<all>>)} ELSE {}
    IN  /\ Fails(sum > all)
        /\ IF p = 1 /\ sum = all
           THEN /\ Becomes(m, [r EXCEPT !.counter = 0], sent \cup Install(1, 0) \cup Refused(0))
                /\ notifier' = notifier \cup {0}
           ELSE /\ Becomes(m, [r EXCEPT !.counter = sum], sent \cup report)
                /\ UNCHANGED notifier

Spikes(n, s) == {[from |-> n, to |-> c[2], step |-> s] : c \in {c \in Synapses : c[1] = n}}

\* work_update: neuron i, then a message for the next one; "fired" neurons fired before.
Update(m, r, i, sent, fired) ==
    LET p == m.to IN
    \/ /\ i > Neurons[p]
       /\ Reduce(m, r, 1, sent)
       /\ fires' = fired
       /\ UNCHANGED memory
    \/ /\ i <= Neurons[p]
       /\ \E fire \in {0, 1} :
             /\ fire = 1 => <<<<p, i>>, r.step>> \in MayFire
             /\ Becomes(m, [r EXCEPT !.fired = @ + fire],
                        sent \cup {Msg("work_update", p, p, <<i + 1>>)})
             /\ memory' = memory \cup (IF fire = 1 THEN Spikes(<<p, i>>, r.step) ELSE {})
             /\ fires' = fired + fire
       /\ UNCHANGED <<notifier, halted>>

\* boot_control with a start token: reset, forward, finish the preparation,
\* enable spikes, update the first neuron.
BootFromS8(r) == r.s8       \* mutant: a queued preparation is taken for a done one
BootFrom(r) == IF r.prep[2] = PrepQueued THEN 1 ELSE r.s8
CounterKept(r) == r.counter         \* mutant: not reset
CounterReset(r) == 0
Start(m, s, fired) ==
    LET p == m.to IN
    /\ window' = [window EXCEPT ![p] =
           [i \in DOMAIN @ |-> IF i >= BootFrom(pu[p]) THEN @[i] + 1 ELSE @[i]]]
    /\ Update(m, [counter |-> CounterReset(pu[p]), fired |-> 0, drained |-> 0, prepared |-> 0,
                  step |-> s, prep |-> <<s, PrepDone>>, s8 |-> Neurons[p] + 1, spikeOn |-> TRUE],
              1, {Msg("boot_control", p, c, <<s + 1>>) : c \in StartChildren(p)}, fired)
    /\ UNCHANGED tail

\* termination_prepare_reduce: n more cores have prepared the end state.
AllReported(r) == r.counter = NumMC
PrepareReduce(m, r, n) ==
    LET p == m.to
        sum == r.prepared + n
        all == SubtreeSize(p)
        report == IF sum = all /\ p # 1
                  THEN {Msg("termination_prepare_reduce", p, Parent(p), <<all>>)} ELSE {}
    IN  /\ Becomes(m, [r EXCEPT !.prepared = sum], report)
        /\ halted' = IF sum > all THEN "fail"
                     ELSE IF p = 1 /\ sum = all /\ AllReported(r) THEN "ok" ELSE halted

DomainDone(p, fired) == Msg("termination_domain_done", p, 1, <<fired>>)
Drain(p, to, fired, size) == Msg("termination_drain", p, to, <<fired, size>>)

\* Spikes of the old step have all been handled: keep those of the next one.
Closed(r) == [r EXCEPT !.spikeOn = FALSE]

Then(m, t, rest) == tail' = [tail EXCEPT ![m.to][t] = rest]

----------------------------------------------------------------------------
(* Handlers *)

boot_control(m, t) ==
    LET p == m.to
        token == m.args[1]
    IN  \/ /\ token > 0 \/ p = 1        \* PU1 waits for nobody if it is alone
           /\ Start(m, IF token = 0 THEN 0 ELSE token - 1, fires)
           /\ UNCHANGED printed
        \/ /\ token = 0 /\ p # 1
           /\ Becomes(m, pu[p], {Msg("boot_ready", p, 1, <<>>)})
           /\ UNCHANGED <<memory, notifier, tail, halted, printed, window, fires>>

boot_ready(m, t) ==
    LET count == pu[1].counter + 1 IN
    \/ /\ count = NumPU - 1 /\ Start(m, 0, fires) /\ UNCHANGED printed
    \/ /\ count # NumPU - 1
       /\ Becomes(m, [pu[1] EXCEPT !.counter = count], {})
       /\ UNCHANGED <<memory, notifier, tail, halted, printed, window, fires>>

work_update(m, t) ==
    /\ Update(m, pu[m.to], m.args[1], {}, fires)
    /\ UNCHANGED <<tail, printed, window>>

termination_reduce(m, t) ==
    /\ Reduce(m, pu[m.to], m.args[1], {})
    /\ UNCHANGED <<memory, tail, printed, window, fires>>

termination_install(m, t) ==
    /\ Becomes(m, pu[m.to], Install(m.to, m.args[1]) \cup Refused(m.args[1]))
    /\ notifier' = notifier \cup {m.args[1]}
    /\ UNCHANGED <<memory, tail, halted, printed, window, fires>>

\* PU1 reuses the word for the sum of the domains.
IdleFiredKept(p) == pu[p].fired     \* mutant: PU1's own count is added twice
IdleFired(p) == IF p = 1 THEN 0 ELSE pu[p].fired
termination_idle(m, t) ==
    LET p == m.to
        count == pu[p].fired
    IN  /\ Fails(m.args[1] # 0)
        /\ \/ /\ drain = "reverse"
              /\ Becomes(m, [Closed(pu[p]) EXCEPT !.fired = IdleFired(p)],
                         {IF DomainSize = 1 THEN DomainDone(p, count)
                          ELSE Drain(p, p + DomainSize - 1, count, 0)})
              /\ Then(m, t, "schedule")
           \/ /\ drain = "tree"
              /\ Becomes(m, Closed(pu[p]), {Drain(p, c, 0, 0) : c \in DrainChildren(p)})
              /\ Then(m, t, "count")
        /\ UNCHANGED <<memory, notifier, printed, window, fires>>

termination_reverse(m, t) ==
    LET p == m.to
        count == m.args[1] + pu[p].fired
    IN  /\ drain = "reverse"
        /\ \/ /\ IsLeader(p)
              /\ Becomes(m, pu[p], {DomainDone(p, m.args[1])})
              /\ UNCHANGED tail
           \/ /\ ~IsLeader(p)
              /\ Becomes(m, Closed(pu[p]), {Drain(p, p - 1, count, 0)})
              /\ Then(m, t, "schedule")
        /\ UNCHANGED <<memory, notifier, halted, printed, window, fires>>

\* What a complete subtree sends: its counts, to the parent or to thread 0.
TreeReport(p, r) ==
    IF r.drained # SubtreeSize(p) THEN {}
    ELSE IF p = 1 THEN {DomainDone(1, r.fired)}
    ELSE {Drain(p, Parent(p), r.fired, r.drained)}

termination_tree(m, t) ==
    LET p == m.to
        size == m.args[2]
        r == [pu[p] EXCEPT !.fired = @ + m.args[1], !.drained = @ + size]
    IN  /\ drain = "tree"
        /\ \/ /\ size = 0
              /\ Becomes(m, Closed(pu[p]), {Drain(p, c, 0, 0) : c \in DrainChildren(p)})
              /\ Then(m, t, "count") /\ UNCHANGED halted
           \/ /\ size > 0
              /\ Becomes(m, r, TreeReport(p, r))
              /\ Fails(r.drained > SubtreeSize(p)) /\ UNCHANGED tail
        /\ UNCHANGED <<memory, notifier, printed, window, fires>>

termination_domain_done(m, t) ==
    LET r == IF drain = "tree" THEN [pu[1] EXCEPT !.counter = NumMC]
             ELSE [pu[1] EXCEPT !.counter = @ + 1, !.fired = @ + m.args[1]]
    IN  \/ /\ r.counter # NumMC
           /\ Becomes(m, r, {})
           /\ UNCHANGED <<memory, notifier, tail, halted, printed, window, fires>>
        \/ /\ r.counter = NumMC
           /\ printed' = [steps |-> printed.steps + 1, count |-> r.fired]
           /\ \/ /\ r.step + 1 = Steps
                 /\ Becomes(m, r, {})
                 /\ halted' = IF r.prepared = NumPU THEN "ok" ELSE halted
                 /\ fires' = 0
                 /\ UNCHANGED <<memory, notifier, tail, window>>
              \/ /\ r.step + 1 # Steps
                 /\ Start(m, r.step + 1, 0)

StaleIgnored(m) == FALSE        \* mutant: an old preparation event is taken for a new one
Stale(m) == m.args # pu[m.to].prep
prepare_next(m, t) ==
    LET p == m.to
        at == IF m.args[2] = PrepQueued THEN 1 ELSE pu[p].s8
        last == at = Neurons[p]
        r == [pu[p] EXCEPT !.s8 = at + 1,
                           !.prep = <<m.args[1], IF last THEN PrepDone ELSE PrepRunning>>]
        begun == [pu[p] EXCEPT !.s8 = at, !.prep = <<m.args[1], PrepRunning>>]
    IN  /\ \/ /\ Stale(m) \/ at > Neurons[p]     \* a core without neurons ends here
              /\ Becomes(m, IF Stale(m) THEN pu[p] ELSE begun, {})
              /\ UNCHANGED <<window, halted>>
           \/ /\ ~Stale(m) /\ at <= Neurons[p]
              /\ window' = [window EXCEPT ![p][at] = @ + 1]
              /\ \/ /\ ~last /\ Becomes(m, r, {Msg("prepare_next", p, p, r.prep)})
                    /\ UNCHANGED halted
                 \/ /\ last /\ m.args[1] # Steps
                    /\ Becomes(m, r, {}) /\ UNCHANGED halted
                 \/ /\ last /\ m.args[1] = Steps /\ PrepareReduce(m, r, 1)
        /\ UNCHANGED <<memory, notifier, tail, printed, fires>>

termination_prepare_reduce(m, t) ==
    /\ PrepareReduce(m, pu[m.to], m.args[1])
    /\ UNCHANGED <<memory, notifier, tail, printed, window, fires>>

----------------------------------------------------------------------------
(* The tail of a drain handler *)

Continue(p, t, r, sent, rest) ==
    /\ pu' = [pu EXCEPT ![p] = r]
    /\ net' = net \cup sent
    /\ tail' = [tail EXCEPT ![p][t] = rest]
    /\ UNCHANGED <<memory, notifier, printed, window, fires>>

\* termination_tree_fanout, after the messages to the children: this core is
\* drained. termination_tree_root_down prepares nothing: meant for a domain of
\* one core, it is also where PU1 ends when its other thread has handled the
\* reports of the whole tree meanwhile.
Count(p, t) ==
    LET r == [pu[p] EXCEPT !.drained = @ + 1]
        root == p = 1 /\ r.drained = SubtreeSize(p)
    IN  /\ tail[p][t] = "count"
        /\ Continue(p, t, r, TreeReport(p, r), IF root THEN "none" ELSE "schedule")
        /\ Fails(r.drained > SubtreeSize(p))
        /\ overtaken' = (overtaken \/ (root /\ DomainSize > 1))

\* termination_schedule_prepare
SchedulePrepare(p, t) ==
    LET next == <<pu[p].prep[1] + 1, PrepQueued>>
        wanted == next[1] <= Steps
    IN  /\ tail[p][t] = "schedule"
        /\ Continue(p, t, IF wanted THEN [pu[p] EXCEPT !.prep = next] ELSE pu[p],
                    IF wanted THEN {Msg("prepare_next", p, p, next)} ELSE {},
                    "none")
        /\ UNCHANGED <<halted, overtaken>>

----------------------------------------------------------------------------
(* Scheduling, and the hardware around the program *)

SpikeReady(p) == pu[p].spikeOn /\ queue[p] # {}
Idle(p, t) == tail[p][t] = "none" /\ adding[p][t] = {}

\* Handlers 0, 2 and 3 run on both threads, the others on thread 0. A waiting
\* spike goes before every handler but the first.
MayRun(m, t) ==
    /\ Idle(m.to, t)
    /\ t # 0 => m.handler \in {"termination_reduce", "termination_drain", "work_update"}
    /\ m.handler # "termination_reduce" => ~SpikeReady(m.to)

Run(m, t) ==
    \/ m.handler = "boot_control" /\ boot_control(m, t)
    \/ m.handler = "boot_ready" /\ boot_ready(m, t)
    \/ m.handler = "work_update" /\ work_update(m, t)
    \/ m.handler = "termination_reduce" /\ termination_reduce(m, t)
    \/ m.handler = "termination_install" /\ termination_install(m, t)
    \/ m.handler = "termination_idle" /\ termination_idle(m, t)
    \/ m.handler = "termination_drain" /\ (termination_reverse(m, t) \/ termination_tree(m, t))
    \/ m.handler = "termination_domain_done" /\ termination_domain_done(m, t)
    \/ m.handler = "prepare_next" /\ prepare_next(m, t)
    \/ m.handler = "termination_prepare_reduce" /\ termination_prepare_reduce(m, t)

\* The core opens for the next step before its other thread has ended the
\* drain handler of this one, or closes while it adds a spike of this step.
Overtakes(p, t) ==
    \E u \in Threads \ {t} :
        \/ ~pu[p].spikeOn /\ pu'[p].spikeOn /\ tail[p][u] # "none"
        \/ pu[p].spikeOn /\ ~pu'[p].spikeOn /\ adding[p][u] # {}

Handle ==
    \E m \in net, t \in Threads :
        /\ MayRun(m, t) /\ Run(m, t)
        /\ overtaken' = (overtaken \/ Overtakes(m.to, t))
        /\ UNCHANGED <<drain, queue, adding>>

Rest == /\ \E p \in PUs, t \in Threads : Count(p, t) \/ SchedulePrepare(p, t)
        /\ UNCHANGED <<drain, queue, adding>>

\* spike, up to the store of the LR/SC loop that adds the weight.
spike(p, t) ==
    /\ pu[p].spikeOn /\ Idle(p, t)
    /\ \E s \in queue[p] :
          /\ queue' = [queue EXCEPT ![p] = @ \ {s}]
          /\ adding' = [adding EXCEPT ![p][t] = {s}]
    /\ UNCHANGED <<handlerVars, drain, overtaken>>

Added(p, t) ==
    /\ adding[p][t] # {}
    /\ adding' = [adding EXCEPT ![p][t] = {}]
    /\ UNCHANGED <<handlerVars, drain, queue, overtaken>>

\* A scattered spike reaches the event queue of its core.
Deliver(s) ==
    /\ memory' = memory \ {s}
    /\ queue' = [queue EXCEPT ![s.to[1]] = @ \cup {s}]
    /\ UNCHANGED <<net, pu, notifier, tail, halted, printed, window, fires, drain, adding, overtaken>>

\* The notifier of a domain fires. IDLE_GATE is meant to exceed the time any
\* spike of a step needs from its source to the core: that is assumed here.
Notify(d) ==
    /\ \A s \in memory : Domain(s.to[1]) # d
    /\ notifier' = notifier \ {d}
    /\ net' = net \cup {Reply(d, 0)}
    /\ UNCHANGED <<pu, memory, tail, halted, printed, window, fires, drain, queue, adding, overtaken>>

Next ==
    /\ halted = "no"
    /\ \/ Handle
       \/ Rest
       \/ \E p \in PUs, t \in Threads : spike(p, t) \/ Added(p, t)
       \/ \E s \in memory : Deliver(s)
       \/ \E d \in notifier : Notify(d)

Spec == Init /\ [][Next]_vars

\* Cores run, the network delivers and the memory answers: every step is one
\* of theirs, and one of them goes on.
FairSpec == Spec /\ WF_vars(Next)

----------------------------------------------------------------------------
(* Properties *)

\* No reduction counts more than the subtree and no notifier refuses a
\* registration, so that termination_fail is never called: a counter reset too
\* late, a report of another step or a second installation would.
TypeOK ==
    /\ drain \in Drains /\ halted \in {"no", "ok", "fail"} /\ overtaken \in BOOLEAN
    /\ \A m \in net : m.to \in PUs
    /\ memory \subseteq [from : AllNeurons, to : AllNeurons, step : 0 .. Steps - 1]
    /\ notifier \subseteq 0 .. NumMC - 1
    /\ \A p \in PUs :
        /\ pu[p] \in [counter : 0 .. NumPU, fired : Nat, drained : Nat, prepared : Nat,
                      step : 0 .. Steps - 1, prep : (0 .. Steps) \X (0 .. 2),
                      s8 : 1 .. Neurons[p] + 1, spikeOn : BOOLEAN]
        /\ \A t \in Threads : tail[p][t] \in {"none", "count", "schedule"}
        /\ \A s \in queue[p] \cup adding[p][0] \cup adding[p][1] : s.to[1] = p
    /\ ~overtaken =>
        /\ halted # "fail"
        /\ \A p \in PUs : pu[p].drained <= SubtreeSize(p) /\ pu[p].prepared <= SubtreeSize(p)

\* "Finish any preparation that did not fit ... before accepting a spike
\* belonging to this step" (snn_main.S:427): a core that accepts spikes has
\* prepared each neuron once for each step it has started.
PreparedAt(p) == pu[p].spikeOn => \A i \in 1 .. Neurons[p] : window[p][i] = pu[p].step + 1
PreparedAlways == \A p \in PUs : PreparedAt(p)
PreparedWhenOpen == overtaken \/ PreparedAlways

\* A spike is integrated before the preparation of the next step takes the
\* input of its neuron, and after that of its own ("No old-step spike can
\* remain", snn_main.S:792).
UnderWay == memory \cup UNION {queue[p] \cup adding[p][0] \cup adding[p][1] : p \in PUs}
InTime(s) == LET p == s.to[1] IN
    /\ window[p][s.to[2]] <= s.step + 1
    /\ pu[p].spikeOn => pu[p].step = s.step
Timely == overtaken \/ \A s \in UnderWay : InTime(s)

\* Each report has the number of neurons that fired since the one before.
FiringsReported ==
    [][~overtaken' => (printed' # printed => printed'.count = fires)]_vars

\* PU1 stops the simulation, and not before all steps are reported, every
\* spike is integrated and every neuron holds its state after the last step.
Complete ==
    /\ printed.steps = Steps /\ UnderWay = {}
    /\ \A p \in PUs : \A i \in 1 .. Neurons[p] : window[p][i] = Steps + 1
Terminates == <>(overtaken \/ (halted = "ok" /\ Complete))

=============================================================================
