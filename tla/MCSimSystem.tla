----------------------------- MODULE MCSimSystem -----------------------------
(***************************************************************************)
(* An instance of SimSystem: a controller with one cluster of two PUs,     *)
(* three MSHRs and lines of two lanes, and the peripheral interface.  Each *)
(* command line is a run of its own with the requests of its program.      *)
(***************************************************************************)
EXTENDS SimSystem

CONSTANTS
    load, byte, whole, bulk, scatter,        \* requests to the memory
    on, off, result, rng, config, boot,     \* to the peripherals
    register, never, drop                   \* to the idle notifier

MCDram == {load, byte, whole, bulk, scatter, register, never, drop}
MCInterface ==
    [f \in MCDram \cup {on, off, result, rng, config, boot} |-> IF f \in MCDram THEN "dram" ELSE "periph"]

P(kind, src, addr, size, data) ==
    [kind |-> kind, src |-> src, addr |-> addr, size |-> size, count |-> 0, gate |-> 0, data |-> data]
Scalar(f) ==
    CASE f = load -> P("load", 1, 0, 1, 0)
      [] f = byte -> P("store", 1, 1, 1, 7)
      [] f = whole -> P("store", 2, 0, 2, 5)
      [] f = bulk -> [P("bulk", 2, 0, 0, 0) EXCEPT !.count = 2]
      [] f = scatter -> [P("scatter", 2, 0, 0, 0) EXCEPT !.count = 3]
      [] f = on -> P("store", 1, 1, 1, 1)
      [] f = off -> P("store", 1, 1, 1, 0)
      [] f = result -> P("store", 1, 0, 1, 0)
      [] f = rng -> P("load", 2, 4, 1, 0)
      [] f = config -> P("load", 1, 16, 1, 0)
      [] f = boot -> P("load", 2, 9, 2, 0)
      [] f = register -> [P("register", 1, 0, 0, 0) EXCEPT !.gate = 1]
      [] f = never -> [P("register", 2, 0, 0, 0) EXCEPT !.gate = 3]
      [] f = drop -> P("unregister", 1, 0, 0, 0)
MCPacket ==
    [f \in DOMAIN MCInterface |->
        LET p == Scalar(f)
        IN  [kind |-> p.kind, src |-> p.src, id |-> f, addr |-> p.addr, size |-> p.size,
             count |-> p.count, gate |-> p.gate, data |-> p.data]]
MCPrioOf == [f \in DOMAIN MCInterface |-> 0]
MCBeatPUs(data) == {1, 2}
MCBootrom == (0 :> 3) @@ (1 :> 4)
MCConfigOf == (0 :> 2) @@ (2 :> 1)
MCRandomWord(seed, n) == 10 * seed + n
MCDomain == <<1, 3>>

Plain ==
    [soft |-> TRUE, hard |-> FALSE, images |-> 1, mc |-> 1, freq |-> 1, profile |-> FALSE,
     start |-> {}, stop |-> {}, ramulator |-> FALSE, ramulatorStats |-> FALSE,
     timerOnly |-> FALSE, trace |-> FALSE, traceStart |-> 0,
     limit |-> Unlimited, interrupt |-> FALSE, flits |-> {}]

MCCommandLines ==
    {[Plain EXCEPT !.flits = {load, byte, whole, bulk}],
     [Plain EXCEPT !.flits = {load, byte, bulk}, !.ramulator = TRUE],
     [Plain EXCEPT !.flits = {register, never, drop, load}],
     [Plain EXCEPT !.flits = {rng, config, boot, scatter}],
     [Plain EXCEPT !.flits = {on, off, load, byte}, !.ramulator = TRUE, !.timerOnly = TRUE,
                   !.profile = TRUE, !.limit = 9],
     [Plain EXCEPT !.flits = {on, load}, !.profile = TRUE, !.interrupt = TRUE, !.limit = 7],
     [Plain EXCEPT !.flits = {off, load}, !.profile = TRUE, !.start = {3}, !.stop = {5}, !.limit = 7],
     [Plain EXCEPT !.flits = {load}, !.profile = TRUE, !.start = {5}, !.stop = {3}, !.limit = 7],
     [Plain EXCEPT !.flits = {result, load}, !.hard = TRUE]}

=============================================================================
