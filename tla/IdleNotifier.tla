----------------------------- MODULE IdleNotifier -----------------------------
(***************************************************************************)
(* The idle notifier of a memory interface (bus/MemIf.scala:331-401): a    *)
(* core registers, and gets a message when the interface has been idle for *)
(* more than the number of cycles it asked for.  Rejections, answers to an *)
(* unregister request and the notification itself share one reply buffer.  *)
(*                                                                         *)
(* One step is one clock cycle.  A request is presented when the arbiter   *)
(* in front of the interface (MemIf) grants its port; it may wait at the   *)
(* port for longer.  Source and return tag are the identity of a request.  *)
(***************************************************************************)
EXTENDS Integers

CONSTANTS
    Requests,   \* register and unregister requests, each under way once
    Registers,  \* those that register
    Gate,       \* number of cycles each registration asks for
    MaxCycles,  \* value at which the counter saturates (16#FFFF)
    None

VARIABLES
    port,       \* the request waiting at the interface, or None
    idle,       \* idleCurrently: no MSHR, bulk request or broadcast is held
    idleCycles, \* how long the interface has been idle
    notifier,   \* the registration that is pending, or None
    idleReturn  \* the reply <<request, success>> not yet sent, or None

vars == <<port, idle, idleCycles, notifier, idleReturn>>

Init ==
    /\ port = None /\ idle = TRUE /\ idleCycles = 0
    /\ notifier = None /\ idleReturn = None

----------------------------------------------------------------------------
Accepts == port # None /\ idleReturn = None

Elapsed(r) == idleCycles > Gate[r]

\* A request at the output of the arbiter goes before the notification.
Fires(presented) ==
    notifier # None /\ idleReturn = None /\ Elapsed(notifier) /\ ~presented

CyclesNext ==
    IF ~idle THEN 0 ELSE IF idleCycles = MaxCycles THEN MaxCycles ELSE idleCycles + 1

NotifierNext(presented) ==
    IF presented /\ Accepts
    THEN IF port \notin Registers THEN None
         ELSE IF notifier = None THEN port ELSE notifier
    ELSE IF Fires(presented) THEN None ELSE notifier

ReturnNext(presented, sent) ==
    IF presented /\ Accepts /\ (port \notin Registers \/ notifier # None)
    THEN <<port, port \notin Registers /\ notifier # None>>
    ELSE IF Fires(presented) THEN <<notifier, TRUE>>
    ELSE IF sent THEN None ELSE idleReturn

\* arrive: the request that comes to the port, or None; presented: the arbiter
\* grants the port; sent: the network takes the reply; quiet: the interface is
\* idle in the next cycle.
Cycle(arrive, presented, sent, quiet) ==
    /\ presented => port # None
    /\ sent => idleReturn # None
    /\ port' = IF port = None \/ (presented /\ Accepts) THEN arrive ELSE port
    /\ idle' = quiet
    /\ idleCycles' = CyclesNext
    /\ notifier' = NotifierNext(presented)
    /\ idleReturn' = ReturnNext(presented, sent)

\* Requests that are not under way and may be sent (again).
Absent == {r \in Requests :
    r # port /\ r # notifier /\ \A ok \in BOOLEAN : <<r, ok>> # idleReturn}

Next ==
    \E arrive \in Absent \cup {None}, presented, sent, quiet \in BOOLEAN :
        Cycle(arrive, presented, sent, quiet)

Spec == Init /\ [][Next]_vars

----------------------------------------------------------------------------
(* Every request gets its one answer, and no answer is overwritten: the    *)
(* assertions of MemIf.scala:357, 372 and 381 and the protocol of          *)
(* doc/mem.md, "Idle notifier".                                            *)
Service == INSTANCE NotifierService WITH
    pending <- notifier,
    answers <- IF idleReturn = None THEN {} ELSE {idleReturn}
ImplementsService == Service!Spec

\* "If operand[0][31:16] = 0xFFFF, then this notifier will never fire"
\* (doc/mem.md): the counter stops at a value that is not above the gate.
NeverFires ==
    [][\A r \in Registers : Gate[r] = MaxCycles /\ notifier = r
           => idleReturn' # <<r, TRUE>>]_vars

\* When the interface stays idle and requests stop coming, every pending
\* registration that can fire does, however long the interface has been idle
\* when it is made.
Notified ==
    \A r \in {q \in Registers : Gate[q] < MaxCycles} :
        <>[](idle /\ port = None) => (notifier = r ~> notifier # r)

=============================================================================
