----------------------------- MODULE AtomicMemory -----------------------------
(***************************************************************************)
(* What a memory controller of the cycle simulator promises the programs:  *)
(* a memory whose accesses take effect one at a time, between the cycle    *)
(* in which the request is taken and the one in which its answer arrives.  *)
(* Accesses of different requests may take effect in any order.            *)
(***************************************************************************)
EXTENDS Integers

CONSTANTS
    LineWidth,
    Accesses,   \* lines of requests
    AddrOf,     \* the first lane of each,
    SizeOf,     \* the number of lanes,
    WriteOf,    \* whether it writes,
    DataOf      \* and what

VARIABLES
    store,      \* lanes that were written, with their values
    waiting,    \* accesses taken that have not taken effect
    ready,      \* <<access, line>>: what it found, not yet arrived
    arrived     \* those that arrived in the last cycle

vars == <<store, waiting, ready, arrived>>

Lane(addr) == IF addr \in DOMAIN store THEN store[addr] ELSE 0
Found(a) ==
    [i \in 1 .. LineWidth |-> Lane(AddrOf[a] - (AddrOf[a] % LineWidth) + i - 1)]
Lanes(a) == IF WriteOf[a] THEN AddrOf[a] .. AddrOf[a] + SizeOf[a] - 1 ELSE {}

Init == waiting = {} /\ ready = {} /\ arrived = {} /\ store = [a \in {} |-> 0]

\* One access takes effect: its answer is the line as it was before.
Perform(a) ==
    /\ a \in waiting
    /\ waiting' = waiting \ {a}
    /\ ready' = ready \cup {<<a, Found(a)>>}
    /\ store' = [x \in DOMAIN store \cup Lanes(a) |->
                    IF x \in Lanes(a) THEN DataOf[a] ELSE store[x]]
    /\ UNCHANGED arrived

\* A cycle: accesses are taken, and answers arrive.
Cycle ==
    /\ waiting \subseteq waiting' /\ waiting' \subseteq Accesses
    /\ ready' \subseteq ready
    /\ arrived' = ready \ ready'
    /\ UNCHANGED store

Next == (\E a \in Accesses : Perform(a)) \/ Cycle

Spec == Init /\ [][Next]_vars

=============================================================================
