--------------------------- MODULE CosimFlitQueue ---------------------------
(***************************************************************************)
(* The flit queue of the cycle simulator in lockstep with the one of the   *)
(* hardware.  The simulator promises the hardware's behaviour cycle by     *)
(* cycle; sim/src/soft_components.h keeps one mask and counts its bits     *)
(* where FlitQueue.scala keeps three copies and a counter.                 *)
(***************************************************************************)
EXTENDS FlitQueue

S == INSTANCE SoftComponents

VARIABLE soft       \* a FlitQueue of the simulator

cosimVars == <<vars, soft>>

CosimInit == Init /\ soft = S!NewQueue(Depth)

\* One cycle of the simulator: prepareEnq and peekIdx read the same mask,
\* then the flit is placed, the other one taken, and both committed.
SoftCycle(f, out) ==
    LET enq == IF f # NoFlit /\ S!CanEnq(soft, PrioOf[f]) THEN S!FirstFreeSlot(soft) ELSE {}
        deq == IF out THEN S!PeekIdx(soft) ELSE {}
        placed == IF enq = {} THEN soft ELSE S!PlaceIn(soft, S!The(enq), f)
        taken == IF deq = {} THEN placed ELSE S!TakeFrom(placed, S!The(deq))
    IN  soft' = S!Commit(taken, deq, enq)

Both(f, out) == Cycle(f, out) /\ SoftCycle(f, out)

CosimNext == \E f \in (Flits \ Held) \cup {NoFlit}, out \in BOOLEAN : Both(f, out)

\* The receiver accepts again and again (routers and cores do not refuse for
\* ever; what they need to do so is the subject of other modules).
CosimReceive == \E f \in (Flits \ Held) \cup {NoFlit} : Both(f, TRUE)
CosimSpec == CosimInit /\ [][CosimNext]_cosimVars /\ WF_cosimVars(CosimReceive)

\* The two queues hold the same flits in the same slots, so that they accept
\* and release the same ones in the same cycle for ever; a slot outside the
\* mask holds no pointer. (The assertions of take and place, which the build
\* leaves out, follow: the slot placed in is empty, the slot taken is not.)
QueuesAgree ==
    /\ soft.occupied = {i \in Slots : valid[i]}
    /\ \A i \in Slots : soft.buffer[i] = IF valid[i] THEN buffer[i] ELSE NoFlit
    /\ \A p \in Prios : S!CanEnq(soft, p) <=> EnqReady(p)

=============================================================================
