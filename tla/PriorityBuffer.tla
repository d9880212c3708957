--------------------------- MODULE PriorityBuffer ---------------------------
(***************************************************************************)
(* What a flit queue promises: a bounded set of flits.  A flit of priority *)
(* p enters only while p + 1 places are free, and the one that leaves is   *)
(* as urgent as any inside.  One of each may happen in a step.             *)
(***************************************************************************)
EXTENDS Integers, FiniteSets

CONSTANTS Flits, PrioOf, Depth

VARIABLE held

Init == held = {}

MayEnter(f) == f \in Flits \ held /\ Cardinality(held) + PrioOf[f] < Depth
MayLeave(f) == f \in held /\ \A g \in held : PrioOf[f] <= PrioOf[g]

Enter == \E f \in Flits : MayEnter(f) /\ held' = held \cup {f}
Leave == \E f \in Flits : MayLeave(f) /\ held' = held \ {f}
Pass  == \E f, g \in Flits :
            MayEnter(f) /\ MayLeave(g) /\ held' = (held \cup {f}) \ {g}

Next == Enter \/ Leave \/ Pass

Spec == Init /\ [][Next]_held

=============================================================================
