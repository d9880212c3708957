---------------------------- MODULE MCFlitQueue ----------------------------
(***************************************************************************)
(* An instance of CosimFlitQueue: four slots, three priorities, and one flit of *)
(* priority 2 more than the slots open to it, so that every priority is    *)
(* refused while a more urgent one is not.                                 *)
(***************************************************************************)
EXTENDS CosimFlitQueue, TLC

CONSTANTS a1, a2, b1, b2, c1, c2, c3

MCFlits == {a1, a2, b1, b2, c1, c2, c3}
MCPrioOf == [f \in MCFlits |-> CASE f \in {a1, a2} -> 0
                                 [] f \in {b1, b2} -> 1
                                 [] OTHER -> 2]

=============================================================================
