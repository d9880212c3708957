----------------------------- MODULE MCSnnStep -----------------------------
(***************************************************************************)
(* Instances of SnnStep.  "Four": four cores in two domains, the last core *)
(* with two neurons; in the second step a spike goes from PU1, the first   *)
(* to start it, to the last core.  "Empty": a core without neurons.        *)
(***************************************************************************)
EXTENDS SnnStep

FourNeurons == [p \in PUs |-> IF p = 4 THEN 2 ELSE 1]
FourSynapses == {<<<<1, 1>>, <<4, 2>>>>}
FourMayFire == {<<<<1, 1>>, 1>>}

OneNeuron == [p \in PUs |-> 1]
EmptyNeurons == [p \in PUs |-> p % 2]

\* A thread that was overtaken stays so and the properties of the passing run
\* hold of all such states and steps: TLC need not look beyond the first.
NoneOvertaken == ~overtaken

=============================================================================
