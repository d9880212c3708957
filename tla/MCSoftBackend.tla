--------------------------- MODULE MCSoftBackend ---------------------------
EXTENDS SoftThreads, TLC

CONSTANTS f1, f2, n1

C(pus, memories, cluster) == [numPU |-> pus, numMC |-> memories, clusterSize |-> cluster]
MCConfigurations == {C(4, 1, 4), C(8, 2, 4), C(16, 2, 4), C(16, 1, 16), C(32, 2, 16), C(64, 2, 16)}
MCFlits == {f1, f2, n1}
MCPrioOf == [f \in MCFlits |-> IF f = f2 THEN 1 ELSE 0]
pu(i) == [mem |-> FALSE, idx |-> i]
memory(i) == [mem |-> TRUE, idx |-> i]
MCSrcOf == (f1 :> pu(1)) @@ (f2 :> pu(4)) @@ (n1 :> memory(1))
MCDstOf == (f1 :> pu(4)) @@ (f2 :> memory(1)) @@ (n1 :> pu(4))

=============================================================================
