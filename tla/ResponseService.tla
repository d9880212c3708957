--------------------------- MODULE ResponseService ---------------------------
(***************************************************************************)
(* What the response path promises the cores: a memory response that an    *)
(* interface has handed over comes out once, at the cluster of the core    *)
(* that asked.  In a cycle any number may enter, and each cluster receives *)
(* at most one.                                                            *)
(***************************************************************************)
EXTENDS Integers

CONSTANTS Responses, Clusters, Dst, None

VARIABLES
    inside,     \* responses under way
    port        \* the response each cluster's distributor holds, or None

Arrived == {r \in Responses : \E c \in Clusters : port[c] = r}

Init == inside = {} /\ port = [c \in Clusters |-> None]

Next ==
    \E enter \in SUBSET (Responses \ (inside \cup Arrived)) :
        /\ port' \in [Clusters -> Responses \cup {None}]
        /\ \A c \in Clusters :
               port'[c] # None => port'[c] \in inside \cup enter /\ Dst[port'[c]] = c
        /\ inside' = {r \in inside \cup enter : \A c \in Clusters : port'[c] # r}

Spec == Init /\ [][Next]_<<inside, port>>

=============================================================================
