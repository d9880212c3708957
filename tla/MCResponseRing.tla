--------------------------- MODULE MCResponseRing ---------------------------
(***************************************************************************)
(* An instance of ResponseRing: three memory controllers, one of them with *)
(* two clusters, and the peripheral interface (node 3).  Four nodes are    *)
(* the fewest where a response can wait in every queue for a place in the  *)
(* next one.  Responses are pairs <<node that answers, cluster>>.          *)
(***************************************************************************)
EXTENDS CosimRing

MCResponses ==
    {<<0, 2>>, <<0, 0>>, <<1, 0>>, <<2, 1>>, <<2, 0>>, <<2, 2>>, <<2, 3>>, <<3, 2>>}
MCSrc == [r \in MCResponses |-> r[1]]
MCDst == [r \in MCResponses |-> r[2]]
MCZone == [c \in 0 .. 3 |-> IF c = 3 THEN 2 ELSE c]
MCPU == [c \in 0 .. 3 |-> c + 1]

=============================================================================
