------------------------------ MODULE MCScatter ------------------------------
(***************************************************************************)
(* An instance of Scatter: two clusters, of two cores and of one; four     *)
(* lines with two entries: for both cores of a cluster, for one core       *)
(* twice, and for both clusters.                                           *)
(***************************************************************************)
EXTENDS CosimScatter

CONSTANTS k1, k2, c1, c2, c3, l1, l2, l3, l4

MCHome == [c \in {c1, c2, c3} |-> IF c = c3 THEN k2 ELSE k1]
MCPU == [c \in {c1, c2, c3} |-> IF c = c1 THEN 1 ELSE IF c = c2 THEN 2 ELSE 3]
MCAddressee == [l \in {l1, l2, l3, l4} |->
    CASE l = l1 -> <<c1, c2>> [] l = l2 -> <<c1, c1>>
                               [] l = l3 -> <<c3, c2>> [] l = l4 -> <<c1, c3>>]

=============================================================================
