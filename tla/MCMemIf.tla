------------------------------ MODULE MCMemIf ------------------------------
(***************************************************************************)
(* An instance of MemIf.  Scalar request a comes from one cluster at the   *)
(* most urgent priority; scatter x of three lines, more than the broadcast *)
(* bound, and bulk load y of one line from another.                        *)
(***************************************************************************)
EXTENDS CosimMemIf

CONSTANTS a, x, y

MCLines == [r \in Requests |-> IF r = x THEN 3 ELSE 1]
MCPort  == [r \in Requests |-> IF r \in Scalars THEN 0 ELSE 1]
MCPrio  == MCPort

=============================================================================
