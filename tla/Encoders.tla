------------------------------ MODULE Encoders ------------------------------
(***************************************************************************)
(* The selection circuits that the queues and arbiters share, on sets of   *)
(* natural numbers: chisel3's priority encoder, and the round robin made   *)
(* of one encoder over "numbers above the last grant, then all" that       *)
(* FlitArb.scala and MemIf.scala build.                                    *)
(***************************************************************************)
EXTENDS Integers

\* PriorityEncoderOH: the lowest member of a nonempty set.
Lowest(S) == CHOOSE i \in S : \A j \in S : i <= j

\* The lowest member above the last grant, if any, or else the lowest.
RoundRobin(last, S) ==
    LET above == {i \in S : i > last}
    IN  IF above # {} THEN Lowest(above) ELSE Lowest(S)

=============================================================================
