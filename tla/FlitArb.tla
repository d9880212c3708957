------------------------------ MODULE FlitArb ------------------------------
(***************************************************************************)
(* The arbiter of bus/FlitArb.scala, in front of every router output and   *)
(* every memory interface: among the valid inputs the most urgent, round   *)
(* robin between equals.                                                   *)
(***************************************************************************)
EXTENDS Encoders

\* Inputs that no valid input is more urgent than. prio[i]: priority of the
\* flit at input i, 0 the most urgent.
Candidates(valid, prio) == {i \in valid : \A j \in valid : prio[i] <= prio[j]}

\* The input granted, as a set; last is the register lastGrant.
Grant(last, valid, prio) ==
    IF valid = {} THEN {} ELSE {RoundRobin(last, Candidates(valid, prio))}

=============================================================================
