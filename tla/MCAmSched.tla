----------------------------- MODULE MCAmSched -----------------------------
(***************************************************************************)
(* Instances of AmSched with two handlers and a send queue of depth 3.     *)
(* "Sink": handler 0 sends nothing, handler 1 two flits, so that the send  *)
(* queue cannot hold what two threads that run it would send.  "Pair": two *)
(* handlers that send two flits each.                                      *)
(***************************************************************************)
EXTENDS AmSched

SinkQuota  == [h \in {0, 1} |-> 2 * h]
SinkMargin == [h \in {0, 1} |-> 2 * h]

PairQuota  == [h \in {0, 1} |-> 2]
PairMargin == [h \in {0, 1} |-> 2]

Uniform == {{}, {0, 1}}     \* a handler is enabled on both threads or none
Both    == {{0, 1}}         \* a handler is enabled once and for all
Single  == {{0}, {1}}       \* handlers dedicated to one thread

=============================================================================
