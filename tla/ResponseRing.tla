---------------------------- MODULE ResponseRing ----------------------------
(***************************************************************************)
(* The way of a unicast memory response from the interface that answers to *)
(* the cluster that asked: the ring between the memory interfaces          *)
(* (bus/MemIf.scala), the arbiters in front of the clusters (DRAMIf) and   *)
(* the register of the distributor.                                        *)
(*                                                                         *)
(* Interface Last is the peripheral one.  Each has a queue of two          *)
(* responses towards its successor.  A response of the interface itself    *)
(* enters the ring only while that queue is empty, so that the ring keeps  *)
(* a place free and cannot lock up.                                        *)
(***************************************************************************)
EXTENDS Integers, Sequences, FiniteSets

CONSTANTS
    Last,       \* number of memory controllers; the ring has one node more
    Responses,  \* responses, each of them under way at most once
    Clusters,
    Src,        \* the interface that answers with each response
    Dst,        \* the cluster whose core asked for it
    Zone,       \* the memory interface each cluster belongs to
    None

Nodes == 0 .. Last
Succ(k) == IF k = Last THEN 0 ELSE k + 1
Pred(k) == IF k = 0 THEN Last ELSE k - 1
RingDepth == 2

ASSUME RingAssumption ==
    /\ Last \in Nat \ {0}
    /\ Src \in [Responses -> Nodes]
    /\ Dst \in [Responses -> Clusters]
    /\ Zone \in [Clusters -> 0 .. Last - 1]
    /\ None \notin Responses

VARIABLES
    fwd,        \* ringFwdQueue of each interface
    port        \* the response in the distributor of each cluster, or None

vars == <<fwd, port>>

\* The second place of a queue is there for the cycle in which one response
\* leaves and another enters; none is ever held in it.
TypeOK ==
    /\ fwd \in [Nodes -> Seq(Responses)]
    /\ \A k \in Nodes : Len(fwd[k]) <= 1
    /\ port \in [Clusters -> Responses \cup {None}]

Init == fwd = [k \in Nodes |-> <<>>] /\ port = [c \in Clusters |-> None]

----------------------------------------------------------------------------
Entries(q) == {q[i] : i \in DOMAIN q}
OnRing == UNION {Entries(fwd[k]) : k \in Nodes}
Arrived == {r \in Responses : \E c \in Clusters : port[c] = r}

Heads(k) == IF fwd[k] = <<>> THEN {} ELSE {Head(fwd[k])}
LocalTo(k, r) == Zone[Dst[r]] = k

\* The predecessor presents a response for this zone, or one to pass on.
RecvLocal(k) == {r \in Heads(Pred(k)) : LocalTo(k, r)}
RecvFwd(k) == Heads(Pred(k)) \ RecvLocal(k)

\* A local response is always taken, one to pass on when there is room.
\* mutant: only into an empty queue
ForwardsEmpty(k) == {r \in RecvFwd(k) : fwd[k] = <<>>}
Forwards(k) == {r \in RecvFwd(k) : Len(fwd[k]) < RingDepth}
Takes(k) == RecvLocal(Succ(k)) \cup Forwards(Succ(k))

\* own: the responses that interfaces present themselves (ucstEject), at most
\* one each. One for another zone waits for an empty queue and a cycle
\* without a response to pass on; one for a cluster of the zone waits while
\* the ring delivers to that cluster.
\* mutant: it does not wait for the cycle
InjectsEager(k, own) == {r \in own : Src[r] = k /\ ~LocalTo(k, r) /\ fwd[k] = <<>>}
Injects(k, own) ==
    {r \in own : /\ Src[r] = k /\ ~LocalTo(k, r)
                 /\ fwd[k] = <<>> /\ RecvFwd(k) = {}}

Appended(q, S) == IF S = {} THEN q ELSE Append(q, CHOOSE r \in S : TRUE)

\* mutant: what is passed on stays in the queue
FwdNextKeep(k, own) == Appended(fwd[k], Forwards(k) \cup Injects(k, own))
FwdNext(k, own) ==
    Appended(IF Takes(k) = {} THEN fwd[k] ELSE Tail(fwd[k]),
             Forwards(k) \cup Injects(k, own))

\* What leaves towards a cluster, from the ring or from the interface itself.
FromRing(c) == {r \in RecvLocal(Zone[c]) : Dst[r] = c}
FromOwn(c, own) == {r \in own : Src[r] = Zone[c] /\ Dst[r] = c /\ FromRing(c) = {}}
PortNext(c, own) ==
    LET S == FromRing(c) \cup FromOwn(c, own)
    IN  IF S = {} THEN None ELSE CHOOSE r \in S : TRUE

Cycle(own) ==
    /\ fwd' = [k \in Nodes |-> FwdNext(k, own)]
    /\ port' = [c \in Clusters |-> PortNext(c, own)]

\* An interface presents any one of its fulfilled responses, or none.
Idle == Responses \ (OnRing \cup Arrived)
Offers == {own \in SUBSET Idle : \A r, s \in own : Src[r] = Src[s] => r = s}

Next == \E own \in Offers : Cycle(own)

Spec == Init /\ [][Next]_vars

----------------------------------------------------------------------------
(* Properties *)

\* MemIf.scala:13-15, deadlock avoidance: no response on the ring ever waits;
\* each advances in every cycle, so the ring cannot lock up.
NeverBlocked == \A k \in Nodes : fwd[k] # <<>> => Takes(k) # {}

\* Nothing is lost, duplicated or sent to another cluster.
Service == INSTANCE ResponseService WITH inside <- OnRing
ImplementsService == Service!Spec

\* No response stays on the ring for ever, whatever the interfaces inject.
Delivered == \A r \in Responses : r \in OnRing ~> r \in Arrived

=============================================================================
