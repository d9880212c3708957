------------------------------- MODULE Scatter -------------------------------
(***************************************************************************)
(* The way of a broadcast line from a memory interface to the event queues *)
(* of the cores: the broadcast queue of DRAMIf (bus/MemIf.scala), the      *)
(* distributor of each cluster (bus/Distributor.scala) and, in each core,  *)
(* the state machine of BIU.scala that picks the core's entries.           *)
(*                                                                         *)
(* Each stage hands its first line to several receivers that accept it     *)
(* independently, and keeps a mask of those that have.  One step is one    *)
(* clock cycle, in which all stages act on the state at its start.         *)
(***************************************************************************)
EXTENDS Integers, Sequences, Encoders

CONSTANTS
    Lines,      \* broadcast lines, each of them under way at most once
    Beats,      \* entries of a line, numbered from 1
    Clusters,
    Cores,
    Home,       \* the cluster of each core
    Addressee,  \* Addressee[l][b]: the core that entry b of line l is for
    BiuDepth,   \* param.bcastQueueDepth
    None

QueueDepth == 2     \* of DRAMIf and of a distributor

ASSUME ScatterAssumption ==
    /\ Beats \in Nat \ {0} /\ BiuDepth \in Nat \ {0}
    /\ Clusters # {}
    /\ Home \in [Cores -> Clusters]
    /\ Addressee \in [Lines -> [1 .. Beats -> Cores]]
    /\ None \notin Lines \X (1 .. Beats)

VARIABLES
    bcstQueue,      \* lines waiting in DRAMIf
    bcstAccepted,   \* clusters that have taken the first of them
    distQueue,      \* lines waiting in each distributor
    distAccepted,   \* cores that have taken the first of them
    biuQueue,       \* lines waiting in each core
    bcastSent,      \* entries of the first of them that became events
    event           \* the entry each core received in the last cycle, or None

vars == <<bcstQueue, bcstAccepted, distQueue, distAccepted, biuQueue, bcastSent, event>>

Init ==
    /\ bcstQueue = <<>> /\ bcstAccepted = {}
    /\ distQueue = [k \in Clusters |-> <<>>] /\ distAccepted = [k \in Clusters |-> {}]
    /\ biuQueue = [c \in Cores |-> <<>>] /\ bcastSent = [c \in Cores |-> {}]
    /\ event = [c \in Cores |-> None]

\* A queue after a cycle: its first line leaves, the line in S (if any) enters.
Shift(q, leaves, S) ==
    LET rest == IF leaves THEN Tail(q) ELSE q
    IN  IF S = {} THEN rest ELSE Append(rest, CHOOSE l \in S : TRUE)

----------------------------------------------------------------------------
(* DRAMIf: every cluster takes each line *)

\* Clusters that take the first line now.
BcstAccept == {k \in Clusters : /\ bcstQueue # <<>> /\ k \notin bcstAccepted
                                /\ Len(distQueue[k]) < QueueDepth}
BcstStep == bcstAccepted \cup BcstAccept = Clusters

BcstMask == IF BcstStep THEN {} ELSE bcstAccepted \cup BcstAccept

----------------------------------------------------------------------------
(* Distributor: every core of the cluster that the line has an entry for *)

Hits(k, l) == {c \in Cores : Home[c] = k /\ \E b \in 1 .. Beats : Addressee[l][b] = c}
DistValids(k) ==
    IF distQueue[k] = <<>> THEN {} ELSE Hits(k, Head(distQueue[k])) \ distAccepted[k]
Readies == {c \in Cores : Len(biuQueue[c]) < BiuDepth}
DistAccept(k) == DistValids(k) \cap Readies
DistStep(k) == distQueue[k] # <<>> /\ DistValids(k) \subseteq Readies

\* mutant: the cores that take the line now are not remembered
DistMaskLate(k) == IF DistStep(k) THEN {} ELSE distAccepted[k]
DistMask(k) == IF DistStep(k) THEN {} ELSE distAccepted[k] \cup DistAccept(k)

----------------------------------------------------------------------------
(* BIU: every entry of the line for this core becomes an event *)

Avail(c) ==
    IF biuQueue[c] = <<>> THEN {}
    ELSE {b \in 1 .. Beats : Addressee[Head(biuQueue[c])][b] = c} \ bcastSent[c]
\* taken: cores whose event queue takes an entry now (the ingress arbiter
\* prefers local and unicast messages).
Sends(c, taken) == IF c \in taken /\ Avail(c) # {} THEN {Lowest(Avail(c))} ELSE {}
BiuStep(c) == biuQueue[c] # <<>> /\ Avail(c) = {}

SentMask(c, taken) == IF BiuStep(c) THEN {} ELSE bcastSent[c] \cup Sends(c, taken)

----------------------------------------------------------------------------
(* One clock cycle *)

FirstTo(k) == IF k \in BcstAccept THEN {Head(bcstQueue)} ELSE {}
FirstOf(c) == IF c \in DistAccept(Home[c]) THEN {Head(distQueue[Home[c]])} ELSE {}

\* offer: the line the memory interface presents (bcstEject), as a set.
Cycle(offer, taken) ==
    /\ bcstQueue' = Shift(bcstQueue, bcstQueue # <<>> /\ BcstStep,
                          IF Len(bcstQueue) < QueueDepth THEN offer ELSE {})
    /\ bcstAccepted' = BcstMask
    /\ distQueue' = [k \in Clusters |-> Shift(distQueue[k], DistStep(k), FirstTo(k))]
    /\ distAccepted' = [k \in Clusters |-> DistMask(k)]
    /\ biuQueue' = [c \in Cores |-> Shift(biuQueue[c], BiuStep(c), FirstOf(c))]
    /\ bcastSent' = [c \in Cores |-> SentMask(c, taken)]
    /\ event' = [c \in Cores |->
           IF Sends(c, taken) = {} THEN None
           ELSE <<Head(biuQueue[c]), Lowest(Sends(c, taken))>>]

Members(q) == {q[i] : i \in DOMAIN q}
UnderWay ==
    Members(bcstQueue) \cup (UNION {Members(distQueue[k]) : k \in Clusters})
                       \cup UNION {Members(biuQueue[c]) : c \in Cores}

Next == \E offer \in {{}} \cup {{l} : l \in Lines \ UnderWay},
           taken \in SUBSET {c \in Cores : Avail(c) # {}} : Cycle(offer, taken)

Spec == Init /\ [][Next]_vars

\* Fairness: the clock ticks, and an event queue that a core's entry waits
\* for takes it eventually: its handler runs. (Weak fairness of the cycles in
\* which core c takes an entry; they are enabled while it has one.)
Ticks == Cycle({}, {})
Delivers(c) == event'[c] # None
Fairness ==
    /\ WF_vars(Ticks)
    /\ \A c \in Cores : []<>(Avail(c) = {}) \/ []<><<Delivers(c)>>_vars

----------------------------------------------------------------------------
(* Properties *)

\* The masks speak of the line at the head of their queue: without one they
\* are empty, and they name only receivers of that line.
MasksMatch ==
    /\ bcstQueue = <<>> => bcstAccepted = {}
    /\ \A k \in Clusters :
           distAccepted[k] \subseteq
               (IF distQueue[k] = <<>> THEN {} ELSE Hits(k, Head(distQueue[k])))
    /\ \A c \in Cores :
           bcastSent[c] \subseteq
               {b \in 1 .. Beats : biuQueue[c] # <<>> /\ Addressee[Head(biuQueue[c])][b] = c}

\* A scattered line leaves the system: the cores need not take their entries
\* at the same time, and none holds the line for ever.
LinesLeave == \A l \in Lines : l \in UnderWay ~> l \notin UnderWay

\* The lines that are on their way to core c: in its queue, and those its
\* cluster, or the cluster's distributor, still has to hand over.
Rest(q, accepted) == IF accepted THEN Tail(q) ELSE q
Coming(c) ==
    biuQueue[c] \o Rest(distQueue[Home[c]], c \in distAccepted[Home[c]])
                \o Rest(bcstQueue, Home[c] \in bcstAccepted)

\* Every entry reaches its core once, in order, however the three stages and
\* the cores of a cluster get ahead of each other.
Service == INSTANCE ScatterService WITH
    lines <- [c \in Cores |-> Coming(c)], received <- bcastSent
ImplementsService == Service!Spec

=============================================================================
