-------------------------------- MODULE MemIf --------------------------------
(***************************************************************************)
(* A memory interface (bus/MemIf.scala): requests arrive from the mesh at  *)
(* one port per cluster, are kept in MSHRs until the memory has answered,  *)
(* and leave as unicast responses (to the requester) or as broadcasts (the *)
(* lines of a scatter).  Bulk loads and scatters are split into one MSHR   *)
(* per line.  Scatters may use no more than BcstBound MSHRs, so that a     *)
(* broadcast that nobody takes leaves room for scalar requests.            *)
(*                                                                         *)
(* One step is one clock cycle.  Addresses and data are abstracted to the  *)
(* request line <<request, number>> they belong to.  The idle notifier is  *)
(* in IdleNotifier; the ring behind the unicast port in ResponseRing; the  *)
(* broadcast port in Scatter.                                              *)
(***************************************************************************)
EXTENDS Integers, Sequences, FiniteSets, FlitArb

CONSTANTS
    Inflight,   \* number of MSHRs
    BcstBound,  \* MSHRs that scatters may use (inflight - 32)
    BulkDepth,  \* depth of bulkQueue (32)
    NumPorts,   \* ports from the mesh, one per cluster
    Requests,   \* requests, each of them under way at most once
    Scalars,    \* loads and stores; the others are bulk requests
    Scatters,   \* bulk requests whose lines are broadcast
    Lines,      \* number of lines of each request
    Port,       \* the port each request arrives at
    Prio,       \* its priority
    None

Slots == 0 .. Inflight - 1
Ports == 0 .. NumPorts - 1
Parts == UNION {{<<r, n>> : n \in 0 .. Lines[r] - 1} : r \in Requests}

ASSUME MemIfAssumption ==
    /\ Inflight \in Nat \ {0}
    /\ BcstBound \in 0 .. Inflight - 1
    /\ BulkDepth \in Nat \ {0} /\ NumPorts \in Nat \ {0}
    /\ Scalars \subseteq Requests /\ Scatters \subseteq Requests \ Scalars
    /\ Lines \in [Requests -> Nat]
    /\ \A r \in Scalars : Lines[r] = 1
    /\ Port \in [Requests -> Ports] /\ Prio \in [Requests -> Nat]
    /\ None \notin Requests /\ None \notin Parts

VARIABLES
    nocIn,      \* the request waiting at each port, or None
    lastGrant,  \* port the arbiter granted last
    bulkQueue,  \* bulk requests waiting for MSHRs
    bulkCnt,    \* lines of the first of them that have an MSHR
    mshrs,      \* the line each MSHR is allocated for, or None
    issued,     \* flags: issued to the memory ...
    fulfilled,  \* ... and answered (stale in an MSHR that is not allocated)
    ucstLast,   \* round robin registers: last unicast response,
    bcstLast,   \* last broadcast,
    issueLast,  \* last MSHR issued
    bcstInflight, \* counter of the scatters' MSHRs
    atMem       \* the memory: the line asked for under each id, or None

queues == <<nocIn, lastGrant, bulkQueue, bulkCnt>>
table == <<mshrs, issued, fulfilled, bcstInflight>>
lasts == <<ucstLast, bcstLast, issueLast>>
vars == <<queues, table, lasts, atMem>>

Allocated == {s \in Slots : mshrs[s] # None}
Free == Slots \ Allocated

TypeOK ==
    /\ nocIn \in [Ports -> Requests \cup {None}]
    /\ lastGrant \in Ports
    /\ bulkQueue \in Seq({r \in Requests \ Scalars : Lines[r] > 0})
    /\ Len(bulkQueue) <= BulkDepth
    /\ bulkCnt \in Nat /\ (bulkQueue # <<>> => bulkCnt < Lines[Head(bulkQueue)])
    /\ mshrs \in [Slots -> Parts \cup {None}] /\ atMem \in [Slots -> Parts \cup {None}]
    /\ issued \subseteq Slots /\ fulfilled \subseteq Slots
    /\ ucstLast \in Slots /\ bcstLast \in Slots /\ issueLast \in Slots
    /\ bcstInflight \in 0 .. BcstBound

\* issued and fulfilled have no reset value, but are not read before they
\* are written.
Init ==
    /\ nocIn = [p \in Ports |-> None] /\ lastGrant = 0
    /\ bulkQueue = <<>> /\ bulkCnt = 0
    /\ mshrs = [s \in Slots |-> None]
    /\ issued = {} /\ fulfilled = {}
    /\ ucstLast = 0 /\ bcstLast = 0 /\ issueLast = 0
    /\ bcstInflight = 0
    /\ atMem = [s \in Slots |-> None]

----------------------------------------------------------------------------
(* Taking requests *)

\* The request at the output of the arbiter, as a set.
Granted == Grant(lastGrant, {p \in Ports : nocIn[p] # None},
                 [p \in Ports |-> IF nocIn[p] = None THEN 0 ELSE Prio[nocIn[p]]])
Flit == {nocIn[p] : p \in Granted}

ScalarAccepted == {r \in Flit : r \in Scalars /\ Free # {}}
BulkAccepted ==
    {r \in Flit \ Scalars : Lines[r] = 0 \/ Len(bulkQueue) < BulkDepth}
Accepted == ScalarAccepted \cup BulkAccepted

----------------------------------------------------------------------------
(* Allocating MSHRs *)

IsScatter(part) == part[1] \in Scatters

BlockedNever == FALSE       \* mutant: scatters may use every MSHR
BcstBlocked == bcstInflight = BcstBound /\ Head(bulkQueue) \in Scatters

\* A scalar request at the arbiter goes before the next line of a bulk request.
BulkAlloc ==
    /\ bulkQueue # <<>> /\ ~BcstBlocked
    /\ Free # {} /\ Flit \cap Scalars = {}
BulkDone == BulkAlloc /\ bulkCnt + 1 = Lines[Head(bulkQueue)]

\* The line that gets an MSHR in this cycle, as a set.
NewPart == {<<r, 0>> : r \in ScalarAccepted}
           \cup (IF BulkAlloc THEN {<<Head(bulkQueue), bulkCnt>>} ELSE {})
NewSlot == IF NewPart = {} THEN {} ELSE {Lowest(Free)}

----------------------------------------------------------------------------
(* Issuing and answering; a set in place of a slot number and its valid bit *)

Pick(last, S) == IF S = {} THEN {} ELSE {RoundRobin(last, S)}

Issue == Pick(issueLast, Allocated \ issued)

DoneEarly == Allocated \cap issued       \* mutant: sent before it is answered
Done == Allocated \cap fulfilled
Ucst == Pick(ucstLast, {s \in Done : ~IsScatter(mshrs[s])})
Bcst == Pick(bcstLast, {s \in Done : IsScatter(mshrs[s])})

Last(old, S) == IF S = {} THEN old ELSE Lowest(S)

----------------------------------------------------------------------------
(* One clock cycle *)

FlagsKept(flags, set) == flags \cup set         \* mutant: stale in a new MSHR
FlagsNext(flags, set) == (flags \ NewSlot) \cup set

BcstCount(eject) ==
    bcstInflight + (IF BulkAlloc /\ Head(bulkQueue) \in Scatters THEN 1 ELSE 0)
                 - (IF eject # {} THEN 1 ELSE 0)

\* arrive: requests that come to ports that are empty or emptied now;
\* issue, ucst, bcst: Issue, Ucst and Bcst if taken, else {};
\* answer: the id the memory answers, if any, perhaps the one issued now
\* (the configuration ROM of the peripheral interface).
Cycle(arrive, issue, answer, ucst, bcst) ==
    /\ nocIn' = [p \in Ports |->
           IF \E r \in arrive : Port[r] = p THEN CHOOSE r \in arrive : Port[r] = p
           ELSE IF nocIn[p] \in Accepted THEN None ELSE nocIn[p]]
    /\ lastGrant' = IF Accepted = {} THEN lastGrant ELSE Lowest(Granted)
    /\ LET rest == IF BulkDone THEN Tail(bulkQueue) ELSE bulkQueue
           more == {r \in BulkAccepted : Lines[r] # 0}
       IN  bulkQueue' = IF more = {} THEN rest
                        ELSE Append(rest, CHOOSE r \in more : TRUE)
    /\ bulkCnt' = IF BulkDone THEN 0 ELSE IF BulkAlloc THEN bulkCnt + 1 ELSE bulkCnt
    /\ mshrs' = [s \in Slots |->
           IF s \in NewSlot THEN CHOOSE x \in NewPart : TRUE
           ELSE IF s \in ucst \cup bcst THEN None ELSE mshrs[s]]
    /\ issued' = FlagsNext(issued, issue)
    /\ fulfilled' = FlagsNext(fulfilled, answer)
    /\ ucstLast' = Last(ucstLast, ucst)
    /\ bcstLast' = Last(bcstLast, bcst)
    /\ issueLast' = Last(issueLast, issue)
    /\ bcstInflight' = BcstCount(bcst)
    /\ atMem' = [s \in Slots |->
           IF s \in answer THEN None ELSE IF s \in issue THEN mshrs[s] ELSE atMem[s]]

Asked == {s \in Slots : atMem[s] # None}

\* Requests that are nowhere in the interface, and may be sent (again).
Absent == {r \in Requests : /\ \A p \in Ports : nocIn[p] # r
                            /\ r \notin {bulkQueue[i] : i \in DOMAIN bulkQueue}
                            /\ \A s \in Allocated : mshrs[s][1] # r}
MayArrive == {r \in Absent : nocIn[Port[r]] \in Accepted \cup {None}}
Arrivals == {A \in SUBSET MayArrive : \A q, r \in A : Port[q] = Port[r] => q = r}

OneOf(S) == {{}} \cup {{s} : s \in S}
Taken(S) == {{}, S}

Next ==
    \E arrive \in Arrivals, issue \in Taken(Issue), ucst \in Taken(Ucst), bcst \in Taken(Bcst) :
        \E answer \in OneOf(Asked \cup issue) : Cycle(arrive, issue, answer, ucst, bcst)

Spec == Init /\ [][Next]_vars

\* Fairness: the clock ticks, and the memory takes and answers requests.
\* Nothing is assumed of the two ports towards the mesh. What is waiting for
\* ever is taken infinitely often: weak fairness of the cycles that take it,
\* whose ENABLED is Issue # {} and s \in Asked.
Ticks == Cycle({}, {}, {}, {}, {})
Issued == Issue # {} /\ Issue \subseteq issued'
Answered(s) == s \notin fulfilled /\ s \in fulfilled'
Sent == \E s \in Ucst : mshrs'[s] = None

Fairness ==
    /\ WF_vars(Ticks)
    /\ []<>(Issue = {}) \/ []<><<Issued>>_vars
    /\ \A s \in Slots : []<>(s \notin Asked) \/ []<><<Answered(s)>>_vars

FairSpec == Spec /\ Fairness

----------------------------------------------------------------------------
(* Safety *)

\* The assertions of MemIf.scala:294-296: the memory owes an answer exactly
\* for the MSHRs that are allocated, issued and not fulfilled, and each id
\* stands for the line of the MSHR, not for one that used it before.
\* And bcstInflight is the number of MSHRs that scatters hold.
AnswersMatch ==
    /\ \A s \in Slots :
          atMem[s] = IF s \in (Allocated \cap issued) \ fulfilled THEN mshrs[s] ELSE None
    /\ bcstInflight = Cardinality({s \in Allocated : IsScatter(mshrs[s])})

\* Every line of every request is read and answered exactly once.
Unallocated ==
    UNION {{<<bulkQueue[i], n>> : n \in (IF i = 1 THEN bulkCnt ELSE 0) .. Lines[bulkQueue[i]] - 1}
           : i \in DOMAIN bulkQueue}
Service == INSTANCE MemoryService WITH
    owed <- {mshrs[s] : s \in Allocated} \cup Unallocated,
    read <- {mshrs[s] : s \in Done}
ImplementsService == Service!Spec

----------------------------------------------------------------------------
(* Liveness *)

Holds(r) == \E s \in Slots : mshrs[s] # None /\ mshrs[s][1] = r

\* The ring does not leave a response waiting for ever. ResponseRing does not
\* promise it: what passes a node goes before what wants to enter there.
UnicastTaken == []<>(Ucst = {}) \/ []<><<Sent>>_vars

\* As long as the ring takes unicast responses, a load or store of the most
\* urgent priority is taken and answered, even if the clusters never take a
\* broadcast again (MemIf.scala:449).
ScalarsServed ==
    UnicastTaken =>
        \A r \in {q \in Scalars : Prio[q] = 0} :
            nocIn[Port[r]] = r ~> nocIn[Port[r]] # r /\ ~Holds(r)

=============================================================================
