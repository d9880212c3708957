---------------------------- MODULE MemoryService ----------------------------
(***************************************************************************)
(* What a memory interface promises: every line of every request it takes  *)
(* is read once and answered once, after it was read.  In a cycle it takes *)
(* one request at most, has one line answered by the memory, and sends one *)
(* unicast and one broadcast response.                                     *)
(***************************************************************************)
EXTENDS Integers, FiniteSets

CONSTANTS Requests, Scatters, Lines

VARIABLES
    owed,       \* lines <<request, number>> taken and not answered
    read        \* those of them the memory has read

LinesOf(r) == {<<r, n>> : n \in 0 .. Lines[r] - 1}

Init == owed = {} /\ read = {}

Taken == {{}} \cup {LinesOf(r) : r \in Requests}
AtMostOne(S) == \A p, q \in S : p = q

Next ==
    \E new \in Taken, sent \in SUBSET read :
        /\ new \cap owed = {}
        /\ AtMostOne({p \in sent : p[1] \in Scatters})
        /\ AtMostOne({p \in sent : p[1] \notin Scatters})
        /\ owed' = (owed \cup new) \ sent
        /\ \E got \in {{}} \cup {{p} : p \in owed \ read} :
               read' = (read \ sent) \cup got

Spec == Init /\ [][Next]_<<owed, read>>

=============================================================================
