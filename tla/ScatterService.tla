--------------------------- MODULE ScatterService ---------------------------
(***************************************************************************)
(* What a scatter promises: every entry of a broadcast line reaches the    *)
(* core it is addressed to, once, in the order of the lines and within a   *)
(* line in the order of the entries.  In a cycle one line may be taken,    *)
(* and each core receive one entry.  A core is done with its first line    *)
(* when it has received all that the line has for it, and with any line    *)
(* that has nothing for it.                                                *)
(***************************************************************************)
EXTENDS Naturals, SequencesExt

CONSTANTS
    Lines,      \* broadcast lines
    Beats,      \* entries of a line, numbered from 1
    Cores,
    Addressee,  \* Addressee[l][b]: the core that entry b of line l is for
    None

VARIABLES
    lines,      \* lines on their way to each core
    received,   \* entries of the first of them that the core has received
    event       \* the entry each core received in the last cycle, or None

For(l, c) == {b \in 1 .. Beats : Addressee[l][b] = c}
Remaining(c) == IF lines[c] = <<>> THEN {} ELSE For(Head(lines[c]), c) \ received[c]
First(S) == CHOOSE b \in S : \A d \in S : b <= d

Init ==
    /\ lines = [c \in Cores |-> <<>>]
    /\ received = [c \in Cores |-> {}]
    /\ event = [c \in Cores |-> None]

\* The lines of core c without one that has nothing for it, or all of them;
\* the first is not left out twice.
Useless(c) == {i \in DOMAIN lines[c] : For(lines[c][i], c) = {}}
Useful(c, finished) ==
    {lines[c]} \cup {RemoveAt(lines[c], i) : i \in Useless(c) \ (IF finished THEN {1} ELSE {})}

Next ==
    \E receive \in SUBSET {c \in Cores : Remaining(c) # {}},
       finish \in SUBSET {c \in Cores : lines[c] # <<>> /\ Remaining(c) = {}} :
        /\ event' = [c \in Cores |->
               IF c \in receive THEN <<Head(lines[c]), First(Remaining(c))>> ELSE None]
        /\ received' = [c \in Cores |->
               IF c \in finish THEN {}
               ELSE received[c] \cup (IF c \in receive THEN {First(Remaining(c))} ELSE {})]
        /\ lines' = [c \in Cores |-> lines'[c]]
        /\ \E take \in {<<>>} \cup {<<l>> : l \in Lines} :
               \A c \in Cores : \E useful \in Useful(c, c \in finish) :
                   lines'[c] = (IF c \in finish THEN Tail(useful) ELSE useful) \o take

Spec == Init /\ [][Next]_<<lines, received, event>>

=============================================================================
