--------------------------- MODULE NotifierService ---------------------------
(***************************************************************************)
(* What the idle notifier of a memory interface promises: one registration *)
(* is pending at a time; it is answered once when the interface has been   *)
(* quiet for long enough, unless it is taken back first; a registration    *)
(* that finds another pending, and every request to take one back, is      *)
(* answered at once.  An answer stays until the network has taken it.      *)
(***************************************************************************)
CONSTANTS Requests, Registers, None

VARIABLES
    pending,    \* the registration that is pending, or None
    answers     \* answers <<request, success>> not yet taken

vars == <<pending, answers>>

Init == pending = None /\ answers = {}

Register(r) ==
    /\ r \in Registers
    /\ IF pending = None
       THEN pending' = r /\ UNCHANGED answers
       ELSE answers' = answers \cup {<<r, FALSE>>} /\ UNCHANGED pending

Unregister(r) ==
    /\ r \notin Registers
    /\ pending' = None
    /\ answers' = answers \cup {<<r, pending # None>>}

Trigger ==
    /\ pending # None
    /\ pending' = None
    /\ answers' = answers \cup {<<pending, TRUE>>}

Take(a) == a \in answers /\ answers' = answers \ {a} /\ UNCHANGED pending

Next ==
    \/ \E r \in Requests : Register(r) \/ Unregister(r)
    \/ Trigger
    \/ \E a \in answers : Take(a)

Spec == Init /\ [][Next]_vars

=============================================================================
