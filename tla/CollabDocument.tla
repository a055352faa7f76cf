--------------------------- MODULE CollabDocument ---------------------------
(***************************************************************************)
(* What a shared document promises its editors, whatever keeps it: while   *)
(* it is open it accepts updates and may save any of them; nothing saved   *)
(* is ever lost; and it closes only when everything accepted is saved.     *)
(***************************************************************************)
CONSTANT Updates

VARIABLES
    open,      \* somebody may be editing
    accepted,  \* updates ever taken into the document
    saved      \* updates a later reader of the store will find

vars == <<open, accepted, saved>>

TypeOK ==
    /\ open \in BOOLEAN
    /\ accepted \subseteq Updates
    /\ saved \subseteq Updates

Init ==
    /\ open = FALSE
    /\ accepted = {}
    /\ saved = {}

Open ==
    /\ ~open
    /\ open' = TRUE
    /\ UNCHANGED <<accepted, saved>>

Accept(u) ==
    /\ open
    /\ accepted' = accepted \cup {u}
    /\ UNCHANGED <<open, saved>>

Save(S) ==
    /\ open
    /\ saved' = saved \cup S
    /\ UNCHANGED <<open, accepted>>

Close ==
    /\ open
    /\ saved = accepted
    /\ open' = FALSE
    /\ UNCHANGED <<accepted, saved>>

Next ==
    \/ Open
    \/ \E u \in Updates : Accept(u)
    \/ \E S \in SUBSET accepted : Save(S)
    \/ Close

Spec == Init /\ [][Next]_vars

\* A closed document is exactly what was saved of it, and nothing is saved
\* that no editor sent.
ClosedIsSaved ==
    /\ saved \subseteq accepted
    /\ ~open => saved = accepted

=============================================================================
