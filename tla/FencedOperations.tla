-------------------------- MODULE FencedOperations --------------------------
(***************************************************************************)
(* What the worker's receipts promise to whoever reads them, whatever      *)
(* fails, crashes or is lost in between: an operation on a site is opened, *)
(* processes may write the site only while it is open, and it is closed    *)
(* only when the last of them is gone.  A second operation is not opened   *)
(* before the first is closed.                                             *)
(***************************************************************************)
CONSTANT Sites

VARIABLES
    open,     \* sites with an unresolved operation
    writing   \* sites that some process of an operation is working on

vars == <<open, writing>>

Init == open = {} /\ writing = {}

Open(s) ==
    /\ s \notin open \cup writing
    /\ open' = open \cup {s}
    /\ UNCHANGED writing

Write(s) ==
    /\ s \in open \ writing
    /\ writing' = writing \cup {s}
    /\ UNCHANGED open

\* Processes end, on their own, by a kill, or all at once at a restart.
Cease(quiet) ==
    /\ writing' = writing \ quiet
    /\ UNCHANGED open

Close(s) ==
    /\ s \in open \ writing
    /\ open' = open \ {s}
    /\ UNCHANGED writing

Next ==
    \/ \E s \in Sites : Open(s) \/ Write(s) \/ Close(s)
    \/ \E quiet \in SUBSET Sites : Cease(quiet)

Spec == Init /\ [][Next]_vars
=============================================================================
