------------------------- MODULE CheckoutOwnership -------------------------
(***************************************************************************)
(* What the checkout lock of one issue promises, without saying how: the    *)
(* contract of "Checkout and Active Execution" in doc/execution-semantics.md*)
(* (an active lock belongs to one run; a lock of a non-terminal run is      *)
(* never adopted by another run).  IssueLock is shown to implement it.      *)
(***************************************************************************)
CONSTANTS Runs, None

VARIABLES
    owner,   \* the run that holds the checkout, or None
    ended    \* runs that reached a terminal status

Init ==
    /\ owner = None
    /\ ended = {}

\* Runs end at any time, and never come back.
End == ended \subseteq ended' /\ ended' \subseteq Runs

\* The lock is free, or its holder has ended: a run takes it.
Take(r) ==
    /\ owner \in ended \cup {None, r}
    /\ owner' = r
    /\ UNCHANGED ended

\* The holder gives the lock up, is overruled by the board, or is cleaned up;
\* the same transaction may cancel runs.
Drop == owner' = None /\ End

Next ==
    \/ End /\ UNCHANGED owner
    \/ \E r \in Runs : Take(r)
    \/ Drop

Spec == Init /\ [][Next]_<<owner, ended>>
=============================================================================
