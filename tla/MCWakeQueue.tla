---------------------------- MODULE MCWakeQueue ----------------------------
(* Small instances of WakeQueue.                                            *)
EXTENDS WakeQueue, TLC

CONSTANTS w1, w2, w3, a, b, r1, r2, r3

SecondForOther == w1 :> a @@ w2 :> b @@ w3 :> a

\* Either only runs that are unfit, or everything else that may go wrong.
UnfitOrElse == {{"unfit"}, Kinds \ {"unfit"}}
=============================================================================
