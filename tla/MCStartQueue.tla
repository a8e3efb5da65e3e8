---------------------------- MODULE MCStartQueue ----------------------------
(* Small instances of StartQueue.                                           *)
EXTENDS StartQueue, TLC

CONSTANTS c1, c2, c3, r1, r2, r3

FirstTied == r1 :> 1 @@ r2 :> 1 @@ r3 :> 2
GateOrFailure == {{"gate"}, {"failure"}}
=============================================================================
