----------------------------- MODULE MCRunLife -----------------------------
(* Small instances of RunLife.                                              *)
EXTENDS RunLife

CONSTANTS r1, r2, p1, p2

(* While a run is folded one pass goes on beside the fold, and no second.   *)
Folding == \E r \in Runs : fold[r] # "none"

BoundedStep(p) ==
    \/ PassStep(p)
    \/ /\ p = p2 => ~Folding
       /\ \/ ListAtStart(p) \/ Shutdown(p)
          \/ \E S \in SUBSET Runs : ListPeriodic(p, S)

BoundedNext ==
    \/ \E r \in Runs :
        \/ Wake(r) \/ Claim(r) \/ ExecutorStep(r) \/ AbortAtStart(r) \/ SetupFails(r)
        \/ Exit(r) \/ CancelStep(r) \/ FoldStep(r)
        \/ pass[p2].step = "idle" /\ FoldStart(r)
        \/ \E step \in {"read", "listed"} : CancelStart(r, step)
    \/ \E p \in Passes : BoundedStep(p)
    \/ Crash \/ Stop \/ HotRestart \/ Adopt \/ Start

BoundedSpec == Init /\ [][BoundedNext]_vars /\ Fairness
=============================================================================
