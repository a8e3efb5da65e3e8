--------------------------- MODULE MCAgentStatus ---------------------------
(* Small instances of AgentStatus.                                          *)
EXTENDS AgentStatus, TLC

CONSTANTS r1, r2, q1, q2

Alike == Permutations({r1, r2})

\* One request of those that let the agent work, and one of those that stop it.
Opposed == (q1 :> {"resume", "pause", "clear", "patchIdle", "patchTerminated"})
        @@ (q2 :> {"pause", "terminate", "budgetPause", "cancelRun", "patchError"})

\* Two requests of the two pages that decide on a hire.
Deciding == (q1 :> {"approve", "approveAgent", "revise", "resubmit", "resume"})
         @@ (q2 :> {"approve", "reject", "terminate", "revise", "pause", "patchTerminated"})

(* Both, so that the first kinds are asked of an agent that was hired       *)
(* directly, the others of one whose hire is decided.                       *)
Either == [q \in {q1, q2} |-> Opposed[q] \cup Deciding[q]]

Fitting(q) == IF approval = "none" THEN Opposed[q] ELSE Deciding[q]

FittingStep(q) ==
    \/ \E kind \in Fitting(q) : Ask(q, kind)
    \/ "cancelRun" \in Fitting(q) /\ \E r \in Runs : AskCancel(q, r)
    \/ \E r \in Runs : CancelListed(q, r)
    \/ Pause(q) \/ Resume(q) \/ Patch(q) \/ ClearError(q) \/ BudgetPause(q) \/ ListRuns(q)
    \/ FindOpen(q) \/ Resolve(q) \/ Activate(q) \/ ActivateFails(q) \/ Terminate(q)
    \/ Revise(q) \/ Resubmit(q)

FittingNext ==
    \/ \E r \in Runs : RunStep(r)
    \/ \E q \in Requests : FittingStep(q)
    \/ \E a \in Runs \cup Requests : FinRead(a) \/ FinCount(a) \/ FinWrite(a)
    \/ BudgetResume \/ Crash
FittingSpec == Init /\ [][FittingNext]_vars

\* The board terminates the agent, and asks for nothing else.
OnlyTerminate == (q1 :> {"terminate"}) @@ (q2 :> {})
=============================================================================
