---------------------------- MODULE MCIssueLock ----------------------------
(***************************************************************************)
(* Small instances of IssueLock, and the properties only TLC checks: one    *)
(* liveness property and a claim of doc/execution-semantics.md that the     *)
(* code does not keep.                                                      *)
(***************************************************************************)
EXTENDS IssueLock, TLC

CONSTANTS a1, a2, u1, r1, r2, r3, q1, q2, s1

TwoRunsOneAgent == r1 :> a1 @@ r2 :> a1
TwoRunsTwoAgents == r1 :> a1 @@ r2 :> a2
ThreeRunsOneAgent == r1 :> a1 @@ r2 :> a1 @@ r3 :> a1

OpenExpectation == {{"todo", "in_progress"}}
NoPatches == {}
\* Send the issue back to another agent; hand it to a human as it is.
TeamPatches == {[NoPatch EXCEPT !.status = "todo", !.agent = a2],
                [NoPatch EXCEPT !.agent = None, !.user = u1]}
\* Give an unassigned issue to a human.
UserPatches == {[NoPatch EXCEPT !.user = u1]}

TwinRuns == Permutations({r1, r2})

-----------------------------------------------------------------------------
(* The runs and the requests alone: neither the board nor a release takes   *)
(* the lock away, so that more of them fit.                                 *)
WorkNext == RunStep \/ RequestStep \/ Crash
WorkSpec == Init /\ [][WorkNext]_vars

(* Runs that are woken, started, ended and released, but not retried.       *)
PlainRunStep ==
    \/ Wake
    \/ \E r \in Runs : \/ WakeElsewhere(r) \/ Claim(r) \/ Stamp(r) \/ Finish(r) \/ Cancel(r)
                       \/ ReleaseOnly(r)

(* The board, PATCHes and every step of a run.                              *)
TeamSpec == Init /\ [][RunStep \/ RequestStep \/ OwnerStep]_vars

(* Runs that hand the lock on: retries, recoveries, promotions, gates.      *)
SuccessionStep ==
    \/ PlainRunStep
    \/ \E r \in Runs :
        \/ Interrupt(r) \/ GateCancel(r) \/ GateClear(r) \/ RetryDue(r)
        \/ \E heir \in Runs :
            \/ HandOff(r, heir) \/ ScheduleRetry(r, heir) \/ CommentRetry(r, heir)
            \/ Recover(r, heir)
            \/ \E reopen \in BOOLEAN : Promote(r, heir, reopen)
SuccessionSpec == Init /\ [][SuccessionStep \/ RequestStep]_vars

(* The sweeper is a job of the server's periodic tick, and of its startup.  *)
(* A crash may interrupt a sweep, but not every sweep for ever.             *)
SweepFairness == \A s \in Sweepers : WF_vars(StartSweep(s)) /\ SF_vars(Sweep(s))
SweptSpec == WorkSpec /\ SweepFairness

\* Only ended runs, and at least one, are named by the lock columns.
Stale ==
    /\ row.checkout # None \/ row.execution # None
    /\ Cleanable(row.checkout) /\ Cleanable(row.execution)

\* Whatever crash, cancellation or late statement left a lock to runs that
\* ended, the issue is given back: the sweeper is the backstop of every path
\* that should have cleared it.
StaleLockClears == Stale ~> ~Stale

-----------------------------------------------------------------------------
(* What doc/execution-semantics.md says and the code does not do.           *)

\* "both cannot be set at the same time": an issue has one assignee.
SingleAssignee == row.agent = None \/ row.user = None
=============================================================================
