----------------------------- MODULE IssueLock -----------------------------
(***************************************************************************)
(* The two lock columns of one row of the issues table, checkoutRunId and   *)
(* executionRunId, and every server operation that writes them: checkout    *)
(* and its adoption paths, assertCheckoutOwner, release, the PATCH of an    *)
(* issue, the tree-control cancel and restore, the stale-lock sweeper       *)
(* (services/issues.ts, issue-tree-control.ts, recovery/service.ts), and    *)
(* the steps of a heartbeat run that touch the row: wake, claim, finish,    *)
(* retry hand-off, finalization (services/heartbeat.ts).                    *)
(*                                                                         *)
(* One action is one SQL statement or one transaction that locks the row    *)
(* first; between two of them anything else may happen.  A request that     *)
(* needs several keeps its place in req.  A run that ended stays ended      *)
(* here: the five terminal statuses are the one value "terminal", which is  *)
(* all the lock code tests.                                                 *)
(***************************************************************************)
CONSTANTS
    Agents,            \* agents.id
    Users,             \* human board users
    Runs,              \* heartbeat_runs.id, the runs that may ever exist
    Requests,          \* what may be in progress at once: HTTP requests, sweeps
    Sweepers,          \* those of Requests that are the stale-lock sweeper
    None,              \* SQL null
    RunAgent,          \* heartbeat_runs.agent_id of each run
    ContextRuns,       \* runs whose contextSnapshot names this issue
    IssuelessRuns,     \* runs whose contextSnapshot names no issue
    SourceScopedRuns,  \* runs woken with source_scoped_recovery_action
    Expectations,      \* expectedStatuses a checkout may carry
    Patches            \* the changes a PATCH of the issue may ask for

IssueStatus == {"todo", "in_progress", "blocked", "done", "cancelled"}

\* A PATCH leaves out the fields it does not change.
Keep == "keep"

ASSUME RunsAssumption ==
    /\ None \notin Agents \cup Users \cup Runs
    /\ Keep \notin Agents \cup Users
    /\ None # Keep
    /\ RunAgent \in [Runs -> Agents]
    /\ ContextRuns \subseteq Runs
    /\ IssuelessRuns \subseteq Runs \ ContextRuns
    /\ SourceScopedRuns \subseteq Runs
    /\ Sweepers \subseteq Requests
    /\ Expectations \subseteq SUBSET IssueStatus
    /\ Patches \subseteq [status : IssueStatus \cup {Keep},
                          agent : Agents \cup {None, Keep},
                          user : Users \cup {None, Keep}]

VARIABLES
    row,    \* the issue: status, assignee columns and the two lock columns
    run,    \* heartbeat_runs.status of each run
    proc,   \* what the server process is doing with each run
    phase,  \* how far the finalization of each run has come, in memory
    req     \* requests in progress

vars == <<row, run, proc, phase, req>>

RunStates == {"absent", "queued", "scheduled_retry", "running", "terminal"}
ProcStates == {"none", "claiming", "executing"}
\* executeRun finalizes its run; it may have inserted one retry already.
Finalizing == {"finished", "commented", "scheduled"}
Phases == Finalizing \cup {"none", "lost", "releasing", "gated", "escalating", "reblocking"}
Steps == {"idle", "clearExecution", "clearCheckout", "take", "read",
          "adoptUnowned", "adoptStale", "testExecution", "adoptExecution",
          "resolve", "write", "clear"}

RunOrNone == Runs \cup {None}
Rows == [status : IssueStatus, agent : Agents \cup {None},
         user : Users \cup {None},
         checkout : RunOrNone, execution : RunOrNone]

FreshRow == [status |-> "todo", agent |-> None, user |-> None,
             checkout |-> None, execution |-> None]
NoPatch == [status |-> Keep, agent |-> Keep, user |-> Keep]
Idle == [op |-> "none", step |-> "idle", agent |-> None, run |-> None,
         expect |-> {}, patch |-> NoPatch, seen |-> FreshRow, retried |-> FALSE]

ReqRecords ==
    [op : {"none", "checkout", "assert", "update", "sweep"}, step : Steps,
     agent : Agents \cup {None}, run : RunOrNone,
     expect : SUBSET IssueStatus,
     patch : Patches \cup {NoPatch}, seen : Rows, retried : BOOLEAN]

TypeOK ==
    /\ row \in Rows
    /\ run \in [Runs -> RunStates]
    /\ proc \in [Runs -> ProcStates]
    /\ phase \in [Runs -> Phases]
    /\ req \in [Requests -> ReqRecords]

-----------------------------------------------------------------------------

Terminal(r) == r \in Runs /\ run[r] = "terminal"
Live(r) == r \in Runs /\ run[r] \in {"queued", "scheduled_retry", "running"}
\* Mutant: a forced release forgets checkoutRunId.
UnlockedExecutionOnly(i) == [i EXCEPT !.execution = None]

Unlocked(i) == [i EXCEPT !.checkout = None, !.execution = None]
Locked(i, r) == [i EXCEPT !.checkout = r, !.execution = r]

Init ==
    /\ row = FreshRow
    /\ run = [r \in Runs |-> "absent"]
    /\ proc = [r \in Runs |-> "none"]
    /\ phase = [r \in Runs |-> "none"]
    /\ req = [q \in Requests |-> Idle]

-----------------------------------------------------------------------------
(* Heartbeat runs.                                                          *)

\* The run that executionRunId names, if it is still on an execution path.
ActiveHolder == IF Live(row.execution) THEN row.execution ELSE None

\* cancelStaleScheduledRetry: a scheduled retry of a former assignee, or of a
\* cancelled issue.
StaleRetry(r) ==
    /\ run[r] = "scheduled_retry"
    /\ RunAgent[r] # row.agent \/ row.status = "cancelled"

\* A holder that never started and belongs to another agent than the assignee.
Rerouted(r) ==
    \/ StaleRetry(r)
    \/ run[r] # "running" /\ row.agent # None /\ RunAgent[r] # row.agent

\* The legacy fallback prefers a running run over one that waits.
LegacyCandidates(S) ==
    LET live == {r \in ContextRuns \ S : Live(r)}
        going == {r \in live : run[r] = "running"}
    IN  IF going # {} THEN going ELSE live

\* What a PATCH that blocks the issue makes of the row.
Blocked(agent) == [Unlocked(row) EXCEPT !.status = "blocked", !.agent = agent]

\* filterZombieCoalesceTarget: a running run that this server does not execute
\* takes no wake of its own agent.
Zombie(r, r2) ==
    /\ run[r] = "running" /\ proc[r] # "executing"
    /\ RunAgent[r2] = RunAgent[r]

\* A wake cancels some runs and queues at most one.
Woken(gone, r2) ==
    [r \in Runs |-> IF r = r2 THEN "queued" ELSE IF r \in gone THEN "terminal" ELSE run[r]]

\* enqueueWakeup, the transaction that holds the row.  A live holder takes the
\* wake (coalesced or deferred: no lock column changes).
WakeHeld ==
    /\ ActiveHolder # None
    /\ ~Rerouted(ActiveHolder)
    /\ UNCHANGED vars

\* The holder is a zombie: a second run of the issue is queued beside it.
WakeZombie(r2) ==
    /\ ActiveHolder # None
    /\ ~Rerouted(ActiveHolder)
    /\ Zombie(ActiveHolder, r2)
    /\ run' = Woken({}, r2)
    /\ UNCHANGED <<row, proc, phase, req>>

\* No run is on its way: the wake queues r2, is skipped (blockers, throttle,
\* daily cap), or blocks an issue whose workspace settings cannot run.
WakeFree(gone, r2) ==
    /\ run' = Woken(gone, r2)
    /\ \/ row' = [row EXCEPT !.execution = None]
       \/ /\ r2 = None
          /\ row.status \notin {"done", "cancelled"}
          /\ row' = Blocked(row.agent)

\* No live holder is left: the column is cleared, then stamped with a run of
\* this issue that is already on its way, unless that one is a stale retry.
WakeUnheld(r2) ==
    LET gone == IF ActiveHolder = None THEN {} ELSE {ActiveHolder}
        legacy == LegacyCandidates(gone)
    IN  /\ ActiveHolder # None => Rerouted(ActiveHolder)
        /\ \/ legacy = {} /\ WakeFree(gone, r2)
           \/ \E l \in legacy :
                \/ StaleRetry(l) /\ WakeFree(gone \cup {l}, r2)
                \/ /\ ~StaleRetry(l)
                   /\ r2 # None => Zombie(l, r2)
                   /\ run' = Woken(gone, r2)
                   /\ row' = [row EXCEPT !.execution = l]
        /\ UNCHANGED <<proc, phase, req>>

\* The new run, if there is one, does not get the lock before it is claimed.
Wake ==
    \/ WakeHeld
    \/ \E r2 \in {r \in ContextRuns : run[r] = "absent"} : WakeZombie(r2) \/ WakeUnheld(r2)
    \/ WakeUnheld(None)

\* A run that wakes the agent for something else, and may still check out
\* this issue once it runs.
WakeElsewhere(r) ==
    /\ r \notin ContextRuns
    /\ run[r] = "absent"
    /\ run' = [run EXCEPT ![r] = "queued"]
    /\ UNCHANGED <<row, proc, phase, req>>

\* claimQueuedRun, the compare-and-set of the status.
Claim(r) ==
    /\ run[r] = "queued"
    /\ run' = [run EXCEPT ![r] = "running"]
    /\ proc' = [proc EXCEPT ![r] = "claiming"]
    /\ UNCHANGED <<row, phase, req>>

MayStamp(r) ==
    /\ r \in ContextRuns \ SourceScopedRuns
    /\ row.agent = RunAgent[r]
    /\ row.execution \in {None, r}

\* claimQueuedRun, the stamp: a statement of its own after the claim, for the
\* assignee's run only.  The run itself may have been cancelled in between.
Stamp(r) ==
    /\ proc[r] = "claiming"
    /\ proc' = [proc EXCEPT ![r] = IF run[r] = "running" THEN "executing" ELSE "none"]
    /\ row' = IF MayStamp(r) THEN [row EXCEPT !.execution = r] ELSE row
    /\ UNCHANGED <<run, phase, req>>

\* executeRun ends: setRunStatusIfRunning.
Finish(r) ==
    /\ run[r] = "running" /\ proc[r] = "executing"
    /\ run' = [run EXCEPT ![r] = "terminal"]
    /\ proc' = [proc EXCEPT ![r] = "none"]
    /\ phase' = [phase EXCEPT ![r] = "finished"]
    /\ UNCHANGED <<row, req>>

\* cancelRunInternal, cancelActiveForAgentInternal, and the abort of a run that
\* executeRun may not start.  (Their read of the run is merged with the write.)
Cancel(r) ==
    /\ Live(r)
    /\ run' = [run EXCEPT ![r] = "terminal"]
    /\ proc' = [proc EXCEPT ![r] = IF @ = "executing" THEN "none" ELSE @]
    /\ phase' = [phase EXCEPT ![r] = "releasing"]
    /\ UNCHANGED <<row, req>>

\* The claim gates and the scheduled-retry gate cancel a run that has not
\* started; the lock column is cleared by a later statement, with no promotion.
GateCancel(r) ==
    /\ run[r] \in {"queued", "scheduled_retry"}
    /\ run' = [run EXCEPT ![r] = "terminal"]
    /\ phase' = [phase EXCEPT ![r] = "gated"]
    /\ UNCHANGED <<row, proc, req>>

\* Mutant: a cancelled claim clears whatever the issue's lock is.
GateClearAny(r) ==
    /\ phase[r] = "gated"
    /\ phase' = [phase EXCEPT ![r] = "none"]
    /\ row' = [row EXCEPT !.execution = None]
    /\ UNCHANGED <<run, proc, req>>

GateClear(r) ==
    /\ phase[r] = "gated"
    /\ phase' = [phase EXCEPT ![r] = "none"]
    /\ row' = IF row.execution = r THEN [row EXCEPT !.execution = None] ELSE row
    /\ UNCHANGED <<run, proc, req>>

\* promoteDueScheduledRetries.
RetryDue(r) ==
    /\ run[r] = "scheduled_retry"
    /\ run' = [run EXCEPT ![r] = "queued"]
    /\ UNCHANGED <<row, proc, phase, req>>

\* reapOrphanedRuns: a running run that this server process does not track.
Reap(r) ==
    /\ run[r] = "running" /\ proc[r] = "none"
    /\ run' = [run EXCEPT ![r] = "terminal"]
    /\ phase' = [phase EXCEPT ![r] = "lost"]
    /\ UNCHANGED <<row, proc, req>>

\* drainRunningRunsForShutdown: a graceful shutdown treats a run like a lost one.
Interrupt(r) ==
    /\ run[r] = "running" /\ proc[r] # "none"
    /\ run' = [run EXCEPT ![r] = "terminal"]
    /\ proc' = [proc EXCEPT ![r] = IF @ = "executing" THEN "none" ELSE @]
    /\ phase' = [phase EXCEPT ![r] = "lost"]
    /\ UNCHANGED <<row, req>>

\* foldSourceResolvedStaleRun: the watchdog ends a silent run of a closed issue
\* and clears the execution lock.  The run is not finalized: executeRun finds
\* that it left "running", and returns.
Fold(r) ==
    /\ r \in ContextRuns /\ run[r] = "running"
    /\ row.status \in {"done", "cancelled"}
    /\ run' = [run EXCEPT ![r] = "terminal"]
    /\ proc' = [proc EXCEPT ![r] = IF @ = "executing" THEN "none" ELSE @]
    /\ row' = IF row.execution = r THEN [row EXCEPT !.execution = None] ELSE row
    /\ UNCHANGED <<phase, req>>

\* A run row inserted on behalf of r: same agent, same context.
Successor(r, r2) ==
    /\ run[r2] = "absent"
    /\ RunAgent[r2] = RunAgent[r]
    /\ r2 \in ContextRuns <=> r \in ContextRuns

\* enqueueProcessLossRetry: the lock moves to the retry and the checkout goes,
\* if the lost run still holds the execution lock.  No release follows.
HandOff(r, r2) ==
    /\ phase[r] = "lost"
    /\ Successor(r, r2)
    /\ run' = [run EXCEPT ![r2] = "queued"]
    /\ phase' = [phase EXCEPT ![r] = "none"]
    /\ row' = IF r \in ContextRuns /\ row.execution = r
                THEN [row EXCEPT !.execution = r2, !.checkout = None]
                ELSE row
    /\ UNCHANGED <<proc, req>>

\* Where the finalization goes on after a scheduled retry.
Scheduled(p) ==
    IF p = "lost" THEN "none" ELSE IF p = "finished" THEN "scheduled" ELSE "releasing"

\* scheduleBoundedRetryForRun: only executionRunId moves to the retry.  A
\* release follows, except for a lost run.  (Before or after a comment retry.)
ScheduleRetry(r, r2) ==
    /\ phase[r] \in {"finished", "commented", "lost"}
    /\ Successor(r, r2)
    /\ run' = [run EXCEPT ![r2] = "scheduled_retry"]
    /\ phase' = [phase EXCEPT ![r] = Scheduled(@)]
    /\ row' = IF r \in ContextRuns /\ row.execution = r
                THEN [row EXCEPT !.execution = r2] ELSE row
    /\ UNCHANGED <<proc, req>>

\* enqueueMissingIssueCommentRetry: only for the run that holds the lock.
CommentRetry(r, r2) ==
    /\ phase[r] \in {"finished", "scheduled"} /\ r \in ContextRuns
    /\ row.execution = r
    /\ Successor(r, r2)
    /\ run' = [run EXCEPT ![r2] = "queued"]
    /\ phase' = [phase EXCEPT ![r] = IF @ = "finished" THEN "commented" ELSE "releasing"]
    /\ row' = [row EXCEPT !.execution = r2]
    /\ UNCHANGED <<proc, req>>

(* releaseIssueExecutionAndPromote: one transaction.                        *)

\* The two columns are cleared separately, each only if it names the run.
ReleasedBy(i, r) ==
    [i EXCEPT !.execution = IF @ = r THEN None ELSE @,
              !.checkout = IF @ = r THEN None ELSE @]

Released(r, next) ==
    /\ phase[r] \in Finalizing \cup {"lost", "releasing"}
    /\ phase' = [phase EXCEPT ![r] = next]
    /\ UNCHANGED <<proc, req>>

\* The reaper releases twice when the retry is suppressed: enqueueProcessLossRetry
\* has released for an agent that may not run.
Completed(r) == Released(r, "none") \/ (phase[r] = "lost" /\ Released(r, "releasing"))

\* Mutant: follow-ups although a successor holds the issue.
FollowsUpAlways(r) ==
    r \in ContextRuns \/ (r \in IssuelessRuns /\ r \in {row.checkout, row.execution})

\* Follow-ups belong to the run's own issue, or to one that a run without an
\* issue holds, unless another run holds the execution lock by now.
OwnsFollowUp(r) ==
    /\ r \in ContextRuns \/ (r \in IssuelessRuns /\ r \in {row.checkout, row.execution})
    /\ row.execution \in {None, r}

ReleaseOnly(r) ==
    /\ Completed(r)
    /\ row' = ReleasedBy(row, r)
    /\ UNCHANGED run

\* A deferred wake becomes a run; a comment of a user reopens closed work,
\* which clears both columns.  The lock goes to an assignee's run only.
Promote(r, r2, reopen) ==
    LET base == IF reopen THEN [Unlocked(row) EXCEPT !.status = "todo"]
                          ELSE ReleasedBy(row, r)
    IN  /\ Completed(r) /\ OwnsFollowUp(r)
        /\ reopen => row.status \in {"done", "cancelled"}
        /\ run[r2] = "absent" /\ r2 \in ContextRuns
        /\ run' = [run EXCEPT ![r2] = "queued"]
        /\ row' = IF row.agent = RunAgent[r2] THEN [base EXCEPT !.execution = r2]
                                              ELSE base

\* The issue is still the run's agent's to do.
StillAssigned(r) ==
    /\ OwnsFollowUp(r)
    /\ row.status \in {"todo", "in_progress"}
    /\ row.user = None
    /\ row.agent = RunAgent[r]

\* findExistingExecutionPath: another run of the issue will go on with it.
OtherPath(r) == \E x \in ContextRuns \ {r} : Live(x)

\* The run ended without success, and nothing else will go on with the issue.
Recover(r, r2) ==
    /\ Completed(r) /\ StillAssigned(r) /\ ~OtherPath(r)
    /\ run[r2] = "absent" /\ r2 \in ContextRuns /\ RunAgent[r2] = RunAgent[r]
    /\ run' = [run EXCEPT ![r2] = "queued"]
    /\ row' = [ReleasedBy(row, r) EXCEPT !.execution = r2]

\* Recovery is out of the question: the issue will be escalated, after the
\* transaction.  A run that failed workspace validation asks for no other path.
ReleaseToEscalate(r) ==
    /\ Released(r, "escalating") /\ StillAssigned(r)
    /\ phase[r] \in Finalizing \/ ~OtherPath(r)
    /\ row' = ReleasedBy(row, r)
    /\ UNCHANGED run

Escalated(r, next) ==
    /\ phase' = [phase EXCEPT ![r] = next]
    /\ UNCHANGED <<run, proc, req>>

\* escalateStrandedRecoveryIssueInPlace: whoever is the assignee remains so.
EscalateInPlace(r) ==
    /\ phase[r] = "escalating"
    /\ row' = Blocked(row.agent)
    /\ Escalated(r, "none")

\* escalateStrandedAssignedIssue: the owner of the recovery becomes the
\* assignee; if there is none, the run's agent, and nothing more follows.
Escalate(r, owner) ==
    /\ phase[r] = "escalating"
    /\ row' = Blocked(owner)
    /\ \E next \in {"none", IF owner = RunAgent[r] THEN "reblocking" ELSE "none"} :
            Escalated(r, next)

\* It blocks the issue once more if it is not as it left it.
Reblock(r) ==
    /\ phase[r] = "reblocking"
    /\ row' = IF row.status = "blocked" /\ row.agent = RunAgent[r]
                THEN row ELSE Blocked(RunAgent[r])
    /\ Escalated(r, "none")

\* The PATCH throws when it reads a user as the assignee: no row has two.
EscalationThrows(r) ==
    /\ phase[r] \in {"escalating", "reblocking"}
    /\ row.user # None
    /\ Escalated(r, "none") /\ UNCHANGED row

\* The server process dies: what it had in memory is gone, the rows stay.
Crash ==
    /\ proc' = [r \in Runs |-> "none"]
    /\ phase' = [r \in Runs |-> "none"]
    /\ req' = [q \in Requests |-> Idle]
    /\ UNCHANGED <<row, run>>

RunStep ==
    \/ Wake
    \/ \E r \in Runs :
        \/ WakeElsewhere(r) \/ Claim(r) \/ Stamp(r) \/ Finish(r) \/ Cancel(r)
        \/ GateCancel(r) \/ GateClear(r) \/ RetryDue(r) \/ Reap(r) \/ Interrupt(r) \/ Fold(r)
        \/ ReleaseOnly(r) \/ ReleaseToEscalate(r) \/ EscalateInPlace(r)
        \/ Reblock(r) \/ EscalationThrows(r)
        \/ \E owner \in Agents : Escalate(r, owner)
        \/ \E r2 \in Runs :
            \/ HandOff(r, r2) \/ ScheduleRetry(r, r2) \/ CommentRetry(r, r2)
            \/ Recover(r, r2)
            \/ \E reopen \in BOOLEAN : Promote(r, r2, reopen)

-----------------------------------------------------------------------------
(* Requests of several statements.                                          *)

\* A new HTTP request.
Fresh(q) == q \notin Sweepers /\ req[q].step = "idle"
Goto(q, s) == req' = [req EXCEPT ![q].step = s]
Done(q) == req' = [req EXCEPT ![q] = Idle]
At(q, s) == req[q].step = s

\* POST /issues/:id/checkout, or the harness checkout of executeRun.  A board
\* user checks out for an agent with no run.
StartCheckout(q, a, r, expect) ==
    /\ Fresh(q)
    /\ r # None => run[r] = "running" /\ RunAgent[r] = a
    /\ req' = [req EXCEPT ![q] = [Idle EXCEPT !.op = "checkout", !.agent = a, !.run = r,
                                  !.expect = expect, !.step = "clearExecution"]]
    /\ UNCHANGED <<row, run, proc, phase>>

\* assertCheckoutOwner: every mutation an agent makes on its issue.
StartAssert(q, r) ==
    /\ Fresh(q)
    /\ run[r] = "running"
    /\ req' = [req EXCEPT ![q] = [Idle EXCEPT !.op = "assert", !.agent = RunAgent[r],
                                  !.run = r, !.step = "clearExecution"]]
    /\ UNCHANGED <<row, run, proc, phase>>

\* clearExecutionRunIfTerminal.
ClearExecution(q) ==
    /\ At(q, "clearExecution")
    /\ row' = IF Terminal(row.execution) THEN [row EXCEPT !.execution = None] ELSE row
    /\ Goto(q, "clearCheckout")
    /\ UNCHANGED <<run, proc, phase>>

\* clearCheckoutRunIfTerminal: not while the execution run is alive.
ClearCheckout(q) ==
    /\ At(q, "clearCheckout")
    /\ row' = IF Terminal(row.checkout) /\ ~Live(row.execution) THEN Unlocked(row) ELSE row
    /\ Goto(q, IF req[q].op = "checkout" THEN "take" ELSE "read")
    /\ UNCHANGED <<run, proc, phase>>

\* The WHERE clause of the checkout UPDATE.
Takable(i, me) ==
    /\ i.status \in me.expect
    /\ i.agent = None \/ (i.agent = me.agent /\ i.checkout \in {None, me.run})
    /\ i.execution \in {None, me.run}

\* checkout, the single UPDATE that takes a free issue.
Take(q) ==
    /\ At(q, "take")
    /\ IF Takable(row, req[q])
         THEN /\ row' = [Locked(row, req[q].run) EXCEPT
                          !.status = "in_progress", !.agent = req[q].agent, !.user = None]
              /\ Done(q)
         ELSE Goto(q, "read") /\ UNCHANGED row
    /\ UNCHANGED <<run, proc, phase>>

\* A pause hold or an unresolved blocker refuses the checkout before the UPDATE.
Refuse(q) ==
    /\ At(q, "take")
    /\ Done(q)
    /\ UNCHANGED <<row, run, proc, phase>>

MineInProgress(i, me) == i.agent = me.agent /\ i.status = "in_progress"

Unowned(i, me) ==
    /\ MineInProgress(i, me) /\ me.run # None
    /\ i.checkout = None /\ i.execution \in {None, me.run}

OwnedByOther(i, me) ==
    /\ MineInProgress(i, me) /\ me.run # None
    /\ i.checkout \notin {None, me.run}

ExecutedByOther(i, me) ==
    /\ me.run # None
    /\ i.execution \notin {None, me.run}
    /\ i.agent \in {None, me.agent}

\* What the request tries next, from the row it read.
AfterRead(i, me) ==
    IF Unowned(i, me) THEN "adoptUnowned"
    ELSE IF OwnedByOther(i, me) THEN "adoptStale"
    ELSE IF me.op = "checkout" /\ ExecutedByOther(i, me) THEN "testExecution"
    ELSE "resolve"

\* Both requests read the row again and choose an adoption path.
ReadRow(q) ==
    /\ At(q, "read")
    /\ req' = [req EXCEPT ![q].seen = row, ![q].step = AfterRead(row, req[q])]
    /\ UNCHANGED <<row, run, proc, phase>>

\* checkout: a guarded UPDATE that does not look at the caller's run;
\* assertCheckoutOwner (adoptUnownedCheckoutRun): only a live caller.
AdoptUnowned(q) ==
    LET me == req[q]
        adopts == Unowned(row, me) /\ (me.op = "assert" => ~Terminal(me.run))
    IN  /\ At(q, "adoptUnowned")
        /\ IF adopts THEN row' = Locked(row, me.run) /\ Done(q)
           ELSE Goto(q, "resolve") /\ UNCHANGED row
        /\ UNCHANGED <<run, proc, phase>>

\* adoptStaleCheckoutRun: the row and both runs are locked.
AdoptStale(q) ==
    LET me == req[q]
        adopts == /\ MineInProgress(row, me) /\ row.checkout = me.seen.checkout
                  /\ Terminal(row.checkout) /\ ~Terminal(me.run)
    IN  /\ At(q, "adoptStale")
        /\ IF adopts THEN row' = Locked(row, me.run) /\ Done(q)
           ELSE /\ UNCHANGED row
                /\ IF me.op = "assert" /\ ~me.retried
                     THEN req' = [req EXCEPT ![q].retried = TRUE, ![q].seen = row,
                                             ![q].step = AfterRead(row, me)]
                     ELSE Goto(q, IF me.op = "checkout" /\ ExecutedByOther(me.seen, me)
                                    THEN "testExecution" ELSE "resolve")
        /\ UNCHANGED <<run, proc, phase>>

\* Mutant: any execution run counts as stale.
TestNothing(q) ==
    /\ At(q, "testExecution")
    /\ Goto(q, "adoptExecution")
    /\ UNCHANGED <<row, run, proc, phase>>

\* checkout: is the execution run that was read terminal?
TestExecution(q) ==
    /\ At(q, "testExecution")
    /\ Goto(q, IF Terminal(req[q].seen.execution) THEN "adoptExecution" ELSE "resolve")
    /\ UNCHANGED <<row, run, proc, phase>>

\* checkout: take the issue from a terminal execution run.  The UPDATE guards
\* neither checkoutRunId nor assigneeUserId.
AdoptExecution(q) ==
    LET me == req[q]
        adopts == /\ row.status \in me.expect
                  /\ row.execution = me.seen.execution
                  /\ row.agent \in {None, me.agent}
    IN  /\ At(q, "adoptExecution")
        /\ IF adopts
             THEN /\ row' = [Locked(row, me.run) EXCEPT
                              !.status = "in_progress", !.agent = me.agent]
                  /\ Done(q)
             ELSE Goto(q, "resolve") /\ UNCHANGED row
        /\ UNCHANGED <<run, proc, phase>>

Owns(i, me) == MineInProgress(i, me) /\ i.checkout = me.run

\* The caller already owns the issue, or gets a 409; assertCheckoutOwner looks
\* at the row a second time first.
Resolve(q) ==
    /\ At(q, "resolve")
    /\ IF req[q].op = "assert" /\ ~req[q].retried /\ ~Owns(req[q].seen, req[q])
         THEN req' = [req EXCEPT ![q].retried = TRUE, ![q].step = "read"]
         ELSE Done(q)
    /\ UNCHANGED <<row, run, proc, phase>>

\* Mutant: a field that the PATCH leaves out is written as it came.
RequestedRaw(i, p) == [status |-> p.status, agent |-> p.agent, user |-> p.user]

\* PATCH /issues/:id (issues.update).  The row is read and the change checked
\* against it before the transaction that writes.
Requested(i, p) ==
    [status |-> IF p.status = Keep THEN i.status ELSE p.status,
     agent |-> IF p.agent = Keep THEN i.agent ELSE p.agent,
     user |-> IF p.user = Keep THEN i.user ELSE p.user]

Acceptable(i, p) ==
    LET next == Requested(i, p)
    IN  /\ next.agent = None \/ next.user = None
        /\ p.status = "in_progress" => next.agent # None \/ next.user # None

StartUpdate(q, p) ==
    /\ Fresh(q)
    /\ Acceptable(row, p)
    /\ req' = [req EXCEPT ![q] = [Idle EXCEPT !.op = "update", !.patch = p, !.step = "write",
                                  !.seen.agent = row.agent, !.seen.user = row.user]]
    /\ UNCHANGED <<row, run, proc, phase>>

\* Leaving in_progress, or changing the assignee that was read, drops the lock.
DropsLock(p, seen) ==
    \/ p.status \notin {Keep, "in_progress"}
    \/ p.agent \notin {Keep, seen.agent}
    \/ p.user \notin {Keep, seen.user}

\* Mutant: a PATCH that drops the lock forgets checkoutRunId.
PatchedKeepsCheckout(i, p, seen) ==
    LET next == Requested(i, p)
        base == IF DropsLock(p, seen) THEN [i EXCEPT !.execution = None] ELSE i
    IN  [base EXCEPT !.status = next.status, !.agent = next.agent, !.user = next.user]

Patched(i, p, seen) ==
    LET next == Requested(i, p)
        base == IF DropsLock(p, seen) THEN Unlocked(i) ELSE i
    IN  [base EXCEPT !.status = next.status, !.agent = next.agent, !.user = next.user]

WriteUpdate(q) ==
    /\ At(q, "write")
    /\ row' = Patched(row, req[q].patch, req[q].seen)
    /\ Done(q)
    /\ UNCHANGED <<run, proc, phase>>

\* Mutant: the sweeper looks at checkoutRunId only.
StartCheckoutSweep(q) ==
    /\ q \in Sweepers /\ At(q, "idle")
    /\ row.checkout # None
    /\ req' = [req EXCEPT ![q] = [Idle EXCEPT !.op = "sweep", !.step = "clear",
                                  !.seen.checkout = row.checkout,
                                  !.seen.execution = row.execution]]
    /\ UNCHANGED <<row, run, proc, phase>>

\* sweepStaleIssueLocks: a read of the candidates, then of their runs, then a
\* compare-and-clear.  A run seen terminal is terminal at the write.
StartSweep(q) ==
    /\ q \in Sweepers /\ At(q, "idle")
    /\ row.checkout # None \/ row.execution # None
    /\ req' = [req EXCEPT ![q] = [Idle EXCEPT !.op = "sweep", !.step = "clear",
                                  !.seen.checkout = row.checkout,
                                  !.seen.execution = row.execution]]
    /\ UNCHANGED <<row, run, proc, phase>>

Cleanable(r) == r = None \/ Terminal(r)

Sweep(q) ==
    LET seen == req[q].seen
        clears == /\ Cleanable(seen.checkout) /\ Cleanable(seen.execution)
                  /\ row.checkout = seen.checkout /\ row.execution = seen.execution
    IN  /\ At(q, "clear")
        /\ row' = IF clears THEN Unlocked(row) ELSE row
        /\ Done(q)
        /\ UNCHANGED <<run, proc, phase>>

RequestStep ==
    \E q \in Requests :
        \/ \E a \in Agents, r \in RunOrNone, expect \in Expectations :
                StartCheckout(q, a, r, expect)
        \/ \E r \in Runs : StartAssert(q, r)
        \/ ClearExecution(q) \/ ClearCheckout(q) \/ Take(q) \/ Refuse(q)
        \/ ReadRow(q) \/ AdoptUnowned(q) \/ AdoptStale(q)
        \/ TestExecution(q) \/ AdoptExecution(q) \/ Resolve(q)
        \/ \E p \in Patches : StartUpdate(q, p)
        \/ WriteUpdate(q)
        \/ StartSweep(q) \/ Sweep(q)

-----------------------------------------------------------------------------
(* Requests of one transaction.                                             *)

\* Mutant: a release resets status and assignee and leaves the lock.
ReleaseKeepsLock(r) ==
    /\ run[r] \in {"running", "terminal"}
    /\ row.agent \in {None, RunAgent[r]}
    /\ row' = [row EXCEPT !.status = "todo", !.agent = None]
    /\ UNCHANGED <<run, proc, phase, req>>

\* POST /issues/:id/release by a run of the assignee, which may have ended by
\* now: refused while another live run holds the checkout.
Release(r) ==
    /\ run[r] \in {"running", "terminal"}
    /\ row.agent \in {None, RunAgent[r]}
    /\ ~ /\ row.status = "in_progress" /\ row.agent = RunAgent[r]
         /\ row.checkout \notin {None, r}
         /\ ~Terminal(row.checkout)
    /\ row' = [Unlocked(row) EXCEPT !.status = "todo", !.agent = None]
    /\ UNCHANGED <<run, proc, phase, req>>

\* The board releases with no check at all.
BoardRelease ==
    /\ row' = [Unlocked(row) EXCEPT !.status = "todo", !.agent = None]
    /\ UNCHANGED <<run, proc, phase, req>>

AdminForceRelease(clearAssignee) ==
    /\ row' = [Unlocked(row) EXCEPT !.agent = IF clearAssignee THEN None ELSE @]
    /\ UNCHANGED <<run, proc, phase, req>>

\* cancelIssueStatusesForHold and restoreIssueStatusesForHold.
TreeCancel ==
    /\ row.status \notin {"done", "cancelled"}
    /\ row' = [Unlocked(row) EXCEPT !.status = "cancelled"]
    /\ UNCHANGED <<run, proc, phase, req>>

TreeRestore(status) ==
    /\ row.status = "cancelled"
    /\ row' = [Unlocked(row) EXCEPT !.status = status]
    /\ UNCHANGED <<run, proc, phase, req>>

\* Archiving a member (services/access.ts) hands the open issues of a user on;
\* only those in progress lose their lock.
ArchiveMember(agent, user) ==
    /\ row.user # None /\ row.status \notin {"done", "cancelled"}
    /\ agent = None \/ user = None
    /\ user # row.user
    /\ row' = [(IF row.status = "in_progress"
                  THEN [Unlocked(row) EXCEPT !.status = "todo"] ELSE row)
                    EXCEPT !.agent = agent, !.user = user]
    /\ UNCHANGED <<run, proc, phase, req>>

OwnerStep ==
    \/ \E r \in Runs : Release(r)
    \/ BoardRelease
    \/ \E clearAssignee \in BOOLEAN : AdminForceRelease(clearAssignee)
    \/ TreeCancel
    \/ \E status \in {"todo", "blocked"} : TreeRestore(status)
    \/ \E agent \in Agents \cup {None}, user \in Users \cup {None} : ArchiveMember(agent, user)

Next == RunStep \/ RequestStep \/ OwnerStep \/ Crash

Spec == Init /\ [][Next]_vars

-----------------------------------------------------------------------------
(* Properties.                                                              *)

\* A live run that holds the checkout also holds the execution lock.  Every
\* guard that looks at one column only (the checkout UPDATE, the adoption of
\* a stale execution run, the claim stamp) is right because of it.
LocksAgree == Live(row.checkout) => row.execution = row.checkout

\* A run that was never inserted is named nowhere: a successor inserted by a
\* retry or a promotion starts with no lock and no request.
OnlyInsertedRunsAreNamed ==
    \A r \in Runs : run[r] = "absent" =>
        /\ row.checkout # r /\ row.execution # r
        /\ \A q \in Requests : r \notin {req[q].run, req[q].seen.checkout,
                                         req[q].seen.execution}

\* Finalization is under way for ended runs only.
OnlyEndedRunsAreFinalized == \A r \in Runs : phase[r] # "none" => run[r] = "terminal"

\* The server works on claimed runs only; a cancellation may have ended them.
OnlyClaimedRunsAreWorkedOn ==
    \A r \in Runs : proc[r] # "none" => run[r] \in {"running", "terminal"}

\* What isTerminalOrMissingHeartbeatRun answered before the adoption of an
\* execution run is still so at the adoption.
AdoptedRunHasEnded ==
    \A q \in Requests : At(q, "adoptExecution") => Terminal(req[q].seen.execution)

\* Inductive: LocksAgree and what its preservation rests on.
LockInv ==
    /\ LocksAgree
    /\ OnlyInsertedRunsAreNamed
    /\ OnlyEndedRunsAreFinalized
    /\ OnlyClaimedRunsAreWorkedOn
    /\ AdoptedRunHasEnded

\* While no PATCH writes over a row it read earlier, a live checkout belongs
\* to a run of the assignee of an issue that is in progress.
OwnerIsAssignee ==
    Live(row.checkout) =>
        /\ row.status = "in_progress"
        /\ row.agent = RunAgent[row.checkout]
        /\ row.user = None

\* The lock protocol keeps the promise of CheckoutOwnership: no adoption,
\* self-heal, sweep or finalization hands the checkout of a live run to
\* another run.
Ownership == INSTANCE CheckoutOwnership
                WITH owner <- row.checkout, ended <- {r \in Runs : run[r] = "terminal"}
ImplementsOwnership == Ownership!Spec

\* Finalization never clears a lock that a successor has taken: every step of
\* it, the retry hand-offs included, leaves a column that names another live
\* run as it is.
FinalizationSparesSuccessor ==
    [][\A r \in Runs :
        /\ phase[r] \in Finalizing \cup {"lost", "releasing", "gated"}
        /\ phase'[r] # phase[r]
        => /\ Live(row.checkout) /\ row.checkout # r => row'.checkout = row.checkout
           /\ Live(row.execution) /\ row.execution # r => row'.execution = row.execution]_vars

=============================================================================
