----------------------------- MODULE WakeQueue -----------------------------
(***************************************************************************)
(* The wakes of one issue (services/heartbeat.ts, enqueueWakeup and         *)
(* releaseIssueExecutionAndPromote): a wake becomes a queued run, or is     *)
(* merged into a run of the same agent, or waits behind the run that holds  *)
(* the issue, or is skipped.  The end of a run promotes what waits; the     *)
(* periodic recovery looks after an issue that nothing moves.               *)
(*                                                                         *)
(* The issue row is locked by enqueueWakeup and by the release; the rows of *)
(* the runs are not.  The agents take part through their wakes, and are     *)
(* invokable.  The lock columns in full, and the retries, are in IssueLock. *)
(*                                                                         *)
(* The recovery sees an issue in progress with an earlier run: without a    *)
(* monitor, a blocker or a pause hold, and with one attempt allowed.  A run *)
(* that succeeds is productive by its liveness state: what follows one that *)
(* is not, the handoff, is left out.                                        *)
(***************************************************************************)
EXTENDS FiniteSets

CONSTANTS
    Wakes,     \* wakes of the issue
    Comments,  \* those of them about a comment
    Agents,
    For,       \* the agent of each wake
    Assignee,  \* the agent the issue is assigned to
    Runs,      \* heartbeat runs of the issue
    None,      \* no run
    Troubles   \* sets of what may go wrong, of the kinds below

Kinds == {"crash",   \* the server dies
          "gate",    \* a gate cancels a queued run
          "skip",    \* a throttle, a cap, a budget or a dependency skips a wake
          "unfit",   \* a workspace does not validate, a configuration is incomplete
          "throw"}   \* no user is responsible for a run that a release would queue

ASSUME WakeAssumption ==
    /\ Comments \subseteq Wakes
    /\ For \in [Wakes -> Agents]
    /\ Assignee \in Agents
    /\ None \notin Runs
    /\ Troubles \subseteq SUBSET Kinds

VARIABLES
    run,       \* the runs
    lock,      \* issues.execution_run_id
    issue,     \* its status, and its latest run; None for an earlier one that failed
    deferred,  \* agent_wakeup_requests, deferred_issue_execution, by agent
    merge,     \* the run that a wake is being merged into, its row read before
    asked,     \* wakes that were asked for
    read,      \* wakes that an executor has read
    exec,      \* what the server knows of the execution of each run
    trouble    \* what may go wrong in this behaviour

vars == <<run, lock, issue, deferred, merge, asked, read, exec, trouble>>

\* "unfit" is a run that failed for its workspace or its configuration.  A
\* recovery follows a "lost" run, or a "productive" one.
RunRows == [status : {"absent", "queued", "running", "succeeded", "failed", "unfit"},
            agent : Agents, ctx : SUBSET Wakes, rec : {"no", "lost", "productive"}]
NoRow == [status |-> "absent", agent |-> Assignee, ctx |-> {}, rec |-> "no"]
Issues == [state : {"open", "closed", "blocked"}, last : Runs \cup {None}]

TypeOK ==
    /\ run \in [Runs -> RunRows]
    /\ lock \in Runs \cup {None}
    /\ issue \in Issues
    /\ deferred \in [Agents -> SUBSET Wakes]
    /\ merge \in [Wakes -> Runs \cup {None}]
    /\ asked \subseteq Wakes /\ read \subseteq Wakes
    /\ exec \in [Runs -> {"none", "claimed", "setup", "going", "ended", "blocking"}]
    /\ trouble \in Troubles

Init ==
    /\ run = [r \in Runs |-> NoRow]
    /\ lock = None
    /\ issue = [state |-> "open", last |-> None]
    /\ deferred = [a \in Agents |-> {}]
    /\ merge = [w \in Wakes |-> None]
    /\ asked = {} /\ read = {}
    /\ exec = [r \in Runs |-> "none"]
    /\ trouble \in Troubles

-----------------------------------------------------------------------------

Is(r, s) == run[r].status = s
LiveRuns == {r \in Runs : run[r].status \in {"queued", "running"}}

\* Nobody holds the issue row.
RowFree == \A w \in Wakes : merge[w] = None

\* A row that nothing refers to stands for a new one.
Fresh == {q \in Runs : q \notin LiveRuns \cup {lock, issue.last} /\ exec[q] = "none"}

QueuedRun(a, wakes, recovery) ==
    [status |-> "queued", agent |-> a, ctx |-> wakes, rec |-> recovery]
Latest(q) == issue' = [issue EXCEPT !.last = q]
Open == issue.state = "open"
Failed(r) == run[r].status \in {"failed", "unfit"}

-----------------------------------------------------------------------------
(* enqueueWakeup.                                                           *)

\* A queued holder whose agent is no longer the assignee gives way.
Rerouted == {r \in {lock} \cap Runs : Is(r, "queued") /\ run[r].agent # Assignee}

\* The run that holds the issue: the one the lock names, else any live run of
\* the issue, a running one first.
Holders ==
    LET live == LiveRuns \ Rerouted
        running == {r \in live : Is(r, "running")}
    IN  IF lock \in live THEN {lock} ELSE IF running # {} THEN running ELSE live

\* isZombieRun: running, and not in memory.
Zombie(r) == Is(r, "running") /\ exec[r] \notin {"setup", "going"}

SameAgent(w, h) == run[h].agent = For[w]

Coalesces(w, h) ==
    /\ SameAgent(w, h) /\ ~Zombie(h)
    /\ ~(Is(h, "running") /\ w \in Comments)

\* The wake waits for the end of h.
Waits(w, h) == ~Coalesces(w, h) /\ ~(SameAgent(w, h) /\ Zombie(h))

GiveWay == [r \in Runs |-> IF r \in Rerouted THEN [run[r] EXCEPT !.status = "failed"] ELSE run[r]]

\* The holder is read; its row is written with the merged context when the
\* transaction commits.
Coalesce(w, h) ==
    /\ RowFree /\ w \notin asked /\ h \in Holders /\ Coalesces(w, h)
    /\ merge' = [merge EXCEPT ![w] = h]
    /\ asked' = asked \cup {w}
    /\ UNCHANGED <<run, lock, issue, deferred, read, exec, trouble>>

Merge(w) ==
    /\ merge[w] # None
    /\ run' = [GiveWay EXCEPT ![merge[w]].ctx = @ \cup {w}]
    /\ lock' = merge[w]
    /\ merge' = [merge EXCEPT ![w] = None]
    /\ UNCHANGED <<issue, deferred, asked, read, exec, trouble>>

\* One deferred request for each agent: a later wake is merged into it.
Defer(w, h) ==
    /\ RowFree /\ w \notin asked /\ h \in Holders /\ Waits(w, h)
    /\ deferred' = [deferred EXCEPT ![For[w]] = @ \cup {w}]
    /\ lock' = h
    /\ run' = GiveWay
    /\ asked' = asked \cup {w}
    /\ UNCHANGED <<issue, merge, read, exec, trouble>>

\* No run in the way.
Unheld(w) == \A h \in Holders : SameAgent(w, h) /\ Zombie(h)

\* A run is queued; it gets the lock when it is claimed.
Queue(w, q) ==
    /\ RowFree /\ w \notin asked /\ Unheld(w)
    /\ q \in Fresh
    /\ run' = [GiveWay EXCEPT ![q] = QueuedRun(For[w], {w}, "no")]
    /\ Latest(q)
    /\ lock' = IF lock \in LiveRuns \ Rerouted THEN lock ELSE None
    /\ asked' = asked \cup {w}
    /\ UNCHANGED <<deferred, merge, read, exec, trouble>>

\* The throttle, the daily cap or open dependencies: the wake is skipped.
Skip(w) ==
    /\ "skip" \in trouble
    /\ RowFree /\ w \notin asked /\ Unheld(w)
    /\ asked' = asked \cup {w}
    /\ lock' = IF lock \in LiveRuns \ Rerouted THEN lock ELSE None
    /\ run' = GiveWay
    /\ UNCHANGED <<issue, deferred, merge, read, exec, trouble>>

-----------------------------------------------------------------------------
(* The run.                                                                 *)

\* claimQueuedRun, by compare-and-set.
Claim(r) ==
    /\ Is(r, "queued")
    /\ r \in Rerouted => RowFree
    /\ run' = [run EXCEPT ![r].status = "running"]
    /\ exec' = [exec EXCEPT ![r] = "claimed"]
    /\ UNCHANGED <<lock, issue, deferred, merge, asked, read, trouble>>

\* The run takes the lock if it is free and the agent the assignee; that
\* statement waits for the issue row.
Stamps(r) == lock \in {None, r} /\ run[r].agent = Assignee

\* After it, executeRun reads the run, and the context in it.
Begin(r) ==
    /\ exec[r] = "claimed"
    /\ Stamps(r) => RowFree
    /\ lock' = IF Stamps(r) THEN r ELSE lock
    /\ exec' = [exec EXCEPT ![r] = IF Is(r, "running") THEN "setup" ELSE "none"]
    /\ read' = IF Is(r, "running") THEN read \cup run[r].ctx ELSE read
    /\ UNCHANGED <<run, issue, deferred, merge, asked, trouble>>

\* The context is written back as it was read, and the adapter starts.
WriteBack(r) ==
    /\ exec[r] = "setup"
    /\ run' = [run EXCEPT ![r].ctx = @ \cap read]
    /\ exec' = [exec EXCEPT ![r] = "going"]
    /\ UNCHANGED <<lock, issue, deferred, merge, asked, read, trouble>>

Ends(r, status) ==
    /\ run' = [run EXCEPT ![r].status = status]
    /\ exec' = [exec EXCEPT ![r] = "ended"]

\* The run ends; the agent may have closed the issue.
End(r, status, closes) ==
    /\ exec[r] \in {"setup", "going"} /\ Is(r, "running")
    /\ status = "unfit" => "unfit" \in trouble
    /\ Ends(r, status)
    /\ issue' = [issue EXCEPT !.state = IF closes THEN "closed" ELSE @]
    /\ UNCHANGED <<lock, deferred, merge, asked, read, trouble>>

\* cancelRunInternal.
Cancel(r) ==
    /\ r \in LiveRuns
    /\ Ends(r, "failed")
    /\ UNCHANGED <<lock, issue, deferred, merge, asked, read, trouble>>

\* A gate of claimQueuedRun that cancels the run, clears its lock, and releases
\* nothing.
Gate(r) ==
    /\ "gate" \in trouble
    /\ Is(r, "queued") /\ RowFree
    /\ run' = [run EXCEPT ![r].status = "failed"]
    /\ lock' = IF lock = r THEN None ELSE lock
    /\ UNCHANGED <<issue, deferred, merge, asked, read, exec, trouble>>

-----------------------------------------------------------------------------
(* releaseIssueExecutionAndPromote, one transaction.                        *)

\* Mutant: only the run that holds the lock is released.
ReleasesHolder(r, refused) ==
    /\ exec[r] = "ended" /\ RowFree /\ lock = r
    /\ \A a \in refused : deferred[a] # {}

\* The assignee's run did not pass validation: what waits is not looked at.
Unfit(r) == Open /\ Is(r, "unfit") /\ run[r].agent = Assignee

\* r has ended, and the issue is not another run's.  The requests of the agents
\* in refused, not invokable or paused, are given up on the way.
Releases(r, refused) ==
    /\ exec[r] = "ended" /\ RowFree /\ lock \in {r, None}
    /\ ~Unfit(r)
    /\ \A a \in refused : deferred[a] # {}

\* Mutant: the requests are deleted.
WithoutRows(refused) == [a \in Agents \ refused |-> deferred[a]]

Without(refused) == [a \in Agents |-> IF a \in refused THEN {} ELSE deferred[a]]

Released(r) == exec' = [exec EXCEPT ![r] = "none"]

\* Another run holds the issue.
ReleaseNothing(r) ==
    /\ exec[r] = "ended" /\ RowFree /\ lock \notin {r, None}
    /\ Released(r)
    /\ UNCHANGED <<run, lock, issue, deferred, merge, asked, read, trouble>>

\* The result is "blocked": the issue row is free, and is blocked thereafter.
Blocks(r) ==
    /\ exec' = [exec EXCEPT ![r] = "blocking"]
    /\ lock' = None

ReleaseUnfit(r) ==
    /\ exec[r] = "ended" /\ RowFree /\ lock \in {r, None}
    /\ Unfit(r)
    /\ Blocks(r)
    /\ UNCHANGED <<run, issue, deferred, merge, asked, read, trouble>>

\* Mutant: the promoted request stays deferred.
PromoteAgain(r, refused, a, q) ==
    /\ Releases(r, refused)
    /\ a \notin refused /\ deferred[a] # {}
    /\ q \in Fresh
    /\ run' = [run EXCEPT ![q] = QueuedRun(a, deferred[a], "no")]
    /\ Latest(q)
    /\ deferred' = Without(refused)
    /\ lock' = IF a = Assignee THEN q ELSE None
    /\ Released(r)
    /\ UNCHANGED <<merge, asked, read, trouble>>

\* What waits becomes a run, which has the lock if its agent is the assignee.
Promote(r, refused, a, q) ==
    /\ Releases(r, refused)
    /\ a \notin refused /\ deferred[a] # {}
    /\ q \in Fresh
    /\ run' = [run EXCEPT ![q] = QueuedRun(a, deferred[a], "no")]
    /\ Latest(q)
    /\ deferred' = Without(refused \cup {a})
    /\ lock' = IF a = Assignee THEN q ELSE None
    /\ Released(r)
    /\ UNCHANGED <<merge, asked, read, trouble>>

\* Mutant: nobody looks for what waits.
ReleasesBlindly(r, refused) ==
    /\ Releases(r, refused)
    /\ deferred' = Without(refused)

\* Nothing is left to promote.
ReleasesLast(r, refused) ==
    /\ Releases(r, refused)
    /\ \A a \in Agents \ refused : deferred[a] = {}
    /\ deferred' = Without(refused)

\* The assignee's run failed, and nothing else moves the issue.
Strands(r) ==
    /\ Open /\ Failed(r) /\ run[r].agent = Assignee
    /\ LiveRuns = {}

\* A run is to be queued that no user is responsible for: all is rolled back.
ReleaseThrows(r, refused) ==
    /\ "throw" \in trouble
    /\ Releases(r, refused)
    /\ \/ \E a \in Agents \ refused : deferred[a] # {}
       \/ Strands(r) /\ run[r].rec = "no"
    /\ Released(r)
    /\ UNCHANGED <<run, lock, issue, deferred, merge, asked, read, trouble>>

ReleaseOnly(r, refused) ==
    /\ ReleasesLast(r, refused)
    /\ Released(r)
    /\ ~Strands(r)
    /\ lock' = None
    /\ UNCHANGED <<run, issue, merge, asked, read, trouble>>

\* Mutant: a recovery is recovered.
RecoverAgain(r, refused, q) ==
    /\ ReleasesLast(r, refused)
    /\ Strands(r)
    /\ q \in Fresh
    /\ run' = [run EXCEPT ![q] = QueuedRun(Assignee, {}, "lost")]
    /\ Latest(q)
    /\ lock' = q
    /\ Released(r)
    /\ UNCHANGED <<merge, asked, read, trouble>>

ReleaseAndRecover(r, refused, q) ==
    /\ ReleasesLast(r, refused)
    /\ Strands(r) /\ run[r].rec = "no"
    /\ q \in Fresh
    /\ run' = [run EXCEPT ![q] = QueuedRun(Assignee, {}, "lost")]
    /\ Latest(q)
    /\ lock' = q
    /\ Released(r)
    /\ UNCHANGED <<merge, asked, read, trouble>>

\* A recovery failed, or its agent is not invokable.
ReleaseAndBlock(r, refused) ==
    /\ ReleasesLast(r, refused)
    /\ Strands(r)
    /\ Blocks(r)
    /\ UNCHANGED <<run, issue, merge, asked, read, trouble>>

\* escalateStrandedAssignedIssue, after the transaction, whatever came between.
Block(r) ==
    /\ exec[r] = "blocking" /\ RowFree
    /\ issue' = [issue EXCEPT !.state = "blocked"]
    /\ Released(r)
    /\ UNCHANGED <<run, lock, deferred, merge, asked, read, trouble>>

-----------------------------------------------------------------------------
(* Crashes and the periodic recovery.                                       *)

Crash ==
    /\ "crash" \in trouble
    /\ exec' = [r \in Runs |-> "none"]
    /\ merge' = [w \in Wakes |-> None]
    /\ UNCHANGED <<run, lock, issue, deferred, asked, read, trouble>>

\* reapOrphanedRuns.
Reap(r) ==
    /\ Is(r, "running") /\ exec[r] = "none"
    /\ Ends(r, "failed")
    /\ UNCHANGED <<lock, issue, deferred, merge, asked, read, trouble>>

\* The stale-lock sweeper.
Sweep ==
    /\ RowFree
    /\ lock # None /\ lock \notin LiveRuns /\ exec[lock] = "none"
    /\ lock' = None
    /\ UNCHANGED <<run, issue, deferred, merge, asked, read, exec, trouble>>

\* reconcileStrandedAssignedIssues: hasActiveExecutionPath, a live run or a
\* deferred wake, is what it looks at.
NothingWaits == \A a \in Agents : deferred[a] = {}
ActivePath == LiveRuns # {} \/ ~NothingWaits

Stranded == Open /\ ~ActivePath /\ RowFree

\* The latest run of the issue: another one, or how it ended.
Succeeded == issue.last # None /\ Is(issue.last, "succeeded")
FailedAs(recs) == issue.last # None /\ Failed(issue.last) /\ run[issue.last].rec \in recs

\* A success is continued, without limit as long as there is visible progress; a
\* failure once.
Reconcile(q) ==
    /\ Stranded
    /\ ~FailedAs({"lost", "productive"})
    /\ q \in Fresh
    /\ run' = [run EXCEPT ![q] =
                QueuedRun(Assignee, {}, IF Succeeded THEN "productive" ELSE "lost")]
    /\ Latest(q)
    /\ lock' = None
    /\ UNCHANGED <<deferred, merge, asked, read, exec, trouble>>

\* The wake of the recovery is skipped like any other, before the transaction or
\* in it.
SkipRecovery ==
    /\ "skip" \in trouble
    /\ Stranded
    /\ ~FailedAs({"lost", "productive"})
    /\ lock' \in {lock, None}
    /\ UNCHANGED <<run, issue, deferred, merge, asked, read, exec, trouble>>

\* Mutant: a recovery that failed is let be.
EscalateSucceeded ==
    /\ Stranded
    /\ Succeeded /\ run[issue.last].rec = "productive"
    /\ issue' = [issue EXCEPT !.state = "blocked"]
    /\ lock' = None
    /\ UNCHANGED <<run, deferred, merge, asked, read, exec, trouble>>

\* A continued success without recent progress, a failed recovery, or an
\* incomplete configuration.
Escalate ==
    /\ Stranded
    /\ \/ Succeeded /\ run[issue.last].rec = "productive"
       \/ FailedAs({"lost", "productive"})
       \/ issue.last # None /\ Is(issue.last, "unfit")
    /\ issue' = [issue EXCEPT !.state = "blocked"]
    /\ lock' = None
    /\ UNCHANGED <<run, deferred, merge, asked, read, exec, trouble>>

-----------------------------------------------------------------------------

WakeStep(w) ==
    \/ Skip(w)
    \/ \E r \in Runs : Coalesce(w, r) \/ Defer(w, r) \/ Queue(w, r)

ReleaseStep(r) ==
    \/ ReleaseNothing(r) \/ ReleaseUnfit(r)
    \/ \E refused \in SUBSET Agents :
        \/ ReleaseThrows(r, refused)
        \/ ReleaseOnly(r, refused) \/ ReleaseAndBlock(r, refused)
        \/ \E q \in Runs :
            \/ ReleaseAndRecover(r, refused, q)
            \/ \E a \in Agents : Promote(r, refused, a, q)

Statuses == {"succeeded", "failed", "unfit"}
RunStep(r) ==
    \/ Claim(r) \/ Begin(r) \/ WriteBack(r) \/ Reap(r) \/ ReleaseStep(r) \/ Block(r)
    \/ \E s \in Statuses, closes \in BOOLEAN : End(r, s, closes)

RecoveryStep == Sweep \/ SkipRecovery \/ Escalate \/ \E q \in Runs : Reconcile(q)

Next ==
    \/ \E w \in Wakes : WakeStep(w) \/ Merge(w)
    \/ \E r \in Runs : RunStep(r) \/ Cancel(r) \/ Gate(r)
    \/ RecoveryStep
    \/ Crash

Spec == Init /\ [][Next]_vars

\* Transactions commit, queues are started and runs end; the recoveries are jobs
\* of the server's periodic tick, whose wakes are not all skipped.
Fairness ==
    /\ WF_vars(\E w \in Wakes : Merge(w))
    /\ \A r \in Runs : WF_vars(RunStep(r))
    /\ WF_vars(RecoveryStep)

FairSpec == Spec /\ Fairness

-----------------------------------------------------------------------------
(* Properties.                                                              *)

\* Nothing ends a run without its release, which commits.
Calm == trouble \subseteq {"unfit"}

\* A wake is never in two places at once: two live runs, or a live run and the
\* deferred requests.
WakeIsOnce ==
    \A w \in Wakes :
        /\ \A r, q \in LiveRuns : w \in run[r].ctx \cap run[q].ctx => r = q
        /\ \A a \in Agents, r \in LiveRuns : w \notin run[r].ctx \cap deferred[a]

\* What waits, waits for something: a live run, or one whose release is due.  A
\* run that did not pass validation leaves it behind, and then the issue is
\* blocked, or about to be, where people see it.  A crash, a gate, a skipped wake
\* or a release that is rolled back may leave it behind without that.
LeftBehind ==
    /\ "unfit" \in trouble
    /\ issue.state = "blocked" \/ \E r \in Runs : exec[r] = "blocking"

WaitersHaveARun ==
    Calm /\ ~NothingWaits =>
        LiveRuns # {} \/ LeftBehind \/ \E r \in Runs : exec[r] = "ended"

\* A wake that waits behind a run does not wait for ever, unless a run that did not
\* pass validation blocks the issue: without such runs, it never does.
DeferredWakesEnd == Calm /\ ~NothingWaits ~> NothingWaits \/ LeftBehind

\* An issue that nobody closes is blocked where people see it, unless its
\* recoveries succeed again and again, or a wake that was left behind hides it from
\* the recovery: failures do not follow each other for ever, whatever goes wrong.
RecoveryGivesUp == <>[]~Open \/ []<>Succeeded \/ <>[]~NothingWaits

\* An open issue that has neither a live run nor a deferred wake gets a run, or
\* is blocked visibly, whatever crashed, was skipped, threw or was cancelled.
StrandedIssueMoves == Open /\ ~ActivePath ~> ~Open \/ ActivePath
=============================================================================
