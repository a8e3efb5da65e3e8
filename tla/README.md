# Formal verification of Paperclip's control plane

TLA+ modules, TLC configurations and TLAPS proofs for the parts of the server
that decide **which heartbeat run owns an issue**, **which runs may start**, how a
**run lives and is lost**, what becomes of the **wakes** of an issue, how an **accepted
plan** becomes child issues, and what happens to the **status of an agent**.
Paths are relative to the repository, `services/` stands for
`server/src/services/`.

    tlc -workers 2 -config lock_owner.cfg MCIssueLock.tla     # any run of PROJECT.json
    tlapm IssueLockProofs.tla                                 # and each ...Proofs.tla

## 1. Inventory of the system

Paperclip is a Node server over Postgres that runs AI agents on issues. All
coordination goes through table rows (compare-and-set UPDATEs, transactions
with `FOR UPDATE`) and a few in-memory maps of the one server process.

| Component | State | Operations | Meets | What is hard, and what makes it correct |
|---|---|---|---|---|
| Issue lock (`services/issues.ts`) | `issues.checkoutRunId`, `executionRunId`, status, assignees | checkout with four adoption paths, assertCheckoutOwner, release, force release, PATCH | runs, wakes, sweeper, tree control | several statements per request with others in between; one live owner, never taken over while it lives |
| Heartbeat runs (`services/heartbeat.ts`) | `heartbeat_runs.status`, in-memory set of executions | claim, execute, finish, cancel, gate, reap, drain | issue lock, wake requests, retries | many ways to end, each must give the lock back, none may take a successor's |
| Finalization (`releaseIssueExecutionAndPromote`) | the issue row, deferred wakes | clear, promote a deferred wake, queue a recovery, escalate | all of the above | may come late or twice, effects after its transaction |
| Wake requests (`enqueueWakeup`) | `agent_wakeup_requests`, coalescing | coalesce, defer, skip, throttle, queue | issue lock, runs | no wake parked behind a run that never ends |
| Start lock and dispatch (`services/agent-start-lock.ts`, `startNextQueuedRunForAgent`) | Map of promises per agent | wait, time out, count slots, claim | claim gates that call back into it | not reentrant, 30 s timeout; concurrency limit, no lost start |
| Retries (process loss, bounded, missing comment) | retry run, hand-off of `executionRunId` | schedule, promote when due, cancel by gate | issue lock | lock moves with the retry, no checkout left behind |
| Recovery (`services/recovery/service.ts`) | recovery actions, watchdog decisions | sweep stale locks, escalate, fold silent runs, find stranded issues | issue lock, runs | acts on rows read earlier |
| Tree control (`services/issue-tree-control.ts`) | holds, snapshots of statuses | pause, cancel, restore a subtree | issue lock, cancellation of runs | restore against concurrent work |
| Execution policy (`services/issue-execution-policy.ts`) | stage, participants, decisions | review and approval transitions | PATCH | who may advance a stage, returning to the executor |
| Dependencies and liveness graph (`services/recovery/issue-graph-liveness.ts`) | blocker relations | readiness, incident detection | checkout, dispatch | cycles, blocked chains that nobody works on |
| Run processes (`executeRun`, `reapOrphanedRuns`, the drain, `hot-restart.ts`) | run rows, `runningProcesses`, `activeRunExecutions`, child processes | spawn, finish, cancel, reap, drain, adopt, retry | issue lock, retries, restarts | lists read before, two passes at once, a child that outlives its server |
| Plan decomposition (`decomposeAcceptedPlan`, `routes/issues.ts`) | `issue_plan_decompositions`, child issues | claim a revision, make children one by one, wake them | issues, wakes, recovery | concurrent and repeated requests, a crash in the middle of the fan-out |
| Agents (`services/agents.ts`, `finalizeAgentStatus`) | `agents.status`, `pauseReason` | pause, resume, clear error, terminate, activate | runs, budgets, approvals | written by the board, by budgets and by the end of every run |
| Approvals (`services/approvals.ts`) | `approvals.status` | resolve, request revision, resubmit | agents | two pages decide the same hire |
| Thread interactions | one row per question | request, answer, expire, withdraw | wakes, plans | answered twice, answered after expiry |
| Budgets, quotas (`services/budgets.ts`) | policies, incidents, paused scopes | thresholds, pause, resume | claim gates, agents, cancellation | pause racing a claim |
| Routines (`services/routines.ts`) | triggers, routine runs | cron tick, coalesce, catch up | issues, wakes | a tick twice or never |
| Task watchdogs, productivity review | watchdog state | periodic evaluation | issues | act once per stop |
| Plugins (job scheduler, worker manager, lifecycle) | plugin status, jobs, workers | enable, disable, upgrade, tick, restart with backoff | tool gateway | overlapping ticks, restart storms |
| Tool gateway and runtime supervisor | process slots, leases | start, reuse, stop idle | environments | slot limits |
| Environments, workspaces | leases, worktrees | acquire, release | runs | mostly file system and process I/O |
| Pipelines, secrets, skills, companies, portability, live events, UI, CLI, adapters | their own rows | CRUD, import, export, streaming | HTTP API | no protocol that meets the lock |

`PROJECT.json` lists every component with its status, and under `hazards` every
place in the modelled code that a test would hardly reach.

## 2. Modules

| Module | What it is |
|---|---|
| `IssueLock` | The two lock columns of one issue, and every server operation that writes them |
| `CheckoutOwnership` | What that protocol promises, in 15 lines: abstract specification |
| `IssueLockProofs` | Theorems about `IssueLock`, for every number of runs, agents and requests |
| `AssigneeProofs` | More of them: the owner of the checkout against the assignee of the issue |
| `StartQueue` | The start lock of one agent, and the dispatch of its queued runs under it |
| `RunLife` | Runs, their child processes, and the server that goes down and comes back |
| `WakeQueue` | The wakes of one issue, and the recovery of an issue that nothing moves |
| `PlanDecomposition` | The requests that turn an accepted plan into child issues |
| `PlanTree` | What those requests promise: abstract specification |
| `AgentStatus` | The status of one agent and the approval of its hire |
| `StartProofs`, `RunLifeProofs`, `WakeProofs`, `PlanProofs`, `AgentProofs` | Theorems about the five modules above, for all values of their constants |
| `MC...` | Instances for TLC; `MCIssueLock` has the liveness property of the sweeper too |

The modules meet in the run. Each holds the part of a run that its properties
need: `IssueLock` what a run's steps do to the issue row, with one terminal
status; `RunLife` the real statuses and the process, without the issue;
`WakeQueue` the context a run serves and the release, with one lock column;
`StartQueue` and `AgentStatus` what is counted and whether it may start. They are not
composed: the product of two of them is out of TLC's reach, and what one needs of
another is a free choice in it (a run may end at any time, a gate may refuse, a
release may block).

### IssueLock

State. `row` is the row of the issue (status, the two assignee columns, the two
lock columns). `run[r]` is `heartbeat_runs.status`, with the five terminal
statuses as one value: the lock code only ever asks whether a run is terminal,
on an execution path, or running. `proc[r]` is what the server process does with
run r: nothing, the part of `claimQueuedRun` after its compare-and-set, or
`executeRun` (the maps `activeRunExecutions` and `runningProcesses`).
`phase[r]` is the position of the code that finalizes r, in memory: after
`setRunStatusIfRunning` ("finished", and then "commented" or "scheduled" when a
retry was inserted), after the reaper or the shutdown drain ("lost"),
before `releaseIssueExecutionAndPromote` ("releasing"), between a claim gate's cancel
and its UPDATE of the issue ("gated"), before the PATCHes of an escalation
("escalating", "reblocking"). `req[q]` is an HTTP request or a sweep between two
of its statements, with what it has read.

One action is one SQL statement, or one transaction that takes the row lock
first. So a checkout is up to eight actions, `ClearExecution`, `ClearCheckout`,
`Take`, `ReadRow`, `AdoptUnowned`, `AdoptStale`, `TestExecution` with
`AdoptExecution`, `Resolve`; `assertCheckoutOwner` shares them with its own
order and a second attempt; a PATCH is `StartUpdate` (read and validation) and
`WriteUpdate`; a sweep is `StartSweep` and `Sweep`. `Wake`, `Promote`,
`Recover` and `ReleaseOnly` are each one transaction that holds the row.
`Claim` and `Stamp` are two, because `claimQueuedRun` writes the issue after it
has claimed the run. `Crash` drops everything that is in memory.

What is abstracted:

* one issue; runs are of this issue (`ContextRuns`), of no issue
  (`IssuelessRuns`), or of another;
* statuses `backlog` and `in_review`, and with them the recovery of review
  participants (`heartbeat.ts:14788-14912`);
* `executionAgentNameKey` is compared as the agent itself: two agents of one
  name are not modelled;
* blockers, pause holds, caps and throttles are a free choice to refuse
  (`Refuse`, the skipping wake, `GateCancel`);
* the tables of wake requests, comments and recovery actions;
* the read of `cancelRunInternal` is merged with its write, and the read of each
  escalation PATCH with its write. A terminal run stays terminal here; a
  cancellation that overwrites a finished run and a reaper that revives a
  cancelled one are in `RunLife`;
* the sweeper reads the issue and then the runs: since terminal is absorbing the
  second read is evaluated at the write.

### StartQueue

`latest` is the Map entry of the agent, `call[c]` an open call of
`withAgentStartLock`: the call it waits for, its position in
`startNextQueuedRunForAgent`, the slots it counted and the queued runs it listed.
`Gate` is a claim gate that cancels through `cancelRunInternal`, whose last
statement starts the queue of the same agent again and is awaited: a nested call
under the lock. `trouble` is what may go wrong in a behaviour: a slow call
(it takes the 30 seconds after which a wait gives up), a nested start, a
call that throws or a crash. A wait gives up (`TimeOut`) only behind a slow call
or behind a call that waits for itself (`WaitsForItself`); time is not modelled
beyond that. `Rank` is the dispatch order of `prioritizedRuns`; equal ranks are a
tie. One agent only.

### RunLife

`run[r]` is the row: status, whether a pid is recorded, `retryOfRunId`,
`processLossRetryCount`, and the mark of a detached or adopted process. `child[r]`
is the operating system process, which a crash or a hot restart does not touch.
`exec[r]` is where `executeRun` stands, and with it membership in
`activeRunExecutions`; `tracked` is `runningProcesses`. `pass[p]` is a pass over
the running runs with the rows it listed: of the reaper (at startup, or by the
timer, which starts a pass whether or not the one before has ended) or of the
drain. Between the list and each write other actors move; a pass that the timer
started before the shutdown goes on beside the drain. `fold[r]` is the watchdog
that folds a silent run (`foldSourceResolvedStaleRun`): it lists a running run of
`Silent`, whose issue the run has closed, kills the process, and writes "succeeded" or
"cancelled" if the row is still running; `run[r].folded` is what it notes in
`resultJson`.

`Set` is `setRunStatus`, which overwrites whatever it finds; `SetIfRunning` is
`setRunStatusIfRunning`. Which of the two a step uses is what the properties are
about: the cancellations, the abort at the start and the reaper use `Set`; the
outcome, the set-up failure, the drain and the fold use `SetIfRunning`.

Left out: the child's process group (a descendant that outlives its parent is
part of the child), adapters without a local process, scheduled infrastructure
retries and monitor dispatches, retries of queued runs, and the stale row a
cancellation takes the pid from: the child of a run that started here is always
in `runningProcesses` as well.

### WakeQueue

`enqueueWakeup` holds the issue row; `merge[w]` is a transaction that has read the
row of the run it coalesces into and has not written it yet. That row is not
locked, so the run may be claimed, read by its executor, or ended in between.
`deferred[a]` is the one deferred request of an agent, with the wakes that were
merged into it. `run[r].ctx` is the context of the run, the wakes it serves;
`Begin` reads it and `WriteBack` writes it back. `Zombie` is a running run that
this process does not execute. `Releases` and the actions built on it are the one
transaction of `releaseIssueExecutionAndPromote`. Not every release gets to the
deferred requests: that of a run that did not pass the validation of its workspace
or configuration (status "unfit") returns before it looks at them (`ReleaseUnfit`), and a
promotion or a recovery that no user is responsible for throws and rolls everything
back (`ReleaseThrows`). `Block` is the escalation, after the transaction; until then
`exec[r]` is "blocking". `issue.last` is the latest run of the issue. `Reconcile`,
`SkipRecovery` and `Escalate` are the periodic pass of
`reconcileStrandedAssignedIssues`: it continues a success as often as there is recent
progress, continues a failure once, and blocks the issue otherwise; its wake may be
skipped like any other. `trouble` lets a behaviour have crashes, gates, skipped wakes,
failed validations and throwing releases, or none.

The recovery sees an issue in progress that had a run before, without a monitor, a
blocker or a pause hold, and a run that succeeds is productive by its liveness state
(after a success without any progress the handoff follows, which is left out). Whether
a repeated success made recent progress is a free choice. A row that nothing refers to
stands for a new run, so that behaviours are not cut short by the number of runs.

### PlanDecomposition

`claim[v]` is the row of `issue_plan_decompositions` for a plan revision,
`issues[v]` the children made for it, `call[c]` a request with the children it asks
for. The first transaction claims the revision or compares fingerprints (`Claim`);
then each turn of the loop is one transaction that locks the claim, reads how many
children there are, makes the next one and writes the progress (`MakeChild`), or
finds the list complete (`LeaveLoop`). A request may throw between two of them, and
a crash ends all of them; `WakeNew` wakes the assignees of the children the
request itself made. `Fingerprint` is the fingerprint of the children as the route
prepares them: with the run of the actor in each, and in a serialized request
(of a task watchdog) with the fresh ids each child but the first is blocked on.
`Dispatch` is the periodic pass for assigned issues that never had a run.

`PlanTree` says the same without requests: a revision is settled on one list, and
grows the children of that list one after the other.

### AgentStatus

`agent` is status and pause reason, `approval` the hire approval. `req[q]` is a
request of the board (or a hard stop of the budget) between two of its
statements; `fin[a]` is `finalizeAgentStatus`, three statements: read, count,
write. `exec[r]` is where the start of a run stands: listed by the dispatch,
checked by the claim, claimed, "starting" from the conditional update of the agent to the
call of the adapter, executing, or "stray" when it was cancelled before that call and
its process started nevertheless. The cancellations kill what has a process, and a run
that is starting has none. `AskCancel` cancels one run, and finalizes the agent as well.
`Patch` is PATCH /agents/:id with a status: it writes the status, keeps the reason
of a pause, and cancels no run. `ActivateFails` is an activation that throws after
the decision was committed. The hire may be direct or wait for approval. `faults` and
`stopper`, who paused or terminated the agent last by an operation of its own (not by
PATCH), are history for the properties: the first bounds the crashes to one, no
action reads the second.

Left out: the archive of the company and its reversal, which pause and resume with a reason of
their own; the agent's status as the fold of a silent run writes it, with a guard that
spares halted agents; the status "active", which is idle here; API keys, the
reporting chain, other kinds of approvals, what the approved payload changes, the wake
of the requester.

## 3. Properties

Lock.

* `LocksAgree`: a live run that holds the checkout holds the execution lock.
  Most guards look at only one of the two columns; they are right because of it.
* `ImplementsOwnership`: `IssueLock` implements `CheckoutOwnership`: the checkout
  passes to another run only when it is free or its owner has ended.
* `OwnerIsAssignee`: a live checkout belongs to a run of the agent assignee, and
  the issue is in progress. Only while no PATCH writes over a row it read
  earlier: with PATCHes it is false, see `doc_one_assignee`. A stale PATCH that names
  an agent is the only way it fails: section 6, `OnlyStalePatchesReassign`.
* `FinalizationSparesSuccessor`: no step of a finalization changes a column that
  names another live run. Retry hand-offs and promotions included; the
  escalation after the transaction is excluded, see section 5.
* `LockInv`: the inductive invariant behind the proofs.
* `StaleLockClears`: a lock that only names ended runs does not stay.

Start.

* `StartsAreExclusive`, `CapacityRespected`: one dispatcher at a time, never more
  running runs than `maxConcurrentRuns`, when no call is slow and none is nested.
* `EntryCoversOpenCalls`: the Map entry outlives every open call.
* `CallsReturn`, `WorkConserving`: every start returns, and a queued run does not
  wait for ever with a free slot, even with nested starts; the second when none throws.

Run.

* `RetriedHasEnded`: a run that has a retry has ended, however old the list was
  from which a pass worked.
* `CancelledSucceedsByFoldOnly`: the executor of a cancelled run never makes it a
  success, although a reaper may set it to running again while its child lives. A fold
  may: it finds a row that is running, and an issue that was closed. (The converse is
  not so: a late cancellation overwrites a success.) The field `past` of a row remembers
  cancellations and folds for it; no action reads it.
* `LostRunsEnd`: a run without executor and child does not stay running.

Wake.

* `WakeIsOnce`: a wake is in one live run or in the deferred requests, never in
  two of them.
* `WaitersHaveARun`: what is deferred waits for a live run or for a release that
  is due, or was left behind by a run that did not pass validation, with the issue blocked or
  about to be (`LeftBehind`). A crash, a gate, a skip or a throwing release breaks
  this chain: then only the next wake or the end of another run of the issue moves it.
* `DeferredWakesEnd`: what is deferred is promoted or given up, without those, or left
  behind in that way. A plan has every waiting wake promoted; section 5.
* `RecoveryGivesUp`: failures do not follow each other for ever. An issue that stays open
  has successes again and again, which the pass continues without limit on purpose, or a
  deferred wake that hides it from the pass.
* `StrandedIssueMoves`: an open issue without a live run or a deferred wake gets a run or is
  blocked, whatever crashed, was skipped, threw or was cancelled at a gate.

Plan.

* `ImplementsPlanTree`: whatever requests run at once, are repeated, fail or die, a
  revision gets one list of children and each of them once.
* `BlockersExist`: a serialized child waits for a child that exists. It is the fresh
  ids in the fingerprint that keep serialized requests from taking turns.
* `ReturnsWholeTree`: a request that returns reports the whole list it asked for.
* `ChildrenAreWoken`: a child that may start is woken, by the request or by recovery.

Agent.

* `PausedMeansStopped`: once the request that paused an agent is done, no run that
  counts as running executes while the agent stays paused, whether the pause met it before
  its claim, during its set-up or at work. Only for the operations that pause: a PATCH to
  paused cancels nothing. A process may start for a run that the pause has
  cancelled during its set-up (`exec` is "stray" then): section 5.
* `BudgetSparesTheBoard`: when the board paused or terminated an agent after the budget
  did, no raised budget resumes it, whatever a finalization or a PATCH writes in between. A
  termination by PATCH is not such an operation: section 5.
* `DecisionsTakeEffect`: an agent whose hire is decided does not stay pending,
  unless the server died between the two writes, the activation threw, or a PATCH sent it
  back to pending.
* `OneDecision`: an approval and a rejection do not overwrite each other.

Every component module has one type invariant, `TypeOK`. Each property of a passing
run is refuted when the code is changed in one place the way a bug would (the
definitions commented "Mutant", and `mutants` in `PROJECT.json`).

## 4. Runs

| Run | Instance | Shows |
|---|---|---|
| `lock_owner` | 2 runs of one agent (one of the issue, one of none), 2 agents, 1 request, board and crashes | LocksAgree, OwnerIsAssignee, ImplementsOwnership |
| `lock_patch` | 2 agents with a run each (one of no issue), 1 user, 1 request, PATCHes of assignees and status, board, every step of a run; no crash (`TeamSpec`) | TypeOK, LockInv |
| `lock_succession` | 3 runs of one agent (two of the issue, symmetric, one of none), 1 request; shutdown drain, retries, recoveries, promotions, gates; no crash, no board (`SuccessionSpec`) | LockInv, FinalizationSparesSuccessor |
| `lock_sweep` | 2 runs, 1 request, the sweeper, crashes, fairness | StaleLockClears |
| `start` | 3 calls, 3 runs (two of one rank, one gated), 2 slots; nested starts, or failures and crashes; fairness | TypeOK, StartsAreExclusive, CapacityRespected, EntryCoversOpenCalls, CallsReturn, WorkConserving |
| `run_life` | a silent run and its retry, 2 passes (one while a run is folded), one restart (crash, shutdown or hot); fairness (`BoundedSpec`) | TypeOK, RetriedHasEnded, CancelledSucceedsByFoldOnly, LostRunsEnd |
| `wake` | 3 wakes (one of a second agent, two about comments), 2 run rows that are used again; failed validations, or everything else that may go wrong; fairness | TypeOK, WakeIsOnce, WaitersHaveARun, DeferredWakesEnd, RecoveryGivesUp, StrandedIssueMoves |
| `plan` | 3 requests (one serialized) of 2 runs, 1 revision, lists of one and two children; failures, crashes; fairness | TypeOK, BlockersExist, ReturnsWholeTree, ImplementsPlanTree, ChildrenAreWoken |
| `agent` | 2 runs (symmetric), both ways of hiring; of an agent hired directly, one request that lets it work and one that stops it, repeated at will, with three PATCHes of the status; of one hired by approval, two requests of the two pages; budget, activations that throw, one crash (`FittingSpec`) | TypeOK, PausedMeansStopped, BudgetSparesTheBoard, DecisionsTakeEffect, OneDecision |
| `doc_one_assignee` | 2 runs, 2 requests, PATCHes to a human; no board (`WorkSpec`) | violated: SingleAssignee |
| `doc_plan_resumes` | 2 requests of 2 runs | violated: RetryContinues |
| `doc_terminated` | 2 runs, a request to terminate | violated: TerminatedIsFinal |

Bounds. In `IssueLock` a run is never reused, so the number of runs bounds the
history: with two runs a lock passes once (owner, successor), with three it passes
on from the successor, or a third party interferes. Interleavings of two and more
requests are the subject of the proofs, which hold for every number of them.
`Expectations` is the one set the clients use ("todo" or "in_progress"). In
`RunLife` two runs are the lost run and its one retry (`MaxLosses`), and two passes
are every pair that can overlap; `MaxRestarts` is one, so the server that comes
back stays. While a run is folded only one pass is under way (`BoundedNext`); the
theorems have any number of both. In `WakeQueue` two rows are two live runs at once, and
they are used again, so a behaviour is as long as the wakes and the recoveries make it; three
wakes are one that holds, one that waits or merges, and one of another agent. A run that
does not pass validation and a crash, gate, skip or throw are in no behaviour together
(`UnfitOrElse`), except in the theorems. In
`PlanDecomposition` two children are the smallest list with a middle, and three
requests are two that race with the same fingerprint and one that is serialized;
with one revision an open child from another revision occurs only in requests
that are refused. In `AgentStatus` requests repeat, so two of them are every pair of
operations in the two groups of `Opposed` or of `Deciding`, in any order and any number of
times. The PATCHes to paused and to pending, which the properties except, are in no
passing run.
No cfg has a state constraint. The specifications of `MCIssueLock` leave whole actions out
where the table says so, and `lock_owner` has them all; those of `MCRunLife` and
`MCAgentStatus` bound which steps may overlap, and which requests an agent gets.

Deadlock is checked in `IssueLock`, where a wake is always possible, and in
`StartQueue`, where a call is. In the other four the inputs are finite (a run ends,
each wake and each request is made once, an agent is terminated), so the
system may really stop and the check is off.

Fairness. Weak fairness stands for the event loop, the database and the timers
everywhere; what people and agents do gets none.

* `SweepFairness`: the sweeper runs on the periodic tick and at startup
  (`server/src/index.ts:987, 1119`), so a sweep starts again and again (weak), and
  one of infinitely many that were started reaches its write (strong: a crash may
  interrupt any of them, but not all).
* `StartQueue`: the loop runs continuations of settled promises and due timers,
  the database answers a body's statements, and `resumeQueuedRuns`, on the same
  tick, starts every queue that has a queued run. `WorkConserving` is about
  behaviours in which no call throws and the process does not die.
* `RunLife`: a supervisor starts the server again, passes and cancellations go on,
  executors go on while the child has exited, and a fold that has begun goes on. Strong
  fairness of the periodic list: a row that no pass has handled grows older than five
  minutes, so it is listed in the end, although passes may be under way most of the time.
  Children need not exit.
* `WakeQueue`: transactions end, by a commit or a throw, claimed runs begin and end, the
  recovery pass is periodic, and its wakes are not all skipped. Runs end because adapters
  have time limits and the reaper and the watchdog end the others. `Cancel`, `Gate` and
  `Crash` may never happen.
* `PlanDecomposition`: requests under way go on, the stranded-work pass is
  periodic.
* `AgentStatus` has no liveness property.

## 5. Where the documentation and the code differ

Each run below is a counterexample of TLC; `PROJECT.json` quotes the sentences.

1. `doc_one_assignee`: a PATCH that gives an unassigned issue to a human validates
   "one assignee" against a row it read before, and the checkout for an agent, of a
   second request, that takes the issue in between makes it two.
2. `doc_plan_resumes`: the route puts the actor's run into every child, and the
   fingerprint keeps it: a retry by a later run is refused with 409, although "the
   retry must continue under the same fingerprint".
3. `doc_terminated`: the finalization of a run writes the agent's status that it
   decided before, and undoes a termination that is called irreversible.

The models have these behaviours too; no run singles them out. Three of them are also at
odds with a document:

* the executor looks at the agent, prepares the run, and calls the adapter without
  looking again (`heartbeat.ts:13098, 13583`). A pause in between cancels the run and finds
  no process, so a process works for a paused agent, although "Pause/terminate interrupts
  running local process" (`doc/spec/agent-runs.md:764`);
* a PATCH that terminates an agent keeps the reason of its pause, and a budget that is
  raised (`budgets.ts:264-273`) makes an agent that it had paused idle again, although
  termination is called irreversible;
* the release of a run that did not pass validation blocks the issue and promotes nothing
  (`heartbeat.ts:14480`), although
  `doc/plans/2026-02-20-issue-run-orchestration-plan.md:89-91` has the oldest deferred wake
  promoted on every terminal state.

The others:

* the checkout UPDATE does not check that the caller's run is still alive, so a
  cancelled run can become the owner; the sweeper is the backstop (`StaleLockClears`);
* the adoption of a stale checkout overwrites `executionRunId` of a live run;
  `LocksAgree` limits the damage: the live run cannot hold the checkout;
* the escalation of a stranded issue is a PATCH after the release transaction
  and clears the lock of a run that took it in between;
* a claim gate starts the agent's queue from inside the start lock, waits for
  itself until the timeout, and then two loops claim with the same free slot: hence
  the premise `Orderly` of `CapacityRespected`;
* two passes of the reaper may both find no retry and insert one each, and a late
  cancellation overwrites a success;
* a wake deferred behind a run that a gate cancels, or whose server dies, counts as an
  active path for the recovery and is left until the next wake; so does one whose
  promotion throws;
* a cancelled run that the reaper revives can be folded into a success;
* an agent that waits for approval can be paused and then resumed, and works
  while its approval is open;
* an activation that throws leaves a hire approved and its agent pending. Approving again
  on the approval page does nothing; the agent page activates it.

## 6. Proofs

TLC checks each property on the instance of its run; the theorems hold for every
value of the constants that the module's assumption admits. Every invariant, every
action property and both refinements of the passing runs are proved. Each
theorem has the name of the behaviour it guarantees:

| Module | Theorem | States |
|---|---|---|
| `IssueLockProofs` | `TypeCorrect` | `[]TypeOK` |
| | `LockInvHolds` | `[]LockInv` |
| | `LocksAlwaysAgree` | `[]LocksAgree` |
| | `CheckoutIsOwned` | `ImplementsOwnership`, the refinement of `CheckoutOwnership` |
| | `FinalizationIsSafe` | `FinalizationSparesSuccessor` |
| `AssigneeProofs` | `OnlyStalePatchesReassign` | `[]WorkedByAssignee`, if every PATCH is fresh |
| | `OwnerIsTheAssignee` | `[]OwnerIsAssignee`, if there are no PATCHes |
| `StartProofs` | `TypeCorrect` | `[]TypeOK` |
| | `QueueKept` | `[]QueueInv` |
| | `StartsExclude`, `CapacityHolds`, `EntryCovers` | `[]StartsAreExclusive`, `[]CapacityRespected`, `[]EntryCoversOpenCalls` |
| `RunLifeProofs` | `TypeCorrect` | `[]TypeOK` |
| | `RetriesFollowEnds` | `[]RetriedHasEnded` |
| | `CancellationsLast` | `[]CancelledSucceedsByFoldOnly` |
| `WakeProofs` | `TypeCorrect` | `[]TypeOK` |
| | `WakesAreOnce`, `WaitersAreServed` | `[]WakeIsOnce`, `[]WaitersHaveARun` |
| `PlanProofs` | `TypeCorrect` | `[]TypeOK` |
| | `TreeIsWhole`, `BlockersAlwaysExist` | `[]ReturnsWholeTree`, `[]BlockersExist` |
| | `PlanTreeImplemented` | `ImplementsPlanTree`, the refinement of `PlanTree` |
| `AgentProofs` | `TypeCorrect` | `[]TypeOK` |
| | `BoardStopsStay`, `PauseIsDurable` | `[]BudgetSparesTheBoard`, `[]PausedMeansStopped` |
| | `DecisionsHold`, `OneDecisionHolds` | `[]DecisionsTakeEffect`, `OneDecision` |

All are of the form `Spec => ...`, and none uses fairness.

Assumptions. `RunsAssumption`: null is no agent, user or run, each run has an agent,
patches are patches. `StartAssumption`, `LifeAssumption`: the tables have
finitely many runs (the dispatcher counts them), null is none of the names, the limits
are numbers. `WakeAssumption`: a wake has an agent. `PlanAssumption`: no list
of children is empty and one of them is the longest (the schema of the request has both
bounds). `StatusAssumption`: runs and requests are different. Each is satisfied by
the instances of section 4, where TLC evaluates it.

**IssueLock.** An adoption of a stale execution run
tests the run in one statement and takes the issue in the next, guarding only
`executionRunId`: `AdoptedRunHasEnded` carries the test across. A retry
or a promotion inserts a run and names it in `executionRunId`; the inserted run must
not be named by `checkoutRunId` already: `OnlyInsertedRunsAreNamed`, also of
the requests in progress. A release clears each column only if it names the
finalized run, and must not separate the columns of a live one:
`OnlyEndedRunsAreFinalized`. A claim stamps a run whose status may have changed since:
`OnlyClaimedRunsAreWorkedOn`. `LockInv` is the conjunction.

The step of the induction is cut by actor: what a step does to the run statuses
(`RunsAdvance`: runs are inserted, advance, end, never come back), to the two columns
(`RequestLocks`, `LocksAgreeStep`), to the names in the row and the requests
(`NamedInRowStep`, `RequestEffect`), to processes and phases (`RunPartsStep`);
`WakeEffect` and `EscalationEffect` summarise the two composite actions once. The
refinement (`CheckoutPasses`) maps `owner` to `checkoutRunId` and `ended` to the set of
terminal runs: a step either leaves the checkout, clears it, or gives it to a
run when it was free or its owner had ended, and in that last case ends no run.
`FinalizationIsSafe` uses that the step that moves `phase[r]` is an action of r itself
(`ReleasedByFinalization`).

**The assignee.** A PATCH reads the row, validates it, and writes it later. It is fresh
if it names no agent or finds the agent it read when it writes. With stale ones
`doc_one_assignee` shows an issue in two hands; `OnlyStalePatchesReassign` says that
nothing else does it: with any number of requests, PATCHes, board actions and
crashes, a live checkout belongs to a run of the assignee of an issue in progress.
The invariant adds that a request acts for the agent of the run it names
(`RequestsKnowTheirAgent`); the step uses `LocksAgree` and that a live run is never
inserted again (`LiveBefore`). TLC finds the freshness necessary. Without PATCHes no
user becomes the assignee either, which is `OwnerIsAssignee`.

**StartQueue.** Only under `Orderly` (no slow call, no nested start) is there something to
prove: otherwise the limit can be exceeded, as the code's timeout accepts. Then the open calls
form a chain in which each waits for the one before it and the Map entry is the tail
(`Chained`); no set of calls waits for itself (`NoCycle`), so nobody times out
and `latest` names a call that still stands. The head alone is in the body of
`startNextQueuedRunForAgent`, and the slots it has left are free: running runs plus
slots stay within the limit (`SlotsFree`), although runs end and are inserted while it
works. When the head leaves, the call that waited for it is the next head
(`ChainShrinks`).

**RunLife.** The hazard is an old list: a pass may handle a row long after it read it, and a reaper
that saw the child alive sets a run to running again. `RetriedHasEnded` is inductive
with `Settled`: a retried run has ended, and if a reaper has it in its list, no reaper will
find its child alive without a handle (`Gone`): its process id is not recorded, its child is
dead, or this server still executes it. This rests on the facts about process ids of `RowOK`
and `PassKnows`: an id is recorded once its child was spawned and is not taken back. A pass
that goes on beside the drain is part of it, and so is the fold, which writes only
rows that are running and so never a retried one. `CancelledSucceedsByFoldOnly` is about
all that follows a cancellation, and takes an invariant of its own (`CancelledInv`): a run
that was cancelled, and not folded since, has not succeeded, and if it is running again,
no executor is left that could still report a success.

**WakeQueue.** `WakeIsOnce` needs that a wake not asked for yet, or on its way into a holder, is
nowhere else (`PlacesOK`). Then the proof lists where each action puts wakes: in the
holder (`PlaceOfWake`), with the deferred, in a new run, or from the deferred
into the promoted run (`PlaceOfPromoted`); `NothingPlaced` deals with the rest.
`WaitersHaveARun` has as its premise that no crash, gate, skip or throwing release came
between. A run that did not pass validation may leave its waiters, but then the issue is
blocked or about to be, and behaviours with such runs are known as such (`UnfitIsKnown`).
Under the premise
(`CalmOK`) the run that the lock names still has its release before it, the holder that
a wake merges into does not end within the transaction, and what executes is running.

**PlanDecomposition.** `CallsAgree`: a request in the loop asks for the list that the
revision was settled on. `ClaimKnowsIssues`: the children recorded by the claim are a prefix
of that list and are the issues that exist, each made for its position. So a
transaction of the loop, run by whichever request comes first, makes the next child of `PlanTree` or
repeats one, and a serialized request never has company: its fingerprint contains
ids that no other request has. `OpenExists` covers the first blocker, read before the loop.

**AgentStatus.** `PausedMeansStopped` is inductive as `PauseReachesRuns`: while the agent is
paused and the server has not died, a run that executes or is being set up, and was not
cancelled, is in the list of a request that has still to cancel it, or a request has still
to make its list. A run begins to work only while the agent may (`WorksSince`: the
conditional update), only a request pauses (`PausedByRequest`), and a request that paused
goes on to cancel (`HaltGoesOn`). That no PATCH pauses is a premise, and `PatchesAreAsked`
carries it to the writes. `BudgetSparesTheBoard` is inductive as it stands: a hard stop
leaves halted agents alone, and the board's own operations replace the reason.
`DecisionsTakeEffect` and `OneDecision` follow a resolved request from its
compare-and-set to its effect on the agent, or to the fault that prevents it.

Only model-checked: the liveness properties `StaleLockClears`, `CallsReturn`,
`WorkConserving`, `LostRunsEnd`, `DeferredWakesEnd`, `RecoveryGivesUp`,
`StrandedIssueMoves` and `ChildrenAreWoken`. Their proofs need the ENABLED of fair
actions, which the prover does not reason about. The three violations of section 5 are
counterexamples of TLC.

## 7. Plan

Done: the models of section 2 with their instances; proofs of every safety property
of the passing runs. None of the modules declares a RECURSIVE operator, so all can be
proved about. Next:

1. By how much a nested start can exceed the limit in `StartQueue`: what
   `CapacityRespected` is without `Orderly`.
2. The safety core of the liveness properties: that where a lost run, a deferred
   wake or an unwoken child waits, some step of a fair action is before it.
3. How many retries a run can have in `RunLife` when passes overlap.
4. Which orders of PATCHes and checkouts keep a single assignee.

Candidates for further modules: the stages of `services/issue-execution-policy.ts` with the
review states of the issue; thread interactions, answered once; routines (trigger
claims and coalescing); plugin job scheduling; the slots of the tool runtime
supervisor; two agents in `StartQueue`.

Not modelled, and not planned: file-system and process I/O (environments,
workspaces, adapters), CRUD services, the UI and the CLI. They make up most of the
repository's lines, and have no protocol between actors for a model to check.
