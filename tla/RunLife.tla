------------------------------ MODULE RunLife ------------------------------
(***************************************************************************)
(* The life of heartbeat runs that a local child process executes           *)
(* (services/heartbeat.ts): the executor that spawns the child and writes   *)
(* the outcome, the cancellations, the passes of the orphan reaper, the     *)
(* drain of a graceful shutdown, hot restarts, crashes, the retry of a run  *)
(* whose process was lost, and the fold of a silent run that closed its     *)
(* issue itself (services/recovery/service.ts).                             *)
(*                                                                         *)
(* The rows of heartbeat_runs survive the server; runningProcesses,         *)
(* activeRunExecutions and whatever is under way do not; a child may        *)
(* survive too.  Issue locks and the dispatch of queued runs are in         *)
(* IssueLock and StartQueue.  A child's descendants are part of the child.  *)
(***************************************************************************)
EXTENDS Naturals, FiniteSets

CONSTANTS
    Runs,        \* heartbeat runs
    Woken,       \* the runs that a wake inserts; the others are for retries
    Silent,      \* the runs that may fall silent after closing their issue
    None,        \* no run
    Passes,      \* passes of the reaper or of the drain that may be under way
    MaxLosses,   \* bound on processLossRetryCount
    MaxRestarts  \* bound on how often the server goes down

ASSUME LifeAssumption ==
    /\ IsFiniteSet(Runs) /\ Woken \subseteq Runs /\ Silent \subseteq Runs
    /\ None \notin Runs
    /\ MaxLosses \in Nat /\ MaxRestarts \in Nat

VARIABLES
    run,       \* heartbeat_runs
    child,     \* the operating system process of each run
    exec,      \* where executeRun is, for each run
    tracked,   \* the keys of runningProcesses
    pass,      \* passes of reapOrphanedRuns and drainRunningRunsForShutdown
    cancel,    \* where the cancellation of each run is
    fold,      \* where the fold of each run is
    server,    \* the server process
    restarts   \* how often it went down

vars == <<run, child, exec, tracked, pass, cancel, fold, server, restarts>>
memory == <<exec, tracked, pass, cancel, fold>>

Ended == {"succeeded", "failed", "cancelled", "interrupted"}
Statuses == {"absent", "queued", "running"} \cup Ended
Pasts == {"plain", "cancelled", "folded"}
RunRows == [status : Statuses, pid : BOOLEAN, of : Runs \cup {None},
            losses : 0..MaxLosses, mark : {"none", "detached", "adopted"},
            past : Pasts]
PassRecords == [kind : {"startup", "periodic", "drain"},
                step : {"idle", "scan", "write", "lost", "insert"},
                list : UNION {[S -> RunRows] : S \in SUBSET Runs},
                cur : Runs \cup {None}]

NoRow == [status |-> "absent", pid |-> FALSE, of |-> None, losses |-> 0, mark |-> "none",
          past |-> "plain"]
Nothing == [r \in {} |-> NoRow]
IdlePass == [kind |-> "periodic", step |-> "idle", list |-> Nothing, cur |-> None]

\* A pass that is under way has rows to handle, and works on one of them.
PassOK(s) ==
    /\ s.step = "idle" <=> DOMAIN s.list = {}
    /\ s.cur \in IF s.step \in {"idle", "scan"} THEN {None} ELSE DOMAIN s.list

TypeOK ==
    /\ run \in [Runs -> RunRows]
    /\ child \in [Runs -> {"none", "alive", "dead"}]
    /\ exec \in [Runs -> {"none", "claimed", "setup", "adapter", "tail"}]
    /\ tracked \subseteq Runs
    /\ pass \in [Passes -> PassRecords]
    /\ \A p \in Passes : PassOK(pass[p])
    /\ cancel \in [Runs -> {"none", "read", "killed", "listed", "written"}]
    /\ fold \in [Runs -> {"none", "listed", "killed"}]
    /\ server \in {"starting", "up", "stopping", "adopting", "down"}
    /\ restarts \in 0..MaxRestarts

Init ==
    /\ run = [r \in Runs |-> NoRow]
    /\ child = [r \in Runs |-> "none"]
    /\ exec = [r \in Runs |-> "none"]
    /\ tracked = {}
    /\ pass = [p \in Passes |-> IdlePass]
    /\ cancel = [r \in Runs |-> "none"]
    /\ fold = [r \in Runs |-> "none"]
    /\ server = "starting"
    /\ restarts = 0

-----------------------------------------------------------------------------
(* The rows.                                                                *)

Up == server \in {"starting", "up", "stopping"}
Is(r, s) == run[r].status = s

\* setRunStatus: the status is overwritten whatever it is.
Set(r, s) == run' = [run EXCEPT ![r].status = s]

\* A cancellation and a fold leave their mark in "past", which no action reads.
SetCancelled(r) == run' = [run EXCEPT ![r].status = "cancelled", ![r].past = "cancelled"]

\* setRunStatusIfRunning.
SetIfRunning(r, s) == run' = IF Is(r, "running") THEN [run EXCEPT ![r].status = s] ELSE run

\* enqueueWakeup and the recoveries insert a run of their own.
Wake(r) ==
    /\ Up /\ r \in Woken /\ Is(r, "absent")
    /\ run' = [run EXCEPT ![r].status = "queued"]
    /\ UNCHANGED <<child, memory, server, restarts>>

\* claimQueuedRun, by compare-and-set; executeRun is called and not awaited.
Claim(r) ==
    /\ Up /\ Is(r, "queued")
    /\ run' = [run EXCEPT ![r].status = "running"]
    /\ exec' = [exec EXCEPT ![r] = "claimed"]
    /\ UNCHANGED <<child, tracked, pass, cancel, fold, server, restarts>>

-----------------------------------------------------------------------------
(* executeRun.                                                              *)

\* The run is read again, and added to activeRunExecutions.
Begin(r) ==
    /\ exec[r] = "claimed"
    /\ exec' = [exec EXCEPT ![r] = IF Is(r, "running") THEN "setup" ELSE "none"]
    /\ UNCHANGED <<run, child, tracked, pass, cancel, fold, server, restarts>>

\* The agent is no longer invokable.
AbortAtStart(r) ==
    /\ exec[r] = "setup"
    /\ SetCancelled(r)
    /\ exec' = [exec EXCEPT ![r] = "tail"]
    /\ UNCHANGED <<child, tracked, pass, cancel, fold, server, restarts>>

\* The set-up throws.
SetupFails(r) ==
    /\ exec[r] = "setup"
    /\ SetIfRunning(r, "failed")
    /\ exec' = [exec EXCEPT ![r] = "tail"]
    /\ UNCHANGED <<child, tracked, pass, cancel, fold, server, restarts>>

\* adapter.execute spawns the child.  The status of the run is not read again.
Spawn(r) ==
    /\ exec[r] = "setup"
    /\ child' = [child EXCEPT ![r] = "alive"]
    /\ tracked' = tracked \cup {r}
    /\ exec' = [exec EXCEPT ![r] = "adapter"]
    /\ UNCHANGED <<run, pass, cancel, fold, server, restarts>>

\* persistRunProcessMetadata, whatever the status is.
RecordPid(r) ==
    /\ exec[r] = "adapter" /\ ~run[r].pid
    /\ run' = [run EXCEPT ![r].pid = TRUE]
    /\ UNCHANGED <<child, memory, server, restarts>>

\* The child exits, by itself or at its time limit.
Exit(r) ==
    /\ child[r] = "alive"
    /\ child' = [child EXCEPT ![r] = "dead"]
    /\ tracked' = tracked \ {r}
    /\ UNCHANGED <<run, exec, pass, cancel, fold, server, restarts>>

\* Mutant: the outcome is written with setRunStatus.
FinishAnyway(r, outcome) ==
    /\ exec[r] = "adapter" /\ child[r] = "dead"
    /\ Set(r, outcome)
    /\ exec' = [exec EXCEPT ![r] = "tail"]
    /\ UNCHANGED <<child, tracked, pass, cancel, fold, server, restarts>>

\* The outcome is written, if the run is still running.
Finish(r, outcome) ==
    /\ exec[r] = "adapter" /\ child[r] = "dead"
    /\ SetIfRunning(r, outcome)
    /\ exec' = [exec EXCEPT ![r] = "tail"]
    /\ UNCHANGED <<child, tracked, pass, cancel, fold, server, restarts>>

\* The finally block: the run leaves activeRunExecutions.
LeaveExecution(r) ==
    /\ exec[r] = "tail"
    /\ exec' = [exec EXCEPT ![r] = "none"]
    /\ UNCHANGED <<run, child, tracked, pass, cancel, fold, server, restarts>>

-----------------------------------------------------------------------------
(* Cancellation.                                                            *)

Cancellable(r) == run[r].status \in {"queued", "running"}

\* The process of r is killed, if the Map or the row knows it.
Kill(r) ==
    /\ child' = [child EXCEPT ![r] =
                    IF @ = "alive" /\ (r \in tracked \/ run[r].pid) THEN "dead" ELSE @]
    /\ tracked' = tracked \ {r}

\* cancelRunInternal reads the run; cancelActiveForAgentInternal lists it.
CancelStart(r, step) ==
    /\ Up /\ cancel[r] = "none" /\ Cancellable(r)
    /\ cancel' = [cancel EXCEPT ![r] = step]
    /\ UNCHANGED <<run, child, exec, tracked, pass, fold, server, restarts>>

\* It kills the child before it writes the status, or after.
CancelKill(r) ==
    /\ cancel[r] \in {"read", "written"}
    /\ Kill(r)
    /\ cancel' = [cancel EXCEPT ![r] = IF @ = "read" THEN "killed" ELSE "none"]
    /\ UNCHANGED <<run, exec, pass, fold, server, restarts>>

CancelWrite(r) ==
    /\ cancel[r] \in {"killed", "listed"}
    /\ SetCancelled(r)
    /\ cancel' = [cancel EXCEPT ![r] = IF @ = "killed" THEN "none" ELSE "written"]
    /\ UNCHANGED <<child, exec, tracked, pass, fold, server, restarts>>

-----------------------------------------------------------------------------
(* The fold: a run that is silent for long, and that has closed the issue it *)
(* works on itself, is ended by the recovery pass.                          *)

\* scanSilentActiveRuns lists it: its child was there to close the issue.
FoldStart(r) ==
    /\ Up /\ r \in Silent /\ fold[r] = "none" /\ Is(r, "running") /\ child[r] # "none"
    /\ fold' = [fold EXCEPT ![r] = "listed"]
    /\ UNCHANGED <<run, child, exec, tracked, pass, cancel, server, restarts>>

FoldKill(r) ==
    /\ fold[r] = "listed"
    /\ Kill(r)
    /\ fold' = [fold EXCEPT ![r] = "killed"]
    /\ UNCHANGED <<run, exec, pass, cancel, server, restarts>>

\* The issue is done or cancelled, and so is the run.
FoldWrite(r, outcome) ==
    /\ fold[r] = "killed"
    /\ run' = IF Is(r, "running")
              THEN [run EXCEPT ![r].status = outcome,
                               ![r].past = IF outcome = "cancelled" THEN outcome ELSE "folded"]
              ELSE run
    /\ fold' = [fold EXCEPT ![r] = "none"]
    /\ UNCHANGED <<child, exec, tracked, pass, cancel, server, restarts>>

-----------------------------------------------------------------------------
(* Passes over the running runs.                                            *)

\* A pass has finished with r: it goes on to another row, or ends.
Without(p, r) == [x \in DOMAIN pass[p].list \ {r} |-> pass[p].list[x]]

\* Mutant: the pass does not end.
DoneWith(p, r) ==
    pass' = [pass EXCEPT ![p].step = "scan", ![p].list = Without(p, r), ![p].cur = None]

Done(p, r) ==
    pass' = [pass EXCEPT ![p] =
                IF Without(p, r) = Nothing THEN IdlePass
                ELSE [@ EXCEPT !.step = "scan", !.list = Without(p, r), !.cur = None]]
Goes(p, r, step) == pass' = [pass EXCEPT ![p].step = step, ![p].cur = r]

\* A run is listed with its row as it is now.  The periodic pass leaves out
\* what changed in the last five minutes: a run just claimed, and maybe more.
List(p, kind, S) ==
    /\ pass[p].step = "idle"
    /\ S # {} /\ S \subseteq {r \in Runs : Is(r, "running")}
    /\ pass' = [pass EXCEPT ![p] = [kind |-> kind, step |-> "scan", cur |-> None,
                                    list |-> [r \in S |-> run[r]]]]

Running == {r \in Runs : Is(r, "running")}

\* The reaper of the server's start.
ListAtStart(p) ==
    /\ server = "starting"
    /\ server' = "up"
    /\ IF Running = {} THEN UNCHANGED pass ELSE List(p, "startup", Running)
    /\ UNCHANGED <<run, child, exec, tracked, cancel, fold, restarts>>

\* The timer starts a pass whether or not the one before has ended; a tick that
\* waits for the suppression to be read starts it beside the drain of a shutdown.
ListPeriodic(p, S) ==
    /\ server \in {"up", "stopping"}
    /\ \A r \in S : exec[r] # "claimed"
    /\ List(p, "periodic", S)
    /\ UNCHANGED <<run, child, exec, tracked, cancel, fold, server, restarts>>

\* The run is in runningProcesses or in activeRunExecutions.
InMemory(r) == r \in tracked \/ exec[r] \in {"setup", "adapter", "tail"}

Considers(p, r) ==
    /\ pass[p].step = "scan" /\ pass[p].kind # "drain"
    /\ r \in DOMAIN pass[p].list

\* Mutant: a recorded pid is taken for a live one.
PidRecorded(p, r) == pass[p].list[r].pid

\* The pid of the listed row answers a signal.
PidAlive(p, r) == pass[p].list[r].pid /\ child[r] = "alive"

\* The run is executed here, or an earlier server's child was adopted.
PassOver(p, r) ==
    /\ Considers(p, r)
    /\ InMemory(r) \/ (PidAlive(p, r) /\ pass[p].list[r].mark # "none")
    /\ Done(p, r)
    /\ UNCHANGED <<run, child, exec, tracked, cancel, fold, server, restarts>>

\* The child lives without a handle: the run is marked, and set to running.
Detach(p, r) ==
    /\ Considers(p, r)
    /\ ~InMemory(r) /\ PidAlive(p, r) /\ pass[p].list[r].mark = "none"
    /\ run' = [run EXCEPT ![r].status = "running", ![r].mark = "detached"]
    /\ Done(p, r)
    /\ UNCHANGED <<child, exec, tracked, cancel, fold, server, restarts>>

\* Mutant: the run is retried, and its status left as it is.
LoseUnmarked(p, r) ==
    /\ Considers(p, r)
    /\ ~InMemory(r) /\ ~PidAlive(p, r)
    /\ IF pass[p].list[r].losses < 1 /\ pass[p].list[r].pid
       THEN Goes(p, r, "lost") ELSE Done(p, r)
    /\ UNCHANGED <<run, child, exec, tracked, cancel, fold, server, restarts>>

\* No process: the run has failed, and is retried once if it had one.
Lose(p, r) ==
    /\ Considers(p, r)
    /\ ~InMemory(r) /\ ~PidAlive(p, r)
    /\ Set(r, "failed")
    /\ IF pass[p].list[r].losses < 1 /\ pass[p].list[r].pid
       THEN Goes(p, r, "lost") ELSE Done(p, r)
    /\ UNCHANGED <<child, exec, tracked, cancel, fold, server, restarts>>

\* enqueueProcessLossRetry looks for a retry that exists.
LookUp(p) ==
    LET r == pass[p].cur
    IN  /\ pass[p].step = "lost"
        /\ IF \E q \in Runs : run[q].of = r THEN Done(p, r) ELSE Goes(p, r, "insert")
        /\ UNCHANGED <<run, child, exec, tracked, cancel, fold, server, restarts>>

\* The agent is not invokable: no retry.
Suppress(p) ==
    /\ pass[p].step = "insert"
    /\ Done(p, pass[p].cur)
    /\ UNCHANGED <<run, child, exec, tracked, cancel, fold, server, restarts>>

Insert(p, q) ==
    LET r == pass[p].cur
    IN  /\ pass[p].step = "insert"
        /\ Is(q, "absent") /\ run[r].losses < MaxLosses
        /\ run' = [run EXCEPT ![q] = [NoRow EXCEPT !.status = "queued", !.of = r,
                                                   !.losses = run[r].losses + 1]]
        /\ Done(p, r)
        /\ UNCHANGED <<child, exec, tracked, cancel, fold, server, restarts>>

-----------------------------------------------------------------------------
(* The server goes down and comes back.                                     *)

Lost ==
    /\ exec' = [r \in Runs |-> "none"]
    /\ tracked' = {}
    /\ pass' = [p \in Passes |-> IdlePass]
    /\ cancel' = [r \in Runs |-> "none"]
    /\ fold' = [r \in Runs |-> "none"]
    /\ restarts' = restarts + 1

\* The process dies.  Its children go on.
Crash ==
    /\ Up /\ restarts < MaxRestarts
    /\ server' = "down"
    /\ Lost
    /\ UNCHANGED <<run, child>>

\* A signal: once no tracked scheduler work is under way, the running runs are listed.
Shutdown(p) ==
    /\ server = "up" /\ restarts < MaxRestarts
    /\ \A o \in Passes : pass[o].step = "idle"
    /\ server' = "stopping"
    /\ IF Running = {} THEN UNCHANGED pass ELSE List(p, "drain", Running)
    /\ UNCHANGED <<run, child, exec, tracked, cancel, fold, restarts>>

DrainKill(p, r) ==
    /\ pass[p].kind = "drain" /\ pass[p].step = "scan" /\ r \in DOMAIN pass[p].list
    /\ Kill(r)
    /\ Goes(p, r, "write")
    /\ UNCHANGED <<run, exec, cancel, fold, server, restarts>>

DrainWrite(p) ==
    LET r == pass[p].cur
    IN  /\ pass[p].step = "write"
        /\ SetIfRunning(r, "interrupted")
        /\ IF Is(r, "running") THEN Goes(p, r, "lost") ELSE Done(p, r)
        /\ UNCHANGED <<child, exec, tracked, cancel, fold, server, restarts>>

\* process.exit, once the drain has ended.
Stop ==
    /\ server = "stopping" /\ \A p \in Passes : pass[p].kind # "drain"
    /\ server' = "down"
    /\ Lost
    /\ UNCHANGED <<run, child>>

\* A hot restart writes the running runs down and kills no child.
HotRestart ==
    /\ server = "up" /\ restarts < MaxRestarts
    /\ server' = "adopting"
    /\ Lost
    /\ UNCHANGED <<run, child>>

\* The next server adopts, of those, the runs whose child lives, before its
\* reaper starts.
Adopt ==
    /\ server = "adopting"
    /\ run' = [r \in Runs |->
                IF Is(r, "running") /\ run[r].pid /\ child[r] = "alive"
                THEN [run[r] EXCEPT !.mark = "adopted"] ELSE run[r]]
    /\ server' = "starting"
    /\ UNCHANGED <<child, memory, restarts>>

Start ==
    /\ server = "down"
    /\ server' = "starting"
    /\ UNCHANGED <<run, child, memory, restarts>>

-----------------------------------------------------------------------------

Outcomes == {"succeeded", "failed"}

ExecutorStep(r) ==
    \/ Begin(r) \/ Spawn(r) \/ RecordPid(r) \/ LeaveExecution(r)
    \/ \E o \in Outcomes : Finish(r, o)
CancelStep(r) == CancelKill(r) \/ CancelWrite(r)
FoldStep(r) == FoldKill(r) \/ \E o \in {"succeeded", "cancelled"} : FoldWrite(r, o)
PassStep(p) ==
    \/ LookUp(p) \/ Suppress(p) \/ DrainWrite(p)
    \/ \E r \in Runs :
        \/ PassOver(p, r) \/ Detach(p, r) \/ Lose(p, r)
        \/ Insert(p, r) \/ DrainKill(p, r)

Next ==
    \/ \E r \in Runs :
        \/ Wake(r) \/ Claim(r) \/ ExecutorStep(r) \/ AbortAtStart(r) \/ SetupFails(r)
        \/ Exit(r) \/ CancelStep(r) \/ FoldStart(r) \/ FoldStep(r)
        \/ \E step \in {"read", "listed"} : CancelStart(r, step)
    \/ \E p \in Passes :
        \/ ListAtStart(p) \/ PassStep(p) \/ Shutdown(p)
        \/ \E S \in SUBSET Runs : ListPeriodic(p, S)
    \/ Crash \/ Stop \/ HotRestart \/ Adopt \/ Start

Spec == Init /\ [][Next]_vars

\* The event loop runs what is under way; a supervisor starts the server again;
\* every row that no pass has handled grows old enough for the periodic pass.
Fairness ==
    /\ WF_vars(Start) /\ WF_vars(Adopt) /\ WF_vars(Stop)
    /\ \A p \in Passes : WF_vars(ListAtStart(p)) /\ WF_vars(PassStep(p))
    /\ \A r \in Runs :
        /\ WF_vars(ExecutorStep(r)) /\ WF_vars(CancelStep(r)) /\ WF_vars(FoldStep(r))
        /\ SF_vars(\E p \in Passes, S \in SUBSET Runs : r \in S /\ ListPeriodic(p, S))

FairSpec == Spec /\ Fairness

-----------------------------------------------------------------------------
(* Properties.                                                              *)

\* A run that was cancelled is never made a success by its executor's report, though
\* a reaper may set it to running again while its child lives.  Only a fold, which
\* finds that the run has closed its issue, can end it as a success after that.
CancelledSucceedsByFoldOnly ==
    \A r \in Runs : run[r].past = "cancelled" => ~Is(r, "succeeded")

\* A retry exists only for a run that has ended: no pass, however old its list, and
\* no fold leaves a run both running and retried, a late pass beside the drain included.
RetriedHasEnded == \A q \in Runs : run[q].of # None => run[run[q].of].status \in Ended

\* A run that nobody executes and whose child is gone does not stay running.
LostRunsEnd ==
    \A r \in Runs :
        Is(r, "running") /\ exec[r] = "none" /\ child[r] # "alive" ~> ~Is(r, "running")
=============================================================================
