---------------------------- MODULE AgentStatus ----------------------------
(***************************************************************************)
(* The status of one agent and the approval of its hire: what the board, a  *)
(* budget and the runs of the agent do to agents.status and to              *)
(* approvals.status (services/agents.ts, approvals.ts, budgets.ts, the      *)
(* routes of both, and services/heartbeat.ts).                              *)
(*                                                                         *)
(* One action is one SQL statement or one transaction: what an operation    *)
(* read before it writes is in the place where it stands.  A run is here    *)
(* only what decides the status of its agent; its process, its outcome and  *)
(* its capacity are in RunLife and StartQueue.  The status "active", which  *)
(* the code treats as idle here, is not distinguished from it.              *)
(***************************************************************************)
EXTENDS FiniteSets

CONSTANTS
    Runs,       \* heartbeat runs of the agent
    Requests,   \* requests that may be under way at once
    Kinds,      \* what each of the requests may ask for
    Hires       \* whether the agent is hired directly or by approval

\* What PATCH /agents/:id may set the status to.
Target == [patchIdle |-> "idle", patchRunning |-> "running", patchError |-> "error",
           patchPaused |-> "paused", patchPending |-> "pending_approval",
           patchTerminated |-> "terminated"]
PatchKinds == {"patchIdle", "patchRunning", "patchError", "patchPaused", "patchPending",
               "patchTerminated"}

AllKinds == {"pause", "resume", "clear", "terminate", "approve", "reject",
             "approveAgent", "revise", "resubmit", "budgetPause", "cancelRun"} \cup PatchKinds

ASSUME StatusAssumption ==
    /\ Kinds \in [Requests -> SUBSET AllKinds]
    /\ Hires \subseteq {"direct", "approval"}
    /\ Runs \cap Requests = {}

VARIABLES
    agent,     \* status and pause_reason of the agent
    approval,  \* status of its hire approval
    run,       \* status of each run
    exec,      \* where the start and the execution of each run are
    fin,       \* finalizeAgentStatus, called for a run or by a request
    req,       \* the requests
    faults,    \* what went wrong so far: the server went down, an activation threw
    stopper    \* who paused or terminated the agent last; no action reads it

vars == <<agent, approval, run, exec, fin, req, faults, stopper>>

NonInvokable == {"paused", "terminated", "pending_approval"}
Resolvable == {"pending", "revision_requested"}
Idle == [kind |-> "none", step |-> "idle", list |-> {}]
NotFinalizing == [step |-> "none", to |-> "idle"]

AgentRows == [status : NonInvokable \cup {"idle", "running", "error"},
              reason : {"none", "manual", "budget"}]
FinRecords == [step : {"none", "read", "count", "write"}, to : {"idle", "running", "error"}]
RequestRecords == [kind : AllKinds \cup {"none", "rejectAgent"},
                   step : {"idle", "read", "pending", "resolved", "halted", "listed"},
                   list : SUBSET Runs]

\* A run in execution has begun; its finalization comes after it.
RunsOK ==
    /\ run \in [Runs -> {"absent", "waking", "queued", "running", "ended"}]
    /\ exec \in [Runs -> {"none", "dispatching", "checked", "claimed", "starting",
                      "executing", "stray"}]
    /\ fin \in [Runs \cup Requests -> FinRecords]
    /\ \A r \in Runs :
        /\ exec[r] # "none" => run[r] \notin {"absent", "waking"}
        /\ exec[r] = "executing" => run[r] = "running"
        /\ fin[r].step # "none" => exec[r] = "none" /\ run[r] = "ended"

\* A request has a list of runs only while it cancels them.
RequestsOK(f) ==
    /\ f \in [Requests -> RequestRecords]
    /\ \A q \in Requests :
        /\ f[q].kind = "none" <=> f[q].step = "idle"
        /\ f[q].list # {} => f[q].step = "listed"

TypeOK ==
    /\ agent \in AgentRows
    /\ approval \in Resolvable \cup {"none", "approved", "rejected"}
    /\ RunsOK /\ RequestsOK(req)
    /\ faults \subseteq {"crash", "activation"}
    /\ stopper \in {"nobody", "board", "budget"}

Init ==
    /\ \E hire \in Hires :
        /\ agent = [status |-> IF hire = "direct" THEN "idle" ELSE "pending_approval",
                    reason |-> "none"]
        /\ approval = IF hire = "direct" THEN "none" ELSE "pending"
    /\ run = [r \in Runs |-> "absent"]
    /\ exec = [r \in Runs |-> "none"]
    /\ fin = [a \in Runs \cup Requests |-> NotFinalizing]
    /\ req = [q \in Requests |-> Idle]
    /\ faults = {}
    /\ stopper = "nobody"

-----------------------------------------------------------------------------
(* finalizeAgentStatus.                                                     *)

Is(s) == agent.status = s
Invokable == agent.status \notin NonInvokable
Finalize(a, to) == [fin EXCEPT ![a] = [step |-> "read", to |-> to]]

\* The agent is read: a halted agent is left alone.
FinRead(a) ==
    /\ fin[a].step = "read"
    /\ fin' = [fin EXCEPT ![a] = IF Is("paused") \/ Is("terminated") THEN NotFinalizing
                                 ELSE [@ EXCEPT !.step = "count"]]
    /\ UNCHANGED <<agent, approval, run, exec, req, faults, stopper>>

\* The running runs are counted.
FinCount(a) ==
    /\ fin[a].step = "count"
    /\ fin' = [fin EXCEPT ![a] =
                  [step |-> "write",
                   to |-> IF \E r \in Runs : run[r] = "running" THEN "running" ELSE @.to]]
    /\ UNCHANGED <<agent, approval, run, exec, req, faults, stopper>>

\* The status is written, whatever it has become.
FinWrite(a) ==
    /\ fin[a].step = "write"
    /\ agent' = [agent EXCEPT !.status = fin[a].to]
    /\ fin' = [fin EXCEPT ![a] = NotFinalizing]
    /\ UNCHANGED <<approval, run, exec, req, faults, stopper>>

-----------------------------------------------------------------------------
(* The runs.                                                                *)

\* enqueueWakeup reads the agent first and inserts the run last.
WakeRead(r) ==
    /\ run[r] = "absent" /\ Invokable
    /\ run' = [run EXCEPT ![r] = "waking"]
    /\ UNCHANGED <<agent, approval, exec, fin, req, faults, stopper>>
WakeInsert(r) ==
    /\ run[r] = "waking"
    /\ run' = [run EXCEPT ![r] = "queued"]
    /\ UNCHANGED <<agent, approval, exec, fin, req, faults, stopper>>

\* startNextQueuedRunForAgent lists the queued runs of an invokable agent.
Dispatch(r) ==
    /\ run[r] = "queued" /\ exec[r] = "none" /\ Invokable
    /\ exec' = [exec EXCEPT ![r] = "dispatching"]
    /\ UNCHANGED <<agent, approval, run, fin, req, faults, stopper>>

\* A process runs for r; a stray one if r was cancelled during its set-up, when
\* there was none to kill.
HasProcess(r) == exec[r] \in {"executing", "stray"}

\* Mutant: the process is left to itself.
CancelRow(r) ==
    /\ run' = [run EXCEPT ![r] = "ended"]
    /\ UNCHANGED exec

\* The row is set to cancelled whatever it is, and its process is killed: the
\* executor goes on to its finalization.
CancelRun(r) ==
    /\ run' = [run EXCEPT ![r] = "ended"]
    /\ exec' = [exec EXCEPT ![r] = IF HasProcess(r) THEN "none" ELSE @]

\* The dispatch of a terminated agent cancels what is left.
DispatchCancels(r) ==
    /\ run[r] \in {"queued", "running"} /\ Is("terminated")
    /\ \E o \in Runs : run[o] = "queued"
    /\ CancelRun(r)
    /\ fin' = IF HasProcess(r) THEN Finalize(r, "idle") ELSE fin
    /\ UNCHANGED <<agent, approval, req, faults, stopper>>

\* claimQueuedRun reads the agent again, and cancels the run of one that is not
\* invokable any more.
Check(r) ==
    /\ exec[r] = "dispatching"
    /\ IF Invokable
       THEN /\ exec' = [exec EXCEPT ![r] = "checked"]
            /\ UNCHANGED <<run, fin>>
       ELSE /\ exec' = [exec EXCEPT ![r] = "none"]
            /\ run' = [run EXCEPT ![r] = IF @ = "queued" THEN "ended" ELSE @]
            /\ fin' = IF run[r] = "queued" THEN Finalize(r, "idle") ELSE fin
    /\ UNCHANGED <<agent, approval, req, faults, stopper>>

\* The compare-and-set of the claim.
Claim(r) ==
    /\ exec[r] = "checked"
    /\ exec' = [exec EXCEPT ![r] = IF run[r] = "queued" THEN "claimed" ELSE "none"]
    /\ run' = [run EXCEPT ![r] = IF @ = "queued" THEN "running" ELSE @]
    /\ UNCHANGED <<agent, approval, fin, req, faults, stopper>>

\* executeRun sets an agent that is invokable to running ("Pause Durability"); the
\* run itself is not read again.
Start(r) ==
    /\ exec[r] = "claimed"
    /\ IF Invokable
       THEN /\ agent' = [agent EXCEPT !.status = "running"]
            /\ exec' = [exec EXCEPT ![r] = "starting"]
            /\ UNCHANGED run
       ELSE /\ run' = [run EXCEPT ![r] = "ended"]
            /\ exec' = [exec EXCEPT ![r] = "none"]
            /\ UNCHANGED agent
    /\ UNCHANGED <<approval, fin, req, faults, stopper>>

\* The workspace, the secrets and the session are ready, and the adapter is called:
\* neither the run nor the agent is read again.
Spawn(r) ==
    /\ exec[r] = "starting"
    /\ exec' = [exec EXCEPT ![r] = IF run[r] = "running" THEN "executing" ELSE "stray"]
    /\ UNCHANGED <<agent, approval, run, fin, req, faults, stopper>>

\* The execution ends and the outcome is written, or the set-up has thrown, or
\* the reaper finds a run that nobody executes after a crash.
End(r, to) ==
    /\ \/ exec[r] \in {"claimed", "starting", "executing", "stray"}
       \/ run[r] = "running" /\ exec[r] = "none"
    /\ run' = [run EXCEPT ![r] = "ended"]
    /\ exec' = [exec EXCEPT ![r] = "none"]
    /\ fin' = Finalize(r, to)
    /\ UNCHANGED <<agent, approval, req, faults, stopper>>

-----------------------------------------------------------------------------
(* Requests.                                                                *)

Admitted(kind) ==
    CASE kind = "pause" -> ~Is("terminated")
      [] kind = "resume" -> ~Is("terminated") /\ ~Is("pending_approval")
      [] kind = "clear" -> Is("error")
      [] kind = "terminate" -> TRUE
      [] kind \in {"approve", "reject"} -> approval \in Resolvable
      [] kind = "approveAgent" -> Is("pending_approval")
      [] kind = "revise" -> approval = "pending"
      [] kind = "resubmit" -> approval = "revision_requested"
      [] kind = "budgetPause" -> TRUE
      [] kind = "cancelRun" -> FALSE
      [] kind \in PatchKinds -> CASE Is("terminated") -> kind = "patchTerminated"
                                  [] Is("pending_approval") ->
                                         kind \in {"patchPending", "patchTerminated"}
                                  [] OTHER -> TRUE

\* Mutant: the request keeps its kind.
OverKeepingKind(q) == [req EXCEPT ![q].step = "idle", ![q].list = {}]

Goes(q, step) == [req EXCEPT ![q].step = step]
Over(q) == [req EXCEPT ![q] = Idle]
At(q, kind, step) == req[q].kind = kind /\ req[q].step = step

\* An operation reads what decides whether it is allowed.
Ask(q, kind) ==
    /\ req[q] = Idle /\ Admitted(kind)
    /\ req' = [req EXCEPT ![q] =
                  [kind |-> kind, list |-> {},
                   step |-> IF kind = "approveAgent"
                               \/ (kind = "terminate" /\ Is("pending_approval"))
                            THEN "pending" ELSE "read"]]
    /\ UNCHANGED <<agent, approval, run, exec, fin, faults, stopper>>

\* cancelRun reads the run.
AskCancel(q, r) ==
    /\ req[q] = Idle /\ run[r] \in {"queued", "running"} /\ "cancelRun" \in Kinds[q]
    /\ req' = [req EXCEPT ![q] = [kind |-> "cancelRun", step |-> "listed", list |-> {r}]]
    /\ UNCHANGED <<agent, approval, run, exec, fin, faults, stopper>>

\* Mutant: the reason of the pause is left as it is.
PauseKeepingReason(q) ==
    /\ At(q, "pause", "read")
    /\ agent' = [agent EXCEPT !.status = "paused"]
    /\ stopper' = "board"
    /\ req' = [req EXCEPT ![q].step = "halted"]
    /\ UNCHANGED <<approval, run, exec, fin, faults>>

\* pause and resume write without looking again.
Pause(q) ==
    /\ At(q, "pause", "read")
    /\ agent' = [status |-> "paused", reason |-> "manual"]
    /\ stopper' = "board"
    /\ req' = Goes(q, "halted")
    /\ UNCHANGED <<approval, run, exec, fin, faults>>
Resume(q) ==
    /\ At(q, "resume", "read")
    /\ agent' = [status |-> "idle", reason |-> "none"]
    /\ req' = Over(q)
    /\ UNCHANGED <<approval, run, exec, fin, faults, stopper>>

\* PATCH /agents/:id writes the status it was given: the reason of a pause stays,
\* and nothing is cancelled.
Patch(q) ==
    /\ req[q].kind \in PatchKinds /\ req[q].step = "read"
    /\ agent' = [agent EXCEPT !.status = Target[req[q].kind]]
    /\ req' = Over(q)
    /\ UNCHANGED <<approval, run, exec, fin, faults, stopper>>

\* clearError looks again.
ClearError(q) ==
    /\ At(q, "clear", "read")
    /\ agent' = IF Is("error") THEN [status |-> "idle", reason |-> "none"] ELSE agent
    /\ req' = Over(q)
    /\ UNCHANGED <<approval, run, exec, fin, faults, stopper>>

\* A hard stop of the budget pauses an agent that is not halted.
BudgetPause(q) ==
    LET applies == agent.status \in {"idle", "running", "error"}
    IN  /\ At(q, "budgetPause", "read")
        /\ agent' = IF applies THEN [status |-> "paused", reason |-> "budget"] ELSE agent
        /\ stopper' = IF applies THEN "budget" ELSE stopper
        /\ req' = Goes(q, "halted")
        /\ UNCHANGED <<approval, run, exec, fin, faults>>

\* The budget is raised: only what the budget paused is resumed.
BudgetResume ==
    /\ agent.reason = "budget"
    /\ agent' = [status |-> "idle", reason |-> "none"]
    /\ UNCHANGED <<approval, run, exec, fin, req, faults, stopper>>

\* cancelActiveForAgent lists the active runs and cancels one after the other.
ListRuns(q) ==
    LET active == {r \in Runs : run[r] \in {"queued", "running"}}
    IN  /\ req[q].step = "halted"
        /\ req' = IF active = {} THEN Over(q)
                  ELSE [req EXCEPT ![q].step = "listed", ![q].list = active]
        /\ UNCHANGED <<agent, approval, run, exec, fin, faults, stopper>>

CancelListed(q, r) ==
    LET stopped == IF HasProcess(r) THEN Finalize(r, "idle") ELSE fin
    IN  /\ req[q].step = "listed" /\ r \in req[q].list
        /\ CancelRun(r)
        /\ fin' = IF req[q].kind = "cancelRun"
                  THEN [stopped EXCEPT ![q] = [step |-> "read", to |-> "idle"]] ELSE stopped
        /\ req' = IF req[q].list = {r} THEN Over(q) ELSE [req EXCEPT ![q].list = @ \ {r}]
        /\ UNCHANGED <<agent, approval, faults, stopper>>

\* The agent pages look for an open approval: it is resolved, or the agent is
\* changed without it.
FindOpen(q) ==
    /\ req[q].step = "pending"
    /\ req' = IF approval \in Resolvable
              THEN [req EXCEPT ![q] = [kind |-> IF req[q].kind = "approveAgent"
                                               THEN "approve" ELSE "rejectAgent",
                                      step |-> "read", list |-> {}]]
              ELSE Goes(q, IF req[q].kind = "terminate" THEN "read" ELSE "resolved")
    /\ UNCHANGED <<agent, approval, run, exec, fin, faults, stopper>>

Decision(q) == IF req[q].kind = "approve" THEN "approved" ELSE "rejected"

\* Mutant: the update does not look at the status again.
OpenAlways == TRUE

\* The guard of the update in resolveApproval.
Open == approval \in Resolvable

\* resolveApproval: one of the requests that read it open decides.
Resolve(q) ==
    /\ req[q].kind \in {"approve", "reject", "rejectAgent"} /\ req[q].step = "read"
    /\ approval' = IF Open THEN Decision(q) ELSE approval
    /\ req' = IF Open THEN Goes(q, "resolved")
              ELSE IF req[q].kind = "rejectAgent" /\ approval = "rejected"
              THEN Goes(q, "halted") ELSE Over(q)
    /\ UNCHANGED <<agent, run, exec, fin, faults, stopper>>

\* Mutant: only the agent page activates the agent.
ActivateFromPage(q) ==
    /\ req[q].kind \in {"approve", "approveAgent"} /\ req[q].step = "resolved"
    /\ agent' = IF Is("pending_approval") /\ req[q].kind = "approveAgent"
                THEN [agent EXCEPT !.status = "idle"] ELSE agent
    /\ req' = [req EXCEPT ![q] = Idle]
    /\ UNCHANGED <<approval, run, exec, fin, faults, stopper>>

\* activatePendingApproval, after the decision is committed: it may throw, since the
\* secrets of the approved configuration cannot be stored or bound.
ActivateFails(q) ==
    /\ req[q].kind \in {"approve", "approveAgent"} /\ req[q].step = "resolved"
    /\ Is("pending_approval")
    /\ faults' = faults \cup {"activation"}
    /\ req' = Over(q)
    /\ UNCHANGED <<agent, approval, run, exec, fin, stopper>>
Activate(q) ==
    /\ req[q].kind \in {"approve", "approveAgent"} /\ req[q].step = "resolved"
    /\ agent' = IF Is("pending_approval") THEN [agent EXCEPT !.status = "idle"] ELSE agent
    /\ req' = Over(q)
    /\ UNCHANGED <<approval, run, exec, fin, faults, stopper>>

Stopped == [status |-> "terminated", reason |-> "none"]

\* terminate; after the rejection of an approval nothing is cancelled.
Terminate(q) ==
    /\ At(q, "terminate", "read")
        \/ (req[q].kind \in {"reject", "rejectAgent"} /\ req[q].step = "resolved")
    /\ agent' = Stopped
    /\ stopper' = "board"
    /\ req' = IF req[q].kind = "reject" THEN Over(q) ELSE Goes(q, "halted")
    /\ UNCHANGED <<approval, run, exec, fin, faults>>

\* requestRevision and resubmit write without looking again.
Revise(q) ==
    /\ At(q, "revise", "read")
    /\ approval' = "revision_requested"
    /\ req' = Over(q)
    /\ UNCHANGED <<agent, run, exec, fin, faults, stopper>>
Resubmit(q) ==
    /\ At(q, "resubmit", "read")
    /\ approval' = "pending"
    /\ req' = Over(q)
    /\ UNCHANGED <<agent, run, exec, fin, faults, stopper>>

\* The server goes down; a new one starts.
Crash ==
    /\ "crash" \notin faults
    /\ faults' = faults \cup {"crash"}
    /\ run' = [r \in Runs |-> IF run[r] = "waking" THEN "absent" ELSE run[r]]
    /\ exec' = [r \in Runs |-> "none"]
    /\ fin' = [a \in Runs \cup Requests |-> NotFinalizing]
    /\ req' = [q \in Requests |-> Idle]
    /\ UNCHANGED <<agent, approval, stopper>>

-----------------------------------------------------------------------------

RunStep(r) ==
    \/ WakeRead(r) \/ WakeInsert(r) \/ Dispatch(r) \/ DispatchCancels(r) \/ Check(r)
    \/ Claim(r) \/ Start(r) \/ Spawn(r) \/ \E to \in {"idle", "error"} : End(r, to)

RequestStep(q) ==
    \/ \E kind \in Kinds[q] : Ask(q, kind)
    \/ \E r \in Runs : AskCancel(q, r) \/ CancelListed(q, r)
    \/ Pause(q) \/ Resume(q) \/ Patch(q) \/ ClearError(q) \/ BudgetPause(q) \/ ListRuns(q)
    \/ FindOpen(q) \/ Resolve(q) \/ Activate(q) \/ ActivateFails(q) \/ Terminate(q)
    \/ Revise(q) \/ Resubmit(q)

Next ==
    \/ \E r \in Runs : RunStep(r)
    \/ \E q \in Requests : RequestStep(q)
    \/ \E a \in Runs \cup Requests : FinRead(a) \/ FinCount(a) \/ FinWrite(a)
    \/ BudgetResume \/ Crash

Spec == Init /\ [][Next]_vars

-----------------------------------------------------------------------------
(* Properties.                                                              *)

Cancelling(q) == req[q].step \in {"halted", "listed"}

\* No request asks for one of these.
Unasked(kinds) == \A q \in Requests : Kinds[q] \cap kinds = {}

\* The server kept running, and nobody cancels the runs of the agent any more.
Settled == "crash" \notin faults /\ \A q \in Requests : ~Cancelling(q)

\* "Pause Durability": once the request that paused an agent has cancelled its
\* runs, no run that counts as running executes while the agent stays paused,
\* whatever was being claimed or set up meanwhile.  A PATCH to paused cancels
\* nothing, and a run cancelled during its set-up still gets a process.
PausedMeansStopped ==
    Unasked({"patchPaused"}) /\ Is("paused") /\ Settled
        => \A r \in Runs : exec[r] # "executing"

\* A budget that is raised resumes nobody whom the board, since the budget paused
\* him, has paused or terminated.  A termination by PATCH is not one of these.
BudgetSparesTheBoard == stopper = "board" => agent.reason # "budget"

\* An agent whose hire is decided does not wait for approval any more, unless the
\* server died between the decision and its effect, or the effect failed; nobody
\* sends him back by PATCH.
DecisionsTakeEffect ==
    Unasked({"patchPending"}) /\ Is("pending_approval") /\ approval \notin Resolvable
        => faults # {} \/ \E q \in Requests : req[q].step = "resolved"

\* Of an approval and a rejection that race one takes effect: no decision is
\* overwritten by the other.  Only a request for a revision, whose write does
\* not look again, opens a decided approval.
OneDecision ==
    [][/\ approval = "approved" => approval' # "rejected"
       /\ approval = "rejected" => approval' # "approved"]_vars

\* "`* -> terminated` (board only, irreversible)" (doc/SPEC-implementation.md).
TerminatedIsFinal == [][Is("terminated") => Is("terminated")']_vars
=============================================================================
