---------------------------- MODULE AgentProofs ----------------------------
(***************************************************************************)
(* Theorems about AgentStatus, for any runs and requests.                   *)
(***************************************************************************)
EXTENDS AgentStatus, TLAPS

-----------------------------------------------------------------------------
(* Type correctness.                                                        *)

LEMMA FinRecordsType ==
    /\ NotFinalizing \in FinRecords
    /\ \A to \in {"idle", "error"} : [step |-> "read", to |-> to] \in FinRecords
BY DEF NotFinalizing, FinRecords

LEMMA Targets ==
    ASSUME NEW kind \in PatchKinds
    PROVE  /\ Target[kind] \in NonInvokable \cup {"idle", "running", "error"}
           /\ Target[kind] = "paused" => kind = "patchPaused"
           /\ Target[kind] = "pending_approval" => kind = "patchPending"
BY DEF PatchKinds, Target, NonInvokable

LEMMA InitType == Init => TypeOK
<1> SUFFICES ASSUME Init PROVE TypeOK OBVIOUS
<1>1. agent \in AgentRows
    BY DEF Init, AgentRows, NonInvokable
<1>2. approval \in Resolvable \cup {"none", "approved", "rejected"}
    BY DEF Init, Resolvable
<1>3. RunsOK
    BY FinRecordsType DEF Init, RunsOK, NotFinalizing
<1>4. RequestsOK(req)
    BY DEF Init, RequestsOK, RequestRecords, Idle
<1> QED BY <1>1, <1>2, <1>3, <1>4 DEF TypeOK, Init

\* The steps of finalizeAgentStatus, for a run or for a request.
LEMMA FinType ==
    ASSUME TypeOK, NEW a \in Runs \cup Requests, FinRead(a) \/ FinCount(a) \/ FinWrite(a)
    PROVE  TypeOK'
<1>0. /\ RunsOK /\ agent \in AgentRows /\ fin[a] \in FinRecords
      /\ fin[a].step # "none"
    BY DEF TypeOK, RunsOK, FinRead, FinCount, FinWrite
<1>1. ASSUME NEW x \in FinRecords, fin' = [fin EXCEPT ![a] = x], UNCHANGED <<run, exec>>
      PROVE  RunsOK'
    BY <1>0, <1>1 DEF RunsOK
<1>2. /\ \E x \in FinRecords : fin' = [fin EXCEPT ![a] = x]
      /\ UNCHANGED <<run, exec>>
    BY <1>0 DEF FinRead, FinCount, FinWrite, FinRecords, NotFinalizing
<1>3. agent' \in AgentRows
    BY <1>0 DEF FinRead, FinCount, FinWrite, FinRecords, AgentRows
<1> QED BY <1>1, <1>2, <1>3 DEF TypeOK, FinRead, FinCount, FinWrite, RequestsOK

\* The steps of the start and of the execution of a run.
LEMMA RunStepType ==
    ASSUME TypeOK, NEW r \in Runs, RunStep(r)
    PROVE  TypeOK'
<1>0. RunsOK /\ agent \in AgentRows BY DEF TypeOK
<1>1. CASE WakeRead(r) BY <1>0, <1>1 DEF TypeOK, WakeRead, RunsOK, RequestsOK
<1>2. CASE WakeInsert(r) BY <1>0, <1>2 DEF TypeOK, WakeInsert, RunsOK, RequestsOK
<1>3. CASE Dispatch(r) BY <1>0, <1>3 DEF TypeOK, Dispatch, RunsOK, RequestsOK
<1>4. CASE DispatchCancels(r)
    <2>1. RunsOK'
        BY <1>0, <1>4, FinRecordsType
        DEF DispatchCancels, CancelRun, HasProcess, Finalize, RunsOK
    <2> QED BY <1>4, <2>1 DEF TypeOK, DispatchCancels, RequestsOK
<1>5. CASE Check(r)
    <2>1. RunsOK'
        BY <1>0, <1>5, FinRecordsType DEF Check, Finalize, RunsOK
    <2> QED BY <1>5, <2>1 DEF TypeOK, Check, RequestsOK
<1>6. CASE Claim(r) BY <1>0, <1>6 DEF TypeOK, Claim, RunsOK, RequestsOK
<1>7. CASE Start(r)
    <2>1. RunsOK' BY <1>0, <1>7 DEF Start, RunsOK
    <2>2. agent' \in AgentRows BY <1>0, <1>7 DEF Start, AgentRows
    <2> QED BY <1>7, <2>1, <2>2 DEF TypeOK, Start, RequestsOK
<1>9. CASE Spawn(r)
    <2>1. RunsOK' BY <1>0, <1>9 DEF Spawn, RunsOK
    <2> QED BY <1>9, <2>1 DEF TypeOK, Spawn, RequestsOK
<1>8. ASSUME NEW to \in {"idle", "error"}, End(r, to) PROVE TypeOK'
    <2>1. RunsOK' BY <1>0, <1>8, FinRecordsType DEF End, Finalize, RunsOK
    <2> QED BY <1>8, <2>1 DEF TypeOK, End, RequestsOK
<1> QED BY <1>1, <1>2, <1>3, <1>4, <1>5, <1>6, <1>7, <1>8, <1>9 DEF RunStep

\* How a request moves.
LEMMA RequestMoves ==
    ASSUME TypeOK, NEW q \in Requests
    PROVE  /\ \A x \in RequestRecords :
                (x.kind = "none" <=> x.step = "idle") /\ (x.list # {} => x.step = "listed")
                    => RequestsOK([req EXCEPT ![q] = x])
           /\ RequestsOK(Over(q))
           /\ \A step \in {"read", "pending", "resolved", "halted"} :
                req[q].kind # "none" /\ req[q].step # "listed" => RequestsOK(Goes(q, step))
           /\ \A kind \in AllKinds \cup {"rejectAgent"}, step \in {"read", "pending"} :
                RequestsOK([req EXCEPT ![q] = [kind |-> kind, step |-> step, list |-> {}]])
           /\ \A kind \in AllKinds \cup {"rejectAgent"}, S \in SUBSET Runs :
                RequestsOK([req EXCEPT ![q] = [kind |-> kind, step |-> "listed", list |-> S]])
<1>0. RequestsOK(req) BY DEF TypeOK
<1>1. ASSUME NEW x \in RequestRecords, x.kind = "none" <=> x.step = "idle",
             x.list # {} => x.step = "listed"
      PROVE  RequestsOK([req EXCEPT ![q] = x])
    BY <1>0, <1>1 DEF RequestsOK
<1>2. RequestsOK(Over(q)) BY <1>1 DEF Over, Idle, RequestRecords
<1>3. ASSUME NEW step \in {"read", "pending", "resolved", "halted"},
             req[q].kind # "none", req[q].step # "listed"
      PROVE  RequestsOK(Goes(q, step))
    <2>1. [req[q] EXCEPT !.step = step] \in RequestRecords
        BY <1>0 DEF RequestsOK, RequestRecords
    <2>2. Goes(q, step) = [req EXCEPT ![q] = [req[q] EXCEPT !.step = step]] BY DEF Goes
    <2> QED BY <1>0, <1>1, <1>3, <2>1, <2>2 DEF RequestsOK, RequestRecords
<1>4. ASSUME NEW kind \in AllKinds \cup {"rejectAgent"}, NEW S \in SUBSET Runs,
             NEW step \in {"read", "pending", "listed"}, S # {} => step = "listed"
      PROVE  RequestsOK([req EXCEPT ![q] = [kind |-> kind, step |-> step, list |-> S]])
    <2>1. kind # "none" BY DEF AllKinds, PatchKinds
    <2> QED BY <1>1, <1>4, <2>1 DEF RequestRecords
<1> QED BY <1>1, <1>2, <1>3, <1>4

\* The steps of a request.
LEMMA RequestStepType ==
    ASSUME TypeOK, NEW q \in Requests, RequestStep(q)
    PROVE  TypeOK'
<1> USE StatusAssumption
<1>0. /\ agent \in AgentRows /\ approval \in Resolvable \cup {"none", "approved", "rejected"}
      /\ faults \subseteq {"crash", "activation"} /\ stopper \in {"nobody", "board", "budget"}
      /\ RunsOK /\ RequestsOK(req)
    BY DEF TypeOK
<1>1. req[q].step # "idle" <=> req[q].kind # "none"
    BY <1>0 DEF RequestsOK
\* A request that moves, and leaves the runs alone.
<1>2. ASSUME RequestsOK(req'), agent' \in AgentRows,
             approval' \in Resolvable \cup {"none", "approved", "rejected"},
             UNCHANGED <<run, exec, fin>>, faults' \subseteq {"crash", "activation"},
             stopper' \in {"nobody", "board", "budget"}
      PROVE  TypeOK'
    BY <1>0, <1>2 DEF TypeOK, RunsOK
<1>3. ASSUME NEW kind \in Kinds[q], Ask(q, kind) PROVE TypeOK'
    <2>1. kind \in AllKinds BY <1>0
    <2> QED BY <1>0, <1>2, <1>3, <2>1, RequestMoves DEF Ask
<1>4. ASSUME NEW r \in Runs, AskCancel(q, r) PROVE TypeOK'
    <2>1. "cancelRun" \in AllKinds BY DEF AllKinds
    <2> QED BY <1>0, <1>2, <1>4, <2>1, RequestMoves DEF AskCancel
<1>5. ASSUME NEW r \in Runs, CancelListed(q, r) PROVE TypeOK'
    <2>1. req[q].kind \in AllKinds \cup {"rejectAgent"} /\ req[q].list \in SUBSET Runs
          /\ req[q] = [kind |-> req[q].kind, step |-> "listed", list |-> req[q].list]
        BY <1>0, <1>1, <1>5 DEF CancelListed, RequestsOK, RequestRecords
    <2>2. [req EXCEPT ![q].list = @ \ {r}] =
            [req EXCEPT ![q] = [kind |-> req[q].kind, step |-> "listed",
                                list |-> req[q].list \ {r}]]
        <3>1. [req[q] EXCEPT !.list = @ \ {r}] =
                [kind |-> req[q].kind, step |-> "listed", list |-> req[q].list \ {r}]
            BY <2>1
        <3> QED BY <1>0, <3>1 DEF RequestsOK
    <2>3. RequestsOK(req') BY <1>5, <2>1, <2>2, RequestMoves DEF CancelListed
    <2>4. /\ run' = [run EXCEPT ![r] = "ended"]
          /\ exec' = [exec EXCEPT ![r] = IF HasProcess(r) THEN "none" ELSE @]
        BY <1>5 DEF CancelListed, CancelRun
    <2>5. /\ fin' \in [Runs \cup Requests -> FinRecords]
          /\ \A x \in Runs : fin'[x] = fin[x] \/ (x = r /\ HasProcess(r))
        <3>1. q \notin Runs BY DEF StatusAssumption
        <3> QED BY <1>0, <1>5, <3>1, FinRecordsType DEF CancelListed, RunsOK, Finalize
    <2>6. RunsOK' BY <1>0, <2>4, <2>5 DEF RunsOK, HasProcess
    <2> QED BY <1>0, <1>5, <2>3, <2>6 DEF CancelListed, TypeOK
<1>12. CASE Patch(q)
    <2>1. agent' \in AgentRows
        BY <1>0, <1>12, Targets DEF Patch, AgentRows
    <2> QED BY <1>0, <1>2, <1>12, <2>1, RequestMoves DEF Patch
<1>6. CASE Pause(q) \/ Resume(q) \/ ClearError(q) \/ BudgetPause(q)
    <2>1. agent' \in AgentRows
        BY <1>0, <1>6 DEF Pause, Resume, Patch, ClearError, BudgetPause, AgentRows, NonInvokable
    <2> QED BY <1>0, <1>1, <1>2, <1>6, <2>1, RequestMoves
            DEF Pause, Resume, Patch, ClearError, BudgetPause, At
<1>7. CASE ListRuns(q)
    <2> DEFINE active == {r \in Runs : run[r] \in {"queued", "running"}}
               listed == [req[q] EXCEPT !.step = "listed", !.list = active]
    <2>1. req' = Over(q) \/ req' = [req EXCEPT ![q] = listed]
        BY <1>0, <1>7 DEF ListRuns, RequestsOK
    <2>2. listed \in RequestRecords /\ listed.step = "listed" /\ listed.kind # "none"
        <3> HIDE DEF active
        <3>1. active \in SUBSET Runs BY DEF active
        <3> QED BY <1>0, <1>1, <1>7, <3>1 DEF ListRuns, RequestsOK, RequestRecords
    <2> HIDE DEF listed
    <2>3. RequestsOK(req') BY <2>1, <2>2, RequestMoves
    <2> QED BY <1>0, <1>2, <1>7, <2>3 DEF ListRuns
<1>8. CASE FindOpen(q)
    <2> DEFINE kind == IF req[q].kind = "approveAgent" THEN "approve" ELSE "rejectAgent"
    <2>1. kind \in AllKinds \cup {"rejectAgent"} BY DEF AllKinds
    <2>2. RequestsOK(req') BY <1>1, <1>8, <2>1, RequestMoves DEF FindOpen
    <2> QED BY <1>0, <1>2, <1>8, <2>2 DEF FindOpen
<1>9. CASE Resolve(q)
    <2>1. approval' \in Resolvable \cup {"none", "approved", "rejected"}
        BY <1>0, <1>9 DEF Resolve, Decision
    <2> QED BY <1>0, <1>1, <1>2, <1>9, <2>1, RequestMoves DEF Resolve
<1>13. CASE ActivateFails(q)
    BY <1>0, <1>2, <1>13, RequestMoves DEF ActivateFails
<1>10. CASE Activate(q) \/ Terminate(q)
    <2>1. agent' \in AgentRows
        BY <1>0, <1>10 DEF Activate, Terminate, Stopped, AgentRows, NonInvokable
    <2> QED BY <1>0, <1>1, <1>2, <1>10, <2>1, RequestMoves DEF Activate, Terminate, At
<1>11. CASE Revise(q) \/ Resubmit(q)
    BY <1>0, <1>2, <1>11, RequestMoves DEF Revise, Resubmit, Resolvable
<1> QED BY <1>3, <1>4, <1>5, <1>6, <1>7, <1>8, <1>9, <1>10, <1>11, <1>12, <1>13 DEF RequestStep

LEMMA CrashType == TypeOK /\ Crash => TypeOK'
BY FinRecordsType DEF TypeOK, Crash, RunsOK, RequestsOK, RequestRecords, Idle, NotFinalizing

LEMMA TypeStep == TypeOK /\ [Next]_vars => TypeOK'
<1> SUFFICES ASSUME TypeOK, [Next]_vars PROVE TypeOK' OBVIOUS
<1>1. CASE BudgetResume
    BY <1>1 DEF BudgetResume, TypeOK, RunsOK, RequestsOK, AgentRows
<1>2. CASE UNCHANGED vars
    BY <1>2 DEF vars, TypeOK, RunsOK, RequestsOK
<1> QED BY <1>1, <1>2, FinType, RunStepType, RequestStepType, CrashType DEF Next

\* Every reachable state is well typed.
THEOREM TypeCorrect == Spec => []TypeOK
BY InitType, TypeStep, PTL DEF Spec

-----------------------------------------------------------------------------
(* Pauses and terminations.                                                 *)

\* What the board paused or terminated last no budget resumes: a hard stop leaves
\* halted agents alone, and the board's operations take the reason away, whatever
\* finalizations and PATCHes write in between.
THEOREM BoardStopsStay == Spec => []BudgetSparesTheBoard
<1>1. Init => BudgetSparesTheBoard
    BY DEF Init, BudgetSparesTheBoard
<1>2. TypeOK /\ BudgetSparesTheBoard /\ [Next]_vars => BudgetSparesTheBoard'
    <2> SUFFICES ASSUME TypeOK, BudgetSparesTheBoard, [Next]_vars, stopper' = "board"
                 PROVE  agent'.reason # "budget"
        BY DEF BudgetSparesTheBoard
    <2>0. agent \in AgentRows BY DEF TypeOK
\* The reason is what it was, and so is the last stop; or it is not the budget.
    <2>1. ASSUME stopper' = stopper, agent'.reason \in {agent.reason, "none"}
          PROVE  agent'.reason # "budget"
        BY <2>1 DEF BudgetSparesTheBoard
    <2>2. ASSUME NEW r \in Runs, RunStep(r)
          PROVE  stopper' = stopper /\ agent'.reason = agent.reason
        BY <2>0, <2>2 DEF RunStep, WakeRead, WakeInsert, Dispatch, DispatchCancels, Check, Claim,
                    Start, Spawn, End, AgentRows
    <2>3. ASSUME NEW q \in Requests, RequestStep(q)
          PROVE  \/ stopper' = stopper /\ agent'.reason \in {agent.reason, "none"}
                 \/ agent'.reason \in {"none", "manual"}
        <3>1. CASE BudgetPause(q)
            BY <3>1 DEF BudgetPause
        <3>2. CASE ~BudgetPause(q)
            BY <2>0, <2>3, <3>2 DEF RequestStep, Ask, AskCancel, CancelListed, Pause, Resume,
                Patch, ClearError, ListRuns, FindOpen, Resolve, Activate, ActivateFails,
                Terminate, Stopped, Revise, Resubmit, AgentRows
        <3> QED BY <3>1, <3>2
    <2>4. ASSUME NEW a \in Runs \cup Requests, FinRead(a) \/ FinCount(a) \/ FinWrite(a)
          PROVE  stopper' = stopper /\ agent'.reason = agent.reason
        BY <2>0, <2>4 DEF FinRead, FinCount, FinWrite, AgentRows
    <2>5. BudgetResume => stopper' = stopper /\ agent'.reason = "none"
        BY DEF BudgetResume
    <2>6. Crash \/ UNCHANGED vars => stopper' = stopper /\ agent' = agent
        BY DEF Crash, vars
    <2> QED BY <2>1, <2>2, <2>3, <2>4, <2>5, <2>6 DEF Next
<1> QED BY <1>1, <1>2, TypeCorrect, PTL DEF Spec

\* A PATCH in progress is one that was asked for.
PatchesAreAsked == \A q \in Requests : req[q].kind \in PatchKinds => req[q].kind \in Kinds[q]

LEMMA PatchesStep == TypeOK /\ PatchesAreAsked /\ [Next]_vars => PatchesAreAsked'
<1> SUFFICES ASSUME TypeOK, PatchesAreAsked, [Next]_vars,
                    NEW q \in Requests, req'[q].kind \in PatchKinds
             PROVE  req'[q].kind \in Kinds[q]
    BY DEF PatchesAreAsked
<1>0. req \in [Requests -> RequestRecords] BY DEF TypeOK, RequestsOK
\* A request keeps its kind, gets one that was asked for, or one that is no PATCH.
<1>1. ASSUME NEW p \in Requests, RequestStep(p)
      PROVE  /\ p # q => req'[q] = req[q]
             /\ req'[p].kind \in Kinds[p]
                    \cup {req[p].kind, "none", "cancelRun", "approve", "rejectAgent"}
    <2>1. CASE Resolve(p)
        BY <1>0, <2>1 DEF Resolve, Goes, Over, Idle, RequestRecords
    <2>2. CASE FindOpen(p)
        BY <1>0, <2>2 DEF FindOpen, Goes, RequestRecords
    <2>3. CASE ListRuns(p) \/ \E r \in Runs : CancelListed(p, r)
        BY <1>0, <2>3 DEF ListRuns, CancelListed, Over, Idle, RequestRecords
    <2>4. CASE Pause(p) \/ BudgetPause(p) \/ Terminate(p)
        BY <1>0, <2>4 DEF Pause, BudgetPause, Terminate, Goes, Over, Idle, RequestRecords
    <2>5. CASE \/ \E kind \in Kinds[p] : Ask(p, kind)
               \/ \E r \in Runs : AskCancel(p, r)
        BY <1>0, <2>5 DEF Ask, AskCancel
    <2>6. CASE \/ Resume(p) \/ Patch(p) \/ ClearError(p) \/ Activate(p) \/ ActivateFails(p)
               \/ Revise(p) \/ Resubmit(p)
        BY <1>0, <2>6 DEF Resume, Patch, ClearError, Activate, ActivateFails, Revise, Resubmit,
            Over, Idle
    <2> QED BY <1>1, <2>1, <2>2, <2>3, <2>4, <2>5, <2>6 DEF RequestStep
<1>2. CASE \E p \in Requests : RequestStep(p)
    BY <1>1, <1>2 DEF PatchesAreAsked, PatchKinds
<1>3. CASE req' = req BY <1>3 DEF PatchesAreAsked
<1>4. CASE Crash BY <1>4 DEF Crash, Idle, PatchKinds
<1>5. \A r \in Runs : RunStep(r) => req' = req
    BY DEF RunStep, WakeRead, WakeInsert, Dispatch, DispatchCancels, Check, Claim, Start,
        Spawn, End
<1> QED BY <1>2, <1>3, <1>4, <1>5
        DEF Next, FinRead, FinCount, FinWrite, BudgetResume, vars

LEMMA PatchesAlwaysAsked == Spec => []PatchesAreAsked
<1>1. Init => PatchesAreAsked
    BY DEF Init, PatchesAreAsked, Idle, PatchKinds
<1> QED BY <1>1, PatchesStep, TypeCorrect, PTL DEF Spec

\* A run that executes, or is being set up to, and was not cancelled.
Works(r) == run[r] = "running" /\ exec[r] \in {"starting", "executing"}

\* A pause reaches every run: as long as the agent is paused, a run that works is
\* among those that a request is about to list, or has still to cancel.
PauseReachesRuns ==
    Unasked({"patchPaused"}) /\ Is("paused") /\ "crash" \notin faults =>
        \A r \in Runs : Works(r) =>
            \E q \in Requests :
                \/ req[q].step = "halted"
                \/ req[q].step = "listed" /\ r \in req[q].list

\* Only a request pauses the agent, and it stops to cancel the runs; where the
\* agent is not touched, it is as paused as before.
LEMMA PausedByRequest ==
    ASSUME TypeOK, PatchesAreAsked, Unasked({"patchPaused"}), [Next]_vars,
           Is("paused")', "crash" \notin faults'
    PROVE  /\ "crash" \notin faults
           /\ \/ Is("paused")
              \/ \E q \in Requests : req'[q].step = "halted"
<1> USE DEF Is
<1>1. ASSUME NEW r \in Runs, RunStep(r)
      PROVE  faults' = faults /\ agent'.status \in {agent.status, "running"}
    BY <1>1 DEF RunStep, WakeRead, WakeInsert, Dispatch, DispatchCancels, Check, Claim,
                Start, Spawn, End, TypeOK, AgentRows
<1>2. ASSUME NEW q \in Requests, RequestStep(q)
      PROVE  /\ faults \subseteq faults'
             /\ \/ agent'.status \in {agent.status, "idle", "terminated"}
                \/ req'[q].step = "halted"
    <2>1. CASE Pause(q) \/ BudgetPause(q)
        BY <2>1 DEF Pause, BudgetPause, Goes, TypeOK, RequestsOK, RequestRecords
    <2>3. CASE Patch(q)
        <3>1. req[q].kind # "patchPaused"
            BY <2>3 DEF Patch, PatchesAreAsked, Unasked
        <3> QED BY <2>3, <3>1, Targets DEF Patch, TypeOK, AgentRows
    <2>2. CASE ~Pause(q) /\ ~BudgetPause(q) /\ ~Patch(q)
        BY <1>2, <2>2 DEF RequestStep, Ask, AskCancel, CancelListed, Resume, ClearError,
            ListRuns, FindOpen, Resolve, Activate, ActivateFails, Terminate, Stopped, Revise,
            Resubmit, TypeOK, AgentRows
    <2> QED BY <2>1, <2>2, <2>3
<1>3. ASSUME NEW a \in Runs \cup Requests, FinRead(a) \/ FinCount(a) \/ FinWrite(a)
      PROVE  faults' = faults /\ (agent' = agent \/ agent'.status # "paused")
    <2>1. fin[a].to # "paused" BY DEF TypeOK, RunsOK, FinRecords
    <2> QED BY <1>3, <2>1 DEF FinRead, FinCount, FinWrite, TypeOK, AgentRows
<1>4. CASE BudgetResume BY <1>4 DEF BudgetResume
<1>5. CASE Crash BY <1>5 DEF Crash, TypeOK
<1>6. CASE UNCHANGED vars BY <1>6 DEF vars
<1> QED BY <1>1, <1>2, <1>3, <1>4, <1>5, <1>6 DEF Next

\* A run begins to work only while the agent may.
LEMMA WorksSince ==
    ASSUME TypeOK, [Next]_vars, Is("paused")', NEW r \in Runs, Works(r)'
    PROVE  Works(r)
<1> USE DEF Is, Works
<1>1. ASSUME NEW x \in Runs, RunStep(x) PROVE Works(r)
    <2>1. CASE Start(x)
        BY <2>1 DEF Start, Invokable, NonInvokable, TypeOK, RunsOK, AgentRows
    <2>2. CASE ~Start(x)
        BY <1>1, <2>2 DEF RunStep, WakeRead, WakeInsert, Dispatch, DispatchCancels, CancelRun,
            Check, Claim, Spawn, End, TypeOK, RunsOK
    <2> QED BY <2>1, <2>2
<1>2. ASSUME NEW q \in Requests, RequestStep(q) PROVE Works(r)
    BY <1>2 DEF RequestStep, Ask, AskCancel, CancelListed, CancelRun, Pause, Resume, Patch,
        ClearError, BudgetPause, ListRuns, FindOpen, Resolve, Activate, ActivateFails,
        Terminate, Revise, Resubmit, TypeOK, RunsOK
<1>3. ASSUME NEW a \in Runs \cup Requests, FinRead(a) \/ FinCount(a) \/ FinWrite(a)
      PROVE  Works(r)
    BY <1>3 DEF FinRead, FinCount, FinWrite
<1>4. CASE BudgetResume BY <1>4 DEF BudgetResume
<1>5. CASE Crash BY <1>5 DEF Crash
<1>6. CASE UNCHANGED vars BY <1>6 DEF vars
<1> QED BY <1>1, <1>2, <1>3, <1>4, <1>5, <1>6 DEF Next

\* A request that halts goes on to list the runs, and one that lists them to cancel
\* every one of them.
LEMMA HaltGoesOn ==
    ASSUME TypeOK, [Next]_vars, "crash" \notin faults', NEW r \in Runs, Works(r), Works(r)',
           NEW q \in Requests,
           req[q].step = "halted" \/ (req[q].step = "listed" /\ r \in req[q].list)
    PROVE  req'[q].step = "halted" \/ (req'[q].step = "listed" /\ r \in req'[q].list)
<1>0. /\ run[r] = "running"
      /\ run'[r] = "running"
      /\ req \in [Requests -> RequestRecords] /\ req[q] \in RequestRecords
    BY DEF Works, TypeOK, RequestsOK
<1>1. ASSUME NEW x \in Runs, RunStep(x) PROVE req' = req
    BY <1>1 DEF RunStep, WakeRead, WakeInsert, Dispatch, DispatchCancels, Check, Claim,
        Start, Spawn, End
<1>2. ASSUME NEW p \in Requests, RequestStep(p), p # q PROVE req'[q] = req[q]
    BY <1>0, <1>2 DEF RequestStep, Ask, AskCancel, CancelListed, Pause, Resume, Patch, ClearError,
        BudgetPause, ListRuns, FindOpen, Resolve, Activate, ActivateFails, Terminate, Revise,
        Resubmit, Goes, Over
<1>3. CASE RequestStep(q)
    <2>1. CASE ListRuns(q)
        BY <1>0, <2>1 DEF ListRuns, RequestRecords
    <2>2. ASSUME NEW x \in Runs, CancelListed(q, x) PROVE r # x /\ req'[q].step = "listed" /\ r \in req'[q].list
        <3>1. r # x
            BY <1>0, <2>2 DEF CancelListed, CancelRun, TypeOK, RunsOK
        <3> QED BY <1>0, <2>2, <3>1 DEF CancelListed, RequestRecords
    <2>3. ListRuns(q) \/ \E x \in Runs : CancelListed(q, x)
        BY <1>0, <1>3 DEF RequestStep, Ask, AskCancel, Pause, Resume, Patch, ClearError, BudgetPause,
            FindOpen, Resolve, Activate, ActivateFails, Terminate, Revise, Resubmit, At, Idle
    <2> QED BY <2>1, <2>2, <2>3
<1>4. ASSUME NEW a \in Runs \cup Requests, FinRead(a) \/ FinCount(a) \/ FinWrite(a)
      PROVE  req' = req
    BY <1>4 DEF FinRead, FinCount, FinWrite
<1>5. CASE BudgetResume BY <1>5 DEF BudgetResume
<1>6. CASE Crash BY <1>6 DEF Crash
<1>7. CASE UNCHANGED vars BY <1>7 DEF vars
<1> QED BY <1>1, <1>2, <1>3, <1>4, <1>5, <1>6, <1>7 DEF Next

LEMMA PauseStep ==
    TypeOK /\ PatchesAreAsked /\ PauseReachesRuns /\ [Next]_vars => PauseReachesRuns'
<1> SUFFICES ASSUME TypeOK, PatchesAreAsked, PauseReachesRuns, [Next]_vars,
                    Unasked({"patchPaused"}), Is("paused")', "crash" \notin faults',
                    NEW r \in Runs, Works(r)'
             PROVE  \E q \in Requests :
                        \/ req'[q].step = "halted"
                        \/ req'[q].step = "listed" /\ r \in req'[q].list
    BY DEF PauseReachesRuns, Is, Unasked
<1>1. Works(r) BY WorksSince
<1>2. CASE Is("paused") /\ "crash" \notin faults
    <2>1. PICK q \in Requests :
                req[q].step = "halted" \/ (req[q].step = "listed" /\ r \in req[q].list)
        BY <1>1, <1>2 DEF PauseReachesRuns
    <2> QED BY <1>1, <2>1, HaltGoesOn
<1> QED BY <1>2, PausedByRequest

\* "Pause Durability", for any number of runs and requests at any place: once nobody
\* cancels any more, no run that counts as running executes for an agent that was
\* paused by the board's or the budget's pause.
THEOREM PauseIsDurable == Spec => []PausedMeansStopped
<1>1. Init => PauseReachesRuns
    BY DEF Init, PauseReachesRuns, Works
<1>2. TypeOK /\ PauseReachesRuns => PausedMeansStopped
    BY DEF PauseReachesRuns, PausedMeansStopped, Settled, Cancelling, Works, TypeOK, RunsOK
<1> QED BY <1>1, <1>2, PauseStep, PatchesAlwaysAsked, TypeCorrect, PTL DEF Spec

-----------------------------------------------------------------------------
(* The approval of the hire.                                                *)

\* An agent waits for approval only from the beginning, and a decision is made by a
\* request that goes on to its effect.
LEMMA DecisionStep ==
    TypeOK /\ PatchesAreAsked /\ DecisionsTakeEffect /\ [Next]_vars => DecisionsTakeEffect'
<1> SUFFICES ASSUME TypeOK, PatchesAreAsked, DecisionsTakeEffect, [Next]_vars,
                    Unasked({"patchPending"}),
                    Is("pending_approval")', approval' \notin Resolvable
             PROVE  faults' # {} \/ \E q \in Requests : req'[q].step = "resolved"
    BY DEF DecisionsTakeEffect, Is, Resolvable, Unasked
<1> USE DEF Is
<1>0. /\ agent \in AgentRows /\ req \in [Requests -> RequestRecords]
    BY DEF TypeOK, RequestsOK
\* What went wrong once has gone wrong.
<1>1. CASE faults # {}
    <2>1. \A q \in Requests : RequestStep(q) => faults \subseteq faults'
        BY DEF RequestStep, Ask, AskCancel, CancelListed, Pause, Resume, Patch, ClearError,
            BudgetPause, ListRuns, FindOpen, Resolve, Activate, ActivateFails, Terminate,
            Revise, Resubmit
    <2>2. \A r \in Runs : RunStep(r) => faults' = faults
        BY DEF RunStep, WakeRead, WakeInsert, Dispatch, DispatchCancels, Check, Claim, Start,
            Spawn, End
    <2> QED BY <1>1, <2>1, <2>2
            DEF Next, FinRead, FinCount, FinWrite, BudgetResume, Crash, vars
<1>2. ASSUME NEW r \in Runs, RunStep(r)
      PROVE  UNCHANGED <<approval, req>> /\ agent'.status \in {agent.status, "running"}
    BY <1>0, <1>2 DEF RunStep, WakeRead, WakeInsert, Dispatch, DispatchCancels, Check, Claim,
                Start, Spawn, End, AgentRows
<1>3. ASSUME NEW a \in Runs \cup Requests, FinRead(a) \/ FinCount(a) \/ FinWrite(a)
      PROVE  UNCHANGED <<approval, req>> /\ (agent' = agent \/ agent'.status # "pending_approval")
    <2>1. fin[a].to # "pending_approval" BY DEF TypeOK, RunsOK, FinRecords
    <2> QED BY <1>0, <1>3, <2>1 DEF FinRead, FinCount, FinWrite, AgentRows
\* A request that resolves the approval is resolved; one that was stays so, until it
\* has activated or terminated the agent.
<1>4. ASSUME NEW p \in Requests, RequestStep(p)
      PROVE  \/ req'[p].step = "resolved"
             \/ faults' # {}
             \/ /\ Is("pending_approval") /\ approval \notin Resolvable
                /\ \A q \in Requests : req[q].step = "resolved" => req'[q].step = "resolved"
    <2>1. CASE Resolve(p)
        BY <1>0, <2>1 DEF Resolve, Open, Goes, Over, RequestRecords
    <2>2. CASE Activate(p) \/ Terminate(p)
        BY <1>0, <2>2 DEF Activate, Terminate, Stopped, AgentRows
    <2>3. CASE FindOpen(p)
        BY <1>0, <2>3 DEF FindOpen, Goes
    <2>7. CASE ActivateFails(p)
        BY <2>7 DEF ActivateFails
    <2>8. CASE Patch(p)
        <3>1. req[p].kind # "patchPending"
            BY <2>8 DEF Patch, PatchesAreAsked, Unasked
        <3>2. agent'.status # "pending_approval"
            BY <1>0, <2>8, <3>1, Targets DEF Patch, AgentRows
        <3> QED BY <3>2
    <2>4. CASE Revise(p) \/ Resubmit(p)
        BY <2>4 DEF Revise, Resubmit, Resolvable
    <2>5. CASE Pause(p) \/ Resume(p) \/ ClearError(p) \/ BudgetPause(p) \/ ListRuns(p)
        BY <1>0, <2>5 DEF Pause, Resume, Patch, ClearError, BudgetPause, ListRuns, At, Goes, Over,
            AgentRows
    <2>6. CASE \/ \E kind \in Kinds[p] : Ask(p, kind)
               \/ \E r \in Runs : AskCancel(p, r) \/ CancelListed(p, r)
        BY <1>0, <2>6 DEF Ask, AskCancel, CancelListed, Idle, Over
    <2> QED BY <1>4, <2>1, <2>2, <2>3, <2>4, <2>5, <2>6, <2>7, <2>8 DEF RequestStep
<1>5. CASE BudgetResume BY <1>5 DEF BudgetResume
<1>6. CASE Crash BY <1>6 DEF Crash
<1>7. CASE UNCHANGED vars BY <1>1, <1>7 DEF vars, DecisionsTakeEffect
<1> QED BY <1>1, <1>2, <1>3, <1>4, <1>5, <1>6, <1>7 DEF Next, DecisionsTakeEffect

\* A decided hire is not left pending by any order of decisions, revisions and
\* terminations from the two pages, where neither the server nor an activation fails.
THEOREM DecisionsHold == Spec => []DecisionsTakeEffect
<1>1. Init => DecisionsTakeEffect
    BY StatusAssumption DEF Init, DecisionsTakeEffect, Is, Resolvable
<1> QED BY <1>1, DecisionStep, PatchesAlwaysAsked, TypeCorrect, PTL DEF Spec

\* An approval and a rejection do not overwrite each other, however many requests
\* decide at once.
THEOREM OneDecisionHolds == Spec => OneDecision
<1> DEFINE Kept == /\ approval = "approved" => approval' # "rejected"
                   /\ approval = "rejected" => approval' # "approved"
<1>1. ASSUME [Next]_vars PROVE Kept
    <2>1. ASSUME NEW r \in Runs, RunStep(r) PROVE approval' = approval
        BY <2>1 DEF RunStep, WakeRead, WakeInsert, Dispatch, DispatchCancels, Check, Claim,
            Start, Spawn, End
    <2>2. ASSUME NEW q \in Requests, RequestStep(q)
          PROVE  approval' = approval \/ approval' \in Resolvable \/ approval \in Resolvable
        BY <2>2 DEF RequestStep, Ask, AskCancel, CancelListed, Pause, Resume, Patch, ClearError,
            BudgetPause, ListRuns, FindOpen, Resolve, Open, Activate, ActivateFails, Terminate, Revise,
            Resubmit, Resolvable
    <2>3. ASSUME NEW a \in Runs \cup Requests, FinRead(a) \/ FinCount(a) \/ FinWrite(a)
          PROVE  approval' = approval
        BY <2>3 DEF FinRead, FinCount, FinWrite
    <2>4. BudgetResume \/ Crash \/ UNCHANGED vars => approval' = approval
        BY DEF BudgetResume, Crash, vars
    <2> QED BY <1>1, <2>1, <2>2, <2>3, <2>4 DEF Next, Resolvable
<1>2. [Next]_vars => [Kept]_vars
    BY <1>1
<1> QED BY <1>2, PTL DEF Spec, OneDecision
=============================================================================
