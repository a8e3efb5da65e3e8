--------------------------- MODULE AssigneeProofs ---------------------------
(***************************************************************************)
(* Theorems about IssueLock, continued: the run that holds the checkout     *)
(* works for the assignee of the issue.  A PATCH checks the row, and writes *)
(* it later, over whatever has become of it; the theorems say how far that  *)
(* is the only exception.                                                   *)
(***************************************************************************)
EXTENDS IssueLockProofs

\* A live checkout belongs to a run of the assignee, and the issue is in progress.
WorkedByAssignee ==
    Live(row.checkout) =>
        /\ row.status = "in_progress"
        /\ row.agent = RunAgent[row.checkout]

\* A request acts for the agent of the run it names.
RequestsKnowTheirAgent ==
    \A q \in Requests : req[q].run \in Runs => req[q].agent = RunAgent[req[q].run]

AssigneeInv == WorkedByAssignee /\ RequestsKnowTheirAgent

\* A PATCH that names an agent finds, when it writes, the one it read.
PatchIsFresh(q) ==
    WriteUpdate(q) => req[q].patch.agent = Keep \/ row.agent = req[q].seen.agent

\* The issue as the checkout knows it.
SameIssue ==
    /\ row'.checkout = row.checkout /\ row'.status = row.status
    /\ row'.agent = row.agent

-----------------------------------------------------------------------------
(* What each step does to an issue that a run holds.                        *)

\* A run's step gives the checkout up, or leaves status and assignee alone, and
\* it never assigns the issue to a user.
LEMMA RunStepIssue ==
    ASSUME TypeOK, RunStep
    PROVE  /\ row'.checkout = None \/ SameIssue
           /\ row'.user \in {None, row.user}
<1> USE RunsAssumption DEF SameIssue
<1>0. row \in Rows /\ run \in [Runs -> RunStates] BY DEF TypeOK
<1>1. \A a \in Agents \cup {None} :
        Blocked(a).checkout = None /\ Blocked(a).user = row.user
    BY <1>0 DEF Blocked, Unlocked, Rows
<1>2. row.agent \in Agents \cup {None} BY <1>0, RowFields
<1>3. CASE Wake
    <2>1. \/ row' = row
          \/ row' = Blocked(row.agent)
          \/ \E x : row' = [row EXCEPT !.execution = x]
        BY <1>3 DEF Wake, WakeHeld, WakeZombie, WakeUnheld, WakeFree, vars
    <2> QED BY <1>0, <1>1, <1>2, <2>1 DEF Rows
<1>4. ASSUME NEW r \in Runs,
             \/ WakeElsewhere(r) \/ Claim(r) \/ Stamp(r) \/ Finish(r) \/ Cancel(r)
             \/ GateCancel(r) \/ GateClear(r) \/ RetryDue(r) \/ Reap(r)
             \/ Interrupt(r) \/ Fold(r)
      PROVE  SameIssue /\ row'.user = row.user
    BY <1>0, <1>4 DEF WakeElsewhere, Claim, Stamp, Finish, Cancel, GateCancel, GateClear,
        RetryDue, Reap, Interrupt, Fold, Rows
<1>5. \A r \in Runs : /\ ReleasedBy(row, r).checkout \in {None, row.checkout}
                      /\ ReleasedBy(row, r).status = row.status
                      /\ ReleasedBy(row, r).agent = row.agent
                      /\ ReleasedBy(row, r).user = row.user
    BY <1>0 DEF ReleasedBy, Rows
<1>6. ASSUME NEW r \in Runs, ReleaseOnly(r) \/ ReleaseToEscalate(r)
      PROVE  (row'.checkout = None \/ SameIssue) /\ row'.user = row.user
    BY <1>5, <1>6 DEF ReleaseOnly, ReleaseToEscalate
<1>7. ASSUME NEW r \in Runs, Escalation(r)
      PROVE  (row'.checkout = None \/ SameIssue) /\ row'.user = row.user
    <2>1. RunAgent[r] \in Agents \cup {None} OBVIOUS
    <2>2. row' = row \/ \E a \in Agents \cup {None} : row' = Blocked(a)
        BY <1>2, <1>7, <2>1 DEF Escalation, EscalateInPlace, Escalate, Reblock, EscalationThrows
    <2> QED BY <1>1, <2>2
<1>8. ASSUME NEW r \in Runs, NEW r2 \in Runs,
             HandOff(r, r2) \/ ScheduleRetry(r, r2) \/ CommentRetry(r, r2)
      PROVE  (row'.checkout = None \/ SameIssue) /\ row'.user = row.user
    BY <1>0, <1>8 DEF HandOff, ScheduleRetry, CommentRetry, Rows
<1>9. ASSUME NEW r \in Runs, NEW r2 \in Runs, Recover(r, r2)
      PROVE  (row'.checkout = None \/ SameIssue) /\ row'.user = row.user
    BY <1>0, <1>9 DEF Recover, ReleasedBy, Rows
<1>10. ASSUME NEW r \in Runs, NEW r2 \in Runs, NEW reopen \in BOOLEAN, Promote(r, r2, reopen)
       PROVE  (row'.checkout = None \/ SameIssue) /\ row'.user = row.user
    BY <1>0, <1>10 DEF Promote, ReleasedBy, Unlocked, Rows
<1> QED BY <1>3, <1>4, <1>6, <1>7, <1>8, <1>9, <1>10 DEF RunStep, Escalation

\* A request's step gives the checkout up, or leaves status and assignee alone,
\* or checks the issue out for the agent it acts for, and puts it in progress.
LEMMA RequestStepIssue ==
    ASSUME TypeOK, RequestStep, \A q \in Requests : PatchIsFresh(q)
    PROVE  \/ row'.checkout = None
           \/ SameIssue
           \/ row'.checkout = row.checkout /\ row'.agent = row.agent
              /\ row'.status = "in_progress"
           \/ \E q \in Requests : /\ row'.checkout = req[q].run
                                  /\ row'.agent = req[q].agent
                                  /\ row'.status = "in_progress"
<1> USE DEF SameIssue
<1>0. row \in Rows BY DEF TypeOK
<1>1. \A r \in RunOrNone : /\ Locked(row, r).checkout = r /\ Locked(row, r).agent = row.agent
                           /\ Locked(row, r).status = row.status
    BY <1>0 DEF Locked, Rows
<1>2. \A q \in Requests : req[q].run \in RunOrNone BY RequestFields
<1>3. ASSUME NEW q \in Requests, Take(q) \/ AdoptExecution(q)
      PROVE  \/ SameIssue
             \/ /\ row'.checkout = req[q].run /\ row'.agent = req[q].agent
                /\ row'.status = "in_progress"
    BY <1>0, <1>3 DEF Take, AdoptExecution, Locked, Rows
<1>4. ASSUME NEW q \in Requests, AdoptUnowned(q) \/ AdoptStale(q)
      PROVE  \/ SameIssue
             \/ /\ row'.checkout = req[q].run /\ row'.agent = req[q].agent
                /\ row'.status = "in_progress"
    BY <1>1, <1>2, <1>4 DEF AdoptUnowned, AdoptStale, Unowned, MineInProgress
<1>5. ASSUME NEW q \in Requests, ClearExecution(q) \/ ClearCheckout(q) \/ Sweep(q)
      PROVE  row'.checkout = None \/ SameIssue
    BY <1>0, <1>5 DEF ClearExecution, ClearCheckout, Sweep, Unlocked, Rows
<1>6. ASSUME NEW q \in Requests, WriteUpdate(q)
      PROVE  \/ row'.checkout = None
             \/ /\ row'.checkout = row.checkout /\ row'.agent = row.agent
                /\ row'.status \in {row.status, "in_progress"}
    <2> DEFINE p == req[q].patch
               seen == req[q].seen
    <2>1. row' = Patched(row, p, seen) /\ (p.agent = Keep \/ row.agent = seen.agent)
        BY <1>6 DEF WriteUpdate, PatchIsFresh
    <2> HIDE DEF p, seen
    <2>2. CASE DropsLock(p, seen)
        BY <1>0, <2>1, <2>2 DEF Patched, Unlocked, Rows
    <2>3. CASE ~DropsLock(p, seen)
        <3>1. p.status \in {Keep, "in_progress"} /\ p.agent \in {Keep, seen.agent}
            BY <2>3 DEF DropsLock
        <3>2. /\ Requested(row, p).status \in {row.status, "in_progress"}
              /\ Requested(row, p).agent = row.agent
            BY <2>1, <3>1 DEF Requested
        <3> QED BY <1>0, <2>1, <2>3, <3>2 DEF Patched, Rows
    <2> QED BY <2>2, <2>3
<1>7. ASSUME NEW q \in Requests,
             \/ \E a \in Agents, x \in RunOrNone, expect \in Expectations :
                    StartCheckout(q, a, x, expect)
             \/ \E x \in Runs : StartAssert(q, x)
             \/ Refuse(q) \/ ReadRow(q) \/ TestExecution(q) \/ Resolve(q)
             \/ \E p \in Patches : StartUpdate(q, p)
             \/ StartSweep(q)
      PROVE  row' = row
    BY <1>7 DEF StartCheckout, StartAssert, Refuse, ReadRow, TestExecution, Resolve,
        StartUpdate, StartSweep
<1> QED BY <1>3, <1>4, <1>5, <1>6, <1>7 DEF RequestStep

\* The board takes the checkout away from an issue in progress, and does not
\* assign an issue to a user unless another user had it.
LEMMA OwnerStepIssue ==
    ASSUME TypeOK, OwnerStep
    PROVE  /\ \/ row'.checkout = None
              \/ row'.checkout = row.checkout /\ row.status # "in_progress"
           /\ row.user = None => row'.user = None
<1>0. row \in Rows BY DEF TypeOK
<1> QED BY <1>0 DEF OwnerStep, Release, BoardRelease, AdminForceRelease, TreeCancel,
            TreeRestore, ArchiveMember, Unlocked, Rows

\* A request keeps its run and its agent until it ends, and starts with a run of
\* that agent; it writes only what a PATCH asked for.
LEMMA RequestActs ==
    ASSUME TypeOK, [Next]_vars, NEW q \in Requests
    PROVE  /\ \/ req'[q].run = req[q].run /\ req'[q].agent = req[q].agent
              \/ req'[q].run \in Runs => req'[q].agent = RunAgent[req'[q].run]
           /\ req'[q].step = "write" => req[q].step = "write" \/ Patches # {}
<1> DEFINE Acts(x) ==
        /\ \/ req'[x].run = req[x].run /\ req'[x].agent = req[x].agent
           \/ req'[x].run \in Runs => req'[x].agent = RunAgent[req'[x].run]
        /\ req'[x].step = "write" => req[x].step = "write" \/ Patches # {}
<1>0. /\ req \in [Requests -> ReqRecords] /\ req[q] \in ReqRecords
      /\ Idle.run = None /\ Idle.step = "idle" /\ None \notin Runs
      /\ \A i, me : AfterRead(i, me) # "write"
    BY RunsAssumption DEF TypeOK, Idle, AfterRead
<1>1. CASE UNCHANGED req
    BY <1>1
<1>2. CASE Crash
    BY <1>0, <1>2 DEF Crash
<1>3. CASE RequestStep
    <2>1. PICK p \in Requests :
            \/ \E a \in Agents, r \in RunOrNone, expect \in Expectations :
                    StartCheckout(p, a, r, expect)
            \/ \E r \in Runs : StartAssert(p, r)
            \/ ClearExecution(p) \/ ClearCheckout(p) \/ Take(p) \/ Refuse(p)
            \/ ReadRow(p) \/ AdoptUnowned(p) \/ AdoptStale(p)
            \/ TestExecution(p) \/ AdoptExecution(p) \/ Resolve(p)
            \/ \E c \in Patches : StartUpdate(p, c)
            \/ WriteUpdate(p)
            \/ StartSweep(p) \/ Sweep(p)
        BY <1>3 DEF RequestStep
    <2>2. req[p] \in ReqRecords BY <1>0
    <2> HIDE DEF Acts
    <2> USE DEF Goto, Done
    <2>3. ASSUME p # q PROVE Acts(q)
        BY <1>0, <2>1, <2>3 DEF Acts, StartCheckout, StartAssert, ClearExecution,
            ClearCheckout, Take, Refuse, ReadRow, AdoptUnowned, AdoptStale, TestExecution,
            AdoptExecution, Resolve, StartUpdate, WriteUpdate, StartSweep, Sweep
    <2>4. ASSUME NEW a \in Agents, NEW r \in RunOrNone, NEW expect \in Expectations,
                 StartCheckout(p, a, r, expect)
          PROVE Acts(p)
        BY <1>0, <2>4, RunsAssumption DEF StartCheckout, Acts, Idle, RunOrNone
    <2>5. ASSUME NEW r \in Runs, StartAssert(p, r) PROVE Acts(p)
        BY <1>0, <2>5 DEF StartAssert, Acts, Idle
    <2>6. ASSUME NEW c \in Patches, StartUpdate(p, c) PROVE Acts(p)
        BY <1>0, <2>6 DEF StartUpdate, Acts, Idle
    <2>7. ASSUME StartSweep(p) PROVE Acts(p)
        BY <1>0, <2>7 DEF StartSweep, Acts, Idle
    <2>8. ASSUME Refuse(p) \/ WriteUpdate(p) \/ Sweep(p) PROVE Acts(p)
        BY <1>0, <2>8 DEF Refuse, WriteUpdate, Sweep, Acts
    <2>9. ASSUME ClearExecution(p) \/ ClearCheckout(p) \/ ReadRow(p) PROVE Acts(p)
        BY <1>0, <2>2, <2>9 DEF ClearExecution, ClearCheckout, ReadRow, Acts, ReqRecords
    <2>10. ASSUME Take(p) \/ AdoptUnowned(p) \/ AdoptExecution(p) \/ Resolve(p) PROVE Acts(p)
        BY <1>0, <2>2, <2>10 DEF Take, AdoptUnowned, AdoptExecution, Resolve, Acts, ReqRecords
    <2>11. ASSUME AdoptStale(p) PROVE Acts(p)
        BY <1>0, <2>2, <2>11 DEF AdoptStale, Acts, ReqRecords
    <2>12. ASSUME TestExecution(p) PROVE Acts(p)
        BY <1>0, <2>2, <2>12 DEF TestExecution, Acts, ReqRecords
    <2>13. Acts(p)
        BY <2>1, <2>4, <2>5, <2>6, <2>7, <2>8, <2>9, <2>10, <2>11, <2>12
    <2>14. Acts(q)
        BY <2>3, <2>13
    <2> QED BY <2>14 DEF Acts
<1>4. CASE RunStep
    <2>1. CASE Wake BY <1>1, <2>1, WakeEffect
    <2>2. CASE \E r \in Runs : Escalation(r) BY <1>1, <2>2, EscalationEffect
    <2>3. CASE \E r, r2 \in Runs : ScheduleRetry(r, r2) \/ CommentRetry(r, r2) \/ HandOff(r, r2)
        BY <1>1, <2>3 DEF ScheduleRetry, CommentRetry, HandOff
    <2>4. CASE \E r, r2 \in Runs : Recover(r, r2) \/ \E reopen \in BOOLEAN : Promote(r, r2, reopen)
        BY <1>1, <2>4 DEF Recover, Promote, Completed, Released
    <2>5. CASE \E r \in Runs : \/ WakeElsewhere(r) \/ Claim(r) \/ Stamp(r) \/ Finish(r)
                               \/ Cancel(r) \/ GateCancel(r) \/ GateClear(r)
                               \/ RetryDue(r) \/ Reap(r) \/ Interrupt(r) \/ Fold(r)
                               \/ ReleaseOnly(r) \/ ReleaseToEscalate(r)
        BY <1>1, <2>5 DEF WakeElsewhere, Claim, Stamp, Finish, Cancel, GateCancel,
            GateClear, RetryDue, Reap, Interrupt, Fold, ReleaseOnly, ReleaseToEscalate,
            Completed, Released
    <2> QED BY <1>4, <2>1, <2>2, <2>3, <2>4, <2>5 DEF RunStep, Escalation
<1>5. CASE OwnerStep \/ UNCHANGED vars
    BY <1>1, <1>5 DEF OwnerStep, Release, BoardRelease, AdminForceRelease, TreeCancel,
        TreeRestore, ArchiveMember, vars
<1> QED BY <1>2, <1>3, <1>4, <1>5 DEF Next

\* A checkout that a step leaves alone, and that is live after it, was before.
LEMMA LiveBefore ==
    ASSUME TypeOK, LockInv, [Next]_vars, Live(row.checkout)', row'.checkout = row.checkout
    PROVE  Live(row.checkout)
<1>1. /\ row.checkout \in Runs /\ run[row.checkout] \in RunStates
      /\ run'[row.checkout] \in {"queued", "scheduled_retry", "running"}
    BY DEF Live, TypeOK
<1>2. run[row.checkout] # "absent"
    BY <1>1 DEF LockInv, OnlyInsertedRunsAreNamed
<1>3. run[row.checkout] # "terminal"
    BY <1>1, RunsAdvance
<1> QED BY <1>1, <1>2, <1>3 DEF Live, RunStates

\* AssigneeInv is inductive, as long as PATCHes are fresh.
LEMMA AssigneeStep ==
    ASSUME TypeOK, LockInv, AssigneeInv, [Next]_vars, \A q \in Requests : PatchIsFresh(q)
    PROVE  AssigneeInv'
<1>1. RequestsKnowTheirAgent'
    BY RequestActs DEF AssigneeInv, RequestsKnowTheirAgent
<1>2. ASSUME Live(row.checkout)'
      PROVE  row'.status = "in_progress" /\ row'.agent = RunAgent[row'.checkout]
    <2>1. row'.checkout \in Runs /\ row'.checkout # None
        BY <1>2, RunsAssumption DEF Live
    <2>2. row'.checkout = row.checkout =>
            row.status = "in_progress" /\ row.agent = RunAgent[row.checkout]
        BY <1>2, LiveBefore DEF AssigneeInv, WorkedByAssignee
    <2>3. CASE RunStep
        BY <2>1, <2>2, <2>3, RunStepIssue DEF SameIssue
    <2>4. CASE RequestStep
        <3>1. CASE \E q \in Requests : /\ row'.checkout = req[q].run
                                       /\ row'.agent = req[q].agent
                                       /\ row'.status = "in_progress"
            BY <2>1, <3>1 DEF AssigneeInv, RequestsKnowTheirAgent
        <3>2. CASE SameIssue \/ (/\ row'.checkout = row.checkout /\ row'.agent = row.agent
                                 /\ row'.status = "in_progress")
            BY <2>2, <3>2 DEF SameIssue
        <3> QED BY <2>1, <2>4, <3>1, <3>2, RequestStepIssue
    <2>5. CASE OwnerStep
        BY <2>1, <2>2, <2>5, OwnerStepIssue
    <2>6. CASE Crash \/ UNCHANGED vars
        BY <2>2, <2>6 DEF Crash, vars
    <2> QED BY <2>3, <2>4, <2>5, <2>6 DEF Next
<1> QED BY <1>1, <1>2 DEF AssigneeInv, WorkedByAssignee

-----------------------------------------------------------------------------
(* The theorems.                                                            *)

\* A run never works on an issue that is not its agent's, or not in progress,
\* as long as every PATCH that names an agent finds the agent it read: a stale
\* PATCH is the only statement that can take an issue from under a run without
\* taking the lock.
THEOREM OnlyStalePatchesReassign ==
    Spec /\ [][\A q \in Requests : PatchIsFresh(q)]_vars => []WorkedByAssignee
<1> DEFINE AllFresh == \A q \in Requests : PatchIsFresh(q)
<1>1. Init => AssigneeInv
    BY RunsAssumption DEF Init, AssigneeInv, WorkedByAssignee, RequestsKnowTheirAgent, Live,
        FreshRow, Idle
<1>2. TypeOK /\ LockInv /\ AssigneeInv /\ [Next]_vars /\ [AllFresh]_vars => AssigneeInv'
    <2>1. CASE UNCHANGED vars
        BY <2>1 DEF vars, AssigneeInv, WorkedByAssignee, RequestsKnowTheirAgent, Live
    <2>2. CASE ~UNCHANGED vars
        BY <2>2, AssigneeStep
    <2> QED BY <2>1, <2>2
<1>3. AssigneeInv => WorkedByAssignee BY DEF AssigneeInv
<1> HIDE DEF AllFresh
<1>4. Spec /\ [][AllFresh]_vars => []WorkedByAssignee
    BY <1>1, <1>2, <1>3, TypeCorrect, LockInvHolds, PTL DEF Spec
<1> QED BY <1>4 DEF AllFresh

\* Without PATCHes no request writes an assignee, and no user gets the issue.
NoUserComesIn ==
    /\ row.user = None
    /\ \A q \in Requests : req[q].step # "write"

\* Without PATCHes, a live checkout belongs to a run of the assignee of an issue
\* that is in progress and has no user as its assignee, whatever runs, requests,
\* the board and crashes do.
THEOREM OwnerIsTheAssignee ==
    ASSUME Patches = {}
    PROVE  Spec => []OwnerIsAssignee
<1>1. Init => NoUserComesIn
    BY DEF Init, NoUserComesIn, FreshRow, Idle
<1>2. TypeOK /\ NoUserComesIn /\ [Next]_vars => NoUserComesIn'
    <2> SUFFICES ASSUME TypeOK, NoUserComesIn, [Next]_vars PROVE NoUserComesIn'
        OBVIOUS
    <2>0. row \in Rows /\ row.user = None BY DEF TypeOK, NoUserComesIn
    <2>1. \A q \in Requests : req'[q].step # "write"
        BY RequestActs DEF NoUserComesIn
    <2>2. CASE RunStep
        BY <2>0, <2>1, <2>2, RunStepIssue DEF NoUserComesIn
    <2>3. CASE OwnerStep
        BY <2>0, <2>1, <2>3, OwnerStepIssue DEF NoUserComesIn
    <2>4. CASE RequestStep
        <3>1. \A q \in Requests : ~WriteUpdate(q) BY DEF NoUserComesIn, WriteUpdate, At
        <3>2. ASSUME NEW q \in Requests,
                     \/ Take(q) \/ AdoptUnowned(q) \/ AdoptStale(q) \/ AdoptExecution(q)
              PROVE  row'.user = None
            BY <2>0, <3>2 DEF Take, AdoptUnowned, AdoptStale, AdoptExecution, Locked, Rows
        <3>3. ASSUME NEW q \in Requests, ClearExecution(q) \/ ClearCheckout(q) \/ Sweep(q)
              PROVE  row'.user = None
            BY <2>0, <3>3 DEF ClearExecution, ClearCheckout, Sweep, Unlocked, Rows
        <3>4. ASSUME NEW q \in Requests,
                     \/ \E a \in Agents, x \in RunOrNone, expect \in Expectations :
                            StartCheckout(q, a, x, expect)
                     \/ \E x \in Runs : StartAssert(q, x)
                     \/ Refuse(q) \/ ReadRow(q) \/ TestExecution(q) \/ Resolve(q)
                     \/ \E p \in Patches : StartUpdate(q, p)
                     \/ StartSweep(q)
              PROVE  row' = row
            BY <3>4 DEF StartCheckout, StartAssert, Refuse, ReadRow, TestExecution, Resolve,
                StartUpdate, StartSweep
        <3> QED BY <2>0, <2>1, <2>4, <3>1, <3>2, <3>3, <3>4 DEF RequestStep, NoUserComesIn
    <2>5. CASE Crash \/ UNCHANGED vars
        BY <2>0, <2>1, <2>5 DEF Crash, vars, NoUserComesIn
    <2> QED BY <2>2, <2>3, <2>4, <2>5 DEF Next
<1>3. NoUserComesIn => \A q \in Requests : PatchIsFresh(q)
    BY DEF NoUserComesIn, PatchIsFresh, WriteUpdate, At
<1>4. NoUserComesIn /\ WorkedByAssignee => OwnerIsAssignee
    BY DEF NoUserComesIn, WorkedByAssignee, OwnerIsAssignee
<1> DEFINE AllFresh == \A q \in Requests : PatchIsFresh(q)
<1>5. NoUserComesIn => AllFresh BY <1>3
<1>6. Spec /\ [][AllFresh]_vars => []WorkedByAssignee BY OnlyStalePatchesReassign
<1> HIDE DEF AllFresh
<1> QED BY <1>1, <1>2, <1>4, <1>5, <1>6, TypeCorrect, PTL DEF Spec
=============================================================================
