-------------------------- MODULE IssueLockProofs --------------------------
(***************************************************************************)
(* Theorems about IssueLock, for any agents, runs and requests: every       *)
(* reachable state is well typed, the two lock columns agree, and the       *)
(* checkout column keeps the promise of CheckoutOwnership.                  *)
(***************************************************************************)
EXTENDS IssueLock, TLAPS

-----------------------------------------------------------------------------
(* Type correctness.  Rows and requests are built with EXCEPT from well     *)
(* typed ones; a lemma for each says so once.                               *)

\* The fields of a row.
LEMMA RowFields ==
    ASSUME NEW i \in Rows
    PROVE  /\ i.status \in IssueStatus
           /\ i.agent \in Agents \cup {None}
           /\ i.user \in Users \cup {None}
           /\ i.checkout \in RunOrNone
           /\ i.execution \in RunOrNone
           /\ Unlocked(i) \in Rows
           /\ \A r \in RunOrNone : Locked(i, r) \in Rows
           /\ \A r \in RunOrNone : [i EXCEPT !.execution = r] \in Rows
           /\ \A r \in RunOrNone : ReleasedBy(i, r) \in Rows
BY DEF Rows, Unlocked, Locked, ReleasedBy, RunOrNone

\* The rows that block an issue.
LEMMA BlockedRow ==
    ASSUME row \in Rows, NEW a \in Agents \cup {None}
    PROVE  Blocked(a) \in Rows /\ Blocked(a).checkout = None /\ Blocked(a).execution = None
BY DEF Blocked, Unlocked, Rows, IssueStatus, RunOrNone

\* What a wake does to the row and the runs: it cancels some runs, the live
\* holder among them unless the row stays as it is; it queues at most one; it
\* sets the execution column to null or to a live run, or clears both columns.
LEMMA WakeEffect ==
    ASSUME TypeOK, Wake
    PROVE  /\ UNCHANGED <<proc, phase, req>>
           /\ row' \in Rows
           /\ \/ row' = row
              \/ row'.checkout = None /\ row'.execution = None
              \/ /\ row'.checkout = row.checkout
                 /\ row'.execution # None => Live(row'.execution)
                 /\ ActiveHolder # None => run'[ActiveHolder] = "terminal"
           /\ run' \in [Runs -> RunStates]
           /\ \A r \in Runs : /\ run'[r] \in {run[r], "terminal", "queued"}
                              /\ run'[r] = "terminal" => run[r] # "absent"
                              /\ run'[r] = "queued" => run[r] \in {"absent", "queued"}
<1> USE RunsAssumption
<1> DEFINE Moves == \A r \in Runs :
                        /\ run'[r] \in {run[r], "terminal", "queued"}
                        /\ run'[r] = "terminal" => run[r] # "absent"
                        /\ run'[r] = "queued" => run[r] \in {"absent", "queued"}
<1>0. /\ run \in [Runs -> RunStates] /\ row \in Rows
      /\ ActiveHolder # None => ActiveHolder \in Runs /\ Live(ActiveHolder)
      /\ \A r \in Runs : Live(r) => run[r] # "absent"
    BY DEF TypeOK, ActiveHolder, Live
\* Only live runs are cancelled.
<1>1. ASSUME NEW S \in SUBSET Runs, NEW r2 \in Runs \cup {None},
             \A r \in S : Live(r), r2 # None => run[r2] = "absent",
             run' = Woken(S, r2)
      PROVE  run' \in [Runs -> RunStates] /\ Moves /\ \A r \in S : run'[r] = "terminal"
    <2>1. \A r \in S : r # r2 BY <1>0, <1>1
    <2> QED BY <1>0, <1>1, <2>1 DEF Woken, RunStates
<1>2. CASE WakeHeld
    BY <1>0, <1>2 DEF WakeHeld, vars
<1>3. ASSUME NEW r2 \in Runs, run[r2] = "absent", WakeZombie(r2)
      PROVE  UNCHANGED <<row, proc, phase, req>> /\ run' \in [Runs -> RunStates] /\ Moves
    <2>1. run' = Woken({}, r2) BY <1>3 DEF WakeZombie
    <2>2. run' \in [Runs -> RunStates] /\ Moves BY <1>1, <1>3, <2>1
    <2> QED BY <1>3, <2>2 DEF WakeZombie
<1>4. ASSUME NEW r2 \in Runs \cup {None}, r2 # None => run[r2] = "absent", WakeUnheld(r2)
      PROVE  /\ UNCHANGED <<proc, phase, req>>
             /\ row' \in Rows
             /\ \/ row'.checkout = None /\ row'.execution = None
                \/ /\ row'.checkout = row.checkout
                   /\ row'.execution # None => Live(row'.execution)
                   /\ ActiveHolder # None => run'[ActiveHolder] = "terminal"
             /\ run' \in [Runs -> RunStates] /\ Moves
    <2> DEFINE gone == IF ActiveHolder = None THEN {} ELSE {ActiveHolder}
               legacy == LegacyCandidates(gone)
               free == /\ row'.checkout \in {None, row.checkout} /\ row'.execution = None
                       /\ row' \in Rows
                       /\ row'.checkout = row.checkout \/ row'.checkout = None
    <2>1. /\ gone \in SUBSET Runs /\ \A r \in gone : Live(r)
          /\ ActiveHolder # None => ActiveHolder \in gone
        BY <1>0
    <2>2. \A l \in legacy : l \in Runs /\ Live(l)
        BY DEF LegacyCandidates
    <2> HIDE DEF gone
    <2>3. ASSUME NEW S \in SUBSET Runs, WakeFree(S, r2) PROVE free
        <3>1. row.agent \in Agents \cup {None} BY <1>0, RowFields
        <3>2. row' = [row EXCEPT !.execution = None] \/ row' = Blocked(row.agent)
            BY <2>3 DEF WakeFree
        <3>3. [row EXCEPT !.execution = None] \in Rows BY <1>0, RowFields DEF RunOrNone
        <3> QED BY <1>0, <3>1, <3>2, <3>3, BlockedRow DEF Rows
    <2>4. CASE legacy = {} /\ WakeFree(gone, r2)
        <3>1. run' = Woken(gone, r2) BY <2>4 DEF WakeFree
        <3>2. run' \in [Runs -> RunStates] /\ Moves /\ \A r \in gone : run'[r] = "terminal"
            BY <1>1, <1>4, <2>1, <3>1
        <3>3. UNCHANGED <<proc, phase, req>> BY <1>4 DEF WakeUnheld
        <3> QED BY <2>1, <2>3, <2>4, <3>2, <3>3
    <2>5. ASSUME NEW l \in legacy, WakeFree(gone \cup {l}, r2)
          PROVE  /\ run' \in [Runs -> RunStates] /\ Moves /\ free
                 /\ ActiveHolder # None => run'[ActiveHolder] = "terminal"
        <3>1. run' = Woken(gone \cup {l}, r2) BY <2>5 DEF WakeFree
        <3>2. gone \cup {l} \in SUBSET Runs /\ \A r \in gone \cup {l} : Live(r)
            BY <2>1, <2>2
        <3>3. /\ run' \in [Runs -> RunStates] /\ Moves
              /\ \A r \in gone \cup {l} : run'[r] = "terminal"
            BY <1>1, <1>4, <3>1, <3>2
        <3> QED BY <2>1, <2>3, <2>5, <3>2, <3>3
    <2>6. ASSUME NEW l \in legacy, run' = Woken(gone, r2), row' = [row EXCEPT !.execution = l]
          PROVE  /\ run' \in [Runs -> RunStates] /\ Moves
                 /\ row' \in Rows /\ row'.checkout = row.checkout
                 /\ row'.execution = l /\ Live(l)
                 /\ ActiveHolder # None => run'[ActiveHolder] = "terminal"
        <3>1. run' \in [Runs -> RunStates] /\ Moves /\ \A r \in gone : run'[r] = "terminal"
            BY <1>1, <1>4, <2>1, <2>6
        <3>2. row' \in Rows BY <1>0, <2>2, <2>6, RowFields DEF RunOrNone
        <3> QED BY <1>0, <2>1, <2>2, <2>6, <3>1, <3>2 DEF Rows
    <2>7. \/ legacy = {} /\ WakeFree(gone, r2)
          \/ \E l \in legacy : \/ WakeFree(gone \cup {l}, r2)
                               \/ run' = Woken(gone, r2) /\ row' = [row EXCEPT !.execution = l]
        BY <1>4 DEF WakeUnheld, gone
    <2>8. UNCHANGED <<proc, phase, req>> BY <1>4 DEF WakeUnheld
    <2> QED BY <2>4, <2>5, <2>6, <2>7, <2>8
<1>5. \/ WakeHeld
      \/ \E r2 \in Runs : run[r2] = "absent" /\ WakeZombie(r2)
      \/ \E r2 \in Runs \cup {None} : (r2 # None => run[r2] = "absent") /\ WakeUnheld(r2)
    BY DEF Wake
<1> QED BY <1>0, <1>2, <1>3, <1>4, <1>5

\* The statements that follow the transaction of a finalization.
Escalation(r) ==
    \/ EscalateInPlace(r) \/ (\E owner \in Agents : Escalate(r, owner))
    \/ Reblock(r) \/ EscalationThrows(r)

\* They leave the row alone, or clear both columns.
LEMMA EscalationEffect ==
    ASSUME TypeOK, NEW r \in Runs, Escalation(r)
    PROVE  /\ UNCHANGED <<run, proc, req>>
           /\ phase[r] \in {"escalating", "reblocking"}
           /\ \E next \in {"none", "reblocking"} : phase' = [phase EXCEPT ![r] = next]
           /\ row' \in Rows
           /\ row' = row \/ (row'.checkout = None /\ row'.execution = None)
<1>0. row \in Rows /\ RunAgent[r] \in Agents
    BY RunsAssumption DEF TypeOK
<1>1. \A a \in Agents \cup {None} :
        Blocked(a) \in Rows /\ Blocked(a).checkout = None /\ Blocked(a).execution = None
    BY <1>0, BlockedRow
<1>2. row.agent \in Agents \cup {None} BY <1>0, RowFields
<1>3. row' = row \/ \E a \in Agents \cup {None} : row' = Blocked(a)
    BY <1>0, <1>2 DEF Escalation, EscalateInPlace, Escalate, Reblock, EscalationThrows
<1>4. /\ UNCHANGED <<run, proc, req>>
      /\ phase[r] \in {"escalating", "reblocking"}
      /\ \E next \in {"none", "reblocking"} : phase' = [phase EXCEPT ![r] = next]
    BY DEF Escalation, EscalateInPlace, Escalate, Reblock, EscalationThrows, Escalated
<1> QED BY <1>0, <1>1, <1>3, <1>4

\* A run's step keeps the types.
LEMMA RunStepType == TypeOK /\ RunStep => TypeOK'
<1> SUFFICES ASSUME TypeOK, RunStep PROVE TypeOK'
    OBVIOUS
<1> USE RunsAssumption DEF TypeOK
<1>1. CASE Wake
    BY <1>1, WakeEffect
<1>2. ASSUME NEW r \in Runs, WakeElsewhere(r) PROVE TypeOK'
    BY <1>2 DEF WakeElsewhere, RunStates
<1>3. ASSUME NEW r \in Runs, Claim(r) PROVE TypeOK'
    BY <1>3 DEF Claim, RunStates, ProcStates
<1>4. ASSUME NEW r \in Runs, Stamp(r) PROVE TypeOK'
    BY <1>4, RowFields DEF Stamp, ProcStates, RunOrNone
<1>5. ASSUME NEW r \in Runs, Finish(r) PROVE TypeOK'
    BY <1>5 DEF Finish, RunStates, ProcStates, Phases, Finalizing
<1>6. ASSUME NEW r \in Runs, Cancel(r) PROVE TypeOK'
    BY <1>6 DEF Cancel, RunStates, ProcStates, Phases, Finalizing
<1>7. ASSUME NEW r \in Runs, GateCancel(r) PROVE TypeOK'
    BY <1>7 DEF GateCancel, RunStates, Phases, Finalizing
<1>8. ASSUME NEW r \in Runs, GateClear(r) PROVE TypeOK'
    BY <1>8, RowFields DEF GateClear, Phases, Finalizing, RunOrNone
<1>9. ASSUME NEW r \in Runs, RetryDue(r) PROVE TypeOK'
    BY <1>9 DEF RetryDue, RunStates
<1>10. ASSUME NEW r \in Runs, Reap(r) PROVE TypeOK'
    BY <1>10 DEF Reap, RunStates, Phases, Finalizing
<1>11. ASSUME NEW r \in Runs, ReleaseOnly(r) PROVE TypeOK'
    BY <1>11, RowFields DEF ReleaseOnly, Completed, Released, Phases, Finalizing, RunOrNone
<1>12. ASSUME NEW r \in Runs, ReleaseToEscalate(r) PROVE TypeOK'
    BY <1>12, RowFields DEF ReleaseToEscalate, Released, Phases, Finalizing, RunOrNone
<1>13. ASSUME NEW r \in Runs, NEW r2 \in Runs, HandOff(r, r2) PROVE TypeOK'
    BY <1>13, RowFields DEF HandOff, Phases, Finalizing, RunStates, Rows, RunOrNone
<1>14. ASSUME NEW r \in Runs, NEW r2 \in Runs, ScheduleRetry(r, r2) PROVE TypeOK'
    BY <1>14, RowFields DEF ScheduleRetry, Scheduled, Phases, Finalizing, RunStates, RunOrNone
<1>15. ASSUME NEW r \in Runs, NEW r2 \in Runs, CommentRetry(r, r2) PROVE TypeOK'
    BY <1>15, RowFields DEF CommentRetry, Phases, Finalizing, RunStates, RunOrNone
<1>16. ASSUME NEW r \in Runs, NEW r2 \in Runs, Recover(r, r2) PROVE TypeOK'
    BY <1>16, RowFields DEF Recover, Completed, Released, Phases, Finalizing, RunStates, RunOrNone
<1>17. ASSUME NEW r \in Runs, NEW r2 \in Runs, NEW reopen \in BOOLEAN, Promote(r, r2, reopen)
       PROVE TypeOK'
    <2>1. [Unlocked(row) EXCEPT !.status = "todo"] \in Rows
        BY DEF Unlocked, Rows, IssueStatus, RunOrNone
    <2>2. row' \in Rows
        BY <1>17, <2>1, RowFields DEF Promote, RunOrNone
    <2> QED BY <1>17, <2>2 DEF Promote, Completed, Released, Phases, Finalizing, RunStates
<1>18. ASSUME NEW r \in Runs, Escalation(r) PROVE TypeOK'
    BY <1>18, EscalationEffect DEF Phases, Finalizing
<1>19. ASSUME NEW r \in Runs, Interrupt(r) PROVE TypeOK'
    BY <1>19 DEF Interrupt, RunStates, ProcStates, Phases, Finalizing
<1>20. ASSUME NEW r \in Runs, Fold(r) PROVE TypeOK'
    BY <1>20, RowFields DEF Fold, RunStates, ProcStates, RunOrNone
<1> QED BY <1>1, <1>2, <1>3, <1>4, <1>5, <1>6, <1>7, <1>8, <1>9, <1>10, <1>11, <1>12,
           <1>13, <1>14, <1>15, <1>16, <1>17, <1>18, <1>19, <1>20 DEF RunStep, Escalation

LEMMA IdleType == FreshRow \in Rows /\ Idle \in ReqRecords
<1>1. FreshRow \in Rows BY DEF FreshRow, Rows, RunOrNone, IssueStatus
<1> QED BY <1>1 DEF Idle, ReqRecords, Steps, RunOrNone

\* The fields of a request.
LEMMA RequestFields ==
    ASSUME TypeOK, NEW q \in Requests
    PROVE  /\ req[q] \in ReqRecords
           /\ req[q].agent \in Agents \cup {None}
           /\ req[q].run \in RunOrNone
           /\ req[q].patch \in Patches \cup {NoPatch}
           /\ req[q].seen \in Rows
BY DEF TypeOK, ReqRecords

\* The ways a request moves on: it starts or ends, goes to another step, or
\* reads the row first.
LEMMA RequestMoves ==
    ASSUME TypeOK, NEW q \in Requests,
           \/ \E x \in ReqRecords : req' = [req EXCEPT ![q] = x]
           \/ req' = [req EXCEPT ![q] = Idle]
           \/ \E s \in Steps : req' = [req EXCEPT ![q].step = s]
           \/ \E s \in Steps, i \in Rows : req' = [req EXCEPT ![q].seen = i, ![q].step = s]
           \/ \E s \in Steps, i \in Rows :
                req' = [req EXCEPT ![q].retried = TRUE, ![q].seen = i, ![q].step = s]
           \/ \E s \in Steps : req' = [req EXCEPT ![q].retried = TRUE, ![q].step = s]
    PROVE  req' \in [Requests -> ReqRecords]
<1> USE DEF TypeOK
<1>1. CASE \E x \in ReqRecords : req' = [req EXCEPT ![q] = x]
    BY <1>1
<1>2. CASE req' = [req EXCEPT ![q] = Idle]
    BY <1>2, IdleType
<1>3. ASSUME NEW s \in Steps, req' = [req EXCEPT ![q].step = s]
      PROVE  req' \in [Requests -> ReqRecords]
    <2>1. [req[q] EXCEPT !.step = s] \in ReqRecords BY RequestFields DEF ReqRecords
    <2> QED BY <1>3, <2>1
<1>4. ASSUME NEW s \in Steps, NEW i \in Rows, req' = [req EXCEPT ![q].seen = i, ![q].step = s]
      PROVE  req' \in [Requests -> ReqRecords]
    <2>1. [req[q] EXCEPT !.seen = i, !.step = s] \in ReqRecords
        BY RequestFields DEF ReqRecords
    <2> QED BY <1>4, <2>1
<1>5. ASSUME NEW s \in Steps, NEW i \in Rows,
             req' = [req EXCEPT ![q].retried = TRUE, ![q].seen = i, ![q].step = s]
      PROVE  req' \in [Requests -> ReqRecords]
    <2>1. [req[q] EXCEPT !.retried = TRUE, !.seen = i, !.step = s] \in ReqRecords
        BY RequestFields DEF ReqRecords
    <2> QED BY <1>5, <2>1
<1>6. ASSUME NEW s \in Steps, req' = [req EXCEPT ![q].retried = TRUE, ![q].step = s]
      PROVE  req' \in [Requests -> ReqRecords]
    <2>1. [req[q] EXCEPT !.retried = TRUE, !.step = s] \in ReqRecords
        BY RequestFields DEF ReqRecords
    <2> QED BY <1>6, <2>1
<1> QED BY <1>1, <1>2, <1>3, <1>4, <1>5, <1>6

\* A change that a PATCH asks for gives a row.
LEMMA PatchedType ==
    ASSUME NEW i \in Rows, NEW p \in Patches \cup {NoPatch}, NEW seen \in Rows
    PROVE  Patched(i, p, seen) \in Rows
<1>1. /\ p.status \in IssueStatus \cup {Keep}
      /\ p.agent \in Agents \cup {None, Keep}
      /\ p.user \in Users \cup {None, Keep}
    BY RunsAssumption DEF NoPatch
<1>2. /\ Requested(i, p).status \in IssueStatus
      /\ Requested(i, p).agent \in Agents \cup {None}
      /\ Requested(i, p).user \in Users \cup {None}
    BY <1>1 DEF Requested, Rows
<1> QED BY <1>2 DEF Patched, Unlocked, Rows, RunOrNone

\* A request's step keeps the types.
LEMMA RequestStepType == TypeOK /\ RequestStep => TypeOK'
<1> SUFFICES ASSUME TypeOK, RequestStep PROVE TypeOK'
    OBVIOUS
<1> USE DEF Goto, Done
<1>0. \A i, me : AfterRead(i, me) \in Steps
    BY DEF AfterRead, Steps
<1>1. ASSUME NEW q \in Requests, NEW a \in Agents, NEW r \in RunOrNone,
             NEW expect \in Expectations, StartCheckout(q, a, r, expect)
      PROVE TypeOK'
    <2>1. [Idle EXCEPT !.op = "checkout", !.agent = a, !.run = r,
                       !.expect = expect, !.step = "clearExecution"] \in ReqRecords
        BY IdleType, RunsAssumption DEF ReqRecords, Steps
    <2>2. req' \in [Requests -> ReqRecords]
        BY <1>1, <2>1, RequestMoves DEF StartCheckout
    <2> QED BY <1>1, <2>2 DEF StartCheckout, TypeOK
<1>2. ASSUME NEW q \in Requests, NEW r \in Runs, StartAssert(q, r) PROVE TypeOK'
    <2>1. RunAgent[r] \in Agents /\ r \in RunOrNone
        BY RunsAssumption DEF RunOrNone
    <2>2. [Idle EXCEPT !.op = "assert", !.agent = RunAgent[r], !.run = r,
                       !.step = "clearExecution"] \in ReqRecords
        BY <2>1, IdleType DEF ReqRecords, Steps
    <2>3. req' \in [Requests -> ReqRecords]
        BY <1>2, <2>2, RequestMoves DEF StartAssert
    <2> QED BY <1>2, <2>3 DEF StartAssert, TypeOK
<1>3. ASSUME NEW q \in Requests, ClearExecution(q) PROVE TypeOK'
    <2>1. req' \in [Requests -> ReqRecords]
        BY <1>3, RequestMoves DEF ClearExecution, Steps
    <2> QED BY <1>3, <2>1, RowFields DEF ClearExecution, TypeOK, RunOrNone
<1>4. ASSUME NEW q \in Requests, ClearCheckout(q) PROVE TypeOK'
    <2>1. req' \in [Requests -> ReqRecords]
        BY <1>4, RequestMoves DEF ClearCheckout, Steps
    <2> QED BY <1>4, <2>1, RowFields DEF ClearCheckout, TypeOK
<1>5. ASSUME NEW q \in Requests, Take(q) PROVE TypeOK'
    <2>1. row \in Rows /\ [Locked(row, req[q].run) EXCEPT
                              !.status = "in_progress", !.agent = req[q].agent, !.user = None] \in Rows
        <3>1. row \in Rows BY DEF TypeOK
        <3> HIDE DEF Goto, Done
        <3> DEFINE me == req[q]
        <3>2. me.agent \in Agents \cup {None} /\ me.run \in RunOrNone
            BY RequestFields
        <3> HIDE DEF me
        <3>3. [Locked(row, me.run) EXCEPT
                  !.status = "in_progress", !.agent = me.agent, !.user = None] \in Rows
            BY <3>1, <3>2 DEF Locked, Rows, IssueStatus
        <3> QED BY <3>1, <3>3 DEF me
    <2>2. row' \in Rows
        <3>1. \/ row' = row
              \/ row' = [Locked(row, req[q].run) EXCEPT
                            !.status = "in_progress", !.agent = req[q].agent, !.user = None]
            BY <1>5 DEF Take
        <3> QED BY <2>1, <3>1, Zenon
    <2>3. req' = [req EXCEPT ![q] = Idle] \/ req' = [req EXCEPT ![q].step = "read"]
        BY <1>5 DEF Take
    <2>4. req' \in [Requests -> ReqRecords]
        BY <2>3, RequestMoves DEF Steps
    <2> QED BY <1>5, <2>2, <2>4 DEF Take, TypeOK
<1>6. ASSUME NEW q \in Requests, Refuse(q) PROVE TypeOK'
    <2>1. req' \in [Requests -> ReqRecords]
        BY <1>6, RequestMoves DEF Refuse
    <2> QED BY <1>6, <2>1 DEF Refuse, TypeOK
<1>7. ASSUME NEW q \in Requests, ReadRow(q) PROVE TypeOK'
    <2>1. row \in Rows BY DEF TypeOK
    <2>2. req' \in [Requests -> ReqRecords]
        BY <1>0, <1>7, <2>1, RequestMoves DEF ReadRow
    <2> QED BY <1>7, <2>2 DEF ReadRow, TypeOK
<1>8. ASSUME NEW q \in Requests, AdoptUnowned(q) PROVE TypeOK'
    <2>1. row' = row \/ row' = Locked(row, req[q].run)
        BY <1>8 DEF AdoptUnowned
    <2>2. row' \in Rows
        BY <2>1, RequestFields, RowFields DEF TypeOK
    <2>3. req' = [req EXCEPT ![q] = Idle] \/ req' = [req EXCEPT ![q].step = "resolve"]
        BY <1>8 DEF AdoptUnowned
    <2>4. req' \in [Requests -> ReqRecords]
        BY <2>3, RequestMoves DEF Steps
    <2> QED BY <1>8, <2>2, <2>4 DEF AdoptUnowned, TypeOK
<1>9. ASSUME NEW q \in Requests, AdoptStale(q) PROVE TypeOK'
    <2>1. row' = row \/ row' = Locked(row, req[q].run)
        BY <1>9 DEF AdoptStale
    <2>2. row \in Rows /\ row' \in Rows
        BY <2>1, RequestFields, RowFields DEF TypeOK
    <2>3. \/ req' = [req EXCEPT ![q] = Idle]
          \/ req' = [req EXCEPT ![q].retried = TRUE, ![q].seen = row,
                                ![q].step = AfterRead(row, req[q])]
          \/ req' = [req EXCEPT ![q].step = "testExecution"]
          \/ req' = [req EXCEPT ![q].step = "resolve"]
        BY <1>9 DEF AdoptStale
    <2>4. req' \in [Requests -> ReqRecords]
        <3>1. CASE req' = [req EXCEPT ![q].retried = TRUE, ![q].seen = row,
                                      ![q].step = AfterRead(row, req[q])]
            <4>1. \E s \in Steps, i \in Rows :
                    req' = [req EXCEPT ![q].retried = TRUE, ![q].seen = i, ![q].step = s]
                BY <1>0, <2>2, <3>1, Zenon
            <4> QED BY <4>1, RequestMoves
        <3>2. CASE req' # [req EXCEPT ![q].retried = TRUE, ![q].seen = row,
                                      ![q].step = AfterRead(row, req[q])]
            <4>1. \/ req' = [req EXCEPT ![q] = Idle]
                  \/ req' = [req EXCEPT ![q].step = "testExecution"]
                  \/ req' = [req EXCEPT ![q].step = "resolve"]
                BY <2>3, <3>2
            <4> QED BY <4>1, RequestMoves DEF Steps
        <3> QED BY <3>1, <3>2
    <2> QED BY <1>9, <2>2, <2>4 DEF AdoptStale, TypeOK
<1>10. ASSUME NEW q \in Requests, TestExecution(q) PROVE TypeOK'
    <2>1. req' \in [Requests -> ReqRecords]
        BY <1>10, RequestMoves DEF TestExecution, Steps
    <2> QED BY <1>10, <2>1 DEF TestExecution, TypeOK
<1>11. ASSUME NEW q \in Requests, AdoptExecution(q) PROVE TypeOK'
    <2>1. row \in Rows /\ [Locked(row, req[q].run) EXCEPT
                              !.status = "in_progress", !.agent = req[q].agent] \in Rows
        <3>1. row \in Rows BY DEF TypeOK
        <3> HIDE DEF Goto, Done
        <3> DEFINE me == req[q]
        <3>2. me.agent \in Agents \cup {None} /\ me.run \in RunOrNone
            BY RequestFields
        <3> HIDE DEF me
        <3>3. [Locked(row, me.run) EXCEPT
                  !.status = "in_progress", !.agent = me.agent] \in Rows
            BY <3>1, <3>2 DEF Locked, Rows, IssueStatus
        <3> QED BY <3>1, <3>3 DEF me
    <2>2. row' \in Rows
        <3>1. \/ row' = row
              \/ row' = [Locked(row, req[q].run) EXCEPT
                            !.status = "in_progress", !.agent = req[q].agent]
            BY <1>11 DEF AdoptExecution
        <3> QED BY <2>1, <3>1, Zenon
    <2>3. req' = [req EXCEPT ![q] = Idle] \/ req' = [req EXCEPT ![q].step = "resolve"]
        BY <1>11 DEF AdoptExecution
    <2>4. req' \in [Requests -> ReqRecords]
        BY <2>3, RequestMoves DEF Steps
    <2> QED BY <1>11, <2>2, <2>4 DEF AdoptExecution, TypeOK
<1>12. ASSUME NEW q \in Requests, Resolve(q) PROVE TypeOK'
    <2>1. \/ req' = [req EXCEPT ![q] = Idle]
          \/ req' = [req EXCEPT ![q].retried = TRUE, ![q].step = "read"]
        BY <1>12 DEF Resolve
    <2>2. req' \in [Requests -> ReqRecords]
        BY <2>1, RequestMoves DEF Steps
    <2> QED BY <1>12, <2>2 DEF Resolve, TypeOK
<1>13. ASSUME NEW q \in Requests, NEW p \in Patches, StartUpdate(q, p) PROVE TypeOK'
    <2>1. [FreshRow EXCEPT !.agent = row.agent, !.user = row.user] \in Rows
        BY RowFields DEF TypeOK, FreshRow, Rows, IssueStatus, RunOrNone
    <2>2. [Idle EXCEPT !.op = "update", !.patch = p, !.step = "write",
                       !.seen.agent = row.agent, !.seen.user = row.user] \in ReqRecords
        BY <2>1 DEF Idle, ReqRecords, Steps, RunOrNone
    <2> QED BY <1>13, <2>2 DEF StartUpdate, TypeOK
<1>14. ASSUME NEW q \in Requests, WriteUpdate(q) PROVE TypeOK'
    <2>1. req' \in [Requests -> ReqRecords]
        BY <1>14, RequestMoves DEF WriteUpdate
    <2>2. row' \in Rows
        BY <1>14, RequestFields, PatchedType DEF WriteUpdate, TypeOK
    <2> QED BY <1>14, <2>1, <2>2 DEF WriteUpdate, TypeOK
<1>15. ASSUME NEW q \in Requests, StartSweep(q) PROVE TypeOK'
    <2>1. [FreshRow EXCEPT !.checkout = row.checkout, !.execution = row.execution] \in Rows
        BY RowFields DEF TypeOK, FreshRow, Rows, IssueStatus, RunOrNone
    <2>2. [Idle EXCEPT !.op = "sweep", !.step = "clear", !.seen.checkout = row.checkout,
                       !.seen.execution = row.execution] \in ReqRecords
        BY <2>1 DEF Idle, ReqRecords, Steps, RunOrNone
    <2> QED BY <1>15, <2>2 DEF StartSweep, TypeOK
<1>16. ASSUME NEW q \in Requests, Sweep(q) PROVE TypeOK'
    <2>1. req' \in [Requests -> ReqRecords]
        BY <1>16, RequestMoves DEF Sweep
    <2> QED BY <1>16, <2>1, RowFields DEF Sweep, TypeOK
<1> QED BY <1>1, <1>2, <1>3, <1>4, <1>5, <1>6, <1>7, <1>8, <1>9, <1>10, <1>11, <1>12,
           <1>13, <1>14, <1>15, <1>16 DEF RequestStep

LEMMA OwnerStepType == TypeOK /\ OwnerStep => TypeOK'
<1> SUFFICES ASSUME TypeOK, OwnerStep PROVE TypeOK'
    OBVIOUS
<1>1. row' \in Rows
    <2>1. \A s \in IssueStatus, a \in Agents \cup {None} :
            /\ [Unlocked(row) EXCEPT !.status = s] \in Rows
            /\ [Unlocked(row) EXCEPT !.agent = a] \in Rows
            /\ [Unlocked(row) EXCEPT !.status = s, !.agent = a] \in Rows
            /\ Unlocked(row).agent = row.agent
        BY DEF TypeOK, Unlocked, Rows, RunOrNone
    <2>2. CASE \E r \in Runs : Release(r)
        BY <2>1, <2>2 DEF Release, IssueStatus
    <2>3. CASE BoardRelease
        BY <2>1, <2>3 DEF BoardRelease, IssueStatus
    <2>4. CASE \E clearAssignee \in BOOLEAN : AdminForceRelease(clearAssignee)
        BY <2>1, <2>4, RowFields DEF AdminForceRelease, TypeOK
    <2>5. CASE TreeCancel
        BY <2>1, <2>5 DEF TreeCancel, IssueStatus
    <2>6. CASE \E status \in {"todo", "blocked"} : TreeRestore(status)
        BY <2>1, <2>6 DEF TreeRestore, IssueStatus
    <2>7. CASE \E agent \in Agents \cup {None}, user \in Users \cup {None} :
                ArchiveMember(agent, user)
        <3>1. PICK agent \in Agents \cup {None}, user \in Users \cup {None} :
                row' = [(IF row.status = "in_progress"
                          THEN [Unlocked(row) EXCEPT !.status = "todo"] ELSE row)
                            EXCEPT !.agent = agent, !.user = user]
            BY <2>7 DEF ArchiveMember
        <3>2. row \in Rows /\ [Unlocked(row) EXCEPT !.status = "todo"] \in Rows
            BY <2>1 DEF TypeOK, IssueStatus
        <3> QED BY <3>1, <3>2 DEF Rows
    <2> QED BY <2>2, <2>3, <2>4, <2>5, <2>6, <2>7 DEF OwnerStep
<1>2. UNCHANGED <<run, proc, phase, req>>
    BY DEF OwnerStep, Release, BoardRelease, AdminForceRelease, TreeCancel, TreeRestore,
        ArchiveMember
<1> QED BY <1>1, <1>2 DEF TypeOK

\* Every reachable state is well typed: each statement writes statuses, agents,
\* users and runs into the columns that hold them.
THEOREM TypeCorrect == Spec => []TypeOK
<1>1. Init => TypeOK
    BY RunsAssumption DEF Init, TypeOK, FreshRow, Rows, RunOrNone, IssueStatus, RunStates,
        ProcStates, Phases, Finalizing, Idle, ReqRecords, Steps
<1>2. TypeOK /\ [Next]_vars => TypeOK'
    <2> SUFFICES ASSUME TypeOK, [Next]_vars PROVE TypeOK'
        OBVIOUS
    <2>1. CASE Crash
        <3>1. Idle \in ReqRecords
            BY DEF Idle, ReqRecords, Steps, RunOrNone, FreshRow, Rows, IssueStatus
        <3> QED BY <2>1, <3>1 DEF Crash, TypeOK, ProcStates, Phases, Finalizing
    <2>2. CASE UNCHANGED vars
        BY <2>2 DEF TypeOK, vars
    <2> QED BY <2>1, <2>2, RunStepType, RequestStepType, OwnerStepType DEF Next
<1> QED BY <1>1, <1>2, PTL DEF Spec

-----------------------------------------------------------------------------
(* The two lock columns agree.                                              *)

\* Runs only advance: an ended run stays ended, an inserted one stays inserted.
LEMMA RunsAdvance ==
    ASSUME TypeOK, [Next]_vars
    PROVE  \A r \in Runs : /\ run[r] = "terminal" => run'[r] = "terminal"
                           /\ run'[r] = "absent" => run[r] = "absent"
<1> USE RunsAssumption DEF TypeOK
<1>1. CASE RunStep
    <2>1. CASE Wake
        BY <2>1, WakeEffect
    <2>2. CASE \E r \in Runs : \/ WakeElsewhere(r) \/ Claim(r) \/ Stamp(r) \/ Finish(r)
                               \/ Cancel(r) \/ GateCancel(r) \/ GateClear(r)
                               \/ RetryDue(r) \/ Reap(r) \/ Interrupt(r) \/ Fold(r)
                               \/ ReleaseOnly(r) \/ ReleaseToEscalate(r)
        BY <2>2 DEF WakeElsewhere, Claim, Stamp, Finish, Cancel, GateCancel, GateClear,
            RetryDue, Reap, Interrupt, Fold, ReleaseOnly, ReleaseToEscalate, Live
    <2>3. CASE \E r, r2 \in Runs :
                  \/ HandOff(r, r2) \/ ScheduleRetry(r, r2) \/ CommentRetry(r, r2)
                  \/ Recover(r, r2) \/ \E reopen \in BOOLEAN : Promote(r, r2, reopen)
        BY <2>3 DEF HandOff, ScheduleRetry, CommentRetry, Recover, Promote, Successor
    <2>4. CASE \E r \in Runs : Escalation(r)
        BY <2>4, EscalationEffect
    <2> QED BY <1>1, <2>1, <2>2, <2>3, <2>4 DEF RunStep, Escalation
<1>2. CASE RequestStep
    BY <1>2 DEF RequestStep, StartCheckout, StartAssert, ClearExecution, ClearCheckout, Take,
        Refuse, ReadRow, AdoptUnowned, AdoptStale, TestExecution, AdoptExecution, Resolve,
        StartUpdate, WriteUpdate, StartSweep, Sweep
<1>3. CASE OwnerStep
    BY <1>3 DEF OwnerStep, Release, BoardRelease, AdminForceRelease, TreeCancel, TreeRestore,
        ArchiveMember
<1>4. CASE Crash \/ UNCHANGED vars
    BY <1>4 DEF Crash, vars
<1> QED BY <1>1, <1>2, <1>3, <1>4 DEF Next

\* What a statement of a request does to the lock columns: nothing, or it drops
\* an ended execution lock, or it sets both columns to one value.
LEMMA RequestLocks ==
    ASSUME TypeOK, RequestStep \/ OwnerStep
    PROVE  /\ UNCHANGED <<run, proc, phase>>
           /\ \/ row'.checkout = row.checkout /\ row'.execution = row.execution
              \/ row'.checkout = row.checkout /\ Terminal(row.execution)
              \/ row'.checkout = row'.execution
<1>1. row \in Rows BY DEF TypeOK
<1>2. \A i \in Rows : /\ Unlocked(i).checkout = None
                      /\ Unlocked(i).execution = None
                      /\ \A r \in RunOrNone : Locked(i, r).checkout = r /\ Locked(i, r).execution = r
    BY DEF Unlocked, Locked, Rows
<1>3. CASE OwnerStep
    BY <1>1, <1>3 DEF OwnerStep, Release, BoardRelease, AdminForceRelease, TreeCancel,
        TreeRestore, ArchiveMember, Unlocked, Rows
<1>4. ASSUME NEW q \in Requests, Take(q) \/ AdoptExecution(q)
      PROVE  row' = row \/ row'.checkout = row'.execution
    BY <1>1, <1>4 DEF Take, AdoptExecution, Locked, Rows
<1>5. ASSUME NEW q \in Requests, AdoptUnowned(q) \/ AdoptStale(q)
      PROVE  row' = row \/ row'.checkout = row'.execution
    BY <1>1, <1>5 DEF AdoptUnowned, AdoptStale, Locked, Rows
<1>6. ASSUME NEW q \in Requests, ClearExecution(q)
      PROVE  row' = row \/ (row'.checkout = row.checkout /\ Terminal(row.execution))
    BY <1>1, <1>6 DEF ClearExecution, Rows
<1>7. ASSUME NEW q \in Requests, ClearCheckout(q) \/ Sweep(q)
      PROVE  row' = row \/ row'.checkout = row'.execution
    BY <1>1, <1>2, <1>7 DEF ClearCheckout, Sweep
<1>8. ASSUME NEW q \in Requests, WriteUpdate(q)
      PROVE  \/ row'.checkout = row.checkout /\ row'.execution = row.execution
             \/ row'.checkout = row'.execution
    BY <1>1, <1>8 DEF WriteUpdate, Patched, Unlocked, Rows
<1>9. ASSUME NEW q \in Requests,
             \/ \E a \in Agents, r \in RunOrNone, expect \in Expectations :
                    StartCheckout(q, a, r, expect)
             \/ \E r \in Runs : StartAssert(q, r)
             \/ Refuse(q) \/ ReadRow(q) \/ TestExecution(q) \/ Resolve(q)
             \/ \E p \in Patches : StartUpdate(q, p)
             \/ StartSweep(q)
      PROVE  row' = row
    BY <1>9 DEF StartCheckout, StartAssert, Refuse, ReadRow, TestExecution, Resolve,
        StartUpdate, StartSweep
<1>10. UNCHANGED <<run, proc, phase>>
    BY DEF RequestStep, OwnerStep, StartCheckout, StartAssert, ClearExecution, ClearCheckout,
        Take, Refuse, ReadRow, AdoptUnowned, AdoptStale, TestExecution, AdoptExecution,
        Resolve, StartUpdate, WriteUpdate, StartSweep, Sweep,
        Release, BoardRelease, AdminForceRelease, TreeCancel, TreeRestore, ArchiveMember
<1> QED BY <1>3, <1>4, <1>5, <1>6, <1>7, <1>8, <1>9, <1>10 DEF RequestStep

\* Every step keeps the columns in agreement.
LEMMA LocksAgreeStep == TypeOK /\ LockInv /\ [Next]_vars => LocksAgree'
<1> SUFFICES ASSUME TypeOK, LockInv, [Next]_vars, Live(row.checkout)'
             PROVE  row'.execution = row'.checkout
    BY DEF LocksAgree
<1> USE RunsAssumption
<1>0. /\ row \in Rows
      /\ row'.checkout \in Runs
      /\ run'[row'.checkout] \in {"queued", "scheduled_retry", "running"}
      /\ run \in [Runs -> RunStates]
    BY DEF Live, TypeOK
\* A checkout that the step left alone was live before: it had been inserted,
\* and had not ended.
<1>1. row'.checkout = row.checkout => Live(row.checkout) /\ row.execution = row.checkout
    <2> SUFFICES ASSUME row'.checkout = row.checkout
                 PROVE  Live(row.checkout)
        BY DEF LockInv, LocksAgree
    <2>1. run[row.checkout] # "absent"
        BY <1>0 DEF LockInv, OnlyInsertedRunsAreNamed
    <2>2. run[row.checkout] # "terminal"
        BY <1>0, RunsAdvance
    <2> QED BY <1>0, <2>1, <2>2 DEF Live, RunStates
\* Finalization of the execution lock's run rules a live checkout out.
<1>2. \A r \in Runs : phase[r] # "none" /\ row.execution \in {None, r} =>
            row'.checkout # row.checkout
    BY <1>0, <1>1 DEF LockInv, OnlyEndedRunsAreFinalized, Live
<1>3. CASE RunStep
    <2>1. CASE Wake
        <3>1. row' = row => row'.execution = row'.checkout BY <1>1
        <3>2. ASSUME row'.checkout = row.checkout
              PROVE  ActiveHolder = row.checkout
            BY <1>1, <3>2 DEF ActiveHolder
        <3>3. row'.checkout = row.checkout => run'[row'.checkout] # "terminal"
            BY <1>0
        <3> QED BY <1>0, <2>1, <3>1, <3>2, <3>3, WakeEffect
    <2>2. ASSUME NEW r \in Runs,
                 \/ WakeElsewhere(r) \/ Claim(r) \/ Finish(r) \/ Cancel(r)
                 \/ GateCancel(r) \/ RetryDue(r) \/ Reap(r) \/ Interrupt(r)
          PROVE row' = row
        BY <2>2 DEF WakeElsewhere, Claim, Finish, Cancel, GateCancel, RetryDue, Reap, Interrupt
    <2>3. ASSUME NEW r \in Runs, Stamp(r)
          PROVE row'.execution = row'.checkout
        BY <1>0, <1>1, <2>3 DEF Stamp, MayStamp, Rows, Live
    <2>4. ASSUME NEW r \in Runs, GateClear(r)
          PROVE row'.execution = row'.checkout
        BY <1>0, <1>1, <1>2, <2>4 DEF GateClear, Rows
    <2>5. ASSUME NEW r \in Runs, ReleaseOnly(r) \/ ReleaseToEscalate(r)
          PROVE row'.execution = row'.checkout
        <3>0. phase[r] # "none" /\ row' = ReleasedBy(row, r)
            BY <2>5 DEF ReleaseOnly, ReleaseToEscalate, Completed, Released, Finalizing
        <3>2. row'.checkout = row.checkout
            BY <1>0, <3>0 DEF ReleasedBy, Rows
        <3>3. row.execution # r BY <1>2, <3>0, <3>2
        <3> QED BY <1>0, <1>1, <3>0, <3>2, <3>3 DEF ReleasedBy, Rows
    <2>6. ASSUME NEW r \in Runs, Escalation(r)
          PROVE row' = row
        BY <1>0, <2>6, EscalationEffect
    <2>7. ASSUME NEW r \in Runs, NEW r2 \in Runs, HandOff(r, r2)
          PROVE row'.execution = row'.checkout
        BY <1>0, <1>1, <2>7 DEF HandOff, Rows
    <2>8. ASSUME NEW r \in Runs, NEW r2 \in Runs, ScheduleRetry(r, r2) \/ CommentRetry(r, r2)
          PROVE row'.execution = row'.checkout
        <3>1. phase[r] # "none" BY <2>8 DEF ScheduleRetry, CommentRetry
        <3>2. row'.checkout = row.checkout
            BY <1>0, <2>8 DEF ScheduleRetry, CommentRetry, Rows
        <3>3. row.execution # r BY <1>2, <3>1, <3>2
        <3> QED BY <1>0, <1>1, <2>8, <3>2, <3>3 DEF ScheduleRetry, CommentRetry
    <2>9. ASSUME NEW r \in Runs, NEW r2 \in Runs, Recover(r, r2)
          PROVE FALSE
        <3>1. phase[r] # "none" /\ row.execution \in {None, r}
            BY <2>9 DEF Recover, Completed, Released, Finalizing, StillAssigned, OwnsFollowUp
        <3>2. row'.checkout = row.checkout
            BY <1>0, <2>9 DEF Recover, ReleasedBy, Rows
        <3> QED BY <1>2, <3>1, <3>2
    <2>10. ASSUME NEW r \in Runs, NEW r2 \in Runs, NEW reopen \in BOOLEAN,
                  Promote(r, r2, reopen)
           PROVE FALSE
        <3>1. phase[r] # "none" /\ row.execution \in {None, r}
            BY <2>10 DEF Promote, Completed, Released, Finalizing, OwnsFollowUp
        <3>2. row'.checkout \in {None, row.checkout}
            BY <1>0, <2>10 DEF Promote, ReleasedBy, Unlocked, Rows
        <3> QED BY <1>0, <1>2, <3>1, <3>2
    <2>11. ASSUME NEW r \in Runs, Fold(r)
           PROVE row'.execution = row'.checkout
        <3>1. row'.checkout = row.checkout /\ run'[r] = "terminal"
            BY <1>0, <2>11 DEF Fold, Rows
        <3>2. row.checkout # r BY <1>0, <3>1
        <3> QED BY <1>0, <1>1, <2>11, <3>1, <3>2 DEF Fold
    <2> QED BY <1>1, <1>3, <2>1, <2>2, <2>3, <2>4, <2>5, <2>6, <2>7, <2>8, <2>9, <2>10, <2>11
            DEF RunStep, Escalation
<1>4. CASE RequestStep \/ OwnerStep
    <2>1. ~Terminal(row.execution) \/ row'.checkout # row.checkout
        BY <1>1 DEF Live, Terminal
    <2> QED BY <1>1, <1>4, <2>1, RequestLocks
<1>5. CASE Crash \/ UNCHANGED vars
    BY <1>1, <1>5 DEF Crash, vars
<1> QED BY <1>3, <1>4, <1>5 DEF Next

\* The row never comes to name a run that was not inserted.
LEMMA NamedInRowStep ==
    ASSUME TypeOK, LockInv, [Next]_vars, NEW r \in Runs, run'[r] = "absent"
    PROVE  row'.checkout # r /\ row'.execution # r
<1> USE RunsAssumption
<1>0. /\ row \in Rows
      /\ run[r] = "absent"
      /\ r # None
      /\ row.checkout # r /\ row.execution # r
      /\ \A q \in Requests : req[q].run # r
    BY RunsAdvance DEF TypeOK, LockInv, OnlyInsertedRunsAreNamed
<1>1. CASE RunStep
    <2>1. CASE Wake
        BY <1>0, <2>1, WakeEffect DEF Live
    <2>2. ASSUME NEW x \in Runs,
                 \/ WakeElsewhere(x) \/ Claim(x) \/ Finish(x) \/ Cancel(x)
                 \/ GateCancel(x) \/ RetryDue(x) \/ Reap(x) \/ Interrupt(x)
          PROVE row' = row
        BY <2>2 DEF WakeElsewhere, Claim, Finish, Cancel, GateCancel, RetryDue, Reap, Interrupt
    <2>3. ASSUME NEW x \in Runs, Stamp(x)
          PROVE row'.checkout # r /\ row'.execution # r
        BY <1>0, <2>3 DEF Stamp, Rows, LockInv, OnlyClaimedRunsAreWorkedOn
    <2>4. ASSUME NEW x \in Runs,
                 GateClear(x) \/ Fold(x) \/ ReleaseOnly(x) \/ ReleaseToEscalate(x)
          PROVE row'.checkout # r /\ row'.execution # r
        BY <1>0, <2>4 DEF GateClear, Fold, ReleaseOnly, ReleaseToEscalate, ReleasedBy, Rows
    <2>7. ASSUME NEW x \in Runs, Escalation(x)
          PROVE row'.checkout # r /\ row'.execution # r
        BY <1>0, <2>7, EscalationEffect
    <2>5. ASSUME NEW x \in Runs, NEW x2 \in Runs,
                 \/ HandOff(x, x2) \/ ScheduleRetry(x, x2) \/ CommentRetry(x, x2)
                 \/ Recover(x, x2)
          PROVE row'.checkout # r /\ row'.execution # r
        <3>1. run' = [run EXCEPT ![x2] = "queued"] \/ run' = [run EXCEPT ![x2] = "scheduled_retry"]
            BY <2>5 DEF HandOff, ScheduleRetry, CommentRetry, Recover
        <3>2. x2 # r BY <1>0, <3>1 DEF TypeOK
        <3> QED BY <1>0, <2>5, <3>2 DEF HandOff, ScheduleRetry, CommentRetry, Recover,
                    ReleasedBy, Rows
    <2>6. ASSUME NEW x \in Runs, NEW x2 \in Runs, NEW reopen \in BOOLEAN, Promote(x, x2, reopen)
          PROVE row'.checkout # r /\ row'.execution # r
        <3>1. x2 # r BY <2>6 DEF Promote, TypeOK
        <3> QED BY <1>0, <2>6, <3>1 DEF Promote, ReleasedBy, Unlocked, Rows
    <2> QED BY <1>0, <1>1, <2>1, <2>2, <2>3, <2>4, <2>5, <2>6, <2>7
            DEF RunStep, Escalation
<1>2. CASE OwnerStep
    BY <1>0, <1>2 DEF OwnerStep, Release, BoardRelease, AdminForceRelease, TreeCancel,
        TreeRestore, ArchiveMember, Unlocked, Rows
<1>3. CASE RequestStep
    <2>1. ASSUME NEW q \in Requests, Take(q) \/ AdoptUnowned(q) \/ AdoptStale(q) \/ AdoptExecution(q)
          PROVE row'.checkout # r /\ row'.execution # r
        BY <1>0, <2>1 DEF Take, AdoptUnowned, AdoptStale, AdoptExecution, Locked, Rows
    <2>2. ASSUME NEW q \in Requests, ClearExecution(q) \/ ClearCheckout(q) \/ Sweep(q) \/ WriteUpdate(q)
          PROVE row'.checkout # r /\ row'.execution # r
        BY <1>0, <2>2 DEF ClearExecution, ClearCheckout, Sweep, WriteUpdate, Patched, Unlocked, Rows
    <2>3. ASSUME NEW q \in Requests,
                 \/ \E a \in Agents, x \in RunOrNone, expect \in Expectations :
                        StartCheckout(q, a, x, expect)
                 \/ \E x \in Runs : StartAssert(q, x)
                 \/ Refuse(q) \/ ReadRow(q) \/ TestExecution(q) \/ Resolve(q)
                 \/ \E p \in Patches : StartUpdate(q, p)
                 \/ StartSweep(q)
          PROVE row' = row
        BY <2>3 DEF StartCheckout, StartAssert, Refuse, ReadRow, TestExecution, Resolve,
            StartUpdate, StartSweep
    <2> QED BY <1>0, <1>3, <2>1, <2>2, <2>3 DEF RequestStep
<1>4. CASE Crash \/ UNCHANGED vars
    BY <1>0, <1>4 DEF Crash, vars
<1> QED BY <1>1, <1>2, <1>3, <1>4 DEF Next

\* What a step makes of a request: it is the same, idle, started by a run that
\* is running, moved on, or moved on with the row it read.
LEMMA RequestEffect ==
    ASSUME TypeOK, [Next]_vars, NEW q \in Requests
    PROVE  \/ req'[q] = req[q]
           \/ req'[q] = Idle
           \/ /\ req'[q].step \in {"clearExecution", "write", "clear"}
              /\ req'[q].run \in Runs => run[req'[q].run] = "running"
              /\ req'[q].seen.checkout \in {None, row.checkout}
              /\ req'[q].seen.execution \in {None, row.execution}
           \/ /\ req'[q].run = req[q].run
              /\ req'[q].seen \in {req[q].seen, row}
              /\ req'[q].step = "adoptExecution" =>
                    req'[q].seen = req[q].seen /\ Terminal(req[q].seen.execution)
<1> DEFINE Effect(x) ==
        \/ req'[x] = req[x]
        \/ req'[x] = Idle
        \/ /\ req'[x].step \in {"clearExecution", "write", "clear"}
           /\ req'[x].run \in Runs => run[req'[x].run] = "running"
           /\ req'[x].seen.checkout \in {None, row.checkout}
           /\ req'[x].seen.execution \in {None, row.execution}
        \/ /\ req'[x].run = req[x].run
           /\ req'[x].seen \in {req[x].seen, row}
           /\ req'[x].step = "adoptExecution" =>
                 req'[x].seen = req[x].seen /\ Terminal(req[x].seen.execution)
<1>0. /\ req \in [Requests -> ReqRecords]
      /\ req[q] \in ReqRecords
      /\ \A i, me : AfterRead(i, me) # "adoptExecution"
    BY DEF TypeOK, AfterRead
<1>1. CASE RunStep
    <2>1. CASE Wake BY <2>1, WakeEffect
    <2>2. CASE \E r \in Runs : Escalation(r) BY <2>2, EscalationEffect
    <2>3. CASE \E r, r2 \in Runs : ScheduleRetry(r, r2) \/ CommentRetry(r, r2) \/ HandOff(r, r2)
        BY <2>3 DEF ScheduleRetry, CommentRetry, HandOff
    <2>4. CASE \E r, r2 \in Runs : Recover(r, r2) \/ \E reopen \in BOOLEAN : Promote(r, r2, reopen)
        BY <2>4 DEF Recover, Promote, Completed, Released
    <2> QED BY <1>1, <2>1, <2>2, <2>3, <2>4
            DEF RunStep, Escalation, WakeElsewhere, Claim, Stamp, Finish, Cancel, GateCancel,
                GateClear, RetryDue, Reap, Interrupt, Fold, ReleaseOnly, ReleaseToEscalate,
                Completed, Released
<1>2. CASE OwnerStep
    BY <1>2 DEF OwnerStep, Release, BoardRelease, AdminForceRelease, TreeCancel, TreeRestore,
        ArchiveMember
<1>3. CASE Crash \/ UNCHANGED vars
    BY <1>0, <1>3 DEF Crash, vars
<1>4. CASE RequestStep
    <2>1. PICK p \in Requests :
            \/ \E a \in Agents, r \in RunOrNone, expect \in Expectations :
                    StartCheckout(p, a, r, expect)
            \/ \E r \in Runs : StartAssert(p, r)
            \/ ClearExecution(p) \/ ClearCheckout(p) \/ Take(p) \/ Refuse(p)
            \/ ReadRow(p) \/ AdoptUnowned(p) \/ AdoptStale(p)
            \/ TestExecution(p) \/ AdoptExecution(p) \/ Resolve(p)
            \/ \E c \in Patches : StartUpdate(p, c)
            \/ WriteUpdate(p)
            \/ StartSweep(p) \/ Sweep(p)
        BY <1>4 DEF RequestStep
    <2>2. req[p] \in ReqRecords BY <1>0
    <2> HIDE DEF Effect
    <2> USE DEF Goto, Done
    <2>3. ASSUME p # q PROVE Effect(q)
        BY <1>0, <2>1, <2>3 DEF Effect, StartCheckout, StartAssert, ClearExecution,
            ClearCheckout, Take, Refuse, ReadRow, AdoptUnowned, AdoptStale, TestExecution,
            AdoptExecution, Resolve, StartUpdate, WriteUpdate, StartSweep, Sweep
    <2>4. ASSUME NEW a \in Agents, NEW r \in RunOrNone, NEW expect \in Expectations,
                 StartCheckout(p, a, r, expect)
          PROVE Effect(p)
        BY <1>0, <2>4, RunsAssumption DEF StartCheckout, Effect, Idle, FreshRow, RunOrNone
    <2>5. ASSUME NEW r \in Runs, StartAssert(p, r) PROVE Effect(p)
        BY <1>0, <2>5 DEF StartAssert, Effect, Idle, FreshRow
    <2>6. ASSUME NEW c \in Patches, StartUpdate(p, c) PROVE Effect(p)
        BY <1>0, <2>6, RunsAssumption DEF StartUpdate, Effect, Idle, FreshRow
    <2>7. ASSUME StartSweep(p) PROVE Effect(p)
        BY <1>0, <2>7, RunsAssumption DEF StartSweep, Effect, Idle, FreshRow
    <2>8. ASSUME Refuse(p) \/ WriteUpdate(p) \/ Sweep(p) PROVE Effect(p)
        BY <1>0, <2>8 DEF Refuse, WriteUpdate, Sweep, Effect
    <2>9. ASSUME ClearExecution(p) \/ ClearCheckout(p) \/ ReadRow(p) PROVE Effect(p)
        BY <1>0, <2>2, <2>9 DEF ClearExecution, ClearCheckout, ReadRow, Effect, ReqRecords
    <2>10. ASSUME Take(p) \/ AdoptUnowned(p) \/ AdoptExecution(p) \/ Resolve(p) PROVE Effect(p)
        BY <1>0, <2>2, <2>10 DEF Take, AdoptUnowned, AdoptExecution, Resolve, Effect, ReqRecords
    <2>11. ASSUME AdoptStale(p) PROVE Effect(p)
        BY <1>0, <2>2, <2>11 DEF AdoptStale, Effect, ReqRecords
    <2>12. ASSUME TestExecution(p) PROVE Effect(p)
        BY <1>0, <2>2, <2>12 DEF TestExecution, Effect, ReqRecords
    <2>13. Effect(p)
        BY <2>1, <2>4, <2>5, <2>6, <2>7, <2>8, <2>9, <2>10, <2>11, <2>12
    <2>14. Effect(q)
        BY <2>3, <2>13
    <2> QED BY <2>14 DEF Effect
<1> QED BY <1>1, <1>2, <1>3, <1>4 DEF Next

\* A run gets a finalization, and a process, only in the states that LockInv
\* allows.
LEMMA RunPartsStep ==
    TypeOK /\ LockInv /\ [Next]_vars =>
        OnlyEndedRunsAreFinalized' /\ OnlyClaimedRunsAreWorkedOn'
<1> SUFFICES ASSUME TypeOK, LockInv, [Next]_vars, NEW r \in Runs
             PROVE  /\ phase'[r] # "none" => run'[r] = "terminal"
                    /\ proc'[r] # "none" => run'[r] \in {"running", "terminal"}
    BY DEF OnlyEndedRunsAreFinalized, OnlyClaimedRunsAreWorkedOn
<1> USE RunsAssumption
<1>0. /\ run \in [Runs -> RunStates] /\ proc \in [Runs -> ProcStates]
      /\ phase \in [Runs -> Phases]
      /\ phase[r] # "none" => run[r] = "terminal"
      /\ proc[r] # "none" => run[r] \in {"running", "terminal"}
    BY DEF TypeOK, LockInv, OnlyEndedRunsAreFinalized, OnlyClaimedRunsAreWorkedOn
<1>1. CASE RunStep
    <2>1. CASE Wake
        <3>1. proc'[r] = proc[r] /\ phase'[r] = phase[r] BY <2>1, WakeEffect
        <3>2. /\ run'[r] \in {run[r], "terminal", "queued"}
              /\ run'[r] = "queued" => run[r] \in {"absent", "queued"}
            BY <2>1, WakeEffect
        <3> QED BY <1>0, <3>1, <3>2
    <2>2. CASE \E x \in Runs : \/ WakeElsewhere(x) \/ Claim(x) \/ Stamp(x) \/ Finish(x)
        BY <1>0, <2>2 DEF WakeElsewhere, Claim, Stamp, Finish
    <2>3. CASE \E x \in Runs : \/ Cancel(x) \/ GateCancel(x) \/ GateClear(x)
                               \/ RetryDue(x) \/ Reap(x) \/ Interrupt(x) \/ Fold(x)
        BY <1>0, <2>3 DEF Cancel, GateCancel, GateClear, RetryDue, Reap, Interrupt, Fold, Live
    <2>4. CASE \E x \in Runs : ReleaseOnly(x) \/ ReleaseToEscalate(x)
        BY <1>0, <2>4 DEF ReleaseOnly, ReleaseToEscalate, Completed, Released, Finalizing
    <2>7. CASE \E x \in Runs : Escalation(x)
        <3>1. phase'[r] # "none" => phase[r] # "none"
            BY <1>0, <2>7, EscalationEffect
        <3> QED BY <1>0, <2>7, <3>1, EscalationEffect
    <2>5. CASE \E x, x2 \in Runs : HandOff(x, x2) \/ ScheduleRetry(x, x2) \/ CommentRetry(x, x2)
        BY <1>0, <2>5 DEF HandOff, ScheduleRetry, CommentRetry, Successor
    <2>6. CASE \E x, x2 \in Runs : \/ Recover(x, x2)
                                   \/ \E reopen \in BOOLEAN : Promote(x, x2, reopen)
        BY <1>0, <2>6 DEF Recover, Promote, Completed, Released
    <2> QED BY <1>1, <2>1, <2>2, <2>3, <2>4, <2>5, <2>6, <2>7 DEF RunStep, Escalation
<1>2. CASE RequestStep \/ OwnerStep
    BY <1>0, <1>2, RequestLocks
<1>3. CASE Crash \/ UNCHANGED vars
    BY <1>0, <1>3 DEF Crash, vars
<1> QED BY <1>1, <1>2, <1>3 DEF Next

\* LockInv is inductive.
LEMMA LockInvStep == TypeOK /\ LockInv /\ [Next]_vars => LockInv'
<1> SUFFICES ASSUME TypeOK, LockInv, [Next]_vars PROVE LockInv'
    OBVIOUS
<1>1. OnlyInsertedRunsAreNamed'
    <2> SUFFICES ASSUME NEW r \in Runs, run'[r] = "absent", NEW q \in Requests
                 PROVE  /\ row'.checkout # r /\ row'.execution # r
                        /\ r \notin {req'[q].run, req'[q].seen.checkout, req'[q].seen.execution}
        BY NamedInRowStep DEF OnlyInsertedRunsAreNamed
    <2>1. /\ run[r] = "absent" /\ r # None
          /\ row.checkout # r /\ row.execution # r
          /\ r \notin {req[q].run, req[q].seen.checkout, req[q].seen.execution}
        BY RunsAdvance, RunsAssumption DEF LockInv, OnlyInsertedRunsAreNamed
    <2>2. Idle.run = None /\ Idle.seen.checkout = None /\ Idle.seen.execution = None
        BY DEF Idle, FreshRow
    <2>3. r \notin {req'[q].run, req'[q].seen.checkout, req'[q].seen.execution}
        BY <2>1, <2>2, RequestEffect
    <2> QED BY <2>3, NamedInRowStep
<1>2. AdoptedRunHasEnded'
    <2> SUFFICES ASSUME NEW q \in Requests, req'[q].step = "adoptExecution"
                 PROVE  /\ req'[q].seen.execution \in Runs
                        /\ run'[req'[q].seen.execution] = "terminal"
        BY DEF AdoptedRunHasEnded, At, Terminal
    <2>1. Idle.step = "idle" BY DEF Idle
    <2>2. req'[q].seen = req[q].seen /\ Terminal(req[q].seen.execution)
        BY <2>1, RequestEffect DEF LockInv, AdoptedRunHasEnded, At
    <2>3. /\ req[q].seen.execution \in Runs
          /\ run[req[q].seen.execution] = "terminal"
        BY <2>2 DEF Terminal
    <2> QED BY <2>2, <2>3, RunsAdvance
<1> QED BY <1>1, <1>2, LocksAgreeStep, RunPartsStep DEF LockInv

\* LockInv holds in every reachable state.
THEOREM LockInvHolds == Spec => []LockInv
<1>1. Init => LockInv
    BY RunsAssumption DEF Init, LockInv, LocksAgree, Live, OnlyInsertedRunsAreNamed,
        OnlyEndedRunsAreFinalized, OnlyClaimedRunsAreWorkedOn, AdoptedRunHasEnded, At, Idle,
        FreshRow
<1> QED BY <1>1, LockInvStep, TypeCorrect, PTL DEF Spec

\* A live run that holds the checkout also holds the execution lock, whatever
\* the interleaving of requests, runs and crashes: every guard in issues.ts and
\* heartbeat.ts that looks at one of the two columns only is safe.
THEOREM LocksAlwaysAgree == Spec => []LocksAgree
<1>1. LockInv => LocksAgree BY DEF LockInv
<1> QED BY <1>1, LockInvHolds, PTL

-----------------------------------------------------------------------------
(* The checkout column implements CheckoutOwnership.                        *)

Ended == {r \in Runs : run[r] = "terminal"}

\* Who may follow whom: the checkout passes to a run only from nobody or from
\* an ended run.
LEMMA CheckoutPasses ==
    ASSUME TypeOK, LockInv, RequestStep \/ OwnerStep
    PROVE  /\ row'.checkout \in RunOrNone
           /\ \/ row'.checkout \in {None, row.checkout}
              \/ row.checkout \in Ended \cup {None}
<1> USE RunsAssumption
<1>0. /\ row \in Rows /\ row' \in Rows
      /\ row.checkout \in Runs \cup {None}
    BY RequestStepType, OwnerStepType, RowFields DEF TypeOK, RunOrNone
<1>1. Live(row.checkout) \/ row.checkout \in Ended \cup {None}
    BY <1>0 DEF TypeOK, RunStates, LockInv, OnlyInsertedRunsAreNamed, Live, Ended
<1>2. Live(row.checkout) => row.execution = row.checkout
    BY DEF LockInv, LocksAgree
<1>3. CASE OwnerStep
    BY <1>0, <1>3, RowFields DEF OwnerStep, Release, BoardRelease, AdminForceRelease, TreeCancel,
        TreeRestore, ArchiveMember, Unlocked, Rows
<1>4. ASSUME NEW q \in Requests, Take(q)
      PROVE  row'.checkout \in {None, row.checkout} \/ row.checkout \in Ended \cup {None}
    <2>1. \/ row' = row
          \/ row'.checkout = req[q].run /\ row.execution \in {None, req[q].run}
        BY <1>0, <1>4 DEF Take, Takable, Locked, Rows
    <2> QED BY <1>1, <1>2, <2>1 DEF Live
<1>5. ASSUME NEW q \in Requests, AdoptUnowned(q)
      PROVE  row'.checkout \in {None, row.checkout} \/ row.checkout \in Ended \cup {None}
    BY <1>0, <1>5 DEF AdoptUnowned, Unowned
<1>6. ASSUME NEW q \in Requests, AdoptStale(q)
      PROVE  row'.checkout \in {None, row.checkout} \/ row.checkout \in Ended \cup {None}
    BY <1>0, <1>6 DEF AdoptStale, Terminal, Ended
<1>7. ASSUME NEW q \in Requests, AdoptExecution(q)
      PROVE  row'.checkout \in {None, row.checkout} \/ row.checkout \in Ended \cup {None}
    <2>1. Terminal(req[q].seen.execution)
        BY <1>7 DEF AdoptExecution, LockInv, AdoptedRunHasEnded
    <2>2. row' = row \/ row.execution = req[q].seen.execution
        BY <1>7 DEF AdoptExecution
    <2> QED BY <1>1, <1>2, <2>1, <2>2 DEF Terminal, Live
<1>8. ASSUME NEW q \in Requests,
             ClearExecution(q) \/ ClearCheckout(q) \/ Sweep(q) \/ WriteUpdate(q)
      PROVE  row'.checkout \in {None, row.checkout}
    BY <1>0, <1>8 DEF ClearExecution, ClearCheckout, Sweep, WriteUpdate, Patched, Unlocked, Rows
<1>9. ASSUME NEW q \in Requests,
             \/ \E a \in Agents, r \in RunOrNone, expect \in Expectations :
                    StartCheckout(q, a, r, expect)
             \/ \E r \in Runs : StartAssert(q, r)
             \/ Refuse(q) \/ ReadRow(q) \/ TestExecution(q) \/ Resolve(q)
             \/ \E p \in Patches : StartUpdate(q, p)
             \/ StartSweep(q)
      PROVE  row' = row
    BY <1>9 DEF StartCheckout, StartAssert, Refuse, ReadRow, TestExecution, Resolve,
        StartUpdate, StartSweep
<1>10. row'.checkout \in RunOrNone BY <1>0, RowFields
<1> QED BY <1>3, <1>4, <1>5, <1>6, <1>7, <1>8, <1>9, <1>10 DEF RequestStep

\* The steps of runs only ever give the checkout up.
LEMMA RunStepCheckout ==
    ASSUME TypeOK, RunStep
    PROVE  row'.checkout \in {None, row.checkout}
<1> USE RunsAssumption
<1>0. row \in Rows /\ run \in [Runs -> RunStates] BY DEF TypeOK
<1>1. CASE Wake
    BY <1>1, WakeEffect
<1>2. ASSUME NEW r \in Runs,
             \/ WakeElsewhere(r) \/ Claim(r) \/ Stamp(r) \/ Finish(r) \/ Cancel(r)
             \/ GateCancel(r) \/ GateClear(r) \/ RetryDue(r) \/ Reap(r)
             \/ Interrupt(r) \/ Fold(r)
      PROVE  row'.checkout = row.checkout
    BY <1>0, <1>2 DEF WakeElsewhere, Claim, Stamp, Finish, Cancel, GateCancel, GateClear,
        RetryDue, Reap, Interrupt, Fold, Rows
<1>3. ASSUME NEW r \in Runs, ReleaseOnly(r) \/ ReleaseToEscalate(r) \/ Escalation(r)
      PROVE  row'.checkout \in {None, row.checkout}
    BY <1>0, <1>3, EscalationEffect DEF ReleaseOnly, ReleaseToEscalate, ReleasedBy, Rows
<1>4. ASSUME NEW r \in Runs, NEW r2 \in Runs,
             \/ HandOff(r, r2) \/ ScheduleRetry(r, r2) \/ CommentRetry(r, r2) \/ Recover(r, r2)
             \/ \E reopen \in BOOLEAN : Promote(r, r2, reopen)
      PROVE  row'.checkout \in {None, row.checkout}
    <2>1. CASE HandOff(r, r2) \/ ScheduleRetry(r, r2) \/ CommentRetry(r, r2)
        BY <1>0, <2>1 DEF HandOff, ScheduleRetry, CommentRetry, Rows
    <2>2. CASE Recover(r, r2)
        BY <1>0, <2>2 DEF Recover, ReleasedBy, Rows
    <2>3. CASE \E reopen \in BOOLEAN : Promote(r, r2, reopen)
        BY <1>0, <2>3 DEF Promote, ReleasedBy, Unlocked, Rows
    <2> QED BY <1>4, <2>1, <2>2, <2>3
<1> QED BY <1>1, <1>2, <1>3, <1>4 DEF RunStep, Escalation

\* The checkout column of every issue keeps the contract of CheckoutOwnership:
\* it is free, or its run has ended, when another run takes it.
THEOREM CheckoutIsOwned == Spec => ImplementsOwnership
<1> USE RunsAssumption
<1>1. Init => Ownership!Init
    BY DEF Init, Ownership!Init, FreshRow
<1>2. TypeOK /\ LockInv /\ [Next]_vars => [Ownership!Next]_<<row.checkout, Ended>>
    <2> SUFFICES ASSUME TypeOK, LockInv, [Next]_vars
                 PROVE  [Ownership!Next]_<<row.checkout, Ended>>
        OBVIOUS
    <2>1. Ended \subseteq Ended' /\ Ended' \subseteq Runs
        BY RunsAdvance DEF Ended
    <2>2. row'.checkout = row.checkout => [Ownership!Next]_<<row.checkout, Ended>>
        BY <2>1 DEF Ownership!Next, Ownership!End, Ended
    <2>3. CASE RunStep
        BY <2>1, <2>2, <2>3, RunStepCheckout
        DEF Ownership!Next, Ownership!Drop, Ownership!End, Ended
    <2>4. CASE RequestStep \/ OwnerStep
        <3>1. Ended' = Ended BY <2>4, RequestLocks DEF Ended
        <3> QED BY <2>1, <2>2, <2>4, <3>1, CheckoutPasses
                DEF Ownership!Next, Ownership!Drop, Ownership!End, Ownership!Take, Ended, RunOrNone
    <2>5. CASE Crash \/ UNCHANGED vars
        BY <2>2, <2>5 DEF Crash, vars
    <2> QED BY <2>3, <2>4, <2>5 DEF Next
<1> QED BY <1>1, <1>2, TypeCorrect, LockInvHolds, PTL
        DEF Spec, ImplementsOwnership, Ownership!Spec, Ended

-----------------------------------------------------------------------------
(* Finalization.                                                            *)

\* The finalization of a run lets go of the lock in a step of that run.
LEMMA ReleasedByFinalization ==
    ASSUME TypeOK, LockInv, [Next]_vars, NEW r \in Runs,
           phase[r] \in Finalizing \cup {"lost", "releasing", "gated"},
           phase'[r] # phase[r]
    PROVE  \/ Crash \/ GateClear(r) \/ ReleaseOnly(r) \/ ReleaseToEscalate(r)
           \/ \E r2 \in Runs : \/ HandOff(r, r2) \/ ScheduleRetry(r, r2)
                               \/ CommentRetry(r, r2) \/ Recover(r, r2)
                               \/ \E reopen \in BOOLEAN : Promote(r, r2, reopen)
<1>0. phase \in [Runs -> Phases] BY DEF TypeOK
<1>1. ~(RequestStep \/ OwnerStep) /\ ~UNCHANGED vars
    BY <1>0, RequestLocks DEF vars
<1>2. Crash \/ RunStep BY <1>1 DEF Next
<1>3. ~Wake BY WakeEffect
<1>4. ASSUME RunStep
      PROVE  \E x \in Runs :
        \/ WakeElsewhere(x) \/ Claim(x) \/ Stamp(x) \/ Finish(x) \/ Cancel(x)
        \/ GateCancel(x) \/ GateClear(x) \/ RetryDue(x) \/ Reap(x) \/ Interrupt(x) \/ Fold(x)
        \/ ReleaseOnly(x) \/ ReleaseToEscalate(x) \/ Escalation(x)
        \/ \E r2 \in Runs :
            \/ HandOff(x, r2) \/ ScheduleRetry(x, r2) \/ CommentRetry(x, r2)
            \/ Recover(x, r2)
            \/ \E reopen \in BOOLEAN : Promote(x, r2, reopen)
    BY <1>3, <1>4 DEF RunStep, Escalation
<1>5. CASE RunStep
    <2>1. PICK x \in Runs :
        \/ WakeElsewhere(x) \/ Claim(x) \/ Stamp(x) \/ Finish(x) \/ Cancel(x)
        \/ GateCancel(x) \/ GateClear(x) \/ RetryDue(x) \/ Reap(x) \/ Interrupt(x) \/ Fold(x)
        \/ ReleaseOnly(x) \/ ReleaseToEscalate(x) \/ Escalation(x)
        \/ \E r2 \in Runs :
            \/ HandOff(x, r2) \/ ScheduleRetry(x, r2) \/ CommentRetry(x, r2)
            \/ Recover(x, r2)
            \/ \E reopen \in BOOLEAN : Promote(x, r2, reopen)
        BY <1>4, <1>5
    <2>2. ~(\/ WakeElsewhere(x) \/ Claim(x) \/ Stamp(x) \/ Finish(x) \/ Cancel(x)
            \/ GateCancel(x) \/ RetryDue(x) \/ Reap(x) \/ Interrupt(x) \/ Fold(x))
        <3>1. x = r => run[x] = "terminal"
            BY DEF LockInv, OnlyEndedRunsAreFinalized, Finalizing
        <3> QED BY <1>0, <3>1 DEF WakeElsewhere, Claim, Stamp, Finish, Cancel, GateCancel,
                    RetryDue, Reap, Interrupt, Fold, Live
    <2>3. ~Escalation(x) BY <1>0, EscalationEffect DEF Finalizing
    <2>4. \E next \in Phases : phase' = [phase EXCEPT ![x] = next]
        BY <2>1, <2>2, <2>3 DEF GateClear, ReleaseOnly, ReleaseToEscalate, HandOff,
            ScheduleRetry, Scheduled, CommentRetry, Recover, Promote, Completed, Released,
            Phases, Finalizing
    <2>5. x = r BY <1>0, <2>4
    <2> QED BY <2>1, <2>2, <2>3, <2>5
<1> QED BY <1>2, <1>5

\* The finalization of a run leaves alone what a live successor holds: the doc's
\* "finalization must not clear a lock already reacquired by a successor run".
THEOREM FinalizationIsSafe == Spec => FinalizationSparesSuccessor
<1> USE RunsAssumption
<1> DEFINE Spared(r) ==
        /\ Live(row.checkout) /\ row.checkout # r => row'.checkout = row.checkout
        /\ Live(row.execution) /\ row.execution # r => row'.execution = row.execution
<1>1. ASSUME TypeOK, LockInv, [Next]_vars, NEW r \in Runs,
             phase[r] \in Finalizing \cup {"lost", "releasing", "gated"},
             phase'[r] # phase[r]
      PROVE  Spared(r)
    <2>0. /\ row \in Rows
          /\ Live(row.checkout) => row.execution = row.checkout
          /\ ~Live(None)
          /\ ~Live(r)
        <3>1. ~Live(None) /\ row \in Rows BY <1>1 DEF TypeOK, Live
        <3>2. ~Live(r)
            BY <1>1 DEF LockInv, OnlyEndedRunsAreFinalized, Live, Finalizing
        <3> QED BY <1>1, <3>1, <3>2 DEF LockInv, LocksAgree
    <2>1. CASE GateClear(r)
        BY <2>0, <2>1 DEF GateClear, Rows
    <2>2. CASE ReleaseOnly(r) \/ ReleaseToEscalate(r)
        <3>1. row' = ReleasedBy(row, r) BY <2>2 DEF ReleaseOnly, ReleaseToEscalate
        <3> QED BY <2>0, <3>1 DEF ReleasedBy, Rows
    <2>3. CASE \E r2 \in Runs : HandOff(r, r2) \/ ScheduleRetry(r, r2) \/ CommentRetry(r, r2)
        BY <2>0, <2>3 DEF HandOff, ScheduleRetry, CommentRetry, Rows
    <2>4. OwnsFollowUp(r) => ~Live(row.execution) /\ ~Live(row.checkout)
        BY <2>0 DEF OwnsFollowUp
    <2>5. CASE \E r2 \in Runs : \/ Recover(r, r2)
                                \/ \E reopen \in BOOLEAN : Promote(r, r2, reopen)
        BY <2>4, <2>5 DEF Recover, Promote, StillAssigned
    <2>6. CASE Crash
        BY <2>6 DEF Crash
    <2> QED BY <1>1, <2>1, <2>2, <2>3, <2>5, <2>6, ReleasedByFinalization
<1>2. TypeOK /\ LockInv /\ [Next]_vars =>
        [\A r \in Runs :
            /\ phase[r] \in Finalizing \cup {"lost", "releasing", "gated"}
            /\ phase'[r] # phase[r]
            => Spared(r)]_vars
    BY <1>1
<1> QED BY <1>2, TypeCorrect, LockInvHolds, PTL DEF Spec, FinalizationSparesSuccessor

=============================================================================
