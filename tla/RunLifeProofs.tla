---------------------------- MODULE RunLifeProofs ----------------------------
(***************************************************************************)
(* Theorems about RunLife, for any runs, any number of passes under way at  *)
(* once and any number of restarts.                                         *)
(***************************************************************************)
EXTENDS RunLife, TLAPS

-----------------------------------------------------------------------------
(* The inductive invariant.                                                 *)

\* A process id is recorded for a run whose child was spawned, and only a
\* claimed run is executed.
RowOK(r) ==
    /\ run[r].pid => /\ exec[r] \notin {"claimed", "setup"}
                     /\ run[r].status \notin {"absent", "queued"}
    /\ exec[r] # "none" => run[r].status \notin {"absent", "queued"}

\* No reaper finds the child of r alive and without a handle: a child that lives
\* although its process id is recorded is one that this server executes.
Gone(r) == run[r].pid => child[r] # "alive" \/ exec[r] = "adapter"

Listed(r) == \E p \in Passes : pass[p].kind # "drain" /\ r \in DOMAIN pass[p].list

\* The run has ended, and no reaper that listed it can set it to running again.
Settled(r) == run[r].status \in Ended /\ (Listed(r) => Gone(r))

\* What a pass knows of a row is old, but a process id stays recorded; the drain
\* ends a run whose child it has killed; a pass retries runs that have ended.
PassKnows(p) ==
    /\ pass[p].step = "write" => Gone(pass[p].cur)
    /\ \A r \in DOMAIN pass[p].list : pass[p].list[r].pid => run[r].pid
    /\ pass[p].step \in {"lost", "insert"} => Settled(pass[p].cur)

RowsOK == \A r \in Runs : RowOK(r)
PassesKnow == \A p \in Passes : PassKnows(p)
RetriedSettled == \A q \in Runs : run[q].of # None => Settled(run[q].of)

LifeInv == TypeOK /\ RowsOK /\ PassesKnow /\ RetriedSettled

-----------------------------------------------------------------------------
(* What a step may do.                                                      *)

AllIdle == \A p \in Passes : pass[p].step = "idle"

\* Of a row: a process id stays; a run that has ended runs again only if a reaper
\* that listed it finds its child alive; a child that is gone stays so, unless the
\* server and its passes go down.
RowMoves(r) ==
    /\ run[r].pid => run'[r].pid
    /\ run[r].status \in Ended => run'[r].status \in Ended \/ (Listed(r) /\ ~Gone(r))
    /\ Gone(r) => Gone(r)' \/ AllIdle'
    /\ run'[r].of \in {None, run[r].of} \/ Settled(run'[r].of)

\* Of a pass: it goes on with rows it has listed.
PassMoves(p) ==
    /\ DOMAIN pass'[p].list \subseteq DOMAIN pass[p].list
    /\ \A r \in DOMAIN pass'[p].list : pass'[p].list[r] = pass[p].list[r]
    /\ pass'[p].step # "idle" => pass[p].step # "idle" /\ pass'[p].kind = pass[p].kind
    /\ pass'[p].step = "write" =>
        \/ pass[p].step = "write" /\ pass'[p].cur = pass[p].cur
        \/ Gone(pass[p].cur)'
    /\ pass'[p].step \in {"lost", "insert"} =>
        \/ pass[p].step \in {"lost", "insert"} /\ pass'[p].cur = pass[p].cur
        \/ Settled(pass[p].cur)'

LEMMA PassFields ==
    ASSUME TypeOK, NEW p \in Passes
    PROVE  /\ pass[p] \in PassRecords /\ PassOK(pass[p])
           /\ pass[p].kind \in {"startup", "periodic", "drain"}
           /\ pass[p].step \in {"idle", "scan", "write", "lost", "insert"}
           /\ pass[p].cur \in Runs \cup {None}
           /\ pass[p].step \in {"write", "lost", "insert"} =>
                    pass[p].cur \in DOMAIN pass[p].list /\ pass[p].cur \in Runs
           /\ pass[p].list \in UNION {[S -> RunRows] : S \in SUBSET Runs}
           /\ DOMAIN pass[p].list \subseteq Runs
           /\ \A r \in DOMAIN pass[p].list : pass[p].list[r] \in RunRows
<1>1. pass[p] \in PassRecords /\ PassOK(pass[p]) BY DEF TypeOK
<1>2. /\ pass[p].kind \in {"startup", "periodic", "drain"}
      /\ pass[p].step \in {"idle", "scan", "write", "lost", "insert"}
      /\ pass[p].cur \in Runs \cup {None}
      /\ pass[p].list \in UNION {[S -> RunRows] : S \in SUBSET Runs}
    BY <1>1 DEF PassRecords
<1>3. PICK S \in SUBSET Runs : pass[p].list \in [S -> RunRows] BY <1>2
<1>4. DOMAIN pass[p].list \subseteq Runs /\ \A r \in DOMAIN pass[p].list : pass[p].list[r] \in RunRows
    BY <1>3
<1>5. pass[p].step \in {"write", "lost", "insert"} => pass[p].cur \in DOMAIN pass[p].list
    BY <1>1, <1>2 DEF PassOK
<1> QED BY <1>1, <1>2, <1>4, <1>5

\* Who has settled stays so.
LEMMA SettledStays ==
    ASSUME TypeOK, NEW r \in Runs, Settled(r), RowMoves(r),
           \A p \in Passes : PassMoves(p), TypeOK'
    PROVE  Settled(r)'
<1>1. run'[r].status \in Ended BY DEF Settled, RowMoves
<1>2. ASSUME Listed(r)' PROVE Gone(r)'
    <2>1. PICK p \in Passes : pass'[p].kind # "drain" /\ r \in DOMAIN pass'[p].list
        BY <1>2 DEF Listed
    <2>2. r \in DOMAIN pass[p].list BY <2>1 DEF PassMoves
    <2>3. pass'[p].step # "idle" BY <2>1 DEF TypeOK, PassOK
    <2>4. pass[p].kind # "drain" BY <2>1, <2>3 DEF PassMoves
    <2>5. Gone(r) BY <2>2, <2>4 DEF Settled, Listed
    <2> QED BY <2>3, <2>5 DEF RowMoves, AllIdle
<1> QED BY <1>1, <1>2 DEF Settled

LEMMA LifeStep ==
    ASSUME LifeInv, TypeOK', RowsOK',
           \A r \in Runs : RowMoves(r),
           \A p \in Passes : PassMoves(p)
    PROVE  LifeInv'
<1>0. TypeOK /\ RowsOK /\ PassesKnow /\ RetriedSettled BY DEF LifeInv
<1>1. \A r \in Runs : Settled(r) => Settled(r)' BY <1>0, SettledStays
<1>2. PassesKnow'
    <2> SUFFICES ASSUME NEW p \in Passes PROVE PassKnows(p)' BY DEF PassesKnow
    <2>0. PassKnows(p) /\ PassMoves(p) BY <1>0 DEF PassesKnow
    <2>1. \A r \in DOMAIN pass'[p].list : pass'[p].list[r].pid => run'[r].pid
        <3>1. DOMAIN pass[p].list \subseteq Runs BY <1>0, PassFields
        <3>2. \A r \in Runs : run[r].pid => run'[r].pid BY DEF RowMoves
        <3> QED BY <2>0, <3>1, <3>2 DEF PassKnows, PassMoves
    <2>2. pass'[p].step \in {"lost", "insert"} => Settled(pass[p].cur)'
        <3>1. pass[p].step \in {"lost", "insert"} => pass[p].cur \in Runs BY <1>0, PassFields
        <3>2. CASE pass[p].step \in {"lost", "insert"} /\ pass'[p].cur = pass[p].cur
            <4>1. PICK o \in Runs : o = pass[p].cur BY <3>1, <3>2
            <4>2. Settled(o) BY <2>0, <3>2, <4>1 DEF PassKnows
            <4>3. Settled(o)' BY <1>1, <4>2
            <4> QED BY <3>2, <4>1, <4>3 DEF Settled
        <3> QED BY <2>0, <3>2 DEF PassMoves
    <2>3. pass'[p].step = "write" => Gone(pass[p].cur)'
        <3>1. CASE pass'[p].step = "write" /\ pass[p].step = "write" /\ pass'[p].cur = pass[p].cur
            <4>1. PICK o \in Runs : o = pass[p].cur BY <1>0, <3>1, PassFields
            <4>2. Gone(o) BY <2>0, <3>1, <4>1 DEF PassKnows
            <4>3. ~AllIdle' BY <3>1 DEF AllIdle
            <4>4. Gone(o)' BY <4>2, <4>3 DEF RowMoves
            <4> QED BY <3>1, <4>1, <4>4 DEF Gone
        <3> QED BY <2>0, <3>1 DEF PassMoves
    <2> QED BY <2>1, <2>2, <2>3 DEF PassKnows
<1>3. RetriedSettled'
    <2> SUFFICES ASSUME NEW q \in Runs, run'[q].of # None PROVE Settled(run[q].of)'
        BY DEF RetriedSettled
    <2>1. PICK o \in Runs : o = run'[q].of BY DEF TypeOK, RunRows
    <2>2. Settled(o)
        <3>1. run'[q].of = run[q].of \/ Settled(run'[q].of) BY DEF RowMoves
        <3>2. run[q].of # None => Settled(run[q].of) BY <1>0 DEF RetriedSettled
        <3> QED BY <2>1, <3>1, <3>2
    <2>3. Settled(o)' BY <1>1, <2>2
    <2> QED BY <2>1, <2>3 DEF Settled
<1> QED BY <1>2, <1>3 DEF LifeInv

-----------------------------------------------------------------------------
(* Rows and passes, written.                                                *)

LEMMA StatusWritten ==
    ASSUME TypeOK, NEW r \in Runs, NEW s \in Statuses,
           run' = [run EXCEPT ![r].status = s]
    PROVE  /\ run' \in [Runs -> RunRows]
           /\ run'[r].status = s
           /\ \A q \in Runs : /\ q # r => run'[q] = run[q]
                              /\ run'[q].pid = run[q].pid /\ run'[q].of = run[q].of
<1>1. run[r] \in RunRows BY DEF TypeOK
<1>2. [run[r] EXCEPT !.status = s] \in RunRows BY <1>1 DEF RunRows
<1>3. run' = [run EXCEPT ![r] = [run[r] EXCEPT !.status = s]] OBVIOUS
<1>4. run' \in [Runs -> RunRows] BY <1>2, <1>3 DEF TypeOK
<1>5. run'[r] = [run[r] EXCEPT !.status = s] /\ \A q \in Runs \ {r} : run'[q] = run[q]
    BY <1>3 DEF TypeOK
<1> QED BY <1>1, <1>4, <1>5 DEF RunRows

LEMMA OutcomeWritten ==
    ASSUME TypeOK, NEW r \in Runs, NEW s \in Statuses,
           NEW b \in Pasts,
           run' = [run EXCEPT ![r].status = s, ![r].past = b]
    PROVE  /\ run' \in [Runs -> RunRows]
           /\ run'[r].status = s /\ run'[r].past = b
           /\ \A q \in Runs : /\ q # r => run'[q] = run[q]
                              /\ run'[q].pid = run[q].pid /\ run'[q].of = run[q].of
<1>1. run[r] \in RunRows BY DEF TypeOK
<1>2. [run[r] EXCEPT !.status = s, !.past = b] \in RunRows BY <1>1 DEF RunRows
<1>3. run' = [run EXCEPT ![r] = [run[r] EXCEPT !.status = s, !.past = b]]
    BY <1>1 DEF TypeOK
<1>4. run' \in [Runs -> RunRows] BY <1>2, <1>3 DEF TypeOK
<1>5. run'[r] = [run[r] EXCEPT !.status = s, !.past = b] /\ \A q \in Runs \ {r} : run'[q] = run[q]
    BY <1>3 DEF TypeOK
<1> QED BY <1>1, <1>4, <1>5 DEF RunRows

LEMMA PassesUntouched ==
    ASSUME UNCHANGED pass
    PROVE  \A p \in Passes : PassMoves(p)
BY DEF PassMoves

LEMMA RowsUntouched ==
    ASSUME LifeInv, UNCHANGED <<run, child, exec>>
    PROVE  RowsOK' /\ \A r \in Runs : RowMoves(r)
BY DEF LifeInv, RowsOK, RowOK, RowMoves, Gone

\* The pass is done with a row.
LEMMA DoneEffect ==
    ASSUME TypeOK, NEW p \in Passes, NEW r \in Runs, pass[p].step # "idle", Done(p, r)
    PROVE  /\ pass' \in [Passes -> PassRecords]
           /\ \A o \in Passes : PassOK(pass'[o]) /\ PassMoves(o)
<1> DEFINE rest == Without(p, r)
           went == [pass[p] EXCEPT !.step = "scan", !.list = rest, !.cur = None]
<1>1. pass[p] \in PassRecords BY PassFields
<1>2. PICK S \in SUBSET Runs : pass[p].list \in [S -> RunRows] BY PassFields
<1>3. /\ rest \in [S \ {r} -> RunRows] /\ S \ {r} \in SUBSET Runs
      /\ DOMAIN rest = DOMAIN pass[p].list \ {r}
      /\ \A x \in DOMAIN rest : rest[x] = pass[p].list[x]
    BY <1>2 DEF Without
<1>4. rest \in UNION {[T -> RunRows] : T \in SUBSET Runs} BY <1>3
<1>5. Nothing \in [{} -> RunRows] /\ DOMAIN Nothing = {} BY DEF Nothing
<1>6. IdlePass \in PassRecords /\ PassOK(IdlePass) /\ IdlePass.step = "idle"
      /\ IdlePass.list = Nothing
    BY <1>5 DEF IdlePass, PassRecords, PassOK
<1>7. rest # Nothing => DOMAIN rest # {}
    BY <1>2, <1>3 DEF Nothing
<1> HIDE DEF rest
<1>8. /\ went \in PassRecords
      /\ went.step = "scan" /\ went.list = rest /\ went.cur = None
      /\ went.kind = pass[p].kind
    BY <1>1, <1>4 DEF PassRecords
<1> HIDE DEF went
<1>9. rest # Nothing => PassOK(went) BY <1>7, <1>8 DEF PassOK
<1>10. pass' = [pass EXCEPT ![p] = IF rest = Nothing THEN IdlePass ELSE went]
    BY DEF Done, rest, went
<1>11. /\ pass'[p] = IF rest = Nothing THEN IdlePass ELSE went
       /\ \A o \in Passes \ {p} : pass'[o] = pass[o]
       /\ pass' \in [Passes -> PassRecords]
    BY <1>6, <1>8, <1>10 DEF TypeOK
<1>12. PassOK(pass'[p]) BY <1>6, <1>9, <1>11
<1>13. PassMoves(p)
    BY <1>3, <1>5, <1>6, <1>8, <1>11 DEF PassMoves
<1>14. \A o \in Passes \ {p} : PassOK(pass'[o]) /\ PassMoves(o)
    BY <1>11 DEF PassMoves, TypeOK
<1> QED BY <1>11, <1>12, <1>13, <1>14

\* The pass goes on with the row.
LEMMA GoesEffect ==
    ASSUME TypeOK, NEW p \in Passes, NEW r \in DOMAIN pass[p].list,
           NEW step \in {"write", "lost", "insert"}, Goes(p, r, step),
           step = "write" => Gone(r)',
           step \in {"lost", "insert"} => Settled(r)'
    PROVE  /\ pass' \in [Passes -> PassRecords]
           /\ \A o \in Passes : PassOK(pass'[o]) /\ PassMoves(o)
<1> DEFINE went == [pass[p] EXCEPT !.step = step, !.cur = r]
<1>1. pass[p] \in PassRecords /\ PassOK(pass[p]) /\ r \in Runs BY PassFields
<1>2. /\ went \in PassRecords /\ went.step = step /\ went.cur = r
      /\ went.kind = pass[p].kind /\ went.list = pass[p].list
    BY <1>1 DEF PassRecords
<1>3. pass' = [pass EXCEPT ![p] = went] BY DEF Goes
<1> HIDE DEF went
<1>4. pass'[p] = went /\ pass' \in [Passes -> PassRecords]
      /\ \A o \in Passes \ {p} : pass'[o] = pass[o]
    BY <1>2, <1>3 DEF TypeOK
<1>5. PassOK(went) BY <1>2 DEF PassOK
<1>6. /\ step \in {"lost", "insert"} => Settled(pass[p].cur)'
      /\ step = "write" => Gone(pass[p].cur)'
    BY <1>2, <1>4 DEF Settled, Gone, Listed
<1>7. pass[p].step # "idle" BY <1>1 DEF PassOK
<1>8. PassMoves(p) BY <1>2, <1>4, <1>6, <1>7 DEF PassMoves
<1>9. \A o \in Passes \ {p} : PassOK(pass'[o]) /\ PassMoves(o)
    BY <1>4 DEF PassMoves, TypeOK
<1> QED BY <1>4, <1>5, <1>8, <1>9

-----------------------------------------------------------------------------
(* The steps.                                                               *)

\* The life of a row: wakes and claims, the executor, the child.
LEMMA RunSteps ==
    ASSUME LifeInv, NEW r \in Runs,
           \/ Wake(r) \/ Claim(r) \/ Begin(r) \/ AbortAtStart(r) \/ SetupFails(r) \/ Spawn(r)
           \/ RecordPid(r) \/ Exit(r) \/ LeaveExecution(r)
           \/ \E outcome \in Outcomes : Finish(r, outcome)
    PROVE  LifeInv'
<1>0. TypeOK /\ RowsOK /\ RowOK(r) /\ UNCHANGED <<pass, server, cancel, fold, restarts>>
    BY DEF LifeInv, RowsOK, Wake, Claim, Begin, AbortAtStart, SetupFails, Spawn, RecordPid,
           Exit, LeaveExecution, Finish, memory
<1>1. \A p \in Passes : PassMoves(p) BY <1>0, PassesUntouched
<1>2. SUFFICES /\ run' \in [Runs -> RunRows]
               /\ child' \in [Runs -> {"none", "alive", "dead"}]
               /\ exec' \in [Runs -> {"none", "claimed", "setup", "adapter", "tail"}]
               /\ tracked' \subseteq Runs
               /\ \A q \in Runs : RowOK(q)' /\ RowMoves(q)
    <2>1. TypeOK' BY <1>0, <1>2 DEF TypeOK
    <2>2. RowsOK' BY <1>2 DEF RowsOK
    <2> QED BY <1>0, <1>1, <1>2, <2>1, <2>2, LifeStep
<1>3. ASSUME run' = run
      PROVE  run' \in [Runs -> RunRows]
    BY <1>0, <1>3 DEF TypeOK
<1>4. ASSUME UNCHANGED child, UNCHANGED tracked
      PROVE  child' \in [Runs -> {"none", "alive", "dead"}] /\ tracked' \subseteq Runs
    BY <1>0, <1>4 DEF TypeOK
<1>5. CASE Wake(r)
    <2>1. run' = [run EXCEPT ![r].status = "queued"] /\ UNCHANGED <<child, exec, tracked>>
          /\ run[r].status = "absent"
        BY <1>5 DEF Wake, memory, Is
    <2>2. "queued" \in Statuses BY DEF Statuses
    <2>3. /\ run' \in [Runs -> RunRows] /\ run'[r].status = "queued"
          /\ \A q \in Runs : /\ q # r => run'[q] = run[q]
                             /\ run'[q].pid = run[q].pid /\ run'[q].of = run[q].of
        BY <1>0, <2>1, <2>2, StatusWritten
    <2>4. \A q \in Runs : RowOK(q)' /\ RowMoves(q)
        BY <1>0, <2>1, <2>3 DEF RowsOK, RowOK, Gone, RowMoves, Ended
    <2> QED BY <1>0, <1>4, <2>1, <2>3, <2>4 DEF TypeOK
<1>6. CASE Claim(r)
    <2>1. run' = [run EXCEPT ![r].status = "running"] /\ UNCHANGED <<child, tracked>>
          /\ run[r].status = "queued" /\ exec' = [exec EXCEPT ![r] = "claimed"]
        BY <1>6 DEF Claim, Is
    <2>2. "running" \in Statuses BY DEF Statuses
    <2>3. /\ run' \in [Runs -> RunRows] /\ run'[r].status = "running"
          /\ \A q \in Runs : /\ q # r => run'[q] = run[q]
                             /\ run'[q].pid = run[q].pid /\ run'[q].of = run[q].of
        BY <1>0, <2>1, <2>2, StatusWritten
    <2>4. exec' \in [Runs -> {"none", "claimed", "setup", "adapter", "tail"}]
          /\ exec'[r] = "claimed" /\ \A q \in Runs \ {r} : exec'[q] = exec[q]
        BY <1>0, <2>1 DEF TypeOK
    <2>5. \A q \in Runs : RowOK(q)' /\ RowMoves(q)
        BY <1>0, <2>1, <2>3, <2>4 DEF RowsOK, RowOK, Gone, RowMoves, Ended
    <2> QED BY <1>4, <2>1, <2>3, <2>4, <2>5
<1>7. CASE Begin(r) \/ LeaveExecution(r)
    <2>1. /\ UNCHANGED <<run, child, tracked>> /\ exec[r] \in {"claimed", "tail"}
          /\ \E e \in {"setup", "none"} :
                /\ exec' = [exec EXCEPT ![r] = e]
                /\ e = "setup" => exec[r] = "claimed"
        BY <1>7 DEF Begin, LeaveExecution
    <2>2. /\ exec' \in [Runs -> {"none", "claimed", "setup", "adapter", "tail"}]
          /\ exec'[r] \in {"setup", "none"} /\ (exec'[r] = "setup" => exec[r] = "claimed")
          /\ \A q \in Runs \ {r} : exec'[q] = exec[q]
        BY <1>0, <2>1 DEF TypeOK
    <2>3. \A q \in Runs : RowOK(q)' /\ RowMoves(q)
        BY <1>0, <2>1, <2>2 DEF RowsOK, RowOK, Gone, RowMoves
    <2> QED BY <1>3, <1>4, <2>1, <2>2, <2>3
\* The executor writes an end, whatever the status was or if it was running.
<1>8. CASE \/ AbortAtStart(r) \/ SetupFails(r)
           \/ \E outcome \in Outcomes : Finish(r, outcome)
    <2>1. /\ UNCHANGED <<child, tracked>> /\ exec' = [exec EXCEPT ![r] = "tail"]
          /\ exec[r] = "setup" \/ (exec[r] = "adapter" /\ child[r] = "dead")
          /\ \/ run' = run
             \/ \E o \in Ended : \/ run' = [run EXCEPT ![r].status = o]
                                \/ run' = [run EXCEPT ![r].status = o, ![r].past = "cancelled"]
        BY <1>8 DEF AbortAtStart, SetupFails, Finish, SetCancelled, SetIfRunning, Outcomes, Ended
    <2>2. /\ exec' \in [Runs -> {"none", "claimed", "setup", "adapter", "tail"}]
          /\ exec'[r] = "tail" /\ \A q \in Runs \ {r} : exec'[q] = exec[q]
        BY <1>0, <2>1 DEF TypeOK
    <2>3. /\ run' \in [Runs -> RunRows]
          /\ run'[r].status \in Ended \cup {run[r].status}
          /\ \A q \in Runs : /\ q # r => run'[q] = run[q]
                             /\ run'[q].pid = run[q].pid /\ run'[q].of = run[q].of
        <3>1. CASE run' = run BY <1>3, <3>1
        <3>2. ASSUME NEW s \in Ended, run' = [run EXCEPT ![r].status = s]
              PROVE  <2>3!1 /\ <2>3!2 /\ <2>3!3
            BY <1>0, <3>2, StatusWritten DEF Statuses
        <3>3. ASSUME NEW s \in Ended, run' = [run EXCEPT ![r].status = s, ![r].past = "cancelled"]
              PROVE  <2>3!1 /\ <2>3!2 /\ <2>3!3
            <4>1. s \in Statuses /\ "cancelled" \in Pasts BY DEF Statuses, Pasts
            <4>2. /\ run' \in [Runs -> RunRows] /\ run'[r].status = s
                  /\ \A q \in Runs : /\ q # r => run'[q] = run[q]
                                     /\ run'[q].pid = run[q].pid /\ run'[q].of = run[q].of
                BY <1>0, <3>3, <4>1, OutcomeWritten
            <4> QED BY <4>2
        <3> QED BY <2>1, <3>1, <3>2, <3>3
    <2>4. \A q \in Runs : RowOK(q)' /\ RowMoves(q)
        BY <1>0, <2>1, <2>2, <2>3 DEF RowsOK, RowOK, Gone, RowMoves, Ended
    <2> QED BY <1>4, <2>1, <2>2, <2>3, <2>4
<1>9. CASE Spawn(r) \/ Exit(r)
    <2>1. UNCHANGED run /\ tracked' \subseteq Runs BY <1>0, <1>9 DEF Spawn, Exit, TypeOK
    <2>2. child' \in [Runs -> {"none", "alive", "dead"}] /\ exec' \in [Runs -> {"none", "claimed", "setup", "adapter", "tail"}]
        BY <1>0, <1>9 DEF Spawn, Exit, TypeOK
    <2>3. \A q \in Runs :
            \/ exec'[q] = exec[q] /\ child'[q] \in {child[q], "dead"}
            \/ exec[q] = "setup" /\ exec'[q] = "adapter"
        BY <1>0, <1>9 DEF Spawn, Exit, TypeOK
    <2>4. \A q \in Runs : RowOK(q)' /\ RowMoves(q)
        BY <1>0, <2>1, <2>3 DEF RowsOK, RowOK, Gone, RowMoves
    <2> QED BY <1>3, <2>1, <2>2, <2>4
<1>10. CASE RecordPid(r)
    <2> DEFINE new == [run[r] EXCEPT !.pid = TRUE]
    <2>1. run' = [run EXCEPT ![r] = new] /\ UNCHANGED <<child, exec, tracked>>
          /\ exec[r] = "adapter"
        BY <1>10 DEF RecordPid, memory
    <2>2. run[r] \in RunRows BY <1>0 DEF TypeOK
    <2>3. new \in RunRows /\ new.status = run[r].status /\ new.of = run[r].of
        BY <2>2 DEF RunRows
    <2> HIDE DEF new
    <2>4. run' \in [Runs -> RunRows] /\ run'[r] = new /\ \A q \in Runs \ {r} : run'[q] = run[q]
        BY <1>0, <2>1, <2>3 DEF TypeOK
    <2>5. new.pid = TRUE BY <2>2 DEF new, RunRows
    <2>6. \A q \in Runs : RowOK(q)' /\ RowMoves(q)
        BY <1>0, <2>1, <2>3, <2>4, <2>5 DEF RowsOK, RowOK, Gone, RowMoves
    <2> QED BY <1>0, <1>4, <2>1, <2>4, <2>6 DEF TypeOK
<1> QED BY <1>5, <1>6, <1>7, <1>8, <1>9, <1>10

\* Cancellations and folds: the row is read or listed, the child killed, the end
\* written.
LEMMA CancelSteps ==
    ASSUME LifeInv, NEW r \in Runs,
           \/ \E step \in {"read", "listed"} : CancelStart(r, step)
           \/ CancelKill(r) \/ CancelWrite(r) \/ FoldStart(r) \/ FoldKill(r)
           \/ \E outcome \in {"succeeded", "cancelled"} : FoldWrite(r, outcome)
    PROVE  LifeInv'
<1>0. TypeOK /\ RowsOK /\ UNCHANGED <<pass, server, exec, restarts>>
    BY DEF LifeInv, CancelStart, CancelKill, CancelWrite, FoldStart, FoldKill, FoldWrite
<1>1. \A p \in Passes : PassMoves(p) BY <1>0, PassesUntouched
<1>2. cancel' \in [Runs -> {"none", "read", "killed", "listed", "written"}]
    BY <1>0 DEF CancelStart, CancelKill, CancelWrite, FoldStart, FoldKill, FoldWrite, TypeOK
<1>7. fold' \in [Runs -> {"none", "listed", "killed"}]
    BY <1>0 DEF CancelStart, CancelKill, CancelWrite, FoldStart, FoldKill, FoldWrite, TypeOK
<1>3. /\ tracked' \subseteq Runs /\ child' \in [Runs -> {"none", "alive", "dead"}]
      /\ \A q \in Runs : child'[q] = "alive" => child[q] = "alive"
    BY <1>0 DEF CancelStart, CancelKill, CancelWrite, FoldStart, FoldKill, FoldWrite, Kill,
                TypeOK
<1>4. /\ run' \in [Runs -> RunRows]
      /\ \A q \in Runs : /\ run'[q].pid = run[q].pid /\ run'[q].of = run[q].of
                         /\ run'[q].status \in {run[q].status} \cup Ended
    <2>1. CASE run' = run BY <1>0, <2>1 DEF TypeOK
    <2>3. ASSUME NEW outcome \in {"succeeded", "cancelled"}, NEW b \in {"cancelled", "folded"},
                 run' = [run EXCEPT ![r].status = outcome, ![r].past = b]
          PROVE  <1>4!1 /\ <1>4!2
        <3>1. /\ outcome \in Statuses /\ outcome \in Ended
              /\ b \in Pasts
            BY DEF Statuses, Ended, Pasts
        <3>2. /\ run' \in [Runs -> RunRows] /\ run'[r].status = outcome
              /\ \A q \in Runs : /\ q # r => run'[q] = run[q]
                                 /\ run'[q].pid = run[q].pid /\ run'[q].of = run[q].of
            BY <1>0, <2>3, <3>1, OutcomeWritten
        <3> QED BY <3>1, <3>2
    <2> QED BY <2>1, <2>3
            DEF CancelStart, CancelKill, CancelWrite, FoldStart, FoldKill, FoldWrite,
                SetCancelled
<1>5. RowsOK' /\ \A q \in Runs : RowMoves(q)
    BY <1>0, <1>3, <1>4 DEF RowsOK, RowOK, Gone, RowMoves, Ended
<1>6. TypeOK' BY <1>0, <1>2, <1>3, <1>4, <1>7 DEF TypeOK
<1> QED BY <1>0, <1>1, <1>5, <1>6, LifeStep

\* A reaper passes over a row, or marks the run of a live child.
LEMMA PassOverStep ==
    ASSUME LifeInv, NEW p \in Passes, NEW r \in Runs, PassOver(p, r)
    PROVE  LifeInv'
<1>0. TypeOK /\ pass[p].step # "idle" /\ Done(p, r)
      /\ UNCHANGED <<run, child, exec, tracked, cancel, fold, server, restarts>>
    BY DEF LifeInv, PassOver, Considers
<1>1. pass' \in [Passes -> PassRecords] /\ \A o \in Passes : PassOK(pass'[o]) /\ PassMoves(o)
    BY <1>0, DoneEffect
<1>2. TypeOK' BY <1>0, <1>1 DEF TypeOK
<1> QED BY <1>0, <1>1, <1>2, RowsUntouched, LifeStep

LEMMA DetachStep ==
    ASSUME LifeInv, NEW p \in Passes, NEW r \in Runs, Detach(p, r)
    PROVE  LifeInv'
<1> DEFINE new == [run[r] EXCEPT !.status = "running", !.mark = "detached"]
<1>0. /\ TypeOK /\ RowsOK /\ PassKnows(p)
      /\ pass[p].step = "scan" /\ pass[p].kind # "drain" /\ r \in DOMAIN pass[p].list
      /\ Done(p, r) /\ UNCHANGED <<child, exec, tracked, cancel, fold, server, restarts>>
      /\ pass[p].list[r].pid /\ child[r] = "alive" /\ exec[r] # "adapter"
      /\ run' = [run EXCEPT ![r] = new]
    BY DEF LifeInv, PassesKnow, Detach, Considers, PidAlive, InMemory
<1>1. pass' \in [Passes -> PassRecords] /\ \A o \in Passes : PassOK(pass'[o]) /\ PassMoves(o)
    BY <1>0, DoneEffect
<1>2. run[r] \in RunRows BY <1>0 DEF TypeOK
<1>3. new \in RunRows /\ new.status = "running" /\ new.pid = run[r].pid /\ new.of = run[r].of
    BY <1>2 DEF RunRows, Statuses
<1> HIDE DEF new
<1>4. run' \in [Runs -> RunRows] /\ run'[r] = new /\ \A q \in Runs \ {r} : run'[q] = run[q]
    BY <1>0, <1>3 DEF TypeOK
<1>5. TypeOK' BY <1>0, <1>1, <1>4 DEF TypeOK
<1>6. run[r].pid BY <1>0 DEF PassKnows
<1>7. RowsOK' BY <1>0, <1>3, <1>4, <1>6 DEF RowsOK, RowOK
<1>8. \A q \in Runs : RowMoves(q) BY <1>0, <1>3, <1>4, <1>6 DEF RowMoves, Gone, Listed
<1> QED BY <1>0, <1>1, <1>5, <1>7, <1>8, LifeStep

\* The run of a child that is gone has failed, and may be retried: its process id
\* says that it was spawned, so it cannot be spawned again.
LEMMA LoseStep ==
    ASSUME LifeInv, NEW p \in Passes, NEW r \in Runs, Lose(p, r)
    PROVE  LifeInv'
<1>0. /\ TypeOK /\ RowsOK /\ PassKnows(p)
      /\ pass[p].step = "scan" /\ pass[p].kind # "drain" /\ r \in DOMAIN pass[p].list
      /\ UNCHANGED <<child, exec, tracked, cancel, fold, server, restarts>>
      /\ run' = [run EXCEPT ![r].status = "failed"]
      /\ \/ Done(p, r)
         \/ Goes(p, r, "lost") /\ pass[p].list[r].pid /\ child[r] # "alive"
    BY DEF LifeInv, PassesKnow, Lose, Considers, PidAlive, Set
<1>1. /\ run' \in [Runs -> RunRows] /\ run'[r].status = "failed"
      /\ \A q \in Runs : /\ q # r => run'[q] = run[q]
                         /\ run'[q].pid = run[q].pid /\ run'[q].of = run[q].of
    <2>1. "failed" \in Statuses BY DEF Statuses, Ended
    <2> QED BY <1>0, <2>1, StatusWritten
<1>2. RowsOK' /\ \A q \in Runs : RowMoves(q)
    BY <1>0, <1>1 DEF RowsOK, RowOK, Gone, RowMoves, Ended
<1>3. CASE Done(p, r)
    <2>1. pass' \in [Passes -> PassRecords]
          /\ \A o \in Passes : PassOK(pass'[o]) /\ PassMoves(o)
        BY <1>0, <1>3, DoneEffect
    <2>2. TypeOK' BY <1>0, <1>1, <2>1 DEF TypeOK
    <2> QED BY <1>0, <1>2, <2>1, <2>2, LifeStep
<1>4. CASE Goes(p, r, "lost") /\ pass[p].list[r].pid /\ child[r] # "alive"
    <2>2. Settled(r)' BY <1>0, <1>1, <1>4 DEF Settled, Gone, Ended
    <2>3. pass' \in [Passes -> PassRecords]
          /\ \A o \in Passes : PassOK(pass'[o]) /\ PassMoves(o)
        BY <1>0, <1>4, <2>2, GoesEffect
    <2>4. TypeOK' BY <1>0, <1>1, <2>3 DEF TypeOK
    <2> QED BY <1>0, <1>2, <2>3, <2>4, LifeStep
<1> QED BY <1>0, <1>3, <1>4

\* The retry of a lost run.
LEMMA RetrySteps ==
    ASSUME LifeInv, NEW p \in Passes,
           LookUp(p) \/ Suppress(p) \/ \E q \in Runs : Insert(p, q)
    PROVE  LifeInv'
<1> DEFINE r == pass[p].cur
<1>0. /\ TypeOK /\ RowsOK /\ PassKnows(p) /\ pass[p].step \in {"lost", "insert"}
      /\ UNCHANGED <<child, exec, tracked, cancel, fold, server, restarts>>
      /\ Done(p, r) \/ (Goes(p, r, "insert") /\ run' = run)
    BY DEF LifeInv, PassesKnow, LookUp, Suppress, Insert
<1>1. r \in DOMAIN pass[p].list /\ r \in Runs /\ pass[p].step # "idle"
    BY <1>0, PassFields
<1>2. Settled(r) BY <1>0 DEF PassKnows
<1>3. CASE Goes(p, r, "insert") /\ run' = run
    <2> DEFINE went == [pass[p] EXCEPT !.step = "insert", !.cur = r]
    <2>1. pass' = [pass EXCEPT ![p] = went] /\ pass[p] \in PassRecords
        BY <1>0, <1>3, PassFields DEF Goes
    <2>2. /\ went \in PassRecords /\ went.step = "insert" /\ went.cur = r
          /\ went.kind = pass[p].kind /\ went.list = pass[p].list
        BY <1>1, <2>1 DEF PassRecords
    <2> HIDE DEF went
    <2>3. pass'[p] = went /\ pass' \in [Passes -> PassRecords]
          /\ \A o \in Passes \ {p} : pass'[o] = pass[o]
        BY <1>0, <2>1, <2>2 DEF TypeOK
    <2>4. \A o \in Passes : PassOK(pass'[o]) /\ PassMoves(o)
        <3>1. PassOK(pass'[p]) BY <1>0, <1>1, <2>2, <2>3, PassFields DEF PassOK
        <3>2. PassMoves(p) BY <1>0, <2>2, <2>3 DEF PassMoves
        <3>3. \A o \in Passes \ {p} : PassOK(pass'[o]) /\ PassMoves(o)
            BY <1>0, <2>3 DEF PassMoves, TypeOK
        <3> QED BY <3>1, <3>2, <3>3
    <2>5. TypeOK' BY <1>0, <1>3, <2>3, <2>4 DEF TypeOK
    <2> QED BY <1>0, <1>3, <2>4, <2>5, RowsUntouched, LifeStep
<1>4. CASE Done(p, r)
    <2>1. pass' \in [Passes -> PassRecords]
          /\ \A o \in Passes : PassOK(pass'[o]) /\ PassMoves(o)
        BY <1>0, <1>1, <1>4, DoneEffect
    <2>2. CASE run' = run
        <3>1. TypeOK' BY <1>0, <2>1, <2>2 DEF TypeOK
        <3> QED BY <1>0, <2>1, <2>2, <3>1, RowsUntouched, LifeStep
    <2>3. ASSUME NEW q \in Runs, Insert(p, q) PROVE LifeInv'
        <3> DEFINE new == [NoRow EXCEPT !.status = "queued", !.of = r,
                                        !.losses = run[r].losses + 1]
        <3>1. run[q].status = "absent" /\ run[r].losses < MaxLosses
              /\ run' = [run EXCEPT ![q] = new]
            BY <2>3 DEF Insert, Is
        <3>2. run[r] \in RunRows /\ run[q] \in RunRows BY <1>0, <1>1 DEF TypeOK
        <3>3. run[r].losses + 1 \in 0..MaxLosses BY <3>1, <3>2, LifeAssumption DEF RunRows
        <3>4. /\ new \in RunRows /\ new.status = "queued" /\ new.of = r /\ new.pid = FALSE
            BY <1>1, <3>3 DEF NoRow, RunRows, Statuses, Pasts
        <3> HIDE DEF new
        <3>5. run' \in [Runs -> RunRows] /\ run'[q] = new
              /\ \A o \in Runs \ {q} : run'[o] = run[o]
            BY <1>0, <3>1, <3>4 DEF TypeOK
        <3>6. TypeOK' BY <1>0, <2>1, <3>5 DEF TypeOK
        <3>7. RowsOK' BY <1>0, <3>1, <3>4, <3>5 DEF RowsOK, RowOK
        <3>8. ~run[q].pid BY <1>0, <3>1 DEF RowsOK, RowOK
        <3>9. \A o \in Runs : RowMoves(o)
            BY <1>0, <1>2, <3>1, <3>4, <3>5, <3>8 DEF RowMoves, Gone, Ended
        <3> QED BY <1>0, <2>1, <3>6, <3>7, <3>9, LifeStep
    <2> QED BY <2>2, <2>3 DEF LookUp, Suppress, Insert
<1> QED BY <1>0, <1>3, <1>4

\* The drain ends a run whose child it has killed, or never saw: no reaper beside it
\* finds that child alive without a handle.
LEMMA DrainSteps ==
    ASSUME LifeInv, NEW p \in Passes, (\E r \in Runs : DrainKill(p, r)) \/ DrainWrite(p)
    PROVE  LifeInv'
<1>0. TypeOK /\ RowsOK /\ PassKnows(p) /\ UNCHANGED <<exec, cancel, fold, server, restarts>>
    BY DEF LifeInv, PassesKnow, DrainKill, DrainWrite
<1>1. ASSUME NEW r \in Runs, DrainKill(p, r) PROVE LifeInv'
    <2>1. r \in DOMAIN pass[p].list /\ Goes(p, r, "write") /\ run' = run
        BY <1>1 DEF DrainKill
    <2>2. /\ tracked' \subseteq Runs /\ child' \in [Runs -> {"none", "alive", "dead"}]
          /\ \A q \in Runs : child'[q] = "alive" => child[q] = "alive"
        BY <1>0, <1>1 DEF DrainKill, Kill, TypeOK
    <2>6. Gone(r)' BY <1>0, <1>1, <2>1 DEF DrainKill, Kill, TypeOK, Gone
    <2>3. pass' \in [Passes -> PassRecords]
          /\ \A o \in Passes : PassOK(pass'[o]) /\ PassMoves(o)
        BY <1>0, <2>1, <2>6, GoesEffect
    <2>4. TypeOK' BY <1>0, <2>1, <2>2, <2>3 DEF TypeOK
    <2>5. RowsOK' /\ \A q \in Runs : RowMoves(q)
        BY <1>0, <2>1, <2>2 DEF RowsOK, RowOK, Gone, RowMoves
    <2> QED BY <1>0, <2>3, <2>4, <2>5, LifeStep
<1>2. CASE DrainWrite(p)
    <2> DEFINE r == pass[p].cur
    <2>1. /\ pass[p].step = "write" /\ UNCHANGED <<child, tracked>>
          /\ SetIfRunning(r, "interrupted")
          /\ IF Is(r, "running") THEN Goes(p, r, "lost") ELSE Done(p, r)
        BY <1>2 DEF DrainWrite
    <2>2. r \in DOMAIN pass[p].list /\ r \in Runs BY <1>0, <2>1, PassFields
    <2>3. CASE ~Is(r, "running")
        <3>1. run' = run /\ Done(p, r) BY <2>1, <2>3 DEF SetIfRunning
        <3>2. pass' \in [Passes -> PassRecords]
              /\ \A o \in Passes : PassOK(pass'[o]) /\ PassMoves(o)
            BY <1>0, <2>1, <2>2, <3>1, DoneEffect
        <3>3. TypeOK' BY <1>0, <2>1, <3>1, <3>2 DEF TypeOK
        <3> QED BY <1>0, <2>1, <3>1, <3>2, <3>3, RowsUntouched, LifeStep
    <2>4. CASE Is(r, "running")
        <3>1. run' = [run EXCEPT ![r].status = "interrupted"] /\ Goes(p, r, "lost")
            BY <2>1, <2>4 DEF SetIfRunning
        <3>2. /\ run' \in [Runs -> RunRows] /\ run'[r].status = "interrupted"
              /\ \A q \in Runs : /\ q # r => run'[q] = run[q]
                                 /\ run'[q].pid = run[q].pid /\ run'[q].of = run[q].of
            <4>1. "interrupted" \in Statuses BY DEF Statuses, Ended
            <4> HIDE DEF r
            <4> QED BY <1>0, <2>2, <3>1, <4>1, StatusWritten
        <3>3. RowsOK' /\ \A q \in Runs : RowMoves(q)
            <4> HIDE DEF r
            <4> QED BY <1>0, <2>1, <2>2, <3>2 DEF RowsOK, RowOK, Gone, RowMoves, Ended
        <3>4. PICK q \in DOMAIN pass[p].list : q = r /\ q \in Runs BY <2>2
        <3>5. Gone(q)'
            <4>1. Gone(q) BY <1>0, <2>1, <3>4 DEF PassKnows
            <4>2. run'[q].pid = run[q].pid /\ UNCHANGED <<child, exec>>
                BY <1>0, <2>1, <3>2, <3>4
            <4> HIDE DEF r
            <4> QED BY <4>1, <4>2 DEF Gone
        <3>6. pass' \in [Passes -> PassRecords]
              /\ \A o \in Passes : PassOK(pass'[o]) /\ PassMoves(o)
            <4>1. Goes(p, q, "lost") BY <3>1, <3>4
            <4>2. Settled(q)'
                <5>1. run'[q].status = "interrupted" BY <3>2, <3>4
                <5> QED BY <3>5, <5>1 DEF Settled, Ended
            <4> HIDE DEF r
            <4> QED BY <1>0, <4>1, <4>2, GoesEffect
        <3>7. TypeOK' BY <1>0, <2>1, <3>2, <3>6 DEF TypeOK
        <3> QED BY <1>0, <3>3, <3>6, <3>7, LifeStep
    <2> QED BY <2>3, <2>4
<1> QED BY <1>1, <1>2

\* A pass lists running runs: none of them has settled.
LEMMA ListStep ==
    ASSUME LifeInv, NEW p \in Passes, NEW kind \in {"startup", "periodic", "drain"},
           NEW S, List(p, kind, S), UNCHANGED <<run, child, exec, tracked, cancel, fold, restarts>>,
           server' \in {"starting", "up", "stopping", "adopting", "down"}
    PROVE  LifeInv'
<1> DEFINE new == [kind |-> kind, step |-> "scan", cur |-> None,
                   list |-> [r \in S |-> run[r]]]
<1>0. TypeOK /\ RowsOK /\ PassesKnow /\ RetriedSettled BY DEF LifeInv
<1>1. /\ S # {} /\ S \in SUBSET Runs /\ \A r \in S : run[r].status = "running"
      /\ pass' = [pass EXCEPT ![p] = new]
    BY DEF List, Is
<1>2. [r \in S |-> run[r]] \in [S -> RunRows] BY <1>0, <1>1 DEF TypeOK
<1>3. new \in PassRecords /\ PassOK(new)
    <2>1. new.list \in UNION {[T -> RunRows] : T \in SUBSET Runs} BY <1>1, <1>2
    <2> QED BY <1>1, <2>1 DEF PassRecords, PassOK
<1>4. pass'[p] = new /\ pass' \in [Passes -> PassRecords]
      /\ \A o \in Passes \ {p} : pass'[o] = pass[o]
    BY <1>0, <1>1, <1>3 DEF TypeOK
<1>5. new.kind = kind /\ new.step = "scan" /\ DOMAIN new.list = S
      /\ \A r \in S : new.list[r] = run[r]
    OBVIOUS
<1> HIDE DEF new
<1>6. TypeOK' BY <1>0, <1>3, <1>4 DEF TypeOK
<1>7. RowsOK' BY <1>0 DEF RowsOK, RowOK
<1>8. ASSUME NEW r \in Runs, Settled(r) PROVE Settled(r)'
    <2>1. run[r].status # "running" BY <1>8 DEF Settled, Ended
    <2>2. r \notin DOMAIN pass'[p].list BY <1>1, <1>4, <1>5, <2>1
    <2>3. Listed(r)' => Listed(r) BY <1>4, <2>2 DEF Listed
    <2> QED BY <1>8, <2>3 DEF Settled, Gone
<1>9. ASSUME NEW o \in Passes PROVE PassKnows(o)'
    <2>1. CASE o = p BY <1>4, <1>5, <2>1 DEF PassKnows
    <2>2. CASE o # p
        <3>1. pass'[o] = pass[o] /\ PassKnows(o) BY <1>0, <1>4, <2>2 DEF PassesKnow
        <3>2. pass[o].step \in {"lost", "insert"} => Settled(pass[o].cur)'
            <4>1. pass[o].step \in {"lost", "insert"} => pass[o].cur \in Runs
                BY <1>0, PassFields
            <4>2. ASSUME pass[o].step \in {"lost", "insert"}
                  PROVE  Settled(pass[o].cur)'
                <5>1. PICK r \in Runs : r = pass[o].cur BY <4>1, <4>2
                <5>2. Settled(r) BY <3>1, <4>2, <5>1 DEF PassKnows
                <5>3. Settled(r)' BY <1>8, <5>2
                <5> QED BY <3>1, <5>1, <5>3 DEF Settled
            <4> QED BY <4>2
        <3>3. pass[o].step = "write" => Gone(pass[o].cur)' BY <3>1 DEF PassKnows, Gone
        <3> QED BY <3>1, <3>2, <3>3 DEF PassKnows
    <2> QED BY <2>1, <2>2
<1>10. RetriedSettled'
    <2> SUFFICES ASSUME NEW q \in Runs, run[q].of # None PROVE Settled(run[q].of)'
        BY DEF RetriedSettled
    <2>1. PICK o \in Runs : o = run[q].of BY <1>0 DEF TypeOK, RunRows
    <2>2. Settled(o)' BY <1>0, <1>8, <2>1 DEF RetriedSettled
    <2> QED BY <2>1, <2>2 DEF Settled
<1> QED BY <1>6, <1>7, <1>9, <1>10 DEF LifeInv, PassesKnow

LEMMA ListSteps ==
    ASSUME LifeInv, NEW p \in Passes,
           ListAtStart(p) \/ Shutdown(p) \/ \E S \in SUBSET Runs : ListPeriodic(p, S)
    PROVE  LifeInv'
<1>0. TypeOK /\ UNCHANGED <<run, child, exec, tracked, cancel, fold, restarts>>
    BY DEF LifeInv, ListAtStart, Shutdown, ListPeriodic
<1>1. ASSUME NEW S \in SUBSET Runs, ListPeriodic(p, S) PROVE LifeInv'
    <2>1. List(p, "periodic", S) /\ server' = server /\ server \in {"up", "stopping"}
        BY <1>1 DEF ListPeriodic
    <2> QED BY <1>0, <2>1, ListStep
<1>2. CASE ListAtStart(p)
    <2>1. server = "starting" /\ server' = "up" BY <1>2 DEF ListAtStart
    <2>2. CASE List(p, "startup", Running) BY <1>0, <2>1, <2>2, ListStep
    <2>3. CASE UNCHANGED pass
        <3>1. TypeOK' BY <1>0, <2>1, <2>3 DEF TypeOK
        <3> QED BY <1>0, <2>1, <2>3, <3>1, RowsUntouched, PassesUntouched, LifeStep
    <2> QED BY <1>2, <2>2, <2>3 DEF ListAtStart
<1>3. CASE Shutdown(p)
    <2>1. server' = "stopping" BY <1>3 DEF Shutdown
    <2>2. CASE List(p, "drain", Running) BY <1>0, <2>1, <2>2, ListStep
    <2>3. CASE UNCHANGED pass
        <3>1. TypeOK' BY <1>0, <2>1, <2>3 DEF TypeOK
        <3> QED BY <1>0, <2>1, <2>3, <3>1, RowsUntouched, PassesUntouched, LifeStep
    <2> QED BY <1>3, <2>2, <2>3 DEF Shutdown
<1> QED BY <1>1, <1>2, <1>3

\* The server stops only while it may still go down.
RestartsOK == restarts \in 0..MaxRestarts /\ (server = "stopping" => restarts < MaxRestarts)

LEMMA RestartsStep == RestartsOK /\ [Next]_vars => RestartsOK'
<1> SUFFICES ASSUME RestartsOK, [Next]_vars PROVE RestartsOK' OBVIOUS
<1>1. CASE UNCHANGED <<server, restarts>> BY <1>1 DEF RestartsOK
<1>2. ASSUME NEW p \in Passes, ListAtStart(p) \/ Shutdown(p) PROVE RestartsOK'
    BY <1>2 DEF RestartsOK, ListAtStart, Shutdown
<1>3. CASE Crash \/ Stop \/ HotRestart
    BY <1>3, LifeAssumption DEF RestartsOK, Crash, Stop, HotRestart, Lost
<1>4. CASE Adopt \/ Start
    BY <1>4 DEF RestartsOK, Adopt, Start
<1>5. \/ UNCHANGED <<server, restarts>>
      \/ \E p \in Passes : ListAtStart(p) \/ Shutdown(p)
      \/ Crash \/ Stop \/ HotRestart \/ Adopt \/ Start
    <2>1. ASSUME NEW r \in Runs,
                 \/ Wake(r) \/ Claim(r) \/ ExecutorStep(r) \/ AbortAtStart(r) \/ SetupFails(r)
                 \/ Exit(r)
          PROVE  UNCHANGED <<server, restarts>>
        BY <2>1 DEF Wake, Claim, ExecutorStep, Begin, Spawn, RecordPid, LeaveExecution, Finish,
                    AbortAtStart, SetupFails, Exit
    <2>2. ASSUME NEW r \in Runs,
                 \/ CancelStep(r) \/ FoldStart(r) \/ FoldStep(r)
                 \/ \E step \in {"read", "listed"} : CancelStart(r, step)
          PROVE  UNCHANGED <<server, restarts>>
        BY <2>2 DEF CancelStep, CancelKill, CancelWrite, CancelStart, FoldStart, FoldStep,
                    FoldKill, FoldWrite
    <2>3. ASSUME NEW p \in Passes, PassStep(p) \/ \E S \in SUBSET Runs : ListPeriodic(p, S)
          PROVE  UNCHANGED <<server, restarts>>
        BY <2>3 DEF PassStep, LookUp, Suppress, DrainWrite, PassOver, Detach, Lose, Insert,
                    DrainKill, ListPeriodic
    <2> QED BY <2>1, <2>2, <2>3 DEF Next, vars
<1> QED BY <1>1, <1>2, <1>3, <1>4, <1>5

\* The server goes down, whatever was under way, and comes back.
LEMMA ServerSteps ==
    ASSUME LifeInv, RestartsOK, RestartsOK', Crash \/ Stop \/ HotRestart \/ Adopt \/ Start
    PROVE  LifeInv'
<1>0. TypeOK /\ RowsOK /\ UNCHANGED child
    BY DEF LifeInv, Crash, Stop, HotRestart, Adopt, Start
<1>1. CASE Lost /\ run' = run
    <2>1. /\ pass' = [p \in Passes |-> IdlePass] /\ restarts' = restarts + 1
          /\ exec' = [r \in Runs |-> "none"] /\ tracked' = {}
          /\ cancel' = [r \in Runs |-> "none"] /\ fold' = [r \in Runs |-> "none"]
        BY <1>1 DEF Lost
    <2>2. IdlePass \in PassRecords /\ PassOK(IdlePass) /\ IdlePass.step = "idle"
          /\ DOMAIN IdlePass.list = {}
        <3>1. Nothing \in [{} -> RunRows] BY DEF Nothing
        <3> QED BY <3>1 DEF IdlePass, PassRecords, PassOK
    <2>3. restarts' \in 0..MaxRestarts /\ server' \in {"down", "adopting"}
        BY <1>1 DEF RestartsOK, Crash, Stop, HotRestart, Adopt, Start, memory, Lost
    <2>4. \A p \in Passes : pass'[p] = IdlePass /\ PassMoves(p)
        BY <2>1, <2>2 DEF PassMoves
    <2>5. TypeOK' BY <1>0, <1>1, <2>1, <2>2, <2>3, <2>4 DEF TypeOK
    <2>6. RowsOK' /\ \A r \in Runs : RowMoves(r)
        BY <1>0, <1>1, <2>1, <2>2, <2>4 DEF RowsOK, RowOK, RowMoves, AllIdle
    <2> QED BY <2>2, <2>4, <2>5, <2>6, LifeStep
<1>2. CASE Start
    <2>1. server' = "starting" /\ server = "down"
          /\ UNCHANGED <<run, exec, tracked, pass, cancel, fold, restarts>>
        BY <1>2 DEF Start, memory
    <2>2. TypeOK' BY <1>0, <2>1 DEF TypeOK
    <2> QED BY <1>0, <2>1, <2>2, RowsUntouched, PassesUntouched, LifeStep
\* Adoption marks rows, and changes nothing else.
<1>3. CASE Adopt
    <2>1. server' = "starting" /\ server = "adopting"
          /\ UNCHANGED <<exec, tracked, pass, cancel, fold, restarts>>
        BY <1>3 DEF Adopt, memory
    <2>2. ASSUME NEW r \in Runs
          PROVE  /\ run'[r] \in RunRows /\ run'[r].status = run[r].status
                 /\ run'[r].pid = run[r].pid /\ run'[r].of = run[r].of
        <3>1. run[r] \in RunRows BY <1>0 DEF TypeOK
        <3>2. run'[r] = run[r] \/ run'[r] = [run[r] EXCEPT !.mark = "adopted"]
            BY <1>3 DEF Adopt
        <3> QED BY <3>1, <3>2 DEF RunRows
    <2>3. run' \in [Runs -> RunRows] BY <1>3, <2>2 DEF Adopt
    <2>4. TypeOK' BY <1>0, <2>1, <2>3 DEF TypeOK
    <2>5. RowsOK' /\ \A r \in Runs : RowMoves(r)
        BY <1>0, <2>1, <2>2 DEF RowsOK, RowOK, Gone, RowMoves
    <2> QED BY <2>1, <2>4, <2>5, PassesUntouched, LifeStep
<1> QED BY <1>1, <1>2, <1>3 DEF Crash, Stop, HotRestart

\* Every step keeps the invariant.
LEMMA LifeKept == LifeInv /\ RestartsOK /\ RestartsOK' /\ [Next]_vars => LifeInv'
<1> SUFFICES ASSUME LifeInv, RestartsOK, RestartsOK', [Next]_vars PROVE LifeInv' OBVIOUS
<1>1. ASSUME NEW r \in Runs,
             \/ Wake(r) \/ Claim(r) \/ ExecutorStep(r) \/ AbortAtStart(r) \/ SetupFails(r)
             \/ Exit(r)
      PROVE  LifeInv'
    BY <1>1, RunSteps DEF ExecutorStep
<1>2. ASSUME NEW r \in Runs,
             \/ CancelStep(r) \/ \E step \in {"read", "listed"} : CancelStart(r, step)
             \/ FoldStart(r) \/ FoldStep(r)
      PROVE  LifeInv'
    BY <1>2, CancelSteps DEF CancelStep, FoldStep
<1>3. ASSUME NEW p \in Passes, PassStep(p) PROVE LifeInv'
    BY <1>3, PassOverStep, DetachStep, LoseStep, RetrySteps, DrainSteps DEF PassStep
<1>4. ASSUME NEW p \in Passes,
             ListAtStart(p) \/ Shutdown(p) \/ \E S \in SUBSET Runs : ListPeriodic(p, S)
      PROVE  LifeInv'
    BY <1>4, ListSteps
<1>5. ASSUME Crash \/ Stop \/ HotRestart \/ Adopt \/ Start PROVE LifeInv'
    BY <1>5, ServerSteps
<1>6. CASE UNCHANGED vars
    <2>1. TypeOK' BY <1>6 DEF LifeInv, TypeOK, vars
    <2> QED BY <1>6, <2>1, RowsUntouched, PassesUntouched, LifeStep DEF vars
<1> QED BY <1>1, <1>2, <1>3, <1>4, <1>5, <1>6 DEF Next

LEMMA LifeInit == Init => LifeInv /\ RestartsOK
<1> SUFFICES ASSUME Init PROVE LifeInv /\ RestartsOK OBVIOUS
<1>1. NoRow \in RunRows /\ NoRow.of = None /\ NoRow.pid = FALSE
    BY LifeAssumption DEF NoRow, RunRows, Statuses, Pasts
<1>2. IdlePass \in PassRecords /\ PassOK(IdlePass) /\ IdlePass.step = "idle"
      /\ DOMAIN IdlePass.list = {}
    <2>1. Nothing \in [{} -> RunRows] BY DEF Nothing
    <2> QED BY <2>1 DEF IdlePass, PassRecords, PassOK
<1>3. TypeOK BY <1>1, <1>2, LifeAssumption DEF Init, TypeOK
<1>4. RowsOK BY <1>1 DEF Init, RowsOK, RowOK
<1>5. PassesKnow BY <1>2 DEF Init, PassesKnow, PassKnows
<1>6. RetriedSettled BY <1>1 DEF Init, RetriedSettled
<1>7. RestartsOK BY LifeAssumption DEF Init, RestartsOK
<1> QED BY <1>3, <1>4, <1>5, <1>6, <1>7 DEF LifeInv

LEMMA LifeAlways == Spec => []LifeInv
BY LifeInit, LifeKept, RestartsStep, PTL DEF Spec

-----------------------------------------------------------------------------
(* The theorems.                                                            *)

\* The rows, the passes and the server have their types, and a pass works on a row
\* that it listed.
THEOREM TypeCorrect == Spec => []TypeOK
<1>1. LifeInv => TypeOK BY DEF LifeInv
<1> QED BY <1>1, LifeAlways, PTL

\* A retry exists only for a run that has ended, however many passes and restarts
\* overlap and however old their lists are.
THEOREM RetriesFollowEnds == Spec => []RetriedHasEnded
<1>1. LifeInv => RetriedHasEnded BY DEF LifeInv, RetriedSettled, Settled, RetriedHasEnded
<1> QED BY <1>1, LifeAlways, PTL

\* A cancelled run is running again only where nobody executes it or will.
CancelledFor(r) ==
    /\ run[r].status \notin {"absent", "queued"}
    /\ run[r].status # "succeeded"
    /\ run[r].status = "running" => exec[r] \notin {"claimed", "setup", "adapter"}

CancelledInv == \A r \in Runs : run[r].past = "cancelled" => CancelledFor(r)

LEMMA CancelledStep ==
    ASSUME LifeInv, [Next]_vars, NEW r \in Runs, CancelledInv, run'[r].past = "cancelled"
    PROVE  CancelledFor(r)'
<1>0. TypeOK /\ RowsOK /\ PassesKnow /\ run[r] \in RunRows BY DEF LifeInv, TypeOK
<1>1. ASSUME NEW q \in Runs, NEW s, run' = [run EXCEPT ![q].status = s]
      PROVE  /\ run'[r].status = IF q = r THEN s ELSE run[r].status
             /\ run'[r].past = run[r].past
    BY <1>0, <1>1 DEF TypeOK, RunRows
<1>2. ASSUME run'[r].status = run[r].status, run'[r].past = run[r].past,
             exec'[r] \in {"claimed", "setup", "adapter"} =>
                exec[r] \in {"claimed", "setup", "adapter"}
      PROVE  CancelledFor(r)'
    BY <1>2 DEF CancelledFor, CancelledInv
<1>3. ASSUME run'[r].status \in {"failed", "cancelled", "interrupted"}
      PROVE  CancelledFor(r)'
    BY <1>3 DEF CancelledFor
<1>4. ASSUME NEW q \in Runs, Wake(q) \/ Claim(q) PROVE CancelledFor(r)'
    <2>1. q # r
        <3>1. run'[q].past = run[q].past /\ run[q].status \in {"absent", "queued"}
            BY <1>0, <1>1, <1>4 DEF Wake, Claim, Is, TypeOK, RunRows
        <3> QED BY <3>1 DEF CancelledInv, CancelledFor
    <2>2. run'[r] = run[r] BY <1>0, <1>4, <2>1 DEF Wake, Claim, TypeOK
    <2>3. exec'[r] = exec[r] BY <1>0, <1>4, <2>1 DEF Wake, Claim, TypeOK, memory
    <2> QED BY <1>2, <2>2, <2>3
<1>5. ASSUME NEW q \in Runs,
             \/ Begin(q) \/ Spawn(q) \/ RecordPid(q) \/ LeaveExecution(q) \/ Exit(q)
             \/ CancelKill(q) \/ \E step \in {"read", "listed"} : CancelStart(q, step)
      PROVE  CancelledFor(r)'
    <2>1. run'[r].status = run[r].status /\ run'[r].past = run[r].past
        <3>1. run[q] \in RunRows BY <1>0 DEF TypeOK
        <3> QED BY <1>0, <1>5, <3>1
                DEF Begin, Spawn, RecordPid, LeaveExecution, Exit, CancelKill, CancelStart,
                    TypeOK, RunRows
    <2>2. exec'[r] \in {"claimed", "setup", "adapter"} =>
                exec[r] \in {"claimed", "setup", "adapter"}
        BY <1>0, <1>5
           DEF Begin, Spawn, RecordPid, LeaveExecution, Exit, CancelKill, CancelStart, TypeOK,
               memory
    <2> QED BY <1>2, <2>1, <2>2
\* The outcome is written only if the run is running: not while it is executed.
<1>6. ASSUME NEW q \in Runs,
             \/ AbortAtStart(q) \/ SetupFails(q) \/ CancelWrite(q)
             \/ \E o \in Outcomes : Finish(q, o)
      PROVE  CancelledFor(r)'
    <2>0. ASSUME SetCancelled(q)
          PROVE  /\ q = r => run'[r].status = "cancelled"
                 /\ q # r => run'[r] = run[r]
        BY <1>0, <2>0 DEF SetCancelled, TypeOK, RunRows
    <2>1. exec'[r] \in {"claimed", "setup", "adapter"} =>
                exec[r] \in {"claimed", "setup", "adapter"}
        BY <1>0, <1>6 DEF AbortAtStart, SetupFails, CancelWrite, Finish, TypeOK
    <2>2. CASE q # r
        <3>1. run'[r].status = run[r].status /\ run'[r].past = run[r].past
            BY <1>0, <1>1, <1>6, <2>0, <2>2
               DEF AbortAtStart, SetupFails, CancelWrite, Finish, SetIfRunning
        <3> QED BY <1>2, <2>1, <3>1
    <2>3. CASE q = r
        <3>1. CASE AbortAtStart(r) \/ CancelWrite(r)
            BY <1>3, <2>0, <2>3, <3>1 DEF AbortAtStart, CancelWrite
        <3>2. CASE SetupFails(r) \/ \E o \in Outcomes : Finish(r, o)
            <4>1. run'[r].past = run[r].past
                BY <1>1, <3>2 DEF SetupFails, Finish, SetIfRunning
            <4>2. run[r].status # "running"
                BY <3>2, <4>1 DEF SetupFails, Finish, CancelledFor, CancelledInv
            <4>3. run' = run BY <3>2, <4>2 DEF SetupFails, Finish, SetIfRunning, Is
            <4> QED BY <1>2, <2>1, <4>3
        <3> QED BY <1>6, <2>3, <3>1, <3>2
    <2> QED BY <2>2, <2>3
<1>7. ASSUME NEW p \in Passes, PassStep(p) PROVE CancelledFor(r)'
    <2>0. exec' = exec
        BY <1>7 DEF PassStep, LookUp, Suppress, DrainWrite, PassOver, Detach, Lose, Insert,
                    DrainKill
    <2>1. ASSUME NEW q \in Runs, Lose(p, q) PROVE CancelledFor(r)'
        BY <1>1, <1>2, <1>3, <2>0, <2>1 DEF Lose, Set
    <2>2. ASSUME DrainWrite(p) PROVE CancelledFor(r)'
        <3>1. pass[p].cur \in Runs BY <1>0, <2>2, PassFields DEF DrainWrite
        <3> QED BY <1>1, <1>2, <1>3, <2>0, <2>2, <3>1 DEF DrainWrite, SetIfRunning
    \* A reaper sets to running what nobody executes; its process id says that it
    \* is not about to be executed either.
    <2>3. ASSUME NEW q \in Runs, Detach(p, q) PROVE CancelledFor(r)'
        <3>1. CASE q # r
            <4>1. run'[r] = run[r] BY <1>0, <2>3, <3>1 DEF Detach, TypeOK
            <4> QED BY <1>2, <2>0, <4>1
        <3>2. CASE q = r
            <4>1. /\ exec[r] \notin {"setup", "adapter"} /\ r \in DOMAIN pass[p].list
                  /\ pass[p].list[r].pid
                BY <2>3, <3>2 DEF Detach, InMemory, PidAlive, Considers
            <4>2. run[r].pid BY <1>0, <4>1 DEF PassesKnow, PassKnows
            <4>3. exec[r] # "claimed" BY <1>0, <4>2 DEF RowsOK, RowOK
            <4>4. run'[r] = [run[r] EXCEPT !.status = "running", !.mark = "detached"]
                BY <1>0, <2>3, <3>2 DEF Detach, TypeOK
            <4>5. run'[r].status = "running" BY <1>0, <4>4 DEF RunRows
            <4> QED BY <2>0, <4>1, <4>3, <4>5 DEF CancelledFor
        <3> QED BY <3>1, <3>2
    <2>4. ASSUME NEW q \in Runs, Insert(p, q) PROVE CancelledFor(r)'
        <3>1. q # r BY <1>0, <2>4 DEF Insert, NoRow, TypeOK
        <3>2. run'[r] = run[r] BY <1>0, <2>4, <3>1 DEF Insert, TypeOK
        <3> QED BY <1>2, <2>0, <3>2
    <2>5. CASE run' = run BY <1>2, <2>0, <2>5
    <2> QED BY <1>7, <2>1, <2>2, <2>3, <2>4, <2>5
            DEF PassStep, LookUp, Suppress, PassOver, DrainKill
<1>8. CASE UNCHANGED <<run, exec>> BY <1>2, <1>8
<1>9. CASE Crash \/ Stop \/ HotRestart \/ Adopt \/ Start
    <2>1. exec'[r] \in {"none", exec[r]}
        BY <1>9 DEF Crash, Stop, HotRestart, Adopt, Start, Lost, memory
    <2>2. CASE run' = run BY <1>2, <2>1, <2>2
    <2>3. CASE Adopt
        <3>1. run'[r] = run[r] \/ run'[r] = [run[r] EXCEPT !.mark = "adopted"]
            BY <2>3 DEF Adopt
        <3>2. run'[r].status = run[r].status /\ run'[r].past = run[r].past
            BY <1>0, <3>1 DEF RunRows
        <3> QED BY <1>2, <2>1, <3>2
    <2> QED BY <1>9, <2>2, <2>3 DEF Crash, Stop, HotRestart, Start
\* A fold ends a run that is running, and says so.
<1>10. ASSUME NEW q \in Runs, FoldStart(q) \/ FoldStep(q) PROVE CancelledFor(r)'
    <2>1. exec' = exec BY <1>10 DEF FoldStart, FoldStep, FoldKill, FoldWrite
    <2>2. CASE run' = run BY <1>2, <2>1, <2>2
    <2>3. ASSUME NEW s \in {"succeeded", "cancelled"},
                 run' = [run EXCEPT ![q].status = s,
                                    ![q].past = IF s = "cancelled" THEN s ELSE "folded"]
          PROVE  CancelledFor(r)'
        <3>1. s \in Statuses BY DEF Statuses, Ended
        <3>2. PICK b \in Pasts : /\ s = "cancelled" \/ b = "folded"
                                 /\ run' = [run EXCEPT ![q].status = s, ![q].past = b]
            BY <2>3 DEF Pasts
        <3>3. /\ run'[q].status = s /\ run'[q].past = b
              /\ q # r => run'[r] = run[r]
            <4>1. run[q] \in RunRows BY <1>0 DEF TypeOK
            <4>2. /\ run'[q] = [run[q] EXCEPT !.status = s, !.past = b]
                  /\ q # r => run'[r] = run[r]
                BY <1>0, <3>2 DEF TypeOK
            <4> QED BY <4>1, <4>2 DEF RunRows
        <3>4. q = r => s = "cancelled" BY <3>2, <3>3
        <3> QED BY <1>2, <1>3, <2>1, <3>3, <3>4
    <2> QED BY <1>10, <2>2, <2>3 DEF FoldStart, FoldStep, FoldKill, FoldWrite
<1> QED BY <1>4, <1>5, <1>6, <1>7, <1>8, <1>9, <1>10
        DEF Next, ExecutorStep, CancelStep, ListAtStart, Shutdown, ListPeriodic, vars

\* A run that was cancelled is a success later only if a fold made it one: who is
\* still executing it finds that it is not running, and a reaper that sets it to
\* running again does so when nobody executes it.
THEOREM CancellationsLast == Spec => []CancelledSucceedsByFoldOnly
<1>1. Init => CancelledInv BY DEF Init, CancelledInv, NoRow
<1>2. LifeInv /\ [Next]_vars /\ CancelledInv => CancelledInv'
    BY CancelledStep DEF CancelledInv
<1>3. CancelledInv => CancelledSucceedsByFoldOnly
    BY DEF CancelledInv, CancelledFor, CancelledSucceedsByFoldOnly, Is
<1> QED BY <1>1, <1>2, <1>3, LifeAlways, PTL DEF Spec
==============================================================================
