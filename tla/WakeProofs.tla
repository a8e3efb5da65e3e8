----------------------------- MODULE WakeProofs -----------------------------
(***************************************************************************)
(* Theorems about WakeQueue, for any wakes, agents and runs.                *)
(***************************************************************************)
EXTENDS WakeQueue, TLAPS

-----------------------------------------------------------------------------
(* The inductive invariants.                                                *)

\* A wake that was not asked for yet, or that is being merged, is nowhere.
NotPlaced(w) ==
    /\ \A a \in Agents : w \notin deferred[a]
    /\ \A r \in LiveRuns : w \notin run[r].ctx

PlacesOK ==
    /\ \A w \in Wakes : merge[w] # None => w \in asked
    /\ \A w \in Wakes : w \notin asked \/ merge[w] # None => NotPlaced(w)
    /\ \A a \in Agents : \A w \in deferred[a] : For[w] = a

PlaceInv == TypeOK /\ PlacesOK /\ WakeIsOnce

\* A run that is live, or whose release is due.
Moving(r) == r \in LiveRuns \/ exec[r] = "ended"

\* As long as no crash, gate, skip or failing release comes between: what the server executes is
\* running, one transaction holds the issue row, the holder it merges into does
\* not give way, and the run that the lock names is still to be released.
CalmOK ==
    /\ \A r \in Runs : exec[r] \in {"claimed", "setup", "going"} => Is(r, "running")
    /\ \A v, w \in Wakes : merge[v] # None /\ merge[w] # None => v = w
    /\ \A w \in Wakes : merge[w] # None => merge[w] \notin Rerouted /\ Moving(merge[w])
    /\ lock # None => Moving(lock)

\* No run is unfit where every workspace validates.
UnfitIsKnown == \A r \in Runs : Is(r, "unfit") => "unfit" \in trouble

CalmInv == TypeOK /\ UnfitIsKnown /\ (Calm => CalmOK /\ WaitersHaveARun)

-----------------------------------------------------------------------------
(* What a step writes in the rows of the runs.                              *)

LEMMA StatusWritten ==
    ASSUME TypeOK, NEW r \in Runs, NEW s \in {"running", "succeeded", "failed", "unfit"},
           run' = [run EXCEPT ![r].status = s]
    PROVE  /\ run' \in [Runs -> RunRows]
           /\ run'[r].status = s
           /\ \A x \in Runs : /\ x # r => run'[x] = run[x]
                              /\ run'[x].ctx = run[x].ctx /\ run'[x].agent = run[x].agent
<1> DEFINE new == [run[r] EXCEPT !.status = s]
<1>1. run[r] \in RunRows BY DEF TypeOK
<1>2. new \in RunRows /\ new.status = s /\ new.ctx = run[r].ctx /\ new.agent = run[r].agent
    BY <1>1 DEF RunRows
<1>3. run' = [run EXCEPT ![r] = new] OBVIOUS
<1> HIDE DEF new
<1>4. run' \in [Runs -> RunRows] /\ run'[r] = new /\ \A x \in Runs \ {r} : run'[x] = run[x]
    BY <1>2, <1>3 DEF TypeOK
<1> QED BY <1>2, <1>4

LEMMA ContextWritten ==
    ASSUME NEW base \in [Runs -> RunRows], NEW r \in Runs, NEW wakes \in SUBSET Wakes,
           run' = [base EXCEPT ![r].ctx = wakes]
    PROVE  /\ run' \in [Runs -> RunRows]
           /\ run'[r].ctx = wakes
           /\ \A x \in Runs : /\ x # r => run'[x] = base[x]
                              /\ run'[x].status = base[x].status
                              /\ run'[x].agent = base[x].agent
<1> DEFINE new == [base[r] EXCEPT !.ctx = wakes]
<1>1. base[r] \in RunRows OBVIOUS
<1>2. /\ new \in RunRows /\ new.ctx = wakes /\ new.status = base[r].status
      /\ new.agent = base[r].agent
    BY <1>1 DEF RunRows
<1>3. run' = [base EXCEPT ![r] = new] OBVIOUS
<1> HIDE DEF new
<1>4. run' \in [Runs -> RunRows] /\ run'[r] = new /\ \A x \in Runs \ {r} : run'[x] = base[x]
    BY <1>2, <1>3
<1> QED BY <1>2, <1>4

LEMMA RowQueued ==
    ASSUME NEW base \in [Runs -> RunRows], NEW q \in Runs, NEW a \in Agents,
           NEW wakes \in SUBSET Wakes, NEW recovery \in {"no", "lost", "productive"},
           run' = [base EXCEPT ![q] = QueuedRun(a, wakes, recovery)]
    PROVE  /\ run' \in [Runs -> RunRows]
           /\ run'[q].status = "queued" /\ run'[q].ctx = wakes /\ run'[q].agent = a
           /\ \A x \in Runs : x # q => run'[x] = base[x]
BY DEF QueuedRun, RunRows

LEMMA GivenWay ==
    ASSUME TypeOK
    PROVE  /\ GiveWay \in [Runs -> RunRows]
           /\ \A r \in Runs : /\ GiveWay[r].ctx = run[r].ctx
                              /\ GiveWay[r].agent = run[r].agent
                              /\ GiveWay[r].status = IF r \in Rerouted THEN "failed"
                                                     ELSE run[r].status
<1>1. ASSUME NEW r \in Runs
      PROVE  /\ GiveWay[r] \in RunRows
             /\ GiveWay[r].ctx = run[r].ctx /\ GiveWay[r].agent = run[r].agent
             /\ GiveWay[r].status = IF r \in Rerouted THEN "failed" ELSE run[r].status
    <2>1. run[r] \in RunRows BY DEF TypeOK
    <2>2. GiveWay[r] = IF r \in Rerouted THEN [run[r] EXCEPT !.status = "failed"] ELSE run[r]
        BY DEF GiveWay
    <2> QED BY <2>1, <2>2 DEF RunRows
<1>2. GiveWay \in [Runs -> RunRows] BY <1>1 DEF GiveWay
<1> QED BY <1>1, <1>2

-----------------------------------------------------------------------------
(* Types.                                                                   *)

LEMMA WakeTypes ==
    ASSUME TypeOK, NEW w \in Wakes, WakeStep(w) \/ Merge(w)
    PROVE  TypeOK'
<1>1. GiveWay \in [Runs -> RunRows] /\ For[w] \in Agents BY GivenWay, WakeAssumption
<1>2. ASSUME Merge(w) PROVE TypeOK'
    <2>1. merge[w] \in Runs BY <1>2 DEF Merge, TypeOK
    <2>2. run' = [GiveWay EXCEPT ![merge[w]].ctx = GiveWay[merge[w]].ctx \cup {w}]
        BY <1>2 DEF Merge
    <2>3. GiveWay[merge[w]].ctx \cup {w} \in SUBSET Wakes BY <1>1, <2>1 DEF RunRows
    <2>4. run' \in [Runs -> RunRows] BY <1>1, <2>1, <2>2, <2>3, ContextWritten
    <2> QED BY <1>2, <2>1, <2>4 DEF Merge, TypeOK
<1>3. ASSUME NEW q \in Runs, Queue(w, q) PROVE TypeOK'
    <2>1. run' \in [Runs -> RunRows] BY <1>1, <1>3, RowQueued DEF Queue
    <2>2. issue' \in Issues BY <1>3 DEF Queue, Latest, Issues, TypeOK
    <2> QED BY <1>3, <2>1, <2>2 DEF Queue, TypeOK
<1>4. ASSUME NEW h \in Runs, Coalesce(w, h) \/ Defer(w, h) PROVE TypeOK'
    BY <1>1, <1>4 DEF Coalesce, Defer, TypeOK
<1>5. ASSUME Skip(w) PROVE TypeOK' BY <1>1, <1>5 DEF Skip, TypeOK
<1> QED BY <1>2, <1>3, <1>4, <1>5 DEF WakeStep

LEMMA RunTypes ==
    ASSUME TypeOK, NEW r \in Runs,
           \/ Claim(r) \/ Begin(r) \/ WriteBack(r) \/ Reap(r) \/ Cancel(r) \/ Gate(r) \/ Block(r)
           \/ \E s \in Statuses, closes \in BOOLEAN : End(r, s, closes)
    PROVE  TypeOK'
<1>1. CASE Begin(r)
    <2>1. run[r].ctx \subseteq Wakes BY DEF TypeOK, RunRows
    <2> QED BY <1>1, <2>1 DEF Begin, TypeOK
<1>2. CASE WriteBack(r)
    <2>1. run[r].ctx \cap read \in SUBSET Wakes BY DEF TypeOK
    <2>2. run' = [run EXCEPT ![r].ctx = run[r].ctx \cap read] /\ run \in [Runs -> RunRows]
        BY <1>2 DEF WriteBack, TypeOK
    <2>3. run' \in [Runs -> RunRows] BY <2>1, <2>2, ContextWritten
    <2> QED BY <1>2, <2>3 DEF WriteBack, TypeOK
<1>3. CASE \/ Claim(r) \/ Reap(r) \/ Cancel(r) \/ Gate(r)
           \/ \E s \in Statuses, closes \in BOOLEAN : End(r, s, closes)
    <2>1. \E s \in {"running", "succeeded", "failed", "unfit"} : run' = [run EXCEPT ![r].status = s]
        BY <1>3 DEF Claim, Reap, Cancel, Gate, End, Ends, Statuses
    <2>2. run' \in [Runs -> RunRows] BY <2>1, StatusWritten
    <2>3. exec' \in [Runs -> {"none", "claimed", "setup", "going", "ended", "blocking"}]
        BY <1>3 DEF Claim, Reap, Cancel, Gate, End, Ends, TypeOK
    <2>4. issue' \in Issues
        BY <1>3 DEF Claim, Reap, Cancel, Gate, End, Ends, Issues, TypeOK
    <2> QED BY <1>3, <2>2, <2>3, <2>4 DEF Claim, Reap, Cancel, Gate, End, Ends, TypeOK
<1>4. CASE Block(r) BY <1>4 DEF Block, Released, Issues, TypeOK
<1> QED BY <1>1, <1>2, <1>3, <1>4

LEMMA ReleaseTypes ==
    ASSUME TypeOK, NEW r \in Runs, ReleaseStep(r)
    PROVE  TypeOK'
<1>0. /\ exec' = [exec EXCEPT ![r] = "none"] \/ exec' = [exec EXCEPT ![r] = "blocking"]
      /\ UNCHANGED <<merge, asked, read, trouble>>
      /\ deferred' = deferred \/ \E refused \in SUBSET Agents : deferred' = Without(refused)
    BY DEF ReleaseStep, ReleaseNothing, ReleaseUnfit, ReleaseThrows, ReleaseOnly,
           ReleaseAndBlock, ReleaseAndRecover, Promote, ReleasesLast, Released, Blocks
<1>1. deferred' \in [Agents -> SUBSET Wakes] BY <1>0 DEF Without, TypeOK
<1>2. run' \in [Runs -> RunRows]
    <2>1. CASE run' = run BY <2>1 DEF TypeOK
    <2>2. ASSUME NEW q \in Runs, NEW a \in Agents, NEW wakes \in SUBSET Wakes,
                 NEW recovery \in {"no", "lost", "productive"},
                 run' = [run EXCEPT ![q] = QueuedRun(a, wakes, recovery)]
          PROVE  run' \in [Runs -> RunRows]
        BY <2>2, RowQueued DEF TypeOK
    <2>3. \/ run' = run
          \/ \E q \in Runs : run' = [run EXCEPT ![q] = QueuedRun(Assignee, {}, "lost")]
          \/ \E q \in Runs, a \in Agents :
                run' = [run EXCEPT ![q] = QueuedRun(a, deferred[a], "no")]
        BY DEF ReleaseStep, ReleaseNothing, ReleaseUnfit, ReleaseThrows, ReleaseOnly,
               ReleaseAndBlock, ReleaseAndRecover, Promote
    <2>4. \A a \in Agents : deferred[a] \in SUBSET Wakes BY DEF TypeOK
    <2> QED BY <2>1, <2>2, <2>3, <2>4, WakeAssumption
<1>3. lock' \in Runs \cup {None} /\ issue' \in Issues
    BY DEF ReleaseStep, ReleaseNothing, ReleaseUnfit, ReleaseThrows, ReleaseOnly,
           ReleaseAndBlock, ReleaseAndRecover, Promote, Blocks, Latest, Issues, TypeOK
<1> QED BY <1>0, <1>1, <1>2, <1>3 DEF TypeOK

LEMMA RecoveryTypes ==
    ASSUME TypeOK, RecoveryStep \/ Crash
    PROVE  TypeOK'
<1>1. CASE Sweep \/ SkipRecovery \/ Escalate \/ Crash
    BY <1>1 DEF Sweep, SkipRecovery, Escalate, Crash, Issues, TypeOK
<1>2. ASSUME NEW q \in Runs, Reconcile(q) PROVE TypeOK'
    <2>1. PICK rec \in {"lost", "productive"} :
                run' = [run EXCEPT ![q] = QueuedRun(Assignee, {}, rec)]
        BY <1>2 DEF Reconcile
    <2>3. run' \in [Runs -> RunRows]
        <3>1. {} \in SUBSET Wakes /\ rec \in {"no", "lost", "productive"} OBVIOUS
        <3> QED BY <2>1, <3>1, RowQueued, WakeAssumption DEF TypeOK
    <2>2. issue' \in Issues BY <1>2 DEF Reconcile, Latest, Issues, TypeOK
    <2> QED BY <1>2, <2>2, <2>3 DEF Reconcile, TypeOK
<1> QED BY <1>1, <1>2 DEF RecoveryStep

LEMMA TypeStep == TypeOK /\ [Next]_vars => TypeOK'
<1> SUFFICES ASSUME TypeOK, [Next]_vars PROVE TypeOK' OBVIOUS
<1>1. CASE UNCHANGED vars BY <1>1 DEF vars, TypeOK
<1> QED BY <1>1, WakeTypes, RunTypes, ReleaseTypes, RecoveryTypes DEF Next, RunStep

LEMMA TypeInit == Init => TypeOK
<1>1. NoRow \in RunRows BY WakeAssumption DEF NoRow, RunRows
<1> QED BY <1>1 DEF Init, Issues, TypeOK

\* The rows of the runs, the requests and the wakes have their types.
THEOREM TypeCorrect == Spec => []TypeOK
BY TypeInit, TypeStep, PTL DEF Spec

-----------------------------------------------------------------------------
(* A wake is in one place.                                                  *)

\* Steps that put no wake anywhere: rows and requests only lose wakes.
LEMMA NothingPlaced ==
    ASSUME PlaceInv, TypeOK', asked \subseteq asked',
           \A w \in Wakes : merge'[w] # None => merge'[w] = merge[w],
           \A a \in Agents : deferred'[a] \subseteq deferred[a],
           \A r \in LiveRuns' :
               run'[r].ctx = {} \/ (r \in LiveRuns /\ run'[r].ctx \subseteq run[r].ctx)
    PROVE  PlaceInv'
<1>0. TypeOK /\ PlacesOK /\ WakeIsOnce BY DEF PlaceInv
<1>1. \A w \in Wakes : NotPlaced(w) => NotPlaced(w)' BY DEF NotPlaced
<1>2. ASSUME NEW w \in Wakes, w \notin asked' \/ merge'[w] # None PROVE NotPlaced(w)'
    <2>1. w \notin asked \/ merge[w] # None BY <1>2
    <2> QED BY <1>0, <1>1, <2>1 DEF PlacesOK
<1>3. PlacesOK' BY <1>0, <1>2 DEF PlacesOK
<1>4. WakeIsOnce'
    <2>1. ASSUME NEW w \in Wakes, NEW r \in LiveRuns', NEW q \in LiveRuns',
                 w \in run'[r].ctx \cap run'[q].ctx
          PROVE  r = q
        BY <1>0, <2>1 DEF WakeIsOnce
    <2>2. ASSUME NEW w \in Wakes, NEW a \in Agents, NEW r \in LiveRuns',
                 w \in run'[r].ctx \cap deferred'[a]
          PROVE  FALSE
        BY <1>0, <2>2 DEF WakeIsOnce
    <2> QED BY <2>1, <2>2 DEF WakeIsOnce
<1> QED BY <1>3, <1>4 DEF PlaceInv

\* The runs that a step leaves live were live, with no more wakes.
LEMMA LiveAfter ==
    ASSUME TypeOK,
           \/ run' = run
           \/ run' = GiveWay
           \/ \E r \in Runs, s \in {"succeeded", "failed", "unfit"} : run' = [run EXCEPT ![r].status = s]
           \/ \E r \in LiveRuns : run' = [run EXCEPT ![r].status = "running"]
           \/ \E r \in Runs : \E wakes : run' = [run EXCEPT ![r].ctx = run[r].ctx \cap wakes]
    PROVE  \A r \in LiveRuns' : r \in LiveRuns /\ run'[r].ctx \subseteq run[r].ctx
<1>1. CASE run' = run BY <1>1 DEF LiveRuns
<1>2. CASE run' = GiveWay BY <1>2, GivenWay DEF LiveRuns
<1>3. ASSUME NEW r \in Runs, NEW s \in {"succeeded", "failed", "unfit"},
             run' = [run EXCEPT ![r].status = s]
      PROVE  \A x \in LiveRuns' : x \in LiveRuns /\ run'[x].ctx \subseteq run[x].ctx
    BY <1>3, StatusWritten DEF LiveRuns
<1>4. ASSUME NEW r \in LiveRuns, run' = [run EXCEPT ![r].status = "running"]
      PROVE  \A x \in LiveRuns' : x \in LiveRuns /\ run'[x].ctx \subseteq run[x].ctx
    <2>1. r \in Runs BY DEF LiveRuns
    <2> QED BY <1>4, <2>1, StatusWritten DEF LiveRuns
<1>5. ASSUME NEW r \in Runs, NEW wakes, run' = [run EXCEPT ![r].ctx = run[r].ctx \cap wakes]
      PROVE  \A x \in LiveRuns' : x \in LiveRuns /\ run'[x].ctx \subseteq run[x].ctx
    <2>1. run \in [Runs -> RunRows] /\ run[r].ctx \cap wakes \in SUBSET Wakes
        BY DEF TypeOK, RunRows
    <2>2. /\ run'[r].ctx = run[r].ctx \cap wakes
          /\ \A x \in Runs : x # r => run'[x] = run[x]
          /\ \A x \in Runs : run'[x].status = run[x].status
        BY <1>5, <2>1, ContextWritten
    <2> QED BY <2>2 DEF LiveRuns
<1> QED BY <1>1, <1>2, <1>3, <1>4, <1>5

LEMMA PlaceOfWake ==
    ASSUME PlaceInv, TypeOK', NEW w \in Wakes, WakeStep(w) \/ Merge(w)
    PROVE  PlaceInv'
<1>0. TypeOK /\ PlacesOK /\ WakeIsOnce /\ For[w] \in Agents
    BY WakeAssumption DEF PlaceInv
<1>1. CASE Skip(w)
    <2>1. run' = GiveWay /\ UNCHANGED <<deferred, merge>> /\ asked \subseteq asked'
        BY <1>1 DEF Skip
    <2>2. \A r \in LiveRuns' : r \in LiveRuns /\ run'[r].ctx \subseteq run[r].ctx
        BY <1>0, <2>1, LiveAfter
    <2> QED BY <2>1, <2>2, NothingPlaced
<1>2. ASSUME NEW h \in Runs, Coalesce(w, h) PROVE PlaceInv'
    <2>1. /\ w \notin asked /\ asked' = asked \cup {w}
          /\ merge' = [merge EXCEPT ![w] = h] /\ UNCHANGED <<run, deferred>>
        BY <1>2 DEF Coalesce
    <2>2. \A x \in Wakes : NotPlaced(x)' <=> NotPlaced(x)
        BY <2>1 DEF NotPlaced, LiveRuns
    <2>3. PlacesOK' BY <1>0, <2>1, <2>2 DEF PlacesOK, TypeOK
    <2>4. WakeIsOnce' BY <1>0, <2>1 DEF WakeIsOnce, LiveRuns
    <2> QED BY <2>3, <2>4 DEF PlaceInv
\* The wake was nowhere, and is now in the row of the holder.
<1>3. CASE Merge(w)
    <2>1. PICK h \in Runs : h = merge[w] BY <1>0, <1>3 DEF Merge, TypeOK
    <2>2. /\ run' = [GiveWay EXCEPT ![h].ctx = GiveWay[h].ctx \cup {w}]
          /\ merge' = [merge EXCEPT ![w] = None] /\ UNCHANGED <<deferred, asked>>
          /\ merge[w] # None
        BY <1>3, <2>1 DEF Merge
    <2>3. NotPlaced(w) /\ w \in asked BY <1>0, <2>2 DEF PlacesOK
    <2>4. /\ run'[h].ctx = run[h].ctx \cup {w}
          /\ \A x \in Runs : x # h => run'[x].ctx = run[x].ctx
          /\ \A x \in Runs : run'[x].status = GiveWay[x].status
        <3>1. GiveWay \in [Runs -> RunRows] BY <1>0, GivenWay
        <3>2. GiveWay[h].ctx \cup {w} \in SUBSET Wakes BY <3>1 DEF RunRows
        <3> QED BY <1>0, <2>2, <3>1, <3>2, ContextWritten, GivenWay
    <2>5. LiveRuns' \subseteq LiveRuns BY <1>0, <2>4, GivenWay DEF LiveRuns
    <2>6. \A r \in LiveRuns' : r \in Runs BY DEF LiveRuns
    <2>7. \A x \in Wakes : x # w /\ NotPlaced(x) => NotPlaced(x)'
        BY <2>2, <2>4, <2>5, <2>6 DEF NotPlaced
    <2>8. PlacesOK' BY <1>0, <2>2, <2>3, <2>7 DEF PlacesOK, TypeOK
    <2>9. WakeIsOnce'
        BY <1>0, <2>2, <2>3, <2>4, <2>5, <2>6 DEF WakeIsOnce, NotPlaced
    <2> QED BY <2>8, <2>9 DEF PlaceInv
\* It waits for its own agent.
<1>4. ASSUME NEW h \in Runs, Defer(w, h) PROVE PlaceInv'
    <2>1. /\ w \notin asked /\ asked' = asked \cup {w} /\ run' = GiveWay
          /\ deferred' = [deferred EXCEPT ![For[w]] = @ \cup {w}] /\ merge' = merge
        BY <1>4 DEF Defer
    <2>2. NotPlaced(w) /\ merge[w] = None BY <1>0, <2>1 DEF PlacesOK
    <2>3. \A r \in LiveRuns' : r \in LiveRuns /\ run'[r].ctx \subseteq run[r].ctx
        BY <1>0, <2>1, LiveAfter
    <2>4. \A a \in Agents : deferred'[a] = IF a = For[w] THEN deferred[a] \cup {w}
                                           ELSE deferred[a]
        BY <1>0, <2>1 DEF TypeOK
    <2>5. \A x \in Wakes : x # w /\ NotPlaced(x) => NotPlaced(x)'
        <3> SUFFICES ASSUME NEW x \in Wakes, x # w, NotPlaced(x) PROVE NotPlaced(x)'
            OBVIOUS
        <3>1. \A a \in Agents : x \notin deferred'[a] BY <2>4 DEF NotPlaced
        <3>2. \A r \in LiveRuns' : x \notin run'[r].ctx BY <2>3 DEF NotPlaced
        <3> QED BY <3>1, <3>2 DEF NotPlaced
    <2>6. PlacesOK' BY <1>0, <2>1, <2>2, <2>4, <2>5 DEF PlacesOK
    <2>7. WakeIsOnce'
        <3>1. ASSUME NEW x \in Wakes, NEW r \in LiveRuns', NEW q \in LiveRuns',
                     x \in run'[r].ctx \cap run'[q].ctx
              PROVE  r = q
            BY <1>0, <2>3, <3>1 DEF WakeIsOnce
        <3>2. ASSUME NEW x \in Wakes, NEW a \in Agents, NEW r \in LiveRuns',
                     x \in run'[r].ctx \cap deferred'[a]
              PROVE  FALSE
            <4>1. r \in LiveRuns /\ x \in run[r].ctx BY <2>3, <3>2
            <4>2. x # w BY <2>2, <4>1 DEF NotPlaced
            <4>3. x \in deferred[a] BY <2>4, <3>2, <4>2
            <4> QED BY <1>0, <4>1, <4>3 DEF WakeIsOnce
        <3> QED BY <3>1, <3>2 DEF WakeIsOnce
    <2> QED BY <2>6, <2>7 DEF PlaceInv
\* It is all that a new run is about.
<1>5. ASSUME NEW q \in Runs, Queue(w, q) PROVE PlaceInv'
    <2>1. /\ w \notin asked /\ asked' = asked \cup {w} /\ q \notin LiveRuns
          /\ run' = [GiveWay EXCEPT ![q] = QueuedRun(For[w], {w}, "no")]
          /\ UNCHANGED <<deferred, merge>>
        BY <1>5 DEF Queue, Fresh
    <2>2. NotPlaced(w) /\ merge[w] = None BY <1>0, <2>1 DEF PlacesOK
    <2>3. run'[q].ctx = {w} /\ \A x \in Runs : x # q => run'[x] = GiveWay[x]
        <3>1. GiveWay \in [Runs -> RunRows] /\ {w} \in SUBSET Wakes BY <1>0, GivenWay
        <3> QED BY <1>0, <2>1, <3>1, RowQueued
    <2>4. \A r \in LiveRuns' : r # q => r \in LiveRuns /\ run'[r].ctx = run[r].ctx
        BY <1>0, <2>3, GivenWay DEF LiveRuns
    <2>5. \A x \in Wakes : x # w /\ NotPlaced(x) => NotPlaced(x)'
        BY <2>1, <2>3, <2>4 DEF NotPlaced
    <2>6. PlacesOK' BY <1>0, <2>1, <2>2, <2>5 DEF PlacesOK
    <2>7. WakeIsOnce'
        <3>1. ASSUME NEW x \in Wakes, NEW r \in LiveRuns', NEW y \in LiveRuns',
                     x \in run'[r].ctx \cap run'[y].ctx
              PROVE  r = y
            BY <1>0, <2>2, <2>3, <2>4, <3>1 DEF WakeIsOnce, NotPlaced
        <3>2. ASSUME NEW x \in Wakes, NEW a \in Agents, NEW r \in LiveRuns',
                     x \in run'[r].ctx \cap deferred'[a]
              PROVE  FALSE
            <4>1. x \in deferred[a] BY <2>1, <3>2
            <4>2. CASE r = q BY <2>2, <2>3, <3>2, <4>1, <4>2 DEF NotPlaced
            <4>3. CASE r # q BY <1>0, <2>4, <3>2, <4>1, <4>3 DEF WakeIsOnce
            <4> QED BY <4>2, <4>3
        <3> QED BY <3>1, <3>2 DEF WakeIsOnce
    <2> QED BY <2>6, <2>7 DEF PlaceInv
<1> QED BY <1>1, <1>2, <1>3, <1>4, <1>5 DEF WakeStep

\* What waited for an agent is what its new run is about, and waits no more.
LEMMA PlaceOfPromoted ==
    ASSUME PlaceInv, TypeOK', NEW r \in Runs, NEW refused \in SUBSET Agents,
           NEW a \in Agents, NEW q \in Runs, Promote(r, refused, a, q)
    PROVE  PlaceInv'
<1>0. TypeOK /\ PlacesOK /\ WakeIsOnce BY DEF PlaceInv
<1>1. /\ run' = [run EXCEPT ![q] = QueuedRun(a, deferred[a], "no")] /\ q \notin LiveRuns
      /\ deferred' = Without(refused \cup {a}) /\ UNCHANGED <<merge, asked>>
    BY DEF Promote, Fresh
<1>2. \A b \in Agents : deferred'[b] \subseteq deferred[b] /\ (b = a => deferred'[b] = {})
    BY <1>1 DEF Without
<1>3. run'[q].ctx = deferred[a] /\ \A x \in Runs : x # q => run'[x] = run[x]
    <2>1. run \in [Runs -> RunRows] BY <1>0 DEF TypeOK
    <2>2. run'[q] = QueuedRun(a, deferred[a], "no") BY <1>1, <2>1
    <2> QED BY <1>1, <2>1, <2>2 DEF QueuedRun
<1>4. \A x \in LiveRuns' : x # q => x \in LiveRuns /\ run'[x].ctx = run[x].ctx
    BY <1>3 DEF LiveRuns
<1>5. \A w \in Wakes : NotPlaced(w) => NotPlaced(w)'
    BY <1>2, <1>3, <1>4 DEF NotPlaced
<1>6. PlacesOK' BY <1>0, <1>1, <1>2, <1>5 DEF PlacesOK
<1>7. ASSUME NEW w \in Wakes, NEW x \in LiveRuns', NEW y \in LiveRuns',
             w \in run'[x].ctx \cap run'[y].ctx
      PROVE  x = y
    BY <1>0, <1>3, <1>4, <1>7 DEF WakeIsOnce
<1>8. ASSUME NEW w \in Wakes, NEW b \in Agents, NEW x \in LiveRuns',
             w \in run'[x].ctx \cap deferred'[b]
      PROVE  FALSE
    <2>1. w \in deferred[b] /\ b # a BY <1>2, <1>8
    <2>2. x # q => w \in run[x].ctx /\ x \in LiveRuns BY <1>4, <1>8
    <2>3. x = q BY <1>0, <2>1, <2>2 DEF WakeIsOnce
    <2>4. w \in deferred[a] BY <1>3, <1>8, <2>3
    <2> QED BY <1>0, <2>1, <2>4 DEF PlacesOK
<1> QED BY <1>6, <1>7, <1>8 DEF PlaceInv, WakeIsOnce

LEMMA PlaceOfRest ==
    ASSUME PlaceInv, TypeOK',
           \/ \E r \in Runs :
                \/ Claim(r) \/ Begin(r) \/ WriteBack(r) \/ Reap(r) \/ Cancel(r) \/ Gate(r) \/ Block(r)
                \/ \E s \in Statuses, closes \in BOOLEAN : End(r, s, closes)
                \/ ReleaseNothing(r) \/ ReleaseUnfit(r)
                \/ \E refused \in SUBSET Agents :
                    \/ ReleaseThrows(r, refused) \/ ReleaseOnly(r, refused)
                    \/ ReleaseAndBlock(r, refused)
                    \/ \E q \in Runs : ReleaseAndRecover(r, refused, q)
           \/ RecoveryStep \/ Crash \/ UNCHANGED vars
    PROVE  PlaceInv'
<1>0. TypeOK BY DEF PlaceInv
<1>1. asked' = asked /\ \A w \in Wakes : merge'[w] # None => merge'[w] = merge[w]
    BY DEF Claim, Begin, WriteBack, Reap, Cancel, Gate, Block, End, ReleaseNothing,
           ReleaseUnfit, ReleaseThrows, ReleaseOnly, ReleaseAndBlock, ReleaseAndRecover,
           RecoveryStep, Sweep, SkipRecovery, Escalate, Reconcile, Crash, vars
<1>2. \A a \in Agents : deferred'[a] \subseteq deferred[a]
    BY DEF Claim, Begin, WriteBack, Reap, Cancel, Gate, Block, End, ReleaseNothing,
           ReleaseUnfit, ReleaseThrows, ReleaseOnly, ReleaseAndBlock, ReleaseAndRecover,
           ReleasesLast, Without, RecoveryStep, Sweep, SkipRecovery, Escalate, Reconcile,
           Crash, vars
<1>3. \/ run' = run
      \/ \E r \in Runs, s \in {"succeeded", "failed", "unfit"} : run' = [run EXCEPT ![r].status = s]
      \/ \E r \in LiveRuns : run' = [run EXCEPT ![r].status = "running"]
      \/ \E r \in Runs : \E wakes : run' = [run EXCEPT ![r].ctx = run[r].ctx \cap wakes]
      \/ \E q \in Runs : \E rec : run' = [run EXCEPT ![q] = QueuedRun(Assignee, {}, rec)]
    <2>1. ASSUME NEW r \in Runs, Claim(r)
          PROVE  r \in LiveRuns /\ run' = [run EXCEPT ![r].status = "running"]
        BY <2>1 DEF Claim, LiveRuns, Is
    <2>2. ASSUME NEW r \in Runs,
                 \/ Reap(r) \/ Cancel(r) \/ Gate(r)
                 \/ \E s \in Statuses, closes \in BOOLEAN : End(r, s, closes)
          PROVE  \E s \in {"succeeded", "failed", "unfit"} : run' = [run EXCEPT ![r].status = s]
        BY <2>2 DEF Reap, Cancel, Gate, End, Ends, Statuses
    <2>3. ASSUME NEW r \in Runs, WriteBack(r)
          PROVE  run' = [run EXCEPT ![r].ctx = run[r].ctx \cap read]
        BY <2>3 DEF WriteBack
    <2>4. ASSUME NEW r \in Runs,
                 \/ Begin(r) \/ ReleaseNothing(r) \/ ReleaseUnfit(r) \/ Block(r)
                 \/ \E refused \in SUBSET Agents :
                        \/ ReleaseThrows(r, refused) \/ ReleaseOnly(r, refused)
                        \/ ReleaseAndBlock(r, refused)
          PROVE  run' = run
        BY <2>4 DEF Begin, ReleaseNothing, ReleaseUnfit, Block, ReleaseThrows, ReleaseOnly,
                    ReleaseAndBlock
    <2>5. ASSUME NEW q \in Runs,
                 \/ Reconcile(q)
                 \/ \E r \in Runs, refused \in SUBSET Agents : ReleaseAndRecover(r, refused, q)
          PROVE  \E rec : run' = [run EXCEPT ![q] = QueuedRun(Assignee, {}, rec)]
        BY <2>5 DEF Reconcile, ReleaseAndRecover
    <2>6. ASSUME Sweep \/ SkipRecovery \/ Escalate \/ Crash \/ UNCHANGED vars
          PROVE  run' = run
        BY <2>6 DEF Sweep, SkipRecovery, Escalate, Crash, vars
    <2> QED BY <2>1, <2>2, <2>3, <2>4, <2>5, <2>6 DEF RecoveryStep
<1>4. ASSUME NEW q \in Runs, NEW rec, run' = [run EXCEPT ![q] = QueuedRun(Assignee, {}, rec)]
      PROVE  PlaceInv'
    <2>1. run'[q].ctx = {} /\ \A x \in Runs : x # q => run'[x] = run[x]
        <3>1. run \in [Runs -> RunRows] BY <1>0 DEF TypeOK
        <3>2. run'[q] = QueuedRun(Assignee, {}, rec) BY <1>4, <3>1
        <3> QED BY <1>4, <3>1, <3>2 DEF QueuedRun
    <2>2. \A x \in LiveRuns' : run'[x].ctx = {}
                               \/ (x \in LiveRuns /\ run'[x].ctx \subseteq run[x].ctx)
        BY <2>1 DEF LiveRuns
    <2> QED BY <1>1, <1>2, <2>2, NothingPlaced
<1> QED BY <1>0, <1>1, <1>2, <1>3, <1>4, LiveAfter, NothingPlaced

LEMMA PlaceStep == PlaceInv /\ [Next]_vars => PlaceInv'
<1> SUFFICES ASSUME PlaceInv, [Next]_vars PROVE PlaceInv' OBVIOUS
<1>1. TypeOK' BY TypeStep DEF PlaceInv
<1>2. ASSUME NEW w \in Wakes, WakeStep(w) \/ Merge(w) PROVE PlaceInv'
    BY <1>1, <1>2, PlaceOfWake
<1>3. ASSUME NEW r \in Runs, NEW refused \in SUBSET Agents, NEW a \in Agents, NEW q \in Runs,
             Promote(r, refused, a, q)
      PROVE  PlaceInv'
    BY <1>1, <1>3, PlaceOfPromoted
<1>4. CASE \/ \E r \in Runs :
                \/ Claim(r) \/ Begin(r) \/ WriteBack(r) \/ Reap(r) \/ Cancel(r) \/ Gate(r) \/ Block(r)
                \/ \E s \in Statuses, closes \in BOOLEAN : End(r, s, closes)
                \/ ReleaseNothing(r) \/ ReleaseUnfit(r)
                \/ \E refused \in SUBSET Agents :
                    \/ ReleaseThrows(r, refused) \/ ReleaseOnly(r, refused)
                    \/ ReleaseAndBlock(r, refused)
                    \/ \E q \in Runs : ReleaseAndRecover(r, refused, q)
           \/ RecoveryStep \/ Crash \/ UNCHANGED vars
    BY <1>1, <1>4, PlaceOfRest
<1> QED BY <1>2, <1>3, <1>4 DEF Next, RunStep, ReleaseStep

\* Whatever merges, promotions, claims, cancellations, crashes and recoveries
\* interleave, a wake is in at most one live run, and not also deferred.
THEOREM WakesAreOnce == Spec => []WakeIsOnce
<1>1. Init => PlaceInv
    BY TypeInit, WakeAssumption
       DEF Init, PlaceInv, PlacesOK, NotPlaced, WakeIsOnce, LiveRuns, NoRow
<1>2. PlaceInv => WakeIsOnce BY DEF PlaceInv
<1> QED BY <1>1, <1>2, PlaceStep, PTL DEF Spec

-----------------------------------------------------------------------------
(* What waits, waits for something.                                         *)

LEMMA TroubleIsFixed ==
    ASSUME [Next]_vars
    PROVE  trouble' = trouble
<1>1. ASSUME NEW w \in Wakes, WakeStep(w) \/ Merge(w) PROVE trouble' = trouble
    BY <1>1 DEF WakeStep, Skip, Coalesce, Defer, Queue, Merge
<1>2. ASSUME NEW r \in Runs, ReleaseStep(r) PROVE trouble' = trouble
    BY <1>2 DEF ReleaseStep, ReleaseNothing, ReleaseUnfit, ReleaseThrows, ReleaseOnly,
                ReleaseAndBlock, ReleaseAndRecover, Promote
<1>3. ASSUME NEW r \in Runs, RunStep(r) \/ Cancel(r) \/ Gate(r) PROVE trouble' = trouble
    BY <1>2, <1>3 DEF RunStep, Claim, Begin, WriteBack, Reap, Block, End, Cancel, Gate
<1>4. CASE RecoveryStep \/ Crash \/ UNCHANGED vars
    BY <1>4 DEF RecoveryStep, Sweep, SkipRecovery, Escalate, Reconcile, Crash, vars
<1> QED BY <1>1, <1>3, <1>4 DEF Next

\* A row that is written is unfit only where that may happen.
LEMMA UnfitStep == TypeOK /\ UnfitIsKnown /\ [Next]_vars => UnfitIsKnown'
<1> SUFFICES ASSUME TypeOK, UnfitIsKnown, [Next]_vars PROVE UnfitIsKnown' OBVIOUS
<1> DEFINE Kept == \A x \in Runs : run'[x].status = "unfit" =>
                        run[x].status = "unfit" \/ "unfit" \in trouble
<1>0. trouble' = trouble BY TroubleIsFixed
<1>1. GiveWay \in [Runs -> RunRows] /\ run \in [Runs -> RunRows]
      /\ \A x \in Runs : GiveWay[x].status \in {"failed", run[x].status}
    BY GivenWay DEF TypeOK
<1>2. ASSUME run' = run \/ run' = GiveWay PROVE Kept BY <1>1, <1>2
<1>3. ASSUME NEW r \in Runs, NEW s \in {"running", "succeeded", "failed", "unfit"},
             run' = [run EXCEPT ![r].status = s], s = "unfit" => "unfit" \in trouble
      PROVE  Kept
    BY <1>3, StatusWritten
<1>4. ASSUME NEW base \in {run, GiveWay}, NEW q \in Runs, NEW a, NEW wakes, NEW rec,
             run' = [base EXCEPT ![q] = QueuedRun(a, wakes, rec)]
      PROVE  Kept
    <2>1. run'[q].status = "queued" /\ \A x \in Runs : x # q => run'[x] = base[x]
        BY <1>1, <1>4 DEF QueuedRun
    <2> QED BY <1>1, <2>1
<1>5. ASSUME NEW base \in {run, GiveWay}, NEW r \in Runs, NEW wakes \in SUBSET Wakes,
             run' = [base EXCEPT ![r].ctx = wakes]
      PROVE  Kept
    <2>1. base \in [Runs -> RunRows] BY <1>1
    <2>2. \A x \in Runs : run'[x].status = base[x].status BY <1>5, <2>1, ContextWritten
    <2> QED BY <1>1, <2>2
<1>6. ASSUME NEW w \in Wakes, WakeStep(w) PROVE Kept
    BY <1>2, <1>4, <1>6 DEF WakeStep, Skip, Coalesce, Defer, Queue
<1>7. ASSUME NEW w \in Wakes, Merge(w) PROVE Kept
    <2>1. PICK h \in Runs : h = merge[w] BY <1>7 DEF Merge, TypeOK
    <2>2. GiveWay[h].ctx \cup {w} \in SUBSET Wakes BY <1>1 DEF RunRows
    <2>3. run' = [GiveWay EXCEPT ![h].ctx = GiveWay[h].ctx \cup {w}] BY <1>7, <2>1 DEF Merge
    <2> QED BY <1>5, <2>2, <2>3
<1>8. ASSUME NEW r \in Runs, WriteBack(r) PROVE Kept
    <2>1. run[r].ctx \cap read \in SUBSET Wakes BY DEF TypeOK
    <2>2. run' = [run EXCEPT ![r].ctx = run[r].ctx \cap read] BY <1>8 DEF WriteBack
    <2> QED BY <1>5, <2>1, <2>2
<1>9. ASSUME NEW r \in Runs,
             \/ Claim(r) \/ Reap(r) \/ Cancel(r) \/ Gate(r)
             \/ \E s \in Statuses, closes \in BOOLEAN : End(r, s, closes)
      PROVE  Kept
    <2>1. \E s \in {"running", "succeeded", "failed", "unfit"} :
            /\ run' = [run EXCEPT ![r].status = s]
            /\ s = "unfit" => "unfit" \in trouble
        BY <1>9 DEF Claim, Reap, Cancel, Gate, End, Ends, Statuses
    <2> QED BY <1>3, <2>1
<1>10. ASSUME NEW r \in Runs, ReleaseStep(r) PROVE Kept
    <2>1. \/ run' = run
          \/ \E q \in Runs : \E a, wakes, rec :
                run' = [run EXCEPT ![q] = QueuedRun(a, wakes, rec)]
        BY <1>10 DEF ReleaseStep, ReleaseNothing, ReleaseUnfit, ReleaseThrows, ReleaseOnly,
                     ReleaseAndBlock, ReleaseAndRecover, Promote
    <2> QED BY <1>2, <1>4, <2>1
<1>11. ASSUME RecoveryStep \/ Crash \/ UNCHANGED vars \/ \E r \in Runs : Begin(r) \/ Block(r)
       PROVE  Kept
    BY <1>2, <1>4, <1>11
       DEF RecoveryStep, Sweep, SkipRecovery, Escalate, Reconcile, Crash, Begin, Block, vars
<1>12. Kept BY <1>6, <1>7, <1>8, <1>9, <1>10, <1>11 DEF Next, RunStep
<1> QED BY <1>0, <1>12 DEF UnfitIsKnown, Is

\* A step by which what moves goes on moving, and that leaves the lock, the merge
\* and the requests alone.
LEMMA MovingGoesOn ==
    ASSUME TypeOK, Calm, CalmOK, WaitersHaveARun, TypeOK',
           UNCHANGED <<lock, merge, deferred, trouble>>,
           \A r \in Runs : Moving(r) => Moving(r)',
           LeftBehind => LeftBehind' \/ \E r \in Runs : Moving(r)',
           \A r \in Runs : run'[r].status = "queued" =>
                run[r].status = "queued" /\ run'[r].agent = run[r].agent,
           \A r \in Runs : exec'[r] \in {"claimed", "setup", "going"} =>
                run'[r].status = "running"
    PROVE  CalmOK' /\ WaitersHaveARun'
<1>1. \A r \in Runs : r \in Rerouted' => r \in Rerouted BY DEF Rerouted, Is
<1>2. ASSUME NEW w \in Wakes, merge'[w] # None
      PROVE  (merge[w] \notin Rerouted /\ Moving(merge[w]))'
    <2>1. PICK h \in Runs : h = merge[w] BY <1>2 DEF TypeOK
    <2>2. h \notin Rerouted /\ Moving(h) BY <1>2, <2>1 DEF CalmOK
    <2>3. h \notin Rerouted' /\ Moving(h)' BY <1>1, <2>2
    <2> QED BY <2>1, <2>3 DEF Moving
<1>3. lock' # None => Moving(lock)'
    <2> SUFFICES ASSUME lock # None PROVE Moving(lock)' OBVIOUS
    <2>1. PICK h \in Runs : h = lock BY DEF TypeOK
    <2>2. Moving(h)' BY <2>1 DEF CalmOK
    <2> QED BY <2>1, <2>2 DEF Moving
<1>4. CalmOK' BY <1>2, <1>3 DEF CalmOK, Is
<1>5. WaitersHaveARun'
    <2> SUFFICES ASSUME ~NothingWaits
                 PROVE  (LiveRuns # {} \/ LeftBehind \/ \E r \in Runs : exec[r] = "ended")'
        BY DEF WaitersHaveARun, NothingWaits
    <2>1. LeftBehind \/ \E r \in Runs : Moving(r) BY DEF WaitersHaveARun, Moving, LiveRuns
    <2>2. LeftBehind' \/ \E r \in Runs : Moving(r)' BY <2>1
    <2> QED BY <2>2 DEF Moving
<1> QED BY <1>4, <1>5

\* A step of a transaction that holds the issue row alone, after which the lock
\* names a run that moves and something moves if anything waits.
LEMMA RowHeldAlone ==
    ASSUME TypeOK, Calm, CalmOK, UNCHANGED trouble,
           \A w \in Wakes : merge'[w] = None,
           \A r \in Runs : exec'[r] \in {"claimed", "setup", "going"} =>
                run'[r].status = "running",
           lock' # None => Moving(lock)',
           NothingWaits' \/ LeftBehind' \/ \E r \in Runs : Moving(r)'
    PROVE  CalmOK' /\ WaitersHaveARun'
<1>1. CalmOK' BY DEF CalmOK, Is
<1>2. WaitersHaveARun' BY DEF WaitersHaveARun, Moving
<1> QED BY <1>1, <1>2

LEMMA CalmWakes ==
    ASSUME CalmInv, Calm, TypeOK', NEW w \in Wakes, WakeStep(w) \/ Merge(w)
    PROVE  CalmOK' /\ WaitersHaveARun'
<1>0. TypeOK /\ CalmOK /\ WaitersHaveARun /\ trouble' = trouble
      /\ GiveWay \in [Runs -> RunRows] /\ For[w] \in Agents /\ ~Skip(w)
    BY GivenWay, WakeAssumption
       DEF CalmInv, WakeStep, Skip, Coalesce, Defer, Queue, Merge, Calm
\* A holder that is live does not give way in this transaction.
<1>1. ASSUME NEW h \in Runs, Coalesce(w, h) PROVE CalmOK' /\ WaitersHaveARun'
    <2>1. /\ RowFree /\ h \in LiveRuns \ Rerouted /\ merge' = [merge EXCEPT ![w] = h]
          /\ UNCHANGED <<run, lock, deferred, exec>>
        BY <1>1 DEF Coalesce, Holders
    <2>2. \A x \in Wakes : merge'[x] # None => x = w /\ merge'[x] = h
        BY <1>0, <2>1 DEF RowFree, TypeOK
    <2>3. h \notin Rerouted' /\ Moving(h)' BY <2>1 DEF Rerouted, Is, Moving, LiveRuns
    <2>4. \A x \in Wakes : merge'[x] # None => (merge[x] \notin Rerouted /\ Moving(merge[x]))'
        BY <2>2, <2>3 DEF Moving
    <2>5. lock' # None => Moving(lock)' BY <1>0, <2>1 DEF CalmOK, Moving, LiveRuns
    <2>6. CalmOK' BY <1>0, <2>1, <2>2, <2>4, <2>5 DEF CalmOK, Is
    <2>7. WaitersHaveARun' BY <2>1 DEF Holders, WaitersHaveARun, LiveRuns
    <2> QED BY <2>6, <2>7
<1>2. CASE Merge(w)
    <2>1. PICK h \in Runs : h = merge[w] BY <1>0, <1>2 DEF Merge, TypeOK
    <2>2. /\ run' = [GiveWay EXCEPT ![h].ctx = GiveWay[h].ctx \cup {w}] /\ lock' = h
          /\ merge' = [merge EXCEPT ![w] = None] /\ UNCHANGED <<deferred, exec>>
          /\ merge[w] # None
        BY <1>2, <2>1 DEF Merge
    <2>3. \A x \in Runs : run'[x].status = GiveWay[x].status
        <3>1. GiveWay[h].ctx \cup {w} \in SUBSET Wakes BY <1>0 DEF RunRows
        <3> QED BY <1>0, <2>2, <3>1, ContextWritten
    <2>4. h \notin Rerouted /\ Moving(h) BY <1>0, <2>1, <2>2 DEF CalmOK
    <2>5. Moving(h)' BY <1>0, <2>2, <2>3, <2>4, GivenWay DEF Moving, LiveRuns
    <2>6. \A x \in Wakes : merge'[x] = None BY <1>0, <2>2 DEF CalmOK, TypeOK
    <2>7. \A x \in Runs : exec'[x] \in {"claimed", "setup", "going"} =>
                run'[x].status = "running"
        BY <1>0, <2>2, <2>3, GivenWay DEF CalmOK, Is, Rerouted
    <2>8. Moving(lock)' BY <2>2, <2>5 DEF Moving
    <2> QED BY <1>0, <2>5, <2>6, <2>7, <2>8, RowHeldAlone
<1>3. ASSUME NEW h \in Runs, Defer(w, h) PROVE CalmOK' /\ WaitersHaveARun'
    <2>1. /\ RowFree /\ h \in LiveRuns \ Rerouted /\ run' = GiveWay /\ lock' = h
          /\ UNCHANGED <<merge, exec>>
        BY <1>3 DEF Defer, Holders
    <2>2. Moving(h)' BY <1>0, <2>1, GivenWay DEF Moving, LiveRuns
    <2>3. \A x \in Runs : exec'[x] \in {"claimed", "setup", "going"} =>
                run'[x].status = "running"
        BY <1>0, <2>1, GivenWay DEF CalmOK, Is, Rerouted
    <2>4. Moving(lock)' BY <2>1, <2>2 DEF Moving
    <2> QED BY <1>0, <2>1, <2>2, <2>3, <2>4, RowHeldAlone DEF RowFree
<1>4. ASSUME NEW q \in Runs, Queue(w, q) PROVE CalmOK' /\ WaitersHaveARun'
    <2>1. /\ RowFree /\ q \notin LiveRuns /\ exec[q] = "none" /\ lock # q
          /\ run' = [GiveWay EXCEPT ![q] = QueuedRun(For[w], {w}, "no")]
          /\ lock' = IF lock \in LiveRuns \ Rerouted THEN lock ELSE None
          /\ UNCHANGED <<merge, exec>>
        BY <1>4 DEF Queue, Fresh
    <2>2. /\ run'[q].status = "queued" /\ \A x \in Runs : x # q => run'[x] = GiveWay[x]
        BY <1>0, <2>1 DEF QueuedRun
    <2>3. Moving(q)' BY <2>2 DEF Moving, LiveRuns
    <2>4. \A x \in Runs : exec'[x] \in {"claimed", "setup", "going"} =>
                run'[x].status = "running"
        BY <1>0, <2>1, <2>2, GivenWay DEF CalmOK, Is, Rerouted
    <2>5. lock' # None => Moving(lock)'
        BY <1>0, <2>1, <2>2, GivenWay DEF Moving, LiveRuns
    <2> QED BY <1>0, <2>1, <2>3, <2>4, <2>5, RowHeldAlone DEF RowFree
<1> QED BY <1>0, <1>1, <1>2, <1>3, <1>4 DEF WakeStep

LEMMA CalmRuns ==
    ASSUME CalmInv, Calm, TypeOK', NEW r \in Runs,
           \/ Claim(r) \/ Begin(r) \/ WriteBack(r) \/ Reap(r) \/ Cancel(r) \/ Gate(r) \/ Block(r)
           \/ \E s \in Statuses, closes \in BOOLEAN : End(r, s, closes)
    PROVE  CalmOK' /\ WaitersHaveARun'
<1>0. TypeOK /\ CalmOK /\ WaitersHaveARun /\ trouble' = trouble /\ ~Gate(r)
    BY DEF CalmInv, Gate, Block, Claim, Begin, WriteBack, Reap, Cancel, End, Calm
<1>1. CASE Claim(r)
    <2>1. /\ run' = [run EXCEPT ![r].status = "running"] /\ run[r].status = "queued"
          /\ exec' = [exec EXCEPT ![r] = "claimed"] /\ UNCHANGED <<lock, merge, deferred>>
        BY <1>1 DEF Claim, Is
    <2>2. /\ run'[r].status = "running" /\ exec'[r] = "claimed"
          /\ \A x \in Runs : x # r => run'[x] = run[x] /\ exec'[x] = exec[x]
          /\ \A x \in Runs : run'[x].agent = run[x].agent
        BY <1>0, <2>1, StatusWritten DEF TypeOK
    <2>3. Moving(r)' /\ \A x \in Runs : Moving(x) => Moving(x)'
        BY <2>2 DEF Moving, LiveRuns
    <2>4. \A x \in Runs : exec'[x] \in {"claimed", "setup", "going"} =>
                run'[x].status = "running"
        BY <1>0, <2>2 DEF CalmOK, Is
    <2>5. \A x \in Runs : run'[x].status = "queued" =>
                run[x].status = "queued" /\ run'[x].agent = run[x].agent
        BY <2>2
    <2> QED BY <1>0, <2>1, <2>3, <2>4, <2>5, MovingGoesOn
\* What the executor finds is running: nothing ended it.
<1>2. CASE Begin(r)
    <2>1. /\ run' = run /\ UNCHANGED <<merge, deferred>> /\ exec[r] = "claimed"
          /\ run[r].status = "running"
          /\ exec' = [exec EXCEPT ![r] = "setup"]
          /\ lock' = IF Stamps(r) THEN r ELSE lock
          /\ Stamps(r) => RowFree
        BY <1>0, <1>2 DEF Begin, CalmOK, Is
    <2>2. exec'[r] = "setup" /\ \A x \in Runs : x # r => exec'[x] = exec[x]
        BY <1>0, <2>1 DEF TypeOK
    <2>3. \A x \in Runs : exec'[x] \in {"claimed", "setup", "going"} =>
                run'[x].status = "running"
        BY <1>0, <2>1, <2>2 DEF CalmOK, Is
    <2>4. Moving(r)' /\ \A x \in Runs : Moving(x) => Moving(x)'
        BY <2>1, <2>2 DEF Moving, LiveRuns
    <2>5. CASE ~Stamps(r) BY <1>0, <2>1, <2>3, <2>4, <2>5, MovingGoesOn
    <2>6. CASE Stamps(r)
        <3>1. Moving(r)' BY <2>1 DEF Moving, LiveRuns
        <3>2. Moving(lock)' BY <2>1, <2>6, <3>1 DEF Moving
        <3> QED BY <1>0, <2>1, <2>3, <2>6, <3>1, <3>2, RowHeldAlone DEF RowFree
    <2> QED BY <2>5, <2>6
<1>3. CASE WriteBack(r)
    <2>1. /\ run' = [run EXCEPT ![r].ctx = run[r].ctx \cap read] /\ exec[r] = "setup"
          /\ exec' = [exec EXCEPT ![r] = "going"] /\ UNCHANGED <<lock, merge, deferred>>
        BY <1>3 DEF WriteBack
    <2>2. /\ \A x \in Runs : run'[x].status = run[x].status /\ run'[x].agent = run[x].agent
        <3>1. run[r].ctx \cap read \in SUBSET Wakes /\ run \in [Runs -> RunRows]
            BY <1>0 DEF TypeOK
        <3> QED BY <2>1, <3>1, ContextWritten
    <2>3. exec'[r] = "going" /\ \A x \in Runs : x # r => exec'[x] = exec[x]
        BY <1>0, <2>1 DEF TypeOK
    <2>4. \A x \in Runs : exec'[x] \in {"claimed", "setup", "going"} =>
                run'[x].status = "running"
        BY <1>0, <2>1, <2>2, <2>3 DEF CalmOK, Is
    <2>5. Moving(r)' /\ \A x \in Runs : Moving(x) => Moving(x)'
        BY <1>0, <2>1, <2>2, <2>3 DEF CalmOK, Is, Moving, LiveRuns
    <2> QED BY <1>0, <2>1, <2>2, <2>4, <2>5, MovingGoesOn
\* A run that ends here is to be released.
<1>4. CASE Reap(r) \/ Cancel(r) \/ \E s \in Statuses, closes \in BOOLEAN : End(r, s, closes)
    <2>1. PICK s \in {"succeeded", "failed", "unfit"} :
            /\ run' = [run EXCEPT ![r].status = s] /\ exec' = [exec EXCEPT ![r] = "ended"]
            /\ UNCHANGED <<lock, merge, deferred>>
        BY <1>4 DEF Reap, Cancel, End, Ends, Statuses
    <2>2. /\ run'[r].status = s /\ exec'[r] = "ended"
          /\ \A x \in Runs : x # r => run'[x] = run[x] /\ exec'[x] = exec[x]
        BY <1>0, <2>1, StatusWritten DEF TypeOK
    <2>3. Moving(r)' /\ \A x \in Runs : Moving(x) => Moving(x)'
        BY <2>2 DEF Moving, LiveRuns
    <2>4. \A x \in Runs : exec'[x] \in {"claimed", "setup", "going"} =>
                run'[x].status = "running"
        BY <1>0, <2>2 DEF CalmOK, Is
    <2>5. \A x \in Runs : run'[x].status = "queued" =>
                run[x].status = "queued" /\ run'[x].agent = run[x].agent
        BY <2>2
    <2> QED BY <1>0, <2>1, <2>3, <2>4, <2>5, MovingGoesOn
\* The issue is blocked: if a release left anything behind, that is where.
<1>5. CASE Block(r)
    <2>1. /\ RowFree /\ exec[r] = "blocking" /\ exec' = [exec EXCEPT ![r] = "none"]
          /\ issue' = [issue EXCEPT !.state = "blocked"]
          /\ UNCHANGED <<run, lock, merge, deferred>>
        BY <1>5 DEF Block, Released
    <2>2. exec'[r] = "none" /\ \A x \in Runs : x # r => exec'[x] = exec[x]
        BY <1>0, <2>1 DEF TypeOK
    <2>3. \A x \in Runs : Moving(x) => Moving(x)' BY <2>1, <2>2 DEF Moving, LiveRuns
    <2>4. LeftBehind => LeftBehind'
        <3>1. issue'.state = "blocked" BY <1>0, <2>1 DEF TypeOK, Issues
        <3> QED BY <1>0, <3>1 DEF LeftBehind
    <2>5. \A x \in Runs : exec'[x] \in {"claimed", "setup", "going"} =>
                run'[x].status = "running"
        BY <1>0, <2>1, <2>2 DEF CalmOK, Is
    <2> QED BY <1>0, <2>1, <2>3, <2>4, <2>5, MovingGoesOn
<1> QED BY <1>0, <1>1, <1>2, <1>3, <1>4, <1>5

\* A row that is queued anew was neither live nor executed.
LEMMA CalmQueued ==
    ASSUME TypeOK, Calm, CalmOK, TypeOK', NEW q \in Runs, NEW a \in Agents,
           NEW wakes \in SUBSET Wakes, NEW recovery \in {"no", "lost", "productive"},
           RowFree, q \in Fresh, UNCHANGED <<merge, trouble>>,
           run' = [run EXCEPT ![q] = QueuedRun(a, wakes, recovery)],
           lock' \in {q, None},
           \A x \in Runs : exec'[x] \in {"none", "blocking", exec[x]}
    PROVE  CalmOK' /\ WaitersHaveARun'
<1>1. /\ run'[q].status = "queued" /\ \A x \in Runs : x # q => run'[x] = run[x]
      /\ exec[q] = "none"
    BY DEF TypeOK, QueuedRun, Fresh
<1>2. Moving(q)' BY <1>1 DEF Moving, LiveRuns
<1>3. \A x \in Runs : exec'[x] \in {"claimed", "setup", "going"} =>
            run'[x].status = "running"
    BY <1>1 DEF CalmOK, Is
<1>4. lock' # None => Moving(lock)' BY <1>2 DEF Moving
<1> QED BY <1>2, <1>3, <1>4, RowHeldAlone DEF RowFree

LEMMA CalmReleases ==
    ASSUME CalmInv, Calm, TypeOK', NEW r \in Runs, ReleaseStep(r)
    PROVE  CalmOK' /\ WaitersHaveARun'
<1>0. /\ TypeOK /\ CalmOK /\ WaitersHaveARun /\ UNCHANGED <<merge, trouble>> /\ RowFree
      /\ exec[r] = "ended"
      /\ exec' = [exec EXCEPT ![r] = "none"] \/ exec' = [exec EXCEPT ![r] = "blocking"]
      /\ \A refused \in SUBSET Agents : ~ReleaseThrows(r, refused)
    BY DEF CalmInv, ReleaseStep, ReleaseNothing, ReleaseUnfit, ReleaseThrows, ReleaseOnly,
           ReleaseAndBlock, ReleaseAndRecover, Promote, ReleasesLast, Releases, Released,
           Blocks, Calm
<1>1. exec'[r] \in {"none", "blocking"} /\ \A x \in Runs : x # r => exec'[x] = exec[x]
    BY <1>0 DEF TypeOK
\* The issue is another run's, which moves.
<1>2. CASE ReleaseNothing(r)
    <2>1. UNCHANGED <<run, lock, deferred>> /\ lock # r /\ lock # None
        BY <1>2 DEF ReleaseNothing
    <2>2. PICK h \in Runs : h = lock BY <1>0, <2>1 DEF TypeOK
    <2>3. Moving(h)'
        <3>1. Moving(h) BY <1>0, <2>1, <2>2 DEF CalmOK
        <3> QED BY <1>1, <2>1, <2>2, <3>1 DEF Moving, LiveRuns
    <2>4. Moving(lock)' BY <2>1, <2>2, <2>3 DEF Moving
    <2>5. \A x \in Runs : exec'[x] \in {"claimed", "setup", "going"} =>
                run'[x].status = "running"
        BY <1>0, <1>1, <2>1 DEF CalmOK, Is
    <2> QED BY <1>0, <2>3, <2>4, <2>5, RowHeldAlone DEF RowFree
\* Nothing is left to wait.
<1>3. ASSUME NEW refused \in SUBSET Agents,
             ReleaseOnly(r, refused) \/ ReleaseAndBlock(r, refused)
      PROVE  CalmOK' /\ WaitersHaveARun'
    <2>1. run' = run /\ lock' = None BY <1>3 DEF ReleaseOnly, ReleaseAndBlock, Blocks
    <2>2. NothingWaits'
        BY <1>3 DEF ReleaseOnly, ReleaseAndBlock, ReleasesLast, Without, NothingWaits
    <2>3. \A x \in Runs : exec'[x] \in {"claimed", "setup", "going"} =>
                run'[x].status = "running"
        BY <1>0, <1>1, <2>1 DEF CalmOK, Is
    <2> QED BY <1>0, <2>1, <2>2, <2>3, RowHeldAlone DEF RowFree
<1>4. ASSUME NEW refused \in SUBSET Agents, NEW q \in Runs, ReleaseAndRecover(r, refused, q)
      PROVE  CalmOK' /\ WaitersHaveARun'
    <2>1. /\ run' = [run EXCEPT ![q] = QueuedRun(Assignee, {}, "lost")] /\ lock' = q
          /\ q \in Fresh
        BY <1>4 DEF ReleaseAndRecover
    <2>2. /\ {} \in SUBSET Wakes /\ Assignee \in Agents
          /\ "lost" \in {"no", "lost", "productive"}
        BY WakeAssumption
    <2>3. \A x \in Runs : exec'[x] \in {"none", "blocking", exec[x]} BY <1>1
    <2> QED BY <1>0, <2>1, <2>2, <2>3, CalmQueued
<1>5. ASSUME NEW refused \in SUBSET Agents, NEW a \in Agents, NEW q \in Runs,
             Promote(r, refused, a, q)
      PROVE  CalmOK' /\ WaitersHaveARun'
    <2>1. /\ run' = [run EXCEPT ![q] = QueuedRun(a, deferred[a], "no")]
          /\ lock' \in {q, None} /\ q \in Fresh
        BY <1>5 DEF Promote
    <2>2. deferred[a] \in SUBSET Wakes /\ "no" \in {"no", "lost", "productive"}
        BY <1>0 DEF TypeOK
    <2>3. \A x \in Runs : exec'[x] \in {"none", "blocking", exec[x]} BY <1>1
    <2> QED BY <1>0, <2>1, <2>2, <2>3, CalmQueued
\* What waits is left behind, and r is about to block the issue.
<1>6. CASE ReleaseUnfit(r)
    <2>1. /\ run' = run /\ lock' = None /\ exec' = [exec EXCEPT ![r] = "blocking"]
          /\ run[r].status = "unfit"
        BY <1>6 DEF ReleaseUnfit, Unfit, Is, Blocks
    <2>2. \A x \in Runs : exec'[x] \in {"claimed", "setup", "going"} =>
                run'[x].status = "running"
        BY <1>0, <1>1, <2>1 DEF CalmOK, Is
    <2>3. exec'[r] = "blocking" BY <1>0, <2>1 DEF TypeOK
    <2>4. LeftBehind' BY <1>0, <2>1, <2>3 DEF LeftBehind, CalmInv, UnfitIsKnown, Is
    <2> QED BY <1>0, <2>1, <2>2, <2>4, RowHeldAlone DEF RowFree
<1> QED BY <1>0, <1>2, <1>3, <1>4, <1>5, <1>6 DEF ReleaseStep

LEMMA CalmRecoveries ==
    ASSUME CalmInv, Calm, TypeOK', RecoveryStep \/ Crash \/ UNCHANGED vars
    PROVE  CalmOK' /\ WaitersHaveARun'
<1>0. /\ TypeOK /\ CalmOK /\ WaitersHaveARun /\ UNCHANGED <<merge, trouble, exec>>
      /\ ~Crash /\ ~SkipRecovery
    BY DEF CalmInv, RecoveryStep, Sweep, SkipRecovery, Escalate, Reconcile, Crash, vars, Calm
<1>1. ASSUME run' = run
      PROVE  \A x \in Runs : exec'[x] \in {"claimed", "setup", "going"} =>
                                run'[x].status = "running"
    BY <1>0, <1>1 DEF CalmOK, Is
<1>2. CASE Sweep \/ Escalate
    <2>1. /\ RowFree /\ run' = run /\ lock' = None /\ deferred' = deferred
          /\ issue' = issue \/ NothingWaits
        BY <1>2 DEF Sweep, Escalate, Stranded, ActivePath
    <2>2. NothingWaits' \/ LeftBehind' \/ \E r \in Runs : Moving(r)'
        BY <1>0, <2>1 DEF WaitersHaveARun, NothingWaits, LeftBehind, Moving, LiveRuns
    <2> QED BY <1>0, <1>1, <2>1, <2>2, RowHeldAlone DEF RowFree
<1>3. ASSUME NEW q \in Runs, Reconcile(q) PROVE CalmOK' /\ WaitersHaveARun'
    <2>1. PICK rec \in {"lost", "productive"} :
            /\ run' = [run EXCEPT ![q] = QueuedRun(Assignee, {}, rec)] /\ lock' = None
            /\ q \in Fresh /\ RowFree
        BY <1>3 DEF Reconcile, Stranded
    <2>2. /\ {} \in SUBSET Wakes /\ Assignee \in Agents
          /\ rec \in {"no", "lost", "productive"}
        BY WakeAssumption
    <2>3. \A x \in Runs : exec'[x] \in {"none", "blocking", exec[x]} BY <1>0
    <2> QED BY <1>0, <2>1, <2>2, <2>3, CalmQueued
<1>4. CASE UNCHANGED vars
    <2>1. \A r \in Runs : Moving(r) => Moving(r)' BY <1>4 DEF vars, Moving, LiveRuns
    <2>2. LeftBehind => LeftBehind' BY <1>4 DEF vars, LeftBehind
    <2> QED BY <1>0, <1>1, <1>4, <2>1, <2>2, MovingGoesOn DEF vars
<1> QED BY <1>0, <1>2, <1>3, <1>4 DEF RecoveryStep

LEMMA CalmStep == CalmInv /\ [Next]_vars => CalmInv'
<1> SUFFICES ASSUME CalmInv, [Next]_vars PROVE CalmInv' OBVIOUS
<1>1. TypeOK' BY TypeStep DEF CalmInv
<1>2. trouble' = trouble BY TroubleIsFixed
<1>3. ASSUME Calm PROVE CalmOK' /\ WaitersHaveARun'
    BY <1>1, <1>3, CalmWakes, CalmRuns, CalmReleases, CalmRecoveries DEF Next, RunStep
<1>4. UnfitIsKnown' BY UnfitStep DEF CalmInv
<1> QED BY <1>1, <1>2, <1>3, <1>4 DEF CalmInv, Calm

\* A wake that waits, waits for a run that is live or whose release is due, or was
\* left behind by a run that did not pass validation and so blocks the issue; as long
\* as no crash, gate, skip or failing release comes between.  What gives way is never
\* the run that a wake is being merged into, and the lock never names a run that was
\* released.
THEOREM WaitersAreServed == Spec => []WaitersHaveARun
<1>1. Init => CalmInv
    BY TypeInit DEF Init, CalmInv, UnfitIsKnown, Is, NoRow, CalmOK, WaitersHaveARun,
                    NothingWaits
<1>2. CalmInv => WaitersHaveARun BY DEF CalmInv, WaitersHaveARun
<1> QED BY <1>1, <1>2, CalmStep, PTL DEF Spec
=============================================================================
