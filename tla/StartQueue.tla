----------------------------- MODULE StartQueue -----------------------------
(***************************************************************************)
(* How the queued runs of one agent get started: the promise-chain lock of  *)
(* services/agent-start-lock.ts, and startNextQueuedRunForAgent and         *)
(* claimQueuedRun (services/heartbeat.ts), which run under it.  The lock is *)
(* per agent, so agents do not interact here.                               *)
(*                                                                         *)
(* A call of withAgentStartLock waits for the call before it, its prev, and *)
(* leaves itself in the Map for the call after it, as latest.  A wait gives *)
(* up 30 seconds after prev was registered.  The claim of a run that a gate *)
(* refuses goes through cancelRunInternal, which starts the agent's queue   *)
(* again, from inside the lock, and awaits it.  (It may also start the queue*)
(* of another agent, whose deferred wake it promotes: not modelled.)        *)
(***************************************************************************)
EXTENDS Integers, FiniteSets

CONSTANTS
    Calls,              \* calls of startNextQueuedRunForAgent that may be open
    Runs,               \* heartbeat runs of the agent
    None,               \* no call
    MaxConcurrentRuns,  \* policy.maxConcurrentRuns
    Rank,               \* dispatch order of each run, the lowest first
    Gated,              \* runs that a claim gate may cancel with a nested start
    Troubles            \* what may go wrong, in the behaviours considered: sets of
                        \* "slow": a call takes AGENT_START_LOCK_STALE_MS;
                        \* "gate": a gate starts the queue from inside;
                        \* "failure": a call throws, or the server dies

ASSUME StartAssumption ==
    /\ None \notin Calls
    /\ IsFiniteSet(Runs)
    /\ MaxConcurrentRuns \in Nat \ {0}
    /\ Rank \in [Runs -> Nat]
    /\ Gated \subseteq Runs
    /\ Troubles \subseteq SUBSET {"slow", "gate", "failure"}

VARIABLES
    run,     \* heartbeat_runs.status of each run
    call,    \* the open calls
    latest,  \* the agent's entry of startLocksByAgent, or None
    trouble  \* what may go wrong in this behaviour

vars == <<run, call, latest, trouble>>

RunStates == {"absent", "queued", "running", "terminal"}
CallSteps == {"idle", "waiting", "count", "list", "claim", "nested"}
CallRecords == [step : CallSteps, prev : Calls \cup {None}, inner : Calls \cup {None},
                slots : 0..MaxConcurrentRuns, todo : SUBSET Runs]
IdleCall == [step |-> "idle", prev |-> None, inner |-> None, slots |-> 0, todo |-> {}]

TypeOK ==
    /\ run \in [Runs -> RunStates]
    /\ call \in [Calls -> CallRecords]
    /\ latest \in Calls \cup {None}
    /\ trouble \in Troubles

Init ==
    /\ run = [r \in Runs |-> "absent"]
    /\ call = [c \in Calls |-> IdleCall]
    /\ latest = None
    /\ trouble \in Troubles

-----------------------------------------------------------------------------

Running == {r \in Runs : run[r] = "running"}
At(c, s) == call[c].step = s

\* The calls whose function body is under way.
Inside == {c \in Calls : call[c].step \in {"count", "list", "claim", "nested"}}

\* A wake, a retry or a recovery inserts a run.
Enqueue(r) ==
    /\ run[r] = "absent"
    /\ run' = [run EXCEPT ![r] = "queued"]
    /\ UNCHANGED <<call, latest, trouble>>

\* A run finishes, or is cancelled before or while it runs.
End(r) ==
    /\ run[r] \in {"queued", "running"}
    /\ run' = [run EXCEPT ![r] = "terminal"]
    /\ UNCHANGED <<call, latest, trouble>>

\* Mutant: the call does not wait for the one before it.
RegisteredAlone(c) == [call EXCEPT ![c] = [IdleCall EXCEPT !.step = "waiting"]]

\* withAgentStartLock, up to its first await: chain behind latest.
Registered(c) == [call EXCEPT ![c] = [IdleCall EXCEPT !.step = "waiting", !.prev = latest]]

Call(c) ==
    /\ At(c, "idle")
    /\ call' = Registered(c)
    /\ latest' = c
    /\ UNCHANGED <<run, trouble>>

\* Mutant: the wait is not awaited.
EnterAtOnce(c) ==
    /\ At(c, "waiting")
    /\ call' = [call EXCEPT ![c].step = "count", ![c].prev = None]
    /\ UNCHANGED <<run, latest, trouble>>

\* The promise of the call before has settled.
Enter(c) ==
    /\ At(c, "waiting") /\ call[c].prev = None
    /\ call' = [call EXCEPT ![c].step = "count"]
    /\ UNCHANGED <<run, latest, trouble>>

\* What a call awaits, besides the database.
BlockedOn(c) ==
    CASE At(c, "waiting") -> call[c].prev
      [] At(c, "nested") -> call[c].inner
      [] OTHER -> None

\* The call waits for itself, through others.
WaitsForItself(c) == \E S \in SUBSET Calls : c \in S /\ \A d \in S : BlockedOn(d) \in S

\* waitForAgentStartLock gives up.
TimeOut(c) ==
    /\ At(c, "waiting") /\ call[c].prev # None
    /\ "slow" \in trouble \/ WaitsForItself(c)
    /\ call' = [call EXCEPT ![c].prev = None]
    /\ UNCHANGED <<run, latest, trouble>>

\* Mutant: the promise in the Map is never resolved.
SettledSilently(c) ==
    [d \in Calls |->
        IF d = c THEN IdleCall
        ELSE [call[d] EXCEPT !.step = IF call[d].inner = c THEN "claim" ELSE @,
                             !.inner = IF @ = c THEN None ELSE @]]

\* The promise of call c settles: whoever waits for it goes on, and the Map
\* entry goes if it is still this call's.
Settled(c) ==
    [d \in Calls |->
        IF d = c THEN IdleCall
        ELSE [call[d] EXCEPT
                !.prev = IF @ = c THEN None ELSE @,
                !.step = IF call[d].inner = c THEN "claim" ELSE @,
                !.inner = IF @ = c THEN None ELSE @]]

\* Mutant: the finally block deletes the entry without comparing the marker.
ForgetAny(c) == latest' = None

Forget(c) == latest' = IF latest = c THEN None ELSE latest

Leave(c) ==
    /\ call' = Settled(c)
    /\ Forget(c)
    /\ UNCHANGED <<run, trouble>>

\* The agent is gone or not invokable, no slot is free, or the function threw.
\* (The runs of an agent that is not invokable are cancelled: End.)
Abandon(c) ==
    /\ "failure" \in trouble
    /\ call[c].step \in {"count", "list", "claim"}
    /\ Leave(c)

\* Mutant: one slot is kept free.
CountOneLess(c) ==
    LET free == MaxConcurrentRuns - Cardinality(Running) - 1
    IN  /\ At(c, "count")
        /\ free > 0
        /\ call' = [call EXCEPT ![c].step = "list", ![c].slots = free]
        /\ UNCHANGED <<run, latest, trouble>>

\* countRunningRunsForAgent.
Count(c) ==
    LET free == MaxConcurrentRuns - Cardinality(Running)
    IN  /\ At(c, "count")
        /\ free > 0
        /\ call' = [call EXCEPT ![c].step = "list", ![c].slots = free]
        /\ UNCHANGED <<run, latest, trouble>>

\* The queued runs, read once.
List(c) ==
    /\ At(c, "list")
    /\ call' = [call EXCEPT ![c].step = "claim",
                            ![c].todo = {r \in Runs : run[r] = "queued"}]
    /\ UNCHANGED <<run, latest, trouble>>

\* Mutant: the loop claims without looking at the slots.
ConsidersAll(c, r) ==
    /\ At(c, "claim")
    /\ r \in call[c].todo
    /\ \A x \in call[c].todo : Rank[r] <= Rank[x]

\* The claim loop is at r: slots are left, and r is first of the rest.
Considers(c, r) ==
    /\ At(c, "claim")
    /\ call[c].slots > 0
    /\ r \in call[c].todo
    /\ \A x \in call[c].todo : Rank[r] <= Rank[x]

\* claimQueuedRun: the compare-and-set of the status.
Claim(c, r) ==
    /\ Considers(c, r)
    /\ run' = IF run[r] = "queued" THEN [run EXCEPT ![r] = "running"] ELSE run
    /\ call' = [call EXCEPT ![c].todo = @ \ {r},
                            ![c].slots = IF run[r] = "queued" THEN @ - 1 ELSE @]
    /\ UNCHANGED <<latest, trouble>>

\* A gate of claimQueuedRun that cancels the run and starts no queue (unresolved
\* blockers, a stale issue, a daily cap whose release promotes nothing): the
\* status is overwritten whatever it is by now.
Drop(c, r) ==
    /\ Considers(c, r)
    /\ run' = [run EXCEPT ![r] = "terminal"]
    /\ call' = [call EXCEPT ![c].todo = @ \ {r}]
    /\ UNCHANGED <<latest, trouble>>

\* A gate that cancels by cancelRunInternal (agent not invokable, budget, pause
\* hold), or a daily cap whose release promotes a wake of this agent: the start
\* of the queue that ends it is a call of its own, which c awaits.
Gate(c, r, d) ==
    /\ "gate" \in trouble
    /\ Considers(c, r) /\ r \in Gated
    /\ run[r] \in {"queued", "running"}
    /\ At(d, "idle")
    /\ run' = [run EXCEPT ![r] = "terminal"]
    /\ call' = [Registered(d) EXCEPT ![c].todo = @ \ {r}, ![c].step = "nested", ![c].inner = d]
    /\ latest' = d
    /\ UNCHANGED trouble

\* No slot is free, no slot is left, or no queued run is left.
Return(c) ==
    /\ \/ At(c, "count") /\ Cardinality(Running) >= MaxConcurrentRuns
       \/ At(c, "claim") /\ (call[c].slots = 0 \/ call[c].todo = {})
    /\ Leave(c)

\* The server process dies: calls and Map go, runs stay as they are.
Crash ==
    /\ "failure" \in trouble
    /\ call' = [c \in Calls |-> IdleCall]
    /\ latest' = None
    /\ UNCHANGED <<run, trouble>>

\* One step of the body of call c, under the lock.
BodyStep(c) ==
    \/ Count(c) \/ List(c) \/ Return(c)
    \/ \E r \in Runs :
        \/ Claim(c, r) \/ Drop(c, r)
        \/ \E d \in Calls \ {c} : Gate(c, r, d)

Next ==
    \/ \E r \in Runs : Enqueue(r) \/ End(r)
    \/ \E c \in Calls : Call(c) \/ Enter(c) \/ TimeOut(c) \/ BodyStep(c) \/ Abandon(c)
    \/ Crash

Spec == Init /\ [][Next]_vars

\* The event loop runs every continuation whose promise has settled and every
\* timer that is due; resumeQueuedRuns, on the server's periodic tick, starts
\* every queue that holds a queued run.
Fairness ==
    \A c \in Calls :
        /\ WF_vars(Enter(c)) /\ WF_vars(TimeOut(c)) /\ WF_vars(BodyStep(c))
        /\ WF_vars(Call(c))

FairSpec == Spec /\ Fairness

-----------------------------------------------------------------------------
(* Properties.                                                              *)

Orderly == trouble \subseteq {"failure"}
Reliable == "failure" \notin trouble

\* Two calls never work on the queue at once: what one counted is still so
\* when it claims, but for runs that ended.  Holds as long as no call is slow
\* and no gate starts the queue from inside.
StartsAreExclusive == Orderly => \A c, d \in Inside : c = d

\* The agent never has more running runs than its policy allows: "Maximum number
\* of heartbeat runs that can execute simultaneously for this agent".
WithinLimit == Cardinality(Running) <= MaxConcurrentRuns
CapacityRespected == Orderly => WithinLimit

\* The Map entry is there as long as any call is open: a call that settles
\* deletes its own entry and never that of a later call, which the next caller
\* would fail to wait for.
EntryCoversOpenCalls == Orderly /\ latest = None => \A c \in Calls : At(c, "idle")

\* Every start of the queue returns, also one issued from inside another, and one
\* that waits for a call that throws.
CallsReturn == \A c \in Calls : At(c, "waiting") ~> At(c, "idle")

\* A queued run does not wait for ever while a slot is free.
WorkConserving ==
    \A r \in Runs :
        Reliable /\ run[r] = "queued" /\ Cardinality(Running) < MaxConcurrentRuns
            ~> run[r] # "queued" \/ Cardinality(Running) >= MaxConcurrentRuns
=============================================================================
