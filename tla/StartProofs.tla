----------------------------- MODULE StartProofs -----------------------------
(***************************************************************************)
(* Theorems about StartQueue, for any calls, runs and limit.                *)
(***************************************************************************)
EXTENDS StartQueue, FiniteSetTheorems, TLAPS

-----------------------------------------------------------------------------
(* The inductive invariant.                                                 *)

Open(c) == call[c].step # "idle"

\* A call waits for an open one, if for any, and for none that it started.
Linked(c) ==
    /\ call[c].inner = None /\ call[c].step # "nested"
    /\ call[c].prev # None => At(c, "waiting") /\ Open(call[c].prev)

\* The open calls are a chain, each waiting for the one before it: only the head
\* waits for nobody, and the Map entry is the tail.
Chained ==
    /\ \A c \in Calls : Linked(c)
    /\ \A c, d \in Calls :
        /\ Open(c) /\ Open(d) /\ call[c].prev = None /\ call[d].prev = None => c = d
        /\ call[c].prev = call[d].prev /\ call[c].prev # None => c = d
    /\ latest # None => Open(latest) /\ \A c \in Calls : call[c].prev # latest
    /\ latest = None => \A c \in Calls : ~Open(c)

\* Nobody waits for itself, through others.
NoCycle == \A S \in SUBSET Calls : S # {} => \E c \in S : call[c].prev \notin S

\* The call that claims has the slots that are free, and no more.
SlotsFree ==
    /\ Cardinality(Running) <= MaxConcurrentRuns
    /\ \A c \in Calls :
        call[c].step \in {"list", "claim"} =>
            call[c].slots + Cardinality(Running) <= MaxConcurrentRuns

QueueInv == TypeOK /\ (Orderly => Chained /\ NoCycle /\ SlotsFree)

-----------------------------------------------------------------------------
(* Calls, written.                                                          *)

LEMMA IdleFields ==
    /\ IdleCall \in CallRecords
    /\ IdleCall.step = "idle" /\ IdleCall.prev = None /\ IdleCall.inner = None
    /\ IdleCall.slots = 0
BY StartAssumption DEF IdleCall, CallRecords, CallSteps

LEMMA RunningCounted ==
    IsFiniteSet(Running) /\ Cardinality(Running) \in Nat
<1>1. IsFiniteSet(Runs) /\ Running \in SUBSET Runs BY StartAssumption DEF Running
<1> QED BY <1>1, FS_Subset, FS_CardinalityType

\* The call at the end of the chain.
LEMMA RegisteredFields ==
    ASSUME TypeOK, NEW c \in Calls
    PROVE  /\ Registered(c) \in [Calls -> CallRecords]
           /\ Registered(c)[c].step = "waiting" /\ Registered(c)[c].prev = latest
           /\ Registered(c)[c].inner = None /\ Registered(c)[c].slots = 0
           /\ \A d \in Calls : d # c => Registered(c)[d] = call[d]
<1> DEFINE new == [IdleCall EXCEPT !.step = "waiting", !.prev = latest]
<1>1. /\ new \in CallRecords /\ new.step = "waiting" /\ new.prev = latest
      /\ new.inner = None /\ new.slots = 0
    BY IdleFields DEF CallRecords, CallSteps, TypeOK
<1>2. Registered(c) = [call EXCEPT ![c] = new] BY DEF Registered
<1> HIDE DEF new
<1> QED BY <1>1, <1>2 DEF TypeOK

\* What is left when a call settles.
LEMMA SettledFields ==
    ASSUME TypeOK, NEW c \in Calls
    PROVE  /\ Settled(c) \in [Calls -> CallRecords]
           /\ Settled(c)[c] = IdleCall
           /\ \A d \in Calls \ {c} :
                /\ Settled(c)[d].prev = IF call[d].prev = c THEN None ELSE call[d].prev
                /\ Settled(c)[d].inner = IF call[d].inner = c THEN None ELSE call[d].inner
                /\ Settled(c)[d].step = IF call[d].inner = c THEN "claim" ELSE call[d].step
                /\ Settled(c)[d].slots = call[d].slots
<1>1. Settled(c)[c] = IdleCall BY DEF Settled
<1>2. ASSUME NEW d \in Calls, d # c
      PROVE  /\ Settled(c)[d] \in CallRecords
             /\ Settled(c)[d].prev = IF call[d].prev = c THEN None ELSE call[d].prev
             /\ Settled(c)[d].inner = IF call[d].inner = c THEN None ELSE call[d].inner
             /\ Settled(c)[d].step = IF call[d].inner = c THEN "claim" ELSE call[d].step
             /\ Settled(c)[d].slots = call[d].slots
    <2> DEFINE prev == IF call[d].prev = c THEN None ELSE call[d].prev
               inner == IF call[d].inner = c THEN None ELSE call[d].inner
               step == IF call[d].inner = c THEN "claim" ELSE call[d].step
    <2>1. call[d] \in CallRecords BY DEF TypeOK
    <2>2. prev \in Calls \cup {None} /\ inner \in Calls \cup {None} /\ step \in CallSteps
        BY <2>1 DEF CallRecords, CallSteps
    <2>3. Settled(c)[d] = [call[d] EXCEPT !.prev = prev, !.step = step, !.inner = inner]
        BY <1>2 DEF Settled
    <2> HIDE DEF prev, inner, step
    <2>4. /\ Settled(c)[d] \in CallRecords
          /\ Settled(c)[d].prev = prev /\ Settled(c)[d].inner = inner
          /\ Settled(c)[d].step = step /\ Settled(c)[d].slots = call[d].slots
        BY <2>1, <2>2, <2>3 DEF CallRecords
    <2> QED BY <2>4 DEF prev, inner, step
<1>3. Settled(c) \in [Calls -> CallRecords] BY <1>1, <1>2, IdleFields DEF Settled
<1> QED BY <1>1, <1>2, <1>3

\* A step of the body of a call.
LEMMA BodyFields ==
    ASSUME TypeOK, NEW c \in Calls, NEW r,
           Count(c) \/ List(c) \/ Claim(c, r) \/ Drop(c, r)
    PROVE  /\ call' \in [Calls -> CallRecords]
           /\ \A d \in Calls : d # c => call'[d] = call[d]
           /\ call'[c].prev = call[c].prev /\ call'[c].inner = call[c].inner
           /\ call[c].step \in {"count", "list", "claim"}
           /\ call'[c].step \in {"list", "claim"}
           /\ latest' = latest /\ trouble' = trouble
           /\ \/ /\ run' = run
                 /\ call'[c].slots = MaxConcurrentRuns - Cardinality(Running)
              \/ /\ call[c].step = "claim"
                 /\ r \in Runs /\ run[r] = "queued" /\ run' = [run EXCEPT ![r] = "running"]
                 /\ call[c].slots > 0 /\ call'[c].slots = call[c].slots - 1
              \/ /\ call[c].step \in {"list", "claim"}
                 /\ run' = run \/ run' = [run EXCEPT ![r] = "terminal"]
                 /\ call'[c].slots = call[c].slots
<1>1. call[c] \in CallRecords /\ MaxConcurrentRuns \in Nat BY StartAssumption DEF TypeOK
<1>2. ASSUME NEW new \in CallRecords, call' = [call EXCEPT ![c] = new]
      PROVE  /\ call' \in [Calls -> CallRecords]
             /\ \A d \in Calls : d # c => call'[d] = call[d]
             /\ call'[c] = new
    BY <1>2 DEF TypeOK
<1>3. CASE Count(c)
    <2> DEFINE free == MaxConcurrentRuns - Cardinality(Running)
               new == [call[c] EXCEPT !.step = "list", !.slots = free]
    <2>1. /\ free > 0 /\ call[c].step = "count" /\ call' = [call EXCEPT ![c] = new]
          /\ run' = run /\ latest' = latest /\ trouble' = trouble
        BY <1>3 DEF Count, At
    <2>2. free \in 0..MaxConcurrentRuns BY <1>1, <2>1, RunningCounted
    <2> HIDE DEF free
    <2>3. /\ new \in CallRecords /\ new.step = "list" /\ new.slots = free
          /\ new.prev = call[c].prev /\ new.inner = call[c].inner
        BY <1>1, <2>2 DEF CallRecords, CallSteps
    <2> HIDE DEF new
    <2> QED BY <1>2, <2>1, <2>3 DEF free
<1>4. CASE List(c)
    <2> DEFINE new == [call[c] EXCEPT !.step = "claim",
                                      !.todo = {x \in Runs : run[x] = "queued"}]
    <2>1. /\ call[c].step = "list" /\ call' = [call EXCEPT ![c] = new]
          /\ run' = run /\ latest' = latest /\ trouble' = trouble
        BY <1>4 DEF List, At
    <2>2. /\ new \in CallRecords /\ new.step = "claim" /\ new.slots = call[c].slots
          /\ new.prev = call[c].prev /\ new.inner = call[c].inner
        BY <1>1 DEF CallRecords, CallSteps
    <2> HIDE DEF new
    <2> QED BY <1>2, <2>1, <2>2
<1>5. CASE Claim(c, r)
    <2> DEFINE left == IF run[r] = "queued" THEN call[c].slots - 1 ELSE call[c].slots
               new == [call[c] EXCEPT !.todo = call[c].todo \ {r}, !.slots = left]
    <2>1. /\ call[c].step = "claim" /\ call[c].slots > 0 /\ call' = [call EXCEPT ![c] = new]
          /\ run' = IF run[r] = "queued" THEN [run EXCEPT ![r] = "running"] ELSE run
          /\ latest' = latest /\ trouble' = trouble
          /\ r \in Runs
        BY <1>1, <1>5 DEF Claim, Considers, At, CallRecords
    <2>2. left \in 0..MaxConcurrentRuns BY <1>1, <2>1 DEF CallRecords
    <2> HIDE DEF left
    <2>3. /\ new \in CallRecords /\ new.step = "claim" /\ new.slots = left
          /\ new.prev = call[c].prev /\ new.inner = call[c].inner
        BY <1>1, <2>1, <2>2 DEF CallRecords
    <2> HIDE DEF new
    <2>4. CASE run[r] = "queued" BY <1>2, <2>1, <2>3, <2>4 DEF left
    <2>5. CASE run[r] # "queued" BY <1>2, <2>1, <2>3, <2>5 DEF left
    <2> QED BY <2>4, <2>5
<1>6. CASE Drop(c, r)
    <2> DEFINE new == [call[c] EXCEPT !.todo = call[c].todo \ {r}]
    <2>1. /\ call[c].step = "claim" /\ call' = [call EXCEPT ![c] = new]
          /\ run' = [run EXCEPT ![r] = "terminal"]
          /\ latest' = latest /\ trouble' = trouble
        BY <1>6 DEF Drop, Considers, At
    <2>2. /\ new \in CallRecords /\ new.step = "claim" /\ new.slots = call[c].slots
          /\ new.prev = call[c].prev /\ new.inner = call[c].inner
        BY <1>1, <2>1 DEF CallRecords
    <2> HIDE DEF new
    <2> QED BY <1>2, <2>1, <2>2
<1> QED BY <1>3, <1>4, <1>5, <1>6
-----------------------------------------------------------------------------
(* Types.                                                                   *)

LEMMA TypeStep ==
    ASSUME TypeOK, [Next]_vars
    PROVE  TypeOK'
<1> USE DEF TypeOK
<1>1. ASSUME NEW f \in [Calls -> CallRecords], NEW c \in Calls, NEW new \in CallRecords,
             call' = [f EXCEPT ![c] = new]
      PROVE  call' \in [Calls -> CallRecords]
    BY <1>1
<1>2. ASSUME NEW r \in Runs, Enqueue(r) \/ End(r)
      PROVE  TypeOK'
    BY <1>2 DEF Enqueue, End, RunStates
<1>3. ASSUME NEW c \in Calls, Call(c)
      PROVE  TypeOK'
    BY <1>3, RegisteredFields DEF Call
<1>4. ASSUME NEW c \in Calls, Enter(c)
      PROVE  TypeOK'
    <2> DEFINE new == [call[c] EXCEPT !.step = "count"]
    <2>1. new \in CallRecords BY DEF CallRecords, CallSteps
    <2>2. call' = [call EXCEPT ![c] = new] BY <1>4 DEF Enter
    <2> HIDE DEF new
    <2> QED BY <1>1, <1>4, <2>1, <2>2 DEF Enter
<1>5. ASSUME NEW c \in Calls, TimeOut(c)
      PROVE  TypeOK'
    <2> DEFINE new == [call[c] EXCEPT !.prev = None]
    <2>1. new \in CallRecords BY DEF CallRecords
    <2>2. call' = [call EXCEPT ![c] = new] BY <1>5 DEF TimeOut
    <2> HIDE DEF new
    <2> QED BY <1>1, <1>5, <2>1, <2>2 DEF TimeOut
<1>6. ASSUME NEW c \in Calls, Leave(c)
      PROVE  TypeOK'
    BY <1>6, SettledFields DEF Leave, Forget
<1>7. ASSUME NEW c \in Calls, NEW r,
             Count(c) \/ List(c) \/ Claim(c, r) \/ Drop(c, r)
      PROVE  TypeOK'
    <2>1. /\ call' \in [Calls -> CallRecords] /\ latest' = latest /\ trouble' = trouble
          /\ \/ run' = run
             \/ run' = [run EXCEPT ![r] = "running"]
             \/ run' = [run EXCEPT ![r] = "terminal"]
        BY <1>7, BodyFields
    <2> QED BY <2>1 DEF RunStates
<1>8. ASSUME NEW c \in Calls, NEW r \in Runs, NEW d \in Calls \ {c}, Gate(c, r, d)
      PROVE  TypeOK'
    <2> DEFINE was == Registered(d)[c]
               new == [was EXCEPT !.todo = was.todo \ {r}, !.step = "nested", !.inner = d]
    <2>1. Registered(d) \in [Calls -> CallRecords] BY RegisteredFields
    <2>2. new \in CallRecords BY <2>1 DEF CallRecords, CallSteps
    <2>3. call' = [Registered(d) EXCEPT ![c] = new] BY <1>8 DEF Gate
    <2> HIDE DEF new
    <2>4. call' \in [Calls -> CallRecords] BY <1>1, <2>1, <2>2, <2>3
    <2> QED BY <1>8, <2>4 DEF Gate, RunStates
<1>9. CASE Crash
    BY <1>9, IdleFields DEF Crash
<1>10. CASE UNCHANGED vars
    BY <1>10 DEF vars
<1>11. ASSUME NEW c \in Calls, BodyStep(c)
       PROVE  TypeOK'
    <2>1. CASE Return(c) BY <1>6, <2>1 DEF Return
    <2>2. CASE \E r : Count(c) \/ List(c) \/ Claim(c, r) \/ Drop(c, r) BY <1>7, <2>2
    <2> QED BY <1>7, <1>8, <1>11, <2>1, <2>2 DEF BodyStep
<1> QED BY <1>2, <1>3, <1>4, <1>5, <1>6, <1>9, <1>10, <1>11 DEF Next, Abandon
-----------------------------------------------------------------------------
(* The chain, and the slots.                                                *)

\* A run that ends, or is inserted, takes no slot.
LEMMA RunningShrinks ==
    ASSUME \A r \in Runs : run'[r] = "running" => run[r] = "running"
    PROVE  Cardinality(Running') \in Nat /\ Cardinality(Running') <= Cardinality(Running)
<1>1. Running' \subseteq Running BY DEF Running
<1> QED BY <1>1, RunningCounted, FS_Subset, FS_CardinalityType

\* A run that is claimed takes one.
LEMMA RunningGrows ==
    ASSUME run \in [Runs -> RunStates], NEW r \in Runs, run[r] = "queued",
           run' = [run EXCEPT ![r] = "running"]
    PROVE  Cardinality(Running') = Cardinality(Running) + 1
<1>1. Running' = Running \cup {r} /\ r \notin Running BY DEF Running
<1> QED BY <1>1, RunningCounted, FS_AddElement

\* No wait is given up: nobody is slow, and nobody waits for itself.
LEMMA NobodyGivesUp ==
    ASSUME Chained, NoCycle, Orderly, NEW c \in Calls
    PROVE  ~TimeOut(c)
<1>1. \A d \in Calls : BlockedOn(d) = call[d].prev BY DEF Chained, Linked, BlockedOn, At
<1>2. ~WaitsForItself(c) BY <1>1 DEF WaitsForItself, NoCycle
<1> QED BY <1>2 DEF TimeOut, Orderly

\* Only one call works on the queue.
LEMMA OneInside ==
    ASSUME TypeOK, Chained
    PROVE  \A c, d \in Inside : c = d
<1>1. \A c \in Inside : c \in Calls /\ Open(c) /\ call[c].prev = None
    BY DEF Chained, Linked, Inside, Open, At
<1> QED BY <1>1 DEF Chained

\* A call joins the chain.
LEMMA ChainGrows ==
    ASSUME TypeOK, Chained, NoCycle, NEW c \in Calls, Call(c)
    PROVE  Chained' /\ NoCycle'
<1>1. /\ ~Open(c) /\ latest' = c
      /\ call'[c].step = "waiting" /\ call'[c].prev = latest /\ call'[c].inner = None
      /\ \A d \in Calls : d # c => call'[d] = call[d]
    BY RegisteredFields DEF Call, At, Open
<1>2. \A d \in Calls : call[d].prev # c BY <1>1, StartAssumption DEF Chained, Linked, Open
<1>3. latest # c /\ c # None BY <1>1, StartAssumption DEF Chained
<1>4. \A d \in Calls : Open(d) => Open(d)' BY <1>1 DEF Open
<1>5. \A d \in Calls : d # c => Open(d)' = Open(d) BY <1>1 DEF Open
<1>6. latest = None \/ latest \in Calls BY DEF TypeOK
<1>7. Chained'
    <2>1. ASSUME NEW d \in Calls
          PROVE  Linked(d)'
        <3>1. CASE d = c BY <1>1, <1>3, <1>5, <1>6, <3>1 DEF Chained, Linked, Open, At
        <3>2. CASE d # c
            <4>1. call[d].prev \in Calls \cup {None} BY DEF TypeOK, CallRecords
            <4> QED BY <1>1, <1>4, <3>2, <4>1 DEF Chained, Linked, Open, At
        <3> QED BY <3>1, <3>2
    <2>2. ASSUME NEW d \in Calls, NEW e \in Calls
          PROVE  /\ Open(d)' /\ Open(e)' /\ call'[d].prev = None /\ call'[e].prev = None
                        => d = e
                 /\ call'[d].prev = call'[e].prev /\ call'[d].prev # None => d = e
        BY <1>1, <1>5 DEF Chained
    <2>3. Open(latest)' /\ \A d \in Calls : call'[d].prev # latest'
        BY <1>1, <1>2, <1>3 DEF Open
    <2> QED BY <1>1, <1>3, <2>1, <2>2, <2>3 DEF Chained
<1>8. NoCycle'
    <2>1. SUFFICES ASSUME NEW S \in SUBSET Calls, S # {}
                   PROVE  \E d \in S : call'[d].prev \notin S
        BY DEF NoCycle
    <2>2. CASE S = {c} BY <1>1, <1>3, <2>2
    <2>3. CASE S # {c}
        <3>1. S \ {c} # {} /\ S \ {c} \in SUBSET Calls BY <2>1, <2>3
        <3>2. PICK d \in S \ {c} : call[d].prev \notin S \ {c} BY <3>1 DEF NoCycle
        <3> QED BY <1>1, <1>2, <3>2
    <2> QED BY <2>2, <2>3
<1> QED BY <1>7, <1>8

\* A call that nobody is before goes on.
LEMMA ChainKept ==
    ASSUME TypeOK, Chained, NoCycle, NEW c \in Calls,
           call[c].prev = None, Open(c), Open(c)', call'[c].step # "nested",
           call'[c].prev = None, call'[c].inner = None,
           \A d \in Calls : d # c => call'[d] = call[d],
           latest' = latest
    PROVE  Chained' /\ NoCycle'
<1>1. \A d \in Calls : call'[d].prev = call[d].prev /\ call'[d].inner = None
    BY DEF Chained, Linked
<1>2. \A d \in Calls : Open(d)' = Open(d) /\ (d # c => At(d, "waiting")' = At(d, "waiting"))
    BY DEF Open, At
<1>3. \A d \in Calls : call[d].prev \in Calls \cup {None} BY DEF TypeOK, CallRecords
<1>4. latest \in Calls \cup {None} BY DEF TypeOK
<1>5. NoCycle' BY <1>1 DEF NoCycle
<1>6. \A d \in Calls : Linked(d)' BY <1>1, <1>2, <1>3 DEF Chained, Linked, Open, At
<1>7. \A d, e \in Calls :
        /\ Open(d)' /\ Open(e)' /\ call'[d].prev = None /\ call'[e].prev = None => d = e
        /\ call'[d].prev = call'[e].prev /\ call'[d].prev # None => d = e
    BY <1>1, <1>2 DEF Chained
<1>8. /\ latest' # None => Open(latest)' /\ \A d \in Calls : call'[d].prev # latest'
      /\ latest' = None => \A d \in Calls : ~Open(d)'
    BY <1>1, <1>2, <1>4 DEF Chained, Open
<1> QED BY <1>5, <1>6, <1>7, <1>8 DEF Chained

\* The head leaves the chain.
LEMMA ChainShrinks ==
    ASSUME TypeOK, Chained, NoCycle, NEW c \in Calls, Leave(c),
           Open(c), call[c].prev = None
    PROVE  Chained' /\ NoCycle'
<1>1. /\ call'[c].step = "idle" /\ call'[c].prev = None /\ call'[c].inner = None
      /\ latest' = IF latest = c THEN None ELSE latest
    BY SettledFields, IdleFields DEF Leave, Forget
<1>2. \A d \in Calls :
        d # c => /\ call'[d].prev = IF call[d].prev = c THEN None ELSE call[d].prev
                 /\ call'[d].inner = None /\ call'[d].step = call[d].step
    BY SettledFields, StartAssumption DEF Leave, Chained, Linked
<1>3. ~Open(c)' /\ \A d \in Calls : d # c => Open(d)' = Open(d) BY <1>1, <1>2 DEF Open
<1>4. \A d \in Calls : call[d].prev \in Calls \cup {None} BY DEF TypeOK, CallRecords
<1>5. latest \in Calls \cup {None} /\ c # None BY StartAssumption DEF TypeOK
<1>6. \A d \in Calls : d # c /\ Open(d) => call[d].prev # None BY DEF Chained
<1>7. ASSUME NEW d \in Calls
      PROVE  Linked(d)'
    <2>1. CASE d = c BY <1>1, <2>1 DEF Linked
    <2>2. CASE d # c BY <1>2, <1>3, <1>4, <2>2 DEF Chained, Linked, Open, At
    <2> QED BY <2>1, <2>2
<1>8. ASSUME NEW d \in Calls, NEW e \in Calls
      PROVE  /\ Open(d)' /\ Open(e)' /\ call'[d].prev = None /\ call'[e].prev = None
                    => d = e
             /\ call'[d].prev = call'[e].prev /\ call'[d].prev # None => d = e
    <2>1. ASSUME Open(d)', Open(e)', call'[d].prev = None, call'[e].prev = None
          PROVE  d = e
        <3>1. call[d].prev = c /\ call[e].prev = c BY <1>2, <1>3, <1>6, <2>1
        <3> QED BY <1>5, <3>1 DEF Chained
    <2>2. ASSUME call'[d].prev = call'[e].prev, call'[d].prev # None
          PROVE  d = e
        BY <1>1, <1>2, <2>2 DEF Chained
    <2> QED BY <2>1, <2>2
<1>9. ASSUME latest' # None
      PROVE  Open(latest)' /\ \A d \in Calls : call'[d].prev # latest'
    <2>1. latest' = latest /\ latest # c /\ latest # None BY <1>1, <1>9
    <2>2. Open(latest)' BY <1>2, <1>5, <2>1 DEF Chained, Open
    <2> QED BY <1>1, <1>2, <1>9, <2>1, <2>2 DEF Chained
<1>10. ASSUME latest' = None, NEW d \in Calls
       PROVE  ~Open(d)'
    <2>1. latest = c BY <1>1, <1>10 DEF Chained
    <2> DEFINE S == {e \in Calls : e # c /\ Open(e)}
    <2>2. \A e \in S : call[e].prev \in S
        BY <1>4, <1>5, <1>6, <2>1 DEF Chained, Linked
    <2>3. S = {} BY <2>2 DEF NoCycle
    <2> QED BY <1>3, <2>3
<1>11. NoCycle'
    <2>1. \A d \in Calls : call'[d].prev = call[d].prev \/ call'[d].prev = None
        BY <1>1, <1>2
    <2> QED BY <2>1, StartAssumption DEF NoCycle
<1> QED BY <1>7, <1>8, <1>9, <1>10, <1>11 DEF Chained
-----------------------------------------------------------------------------
(* The steps, together.                                                     *)

Queued == Chained /\ NoCycle /\ SlotsFree

\* What may go wrong is settled at the start.
LEMMA TroubleStays ==
    ASSUME TypeOK, [Next]_vars
    PROVE  trouble' = trouble
<1>1. ASSUME NEW c \in Calls, BodyStep(c)
      PROVE  trouble' = trouble
    <2>1. \A r, d : Gate(c, r, d) => trouble' = trouble BY DEF Gate
    <2>2. \A r : Claim(c, r) \/ Drop(c, r) => trouble' = trouble BY DEF Claim, Drop
    <2>3. Count(c) \/ List(c) \/ Return(c) => trouble' = trouble
        BY DEF Count, List, Return, Leave
    <2> QED BY <1>1, <2>1, <2>2, <2>3 DEF BodyStep
<1>2. ASSUME NEW c \in Calls, Call(c) \/ Enter(c) \/ TimeOut(c) \/ Abandon(c)
      PROVE  trouble' = trouble
    BY <1>2 DEF Call, Enter, TimeOut, Abandon, Leave
<1>3. \A r \in Runs : Enqueue(r) \/ End(r) => trouble' = trouble BY DEF Enqueue, End
<1>4. Crash \/ UNCHANGED vars => trouble' = trouble BY DEF Crash, vars
<1> QED BY <1>1, <1>2, <1>3, <1>4 DEF Next

LEMMA RunsMove ==
    ASSUME TypeOK, Queued, NEW r \in Runs, Enqueue(r) \/ End(r)
    PROVE  Queued'
<1>1. /\ \A x \in Runs : run'[x] = "running" => run[x] = "running"
      /\ call' = call /\ latest' = latest
    BY DEF Enqueue, End, TypeOK
<1>2. Chained' /\ NoCycle' BY <1>1 DEF Queued, Chained, Linked, NoCycle, Open, At
<1>3. \A c \in Calls : call[c].slots \in Nat /\ MaxConcurrentRuns \in Nat
    BY StartAssumption DEF TypeOK, CallRecords
<1>4. Cardinality(Running') \in Nat /\ Cardinality(Running') <= Cardinality(Running)
    BY <1>1, RunningShrinks
<1>5. ASSUME NEW c \in Calls, call'[c].step \in {"list", "claim"}
      PROVE  call'[c].slots + Cardinality(Running') <= MaxConcurrentRuns
    <2>1. call[c].slots + Cardinality(Running) <= MaxConcurrentRuns /\ call'[c] = call[c]
        BY <1>1, <1>5 DEF Queued, SlotsFree
    <2> QED BY <1>3, <1>4, <2>1, RunningCounted
<1>6. Cardinality(Running') <= MaxConcurrentRuns
    BY <1>4, RunningCounted, StartAssumption DEF Queued, SlotsFree
<1> QED BY <1>2, <1>5, <1>6 DEF Queued, SlotsFree

LEMMA CallMoves ==
    ASSUME TypeOK, Queued, NEW c \in Calls, Call(c) \/ Enter(c)
    PROVE  Queued'
<1>1. Running' = Running BY DEF Call, Enter, Running
<1>2. CASE Call(c)
    <2>1. Chained' /\ NoCycle' BY <1>2, ChainGrows DEF Queued
    <2>2. call'[c].step = "waiting" /\ \A d \in Calls : d # c => call'[d] = call[d]
        BY <1>2, RegisteredFields DEF Call
    <2>3. SlotsFree' BY <1>1, <2>2 DEF Queued, SlotsFree
    <2> QED BY <2>1, <2>3 DEF Queued
<1>3. CASE Enter(c)
    <2> DEFINE new == [call[c] EXCEPT !.step = "count"]
    <2>1. /\ new.step = "count" /\ new.prev = call[c].prev /\ new.inner = call[c].inner
          /\ call[c].prev = None /\ call[c].step = "waiting" /\ latest' = latest
          /\ call' = [call EXCEPT ![c] = new]
        BY <1>3 DEF Enter, At, TypeOK, CallRecords
    <2> HIDE DEF new
    <2>2. /\ call'[c].step = "count" /\ call'[c].prev = None
          /\ call'[c].inner = call[c].inner
          /\ \A d \in Calls : d # c => call'[d] = call[d]
        BY <2>1 DEF TypeOK
    <2>3. call'[c].inner = None BY <2>2 DEF Queued, Chained, Linked
    <2>4. Open(c) /\ Open(c)' /\ call'[c].step # "nested" BY <2>1, <2>2 DEF Open
    <2>5. Chained' /\ NoCycle' BY <2>1, <2>2, <2>3, <2>4, ChainKept DEF Queued
    <2>6. SlotsFree' BY <1>1, <2>2 DEF Queued, SlotsFree
    <2> QED BY <2>5, <2>6 DEF Queued
<1> QED BY <1>2, <1>3

LEMMA LeaveMoves ==
    ASSUME TypeOK, Queued, NEW c \in Calls, Leave(c),
           call[c].step \in {"count", "list", "claim"}
    PROVE  Queued'
<1>1. Open(c) /\ call[c].prev = None BY DEF Queued, Chained, Linked, Open, At
<1>2. Chained' /\ NoCycle' BY <1>1, ChainShrinks DEF Queued
<1>3. /\ call'[c].step = "idle"
      /\ \A d \in Calls : d # c => /\ call'[d].step = call[d].step
                                   /\ call'[d].slots = call[d].slots
    BY SettledFields, IdleFields, StartAssumption DEF Leave, Queued, Chained, Linked
<1>4. Running' = Running BY DEF Leave, Running
<1>5. SlotsFree' BY <1>3, <1>4 DEF Queued, SlotsFree
<1> QED BY <1>2, <1>5 DEF Queued

LEMMA BodyMoves ==
    ASSUME TypeOK, Queued, NEW c \in Calls, NEW r,
           Count(c) \/ List(c) \/ Claim(c, r) \/ Drop(c, r)
    PROVE  Queued'
<1>1. /\ \A d \in Calls : d # c => call'[d] = call[d]
      /\ call'[c].prev = call[c].prev /\ call'[c].inner = call[c].inner
      /\ call[c].step \in {"count", "list", "claim"}
      /\ call'[c].step \in {"list", "claim"}
      /\ latest' = latest
    BY BodyFields
<1>2. Open(c) /\ Open(c)' /\ call[c].prev = None /\ call[c].inner = None
    BY <1>1 DEF Queued, Chained, Linked, Open, At
<1>3. Chained' /\ NoCycle' BY <1>1, <1>2, ChainKept DEF Queued
<1>4. \A d \in Calls : call[d].step \in {"list", "claim"} => d = c
    BY <1>1, OneInside DEF Queued, Inside
<1>5. \A d \in Calls : call'[d].step \in {"list", "claim"} => d = c BY <1>1, <1>4
<1>6. MaxConcurrentRuns \in Nat /\ Cardinality(Running) \in Nat /\ call[c].slots \in Nat
    BY StartAssumption, RunningCounted DEF TypeOK, CallRecords
<1>7. SUFFICES /\ Cardinality(Running') <= MaxConcurrentRuns
               /\ call'[c].slots + Cardinality(Running') <= MaxConcurrentRuns
    BY <1>3, <1>5 DEF Queued, SlotsFree
<1>8. CASE run' = run /\ call'[c].slots = MaxConcurrentRuns - Cardinality(Running)
    <2>1. Running' = Running BY <1>8 DEF Running
    <2> QED BY <1>6, <1>8, <2>1 DEF Queued, SlotsFree
<1>9. CASE /\ call[c].step = "claim"
           /\ r \in Runs /\ run[r] = "queued" /\ run' = [run EXCEPT ![r] = "running"]
           /\ call[c].slots > 0 /\ call'[c].slots = call[c].slots - 1
    <2>1. Cardinality(Running') = Cardinality(Running) + 1 BY <1>9, RunningGrows DEF TypeOK
    <2>2. call[c].slots + Cardinality(Running) <= MaxConcurrentRuns
        BY <1>9 DEF Queued, SlotsFree
    <2> QED BY <1>6, <1>9, <2>1, <2>2
<1>10. CASE /\ call[c].step \in {"list", "claim"}
            /\ run' = run \/ run' = [run EXCEPT ![r] = "terminal"]
            /\ call'[c].slots = call[c].slots
    <2>1. Cardinality(Running') \in Nat /\ Cardinality(Running') <= Cardinality(Running)
        BY <1>10, RunningShrinks DEF TypeOK
    <2>2. call[c].slots + Cardinality(Running) <= MaxConcurrentRuns
        BY <1>10 DEF Queued, SlotsFree
    <2> QED BY <1>6, <1>10, <2>1, <2>2
<1> QED BY <1>8, <1>9, <1>10, BodyFields

LEMMA CrashMoves ==
    ASSUME TypeOK, Queued, Crash
    PROVE  Queued'
<1>1. /\ \A c \in Calls : call'[c].step = "idle" /\ call'[c].prev = None
                          /\ call'[c].inner = None
      /\ latest' = None /\ Running' = Running
    BY IdleFields DEF Crash, Running
<1>2. Chained' BY <1>1 DEF Chained, Linked, Open
<1>3. NoCycle' BY <1>1, StartAssumption DEF NoCycle
<1>4. SlotsFree' BY <1>1 DEF Queued, SlotsFree
<1> QED BY <1>2, <1>3, <1>4 DEF Queued

-----------------------------------------------------------------------------
(* The theorems.                                                            *)

\* Every variable stays in its type.
THEOREM TypeCorrect == Spec => []TypeOK
<1>1. Init => TypeOK
    BY IdleFields DEF Init, TypeOK, RunStates
<1>2. TypeOK /\ [Next]_vars => TypeOK'
    BY TypeStep
<1> QED BY <1>1, <1>2, PTL DEF Spec

\* As long as no call is slow and no gate starts the queue from inside, the
\* open calls are a chain, and its head holds no more slots than are free.
THEOREM QueueKept == Spec => []QueueInv
<1>1. Init => QueueInv
    <2> SUFFICES ASSUME Init PROVE QueueInv
        OBVIOUS
    <2>1. TypeOK BY IdleFields DEF Init, TypeOK, RunStates
    <2>2. Chained BY IdleFields DEF Init, Chained, Linked, Open
    <2>3. NoCycle BY IdleFields, StartAssumption DEF Init, NoCycle
    <2>4. Running = {} BY DEF Init, Running
    <2>5. SlotsFree BY <2>4, IdleFields, FS_EmptySet, StartAssumption DEF Init, SlotsFree
    <2> QED BY <2>1, <2>2, <2>3, <2>5 DEF QueueInv
<1>2. QueueInv /\ [Next]_vars => QueueInv'
    <2> SUFFICES ASSUME QueueInv, [Next]_vars PROVE QueueInv'
        OBVIOUS
    <2>1. TypeOK' BY TypeStep DEF QueueInv
    <2>2. trouble' = trouble BY TroubleStays DEF QueueInv
    <2>3. SUFFICES ASSUME Orderly, Queued PROVE Queued'
        BY <2>1, <2>2 DEF QueueInv, Orderly, Queued
    <2> USE DEF QueueInv
    <2>4. ASSUME NEW c \in Calls, BodyStep(c)
          PROVE  Queued'
        <3>1. CASE Return(c)
            <4>1. Leave(c) /\ call[c].step \in {"count", "claim"} BY <3>1 DEF Return, At
            <4> QED BY <2>3, <4>1, LeaveMoves
        <3>2. CASE \E r : Count(c) \/ List(c) \/ Claim(c, r) \/ Drop(c, r)
            BY <2>3, <3>2, BodyMoves
        <3>3. \A r \in Runs, d \in Calls : ~Gate(c, r, d) BY <2>3 DEF Gate, Orderly
        <3> QED BY <2>4, <3>1, <3>2, <3>3 DEF BodyStep
    <2>5. ASSUME NEW c \in Calls, Call(c) \/ Enter(c)
          PROVE  Queued'
        BY <2>3, <2>5, CallMoves
    <2>6. ASSUME NEW c \in Calls, Abandon(c)
          PROVE  Queued'
        BY <2>3, <2>6, LeaveMoves DEF Abandon
    <2>7. ASSUME NEW c \in Calls, TimeOut(c)
          PROVE  FALSE
        BY <2>3, <2>7, NobodyGivesUp DEF Queued
    <2>8. ASSUME NEW r \in Runs, Enqueue(r) \/ End(r)
          PROVE  Queued'
        BY <2>3, <2>8, RunsMove
    <2>9. CASE Crash BY <2>3, <2>9, CrashMoves
    <2>10. CASE UNCHANGED vars
        BY <2>3, <2>10
        DEF vars, Queued, Chained, Linked, NoCycle, SlotsFree, Running, Open, At
    <2> QED BY <2>4, <2>5, <2>6, <2>7, <2>8, <2>9, <2>10 DEF Next
<1> QED BY <1>1, <1>2, PTL DEF Spec

\* Two calls never work on the queue at once, as long as no call is slow and
\* no gate starts the queue from inside.
THEOREM StartsExclude == Spec => []StartsAreExclusive
<1>1. QueueInv => StartsAreExclusive BY OneInside DEF QueueInv, StartsAreExclusive
<1> QED BY <1>1, QueueKept, PTL

\* The agent never runs more than its policy allows, under the same conditions.
THEOREM CapacityHolds == Spec => []CapacityRespected
<1>1. QueueInv => CapacityRespected
    BY DEF QueueInv, CapacityRespected, WithinLimit, SlotsFree
<1> QED BY <1>1, QueueKept, PTL

\* The Map holds an entry as long as any call is open, under the same conditions.
THEOREM EntryCovers == Spec => []EntryCoversOpenCalls
<1>1. QueueInv => EntryCoversOpenCalls
    BY DEF QueueInv, EntryCoversOpenCalls, Chained, Open, At
<1> QED BY <1>1, QueueKept, PTL
==============================================================================
