------------------------- MODULE PlanDecomposition -------------------------
(***************************************************************************)
(* Decomposition of accepted plans into child issues: the request           *)
(* POST /issues/:id/accepted-plan-decompositions (routes/issues.ts) and     *)
(* decomposeAcceptedPlan (services/issues.ts), one transaction per step;    *)
(* concurrent and repeated requests, failures, crashes of the server, and   *)
(* the wakes of the children.                                               *)
(*                                                                         *)
(* A child issue is named by the request and the position for which its     *)
(* UUID was drawn.  What a child asks for is a model value; its status is   *)
(* "todo" with an assignee, or "blocked" when the request is serialized.    *)
(***************************************************************************)
EXTENDS Naturals, Sequences, FiniteSets

CONSTANTS
    Calls,       \* requests that may be made
    Revisions,   \* revisions of the source issue's plan document
    Children,    \* what a request may ask of a child
    Lists,       \* lists of children that requests ask for
    Runs,        \* heartbeat runs that make requests
    Serialized,  \* the requests of task watchdogs: one child after the other
    None

ASSUME PlanAssumption ==
    /\ Serialized \subseteq Calls
    /\ Lists \subseteq Seq(Children) \ {<<>>}
    /\ \E longest \in Lists : \A list \in Lists : Len(list) <= Len(longest)
    /\ None \notin Runs \cup Calls

VARIABLES
    accepted,  \* revisions with an accepted plan confirmation
    claim,     \* issue_plan_decompositions, by revision
    issues,    \* the child issues made for each revision, in order
    call,      \* the requests
    ended,     \* heartbeat runs that ended
    woken      \* child issues whose assignee was woken

vars == <<accepted, claim, issues, call, ended, woken>>

MaxLen == CHOOSE n \in {Len(list) : list \in Lists} : \A list \in Lists : Len(list) <= n
Ids == Calls \X (1..MaxLen)
Fingerprints == Lists \X Runs \X (Ids \cup {None}) \X (Calls \cup {None})

ClaimRecords == [status : {"in_flight", "completed"}, print : Fingerprints, list : Lists,
                 made : Seq(Ids), owner : Runs]
IssueRecords == [id : Ids, asks : Children, blocker : Ids \cup {None}]
CallRecords ==
    [step : {"entered", "loop", "wakes", "returned", "refused", "failed"}, rev : Revisions,
     list : Lists, run : Runs, open : Ids \cup {None}, new : SUBSET Ids]

NoClaim == [status |-> "none", print |-> None, list |-> <<>>, made |-> <<>>, owner |-> None]
NoCall == [step |-> "idle", rev |-> None, list |-> <<>>, run |-> None, open |-> None,
           new |-> {}]

\* A claim is complete when it has all its children, and never has more.
ClaimOK(k) ==
    /\ Len(k.made) <= Len(k.list)
    /\ k.status = "completed" <=> Len(k.made) = Len(k.list)

TypeOK ==
    /\ accepted \subseteq Revisions
    /\ claim \in [Revisions -> ClaimRecords \cup {NoClaim}]
    /\ \A v \in Revisions : claim[v] # NoClaim => ClaimOK(claim[v])
    /\ issues \in [Revisions -> Seq(IssueRecords)]
    /\ call \in [Calls -> CallRecords \cup {NoCall}]
    /\ ended \subseteq Runs
    /\ woken \subseteq Ids

Init ==
    /\ accepted = {}
    /\ claim = [v \in Revisions |-> NoClaim]
    /\ issues = [v \in Revisions |-> <<>>]
    /\ call = [c \in Calls |-> NoCall]
    /\ ended = {}
    /\ woken = {}

-----------------------------------------------------------------------------
(* The request.                                                             *)

Goes(c, step) == call' = [call EXCEPT ![c].step = step]

\* The board accepts the confirmation of a plan revision.
Accept(v) ==
    /\ v \notin accepted
    /\ accepted' = accepted \cup {v}
    /\ UNCHANGED <<claim, issues, call, ended, woken>>

\* The children of the source issue.
Made == UNION {{issues[v][i].id : i \in DOMAIN issues[v]} : v \in Revisions}

\* A run asks for the decomposition of a revision.  A serialized request looks
\* for the first child that is open; the others may be closed by then.
Ask(c, v, list, r, open) ==
    /\ call[c].step = "idle" /\ r \notin ended
    /\ open \in {None} \cup IF c \in Serialized THEN Made ELSE {}
    /\ call' = [call EXCEPT ![c] = [step |-> "entered", rev |-> v, list |-> list,
                                    run |-> r, open |-> open, new |-> {}]]
    /\ UNCHANGED <<accepted, claim, issues, ended, woken>>

\* Mutant: the fingerprint leaves the fresh ids out.
FingerprintWithoutIds(c) == <<call[c].list, call[c].run, call[c].open, None>>

\* Mutant: the fingerprint is the revision, whatever the children are.
FingerprintOfRevision(c) == <<None, call[c].run, None, None>>

\* The fingerprint is that of the children as the route prepared them: they
\* carry the run of the actor and, in a serialized request, the id of the open
\* child and the fresh ids of the children before.
Fingerprint(c) ==
    <<call[c].list, call[c].run, call[c].open,
      IF c \in Serialized /\ Len(call[c].list) > 1 THEN c ELSE None>>

\* The first transaction, under the lock of the source issue.
Claim(c) ==
    LET v == call[c].rev
        fresh == claim[v] = NoClaim
        allowed == v \in accepted /\ (fresh \/ claim[v].print = Fingerprint(c))
    IN  /\ call[c].step = "entered"
        /\ claim' = IF allowed /\ fresh
                    THEN [claim EXCEPT ![v] = [status |-> "in_flight", print |-> Fingerprint(c),
                                               list |-> call[c].list, made |-> <<>>,
                                               owner |-> call[c].run]]
                    ELSE claim
        /\ Goes(c, IF allowed THEN "loop" ELSE "refused")
        /\ UNCHANGED <<accepted, issues, ended, woken>>

\* resolveAcceptedPlanClaimOwner: an owner whose run lives keeps the claim.
NextOwner(c) ==
    LET owner == claim[call[c].rev].owner
    IN  IF owner \in ended THEN call[c].run ELSE owner

\* The child at position n: in a serialized request it is blocked by the open
\* child or by the one before it in the same request.
Child(c, n) ==
    [id |-> <<c, n>>, asks |-> call[c].list[n],
     blocker |-> IF c \notin Serialized THEN None
                 ELSE IF n = 1 THEN call[c].open ELSE <<c, n - 1>>]

\* Mutant: the position is counted by the request.
CursorOfCall(c) == Cardinality(call[c].new) + 1

\* The position of the next child, read under the lock of the claim.
Cursor(c) == Len(claim[call[c].rev].made) + 1

\* Mutant: the claim is completed one child too late.
StatusLate(c, n) == IF n > Len(call[c].list) THEN "completed" ELSE "in_flight"

\* The status of the claim once n children are made.
Status(c, n) == IF n = Len(call[c].list) THEN "completed" ELSE "in_flight"

Finished(c) == claim[call[c].rev].status = "completed"

\* A transaction of the loop: the child and the progress are written together.
MakeChild(c) ==
    LET v == call[c].rev
        n == Cursor(c)
    IN  /\ call[c].step = "loop" /\ ~Finished(c)
        /\ n <= Len(call[c].list)
        /\ issues' = [issues EXCEPT ![v] = Append(@, Child(c, n))]
        /\ claim' = [claim EXCEPT
                ![v].made = Append(@, <<c, n>>),
                ![v].status = Status(c, Len(claim[v].made) + 1),
                ![v].owner = NextOwner(c)]
        /\ call' = [call EXCEPT ![c].new = @ \cup {<<c, n>>}]
        /\ UNCHANGED <<accepted, ended, woken>>

\* The claim is complete, by whichever request: the loop ends.
LeaveLoop(c) ==
    /\ call[c].step = "loop" /\ Finished(c)
    /\ Goes(c, "wakes")
    /\ UNCHANGED <<accepted, claim, issues, ended, woken>>

\* createChild or another query throws: the transaction is rolled back, and
\* nobody wakes the children made so far.
Fail(c) ==
    /\ call[c].step \in {"loop", "wakes"}
    /\ Goes(c, "failed")
    /\ UNCHANGED <<accepted, claim, issues, ended, woken>>

MayStart(id) ==
    \E v \in Revisions : \E i \in DOMAIN issues[v] :
        issues[v][i].id = id /\ issues[v][i].blocker = None

\* The request wakes the assignees of the children it made itself and that are
\* not blocked; a wake may be refused.
WakeNew(c, refused) ==
    /\ call[c].step = "wakes"
    /\ refused \subseteq call[c].new
    /\ woken' = woken \cup {id \in call[c].new \ refused : MayStart(id)}
    /\ Goes(c, "returned")
    /\ UNCHANGED <<accepted, claim, issues, ended>>

-----------------------------------------------------------------------------
(* The rest of the system.                                                  *)

\* Mutant: only the children of a decomposition that has finished.
UndispatchedOfFinished(v, i) == issues[v][i].blocker = None /\ claim[v].status = "completed"

\* An assigned todo issue without a run and without a wake.
Undispatched(v, i) == issues[v][i].blocker = None

\* The stranded-work pass dispatches it.
Dispatch(v, i) ==
    /\ i \in DOMAIN issues[v] /\ issues[v][i].id \notin woken
    /\ Undispatched(v, i)
    /\ woken' = woken \cup {issues[v][i].id}
    /\ UNCHANGED <<accepted, claim, issues, call, ended>>

RunEnds(r) ==
    /\ r \notin ended
    /\ ended' = ended \cup {r}
    /\ UNCHANGED <<accepted, claim, issues, call, woken>>

\* The server goes down: what was under way is lost.
Crash ==
    /\ \E c \in Calls : call[c].step \in {"entered", "loop", "wakes"}
    /\ call' = [c \in Calls |->
                IF call[c].step \in {"entered", "loop", "wakes"}
                THEN [call[c] EXCEPT !.step = "failed"] ELSE call[c]]
    /\ UNCHANGED <<accepted, claim, issues, ended, woken>>

CallStep(c) ==
    \/ Claim(c) \/ MakeChild(c) \/ LeaveLoop(c)
    \/ \E refused \in SUBSET call[c].new : WakeNew(c, refused)

Next ==
    \/ \E v \in Revisions : Accept(v)
    \/ \E c \in Calls :
        \/ \E v \in Revisions, list \in Lists, r \in Runs, open \in Ids \cup {None} :
                Ask(c, v, list, r, open)
        \/ CallStep(c) \/ Fail(c)
    \/ \E v \in Revisions, i \in 1..MaxLen : Dispatch(v, i)
    \/ \E r \in Runs : RunEnds(r)
    \/ Crash

Spec == Init /\ [][Next]_vars

\* The stranded-work pass is periodic; requests under way make progress.
Fairness ==
    /\ \A c \in Calls : WF_vars(CallStep(c))
    /\ \A v \in Revisions, i \in 1..MaxLen : WF_vars(Dispatch(v, i))

FairSpec == Spec /\ Fairness

-----------------------------------------------------------------------------
(* Properties.                                                              *)

\* Whatever requests run at once, are repeated, fail or die with the server,
\* a revision is settled on one list and each of its children is made once.
Tree == INSTANCE PlanTree WITH
            plan <- [v \in Revisions |-> claim[v].list],
            tree <- [v \in Revisions |-> [i \in DOMAIN issues[v] |-> issues[v][i].asks]]
ImplementsPlanTree == Tree!Spec

\* A serialized child waits for a child that exists, and was made before it:
\* requests that took turns would otherwise block it on an id never used.
BlockersExist ==
    \A v \in Revisions : \A i \in DOMAIN issues[v] :
        issues[v][i].blocker # None =>
            \/ \E j \in 1..(i - 1) : issues[v][j].id = issues[v][i].blocker
            \/ \E o \in Revisions \ {v} : \E j \in DOMAIN issues[o] :
                    issues[o][j].id = issues[v][i].blocker

\* A request that returns reports exactly the issues made for its revision, the
\* children it asked for, whichever requests made them.
ReturnsWholeTree ==
    \A c \in Calls :
        call[c].step \in {"wakes", "returned"} =>
            LET v == call[c].rev
            IN  /\ claim[v].list = call[c].list
                /\ claim[v].made = [i \in DOMAIN issues[v] |-> issues[v][i].id]
                /\ Len(issues[v]) = Len(call[c].list)

\* A child that waits for nothing is woken, also when the request that made it
\* died before it woke anybody.
ChildrenAreWoken == \A id \in Ids : MayStart(id) ~> id \in woken

\* "If the prior attempt ended after partial child creation, the retry must
\* continue under the same fingerprint and preserve the already-created child
\* ids" (doc/execution-semantics.md): of two requests for the same revision and
\* the same children none is refused.
RetryContinues ==
    \A c \in Calls :
        call[c].step = "refused" /\ call[c].rev \in accepted
            => claim[call[c].rev].list # call[c].list
=============================================================================
