----------------------------- MODULE PlanProofs -----------------------------
(***************************************************************************)
(* Theorems about PlanDecomposition, for any requests, revisions and lists  *)
(* of children.                                                             *)
(***************************************************************************)
EXTENDS PlanDecomposition, SequenceTheorems, TLAPS

-----------------------------------------------------------------------------
(* The inductive invariant.                                                 *)

\* A request that has passed the claim asks for what the claim was settled on.
CallsAgree ==
    \A c \in Calls :
        call[c].step \in {"loop", "wakes", "returned"} =>
            LET k == claim[call[c].rev]
            IN  /\ k # NoClaim
                /\ k.print = Fingerprint(c)
                /\ call[c].step # "loop" => k.status = "completed"

\* The claim knows the children that were made, in order; each is what the list
\* says at its position.  A fingerprint with fresh ids admits a single request.
ClaimKnowsIssues ==
    \A v \in Revisions :
        IF claim[v] = NoClaim THEN issues[v] = <<>>
        ELSE /\ claim[v].list = claim[v].print[1]
             /\ Len(issues[v]) = Len(claim[v].made)
             /\ \A i \in 1..Len(issues[v]) :
                    /\ issues[v][i].id = claim[v].made[i]
                    /\ issues[v][i].asks = claim[v].list[i]
                    /\ claim[v].print[4] # None =>
                            issues[v][i].id = <<claim[v].print[4], i>>

\* What a serialized request waits for first is a child of the source issue.
OpenExists == \A c \in Calls : call[c].open # None => call[c].open \in Made

PlanInv == TypeOK /\ CallsAgree /\ ClaimKnowsIssues /\ OpenExists

-----------------------------------------------------------------------------
(* Lists, ids and children.                                                 *)

\* No list is longer than MaxLen, and none is empty.
LEMMA MaxLenBounds ==
    /\ MaxLen \in Nat
    /\ \A list \in Lists : list \in Seq(Children) /\ Len(list) \in 1..MaxLen
<1> DEFINE lens == {Len(list) : list \in Lists}
<1>1. \A list \in Lists : list \in Seq(Children) /\ Len(list) \in Nat \ {0}
    BY PlanAssumption, EmptySeq, LenProperties
<1>2. \E n \in lens : \A list \in Lists : Len(list) <= n
    BY PlanAssumption
<1>3. MaxLen \in lens /\ \A list \in Lists : Len(list) <= MaxLen
    BY <1>2 DEF MaxLen
<1> QED BY <1>1, <1>3

\* What the types say of a request that has begun.
LEMMA CallFields ==
    ASSUME TypeOK, NEW c \in Calls, call[c].step # "idle"
    PROVE  /\ call[c] \in CallRecords
           /\ call[c].rev \in Revisions /\ call[c].list \in Lists /\ call[c].run \in Runs
           /\ call[c].open \in Ids \cup {None} /\ call[c].new \in SUBSET Ids
           /\ Len(call[c].list) \in 1..MaxLen /\ call[c].list \in Seq(Children)
           /\ Fingerprint(c) \in Fingerprints
           /\ Fingerprint(c)[1] = call[c].list
<1>1. call[c] \in CallRecords BY DEF TypeOK, NoCall
<1>2. call[c].list \in Lists BY <1>1 DEF CallRecords
<1>3. Len(call[c].list) \in 1..MaxLen /\ call[c].list \in Seq(Children)
    BY <1>2, MaxLenBounds
<1>4. Fingerprint(c) \in Fingerprints BY <1>1 DEF Fingerprint, Fingerprints, CallRecords
<1> QED BY <1>1, <1>2, <1>3, <1>4 DEF CallRecords, Fingerprint

\* Steps that change only the progress of one request keep its fingerprint.
LEMMA MovesKeepFingerprint ==
    ASSUME TypeOK, NEW c \in Calls, call[c].step # "idle",
           NEW step \in {"loop", "wakes", "returned", "refused", "failed"},
           call' = [call EXCEPT ![c].step = step]
    PROVE  /\ call' \in [Calls -> CallRecords \cup {NoCall}]
           /\ call'[c].step = step
           /\ \A d \in Calls : /\ d # c => call'[d] = call[d]
                               /\ Fingerprint(d)' = Fingerprint(d)
                               /\ call'[d].rev = call[d].rev
                               /\ call'[d].list = call[d].list
                               /\ call'[d].open = call[d].open
<1>1. call[c] \in CallRecords BY CallFields
<1>2. [call[c] EXCEPT !.step = step] \in CallRecords BY <1>1 DEF CallRecords
<1>3. call' = [call EXCEPT ![c] = [call[c] EXCEPT !.step = step]] OBVIOUS
<1>4. call' \in [Calls -> CallRecords \cup {NoCall}] BY <1>2, <1>3 DEF TypeOK
<1>5. call'[c] = [call[c] EXCEPT !.step = step] BY <1>3 DEF TypeOK
<1>6. \A d \in Calls : d # c => call'[d] = call[d] BY <1>3 DEF TypeOK
<1>7. /\ call'[c].step = step /\ call'[c].rev = call[c].rev /\ call'[c].list = call[c].list
      /\ call'[c].open = call[c].open /\ call'[c].run = call[c].run
    BY <1>1, <1>5 DEF CallRecords
<1> QED BY <1>4, <1>6, <1>7 DEF Fingerprint

-----------------------------------------------------------------------------
(* The steps.                                                               *)

\* A step that changes neither the claims nor the issues keeps the invariant, if a
\* request goes into the loop or out of it only as the claim allows.
LEMMA QuietStep ==
    ASSUME PlanInv, TypeOK', UNCHANGED <<claim, issues>>,
           \A c \in Calls :
               /\ call'[c].open = call[c].open
               /\ call'[c].step \in {"loop", "wakes", "returned"} =>
                    /\ call'[c].rev = call[c].rev
                    /\ Fingerprint(c)' = Fingerprint(c)
                    /\ call[c].step \in {"loop", "wakes", "returned"}
                    /\ call[c].step = "loop" /\ call'[c].step # "loop" => Finished(c)
    PROVE  PlanInv'
<1>1. CallsAgree' BY DEF PlanInv, CallsAgree, Finished
<1>2. ClaimKnowsIssues' BY DEF PlanInv, ClaimKnowsIssues
<1>3. OpenExists' BY DEF PlanInv, OpenExists, Made
<1> QED BY <1>1, <1>2, <1>3 DEF PlanInv

LEMMA AskStep ==
    ASSUME PlanInv, NEW c \in Calls, NEW v \in Revisions, NEW list \in Lists, NEW r \in Runs,
           NEW open \in Ids \cup {None}, Ask(c, v, list, r, open)
    PROVE  PlanInv'
<1> DEFINE new == [step |-> "entered", rev |-> v, list |-> list, run |-> r, open |-> open,
                   new |-> {}]
<1>1. new \in CallRecords BY DEF CallRecords
<1>2. call' = [call EXCEPT ![c] = new] /\ UNCHANGED <<accepted, claim, issues, ended, woken>>
    BY DEF Ask
<1>3. TypeOK' BY <1>1, <1>2 DEF PlanInv, TypeOK
<1>4. call'[c] = new /\ \A d \in Calls \ {c} : call'[d] = call[d]
    BY <1>2 DEF PlanInv, TypeOK
<1>5. CallsAgree'
    <2>1. call'[c].step = "entered" BY <1>4
    <2>2. \A d \in Calls \ {c} : Fingerprint(d)' = Fingerprint(d) BY <1>4 DEF Fingerprint
    <2> QED BY <1>2, <1>4, <2>1, <2>2 DEF PlanInv, CallsAgree
<1>6. ClaimKnowsIssues' BY <1>2 DEF PlanInv, ClaimKnowsIssues
<1>7. OpenExists'
    <2>1. open # None => open \in Made BY DEF Ask
    <2> QED BY <1>2, <1>4, <2>1 DEF PlanInv, OpenExists, Made
<1> QED BY <1>3, <1>5, <1>6, <1>7 DEF PlanInv

\* The first transaction.
LEMMA ClaimStep ==
    ASSUME PlanInv, NEW c \in Calls, Claim(c)
    PROVE  PlanInv'
<1> DEFINE v == call[c].rev
           new == [status |-> "in_flight", print |-> Fingerprint(c), list |-> call[c].list,
                   made |-> <<>>, owner |-> call[c].run]
<1>0. TypeOK /\ CallsAgree /\ ClaimKnowsIssues /\ OpenExists BY DEF PlanInv
<1>1. /\ call[c].step = "entered" /\ v \in Revisions /\ call[c].list \in Lists
      /\ Len(call[c].list) > 0
      /\ UNCHANGED <<accepted, issues, ended, woken>>
    BY <1>0, CallFields DEF Claim
<1>2. new \in ClaimRecords /\ ClaimOK(new) /\ new # NoClaim
    BY <1>0, <1>1, CallFields, EmptySeq DEF ClaimRecords, ClaimOK, NoClaim
\* The revision is settled by this request.
<1>3. CASE v \in accepted /\ claim[v] = NoClaim
    <2>1. claim' = [claim EXCEPT ![v] = new] /\ call' = [call EXCEPT ![c].step = "loop"]
        BY <1>3 DEF Claim, Goes
    <2> HIDE DEF new
    <2>2. TypeOK'
        BY <1>0, <1>1, <1>2, <2>1, MovesKeepFingerprint DEF TypeOK
    <2>3. CallsAgree'
        <3>1. \A d \in Calls : Fingerprint(d)' = Fingerprint(d) /\ call'[d].rev = call[d].rev
            BY <1>0, <1>1, <2>1, MovesKeepFingerprint
        <3>2. claim'[v].print = Fingerprint(c) /\ claim'[v] # NoClaim
            BY <1>0, <1>1, <1>2, <2>1 DEF TypeOK, new
        <3>3. ASSUME NEW d \in Calls, d # c,
                     call[d].step \in {"loop", "wakes", "returned"}
              PROVE  call[d].rev # v /\ claim'[call[d].rev] = claim[call[d].rev]
            <4>1. call[d].rev # v BY <1>0, <1>3, <3>3 DEF CallsAgree
            <4>2. call[d].rev \in Revisions BY <1>0, <3>3, CallFields
            <4> QED BY <1>0, <2>1, <4>1, <4>2 DEF TypeOK
        <3>4. call'[c].step = "loop" /\ \A d \in Calls \ {c} : call'[d] = call[d]
            BY <1>0, <1>1, <2>1, MovesKeepFingerprint
        <3> QED BY <1>0, <3>1, <3>2, <3>3, <3>4 DEF CallsAgree
    <2>4. ClaimKnowsIssues'
        <3>1. issues[v] = <<>> BY <1>0, <1>1, <1>3 DEF ClaimKnowsIssues
        <3>2. claim'[v] = new /\ \A o \in Revisions \ {v} : claim'[o] = claim[o]
            BY <1>0, <1>1, <2>1 DEF TypeOK
        <3>3. new.list = new.print[1] /\ new.made = <<>> /\ new # NoClaim
            BY <1>0, <1>1, <1>2, CallFields DEF new
        <3> QED BY <1>0, <1>1, <3>1, <3>2, <3>3 DEF ClaimKnowsIssues
    <2>5. OpenExists'
        BY <1>0, <1>1, <2>1, MovesKeepFingerprint DEF OpenExists, Made
    <2> QED BY <2>2, <2>3, <2>4, <2>5 DEF PlanInv
\* The request repeats the one that settled it.
<1>4. CASE v \in accepted /\ claim[v] # NoClaim /\ claim[v].print = Fingerprint(c)
    <2>1. claim' = claim /\ call' = [call EXCEPT ![c].step = "loop"]
        BY <1>4 DEF Claim, Goes
    <2>2. TypeOK' BY <1>0, <1>1, <2>1, MovesKeepFingerprint DEF TypeOK
    <2>3. CallsAgree'
        <3>1. \A d \in Calls : Fingerprint(d)' = Fingerprint(d) /\ call'[d].rev = call[d].rev
            BY <1>0, <1>1, <2>1, MovesKeepFingerprint
        <3>2. call'[c].step = "loop" /\ \A d \in Calls \ {c} : call'[d] = call[d]
            BY <1>0, <1>1, <2>1, MovesKeepFingerprint
        <3> QED BY <1>0, <1>4, <2>1, <3>1, <3>2 DEF CallsAgree
    <2>4. ClaimKnowsIssues' BY <1>0, <1>1, <2>1 DEF ClaimKnowsIssues
    <2>5. OpenExists'
        BY <1>0, <1>1, <2>1, MovesKeepFingerprint DEF OpenExists, Made
    <2> QED BY <2>2, <2>3, <2>4, <2>5 DEF PlanInv
<1>5. CASE ~(v \in accepted /\ (claim[v] = NoClaim \/ claim[v].print = Fingerprint(c)))
    <2>1. claim' = claim /\ call' = [call EXCEPT ![c].step = "refused"]
        BY <1>5 DEF Claim, Goes
    <2>2. TypeOK' BY <1>0, <1>1, <2>1, MovesKeepFingerprint DEF TypeOK
    <2> QED BY <1>1, <1>0, <2>1, <2>2, QuietStep, MovesKeepFingerprint
<1> QED BY <1>3, <1>4, <1>5

\* What a transaction of the loop starts from, and the child that it makes.
LEMMA LoopFacts ==
    ASSUME PlanInv, NEW c \in Calls, call[c].step = "loop", ~Finished(c)
    PROVE  LET v == call[c].rev
           IN  /\ v \in Revisions /\ claim[v] \in ClaimRecords /\ claim[v] # NoClaim
               /\ ClaimOK(claim[v])
               /\ claim[v].list = call[c].list /\ claim[v].print = Fingerprint(c)
               /\ issues[v] \in Seq(IssueRecords) /\ claim[v].made \in Seq(Ids)
               /\ Len(issues[v]) = Len(claim[v].made) /\ Len(issues[v]) \in Nat
               /\ Cursor(c) = Len(issues[v]) + 1
               /\ Cursor(c) \in 1..Len(call[c].list)
               /\ <<c, Cursor(c)>> \in Ids
               /\ Child(c, Cursor(c)) \in IssueRecords
<1> DEFINE v == call[c].rev
<1>0. TypeOK /\ CallsAgree /\ ClaimKnowsIssues /\ call[c].step # "idle" BY DEF PlanInv
<1>1. /\ v \in Revisions /\ claim[v] # NoClaim /\ claim[v].print = Fingerprint(c)
    BY <1>0, CallFields DEF CallsAgree
<1>2. /\ claim[v] \in ClaimRecords /\ ClaimOK(claim[v]) /\ issues[v] \in Seq(IssueRecords)
    BY <1>0, <1>1 DEF TypeOK
<1>3. /\ claim[v].list = call[c].list /\ Len(issues[v]) = Len(claim[v].made)
    BY <1>0, <1>1, CallFields DEF ClaimKnowsIssues
<1>4. claim[v].made \in Seq(Ids) /\ claim[v].status \in {"in_flight", "completed"}
    BY <1>2 DEF ClaimRecords
<1>5. Len(issues[v]) \in Nat BY <1>2, LenProperties
<1>6. Len(call[c].list) \in 1..MaxLen /\ call[c].list \in Seq(Children) /\ MaxLen \in Nat
    BY <1>0, CallFields, MaxLenBounds
<1>7. Cursor(c) = Len(issues[v]) + 1 BY <1>3 DEF Cursor
<1>8. Cursor(c) \in 1..Len(call[c].list)
    <2>1. Len(claim[v].made) <= Len(call[c].list) /\ Len(claim[v].made) # Len(call[c].list)
        BY <1>2, <1>3 DEF ClaimOK, Finished
    <2>2. Len(issues[v]) < Len(call[c].list)
        BY <1>3, <1>5, <1>6, <2>1
    <2> QED BY <1>5, <1>6, <1>7, <2>2
<1>9. <<c, Cursor(c)>> \in Ids BY <1>6, <1>8 DEF Ids
<1>10. Child(c, Cursor(c)) \in IssueRecords
    <2>1. call[c].list[Cursor(c)] \in Children BY <1>6, <1>8, ElementOfSeq
    <2>2. Cursor(c) # 1 => <<c, Cursor(c) - 1>> \in Ids BY <1>6, <1>8 DEF Ids
    <2>3. call[c].open \in Ids \cup {None} BY <1>0, CallFields
    <2> QED BY <1>9, <2>1, <2>2, <2>3 DEF Child, IssueRecords
<1> QED BY <1>1, <1>2, <1>3, <1>4, <1>5, <1>7, <1>8, <1>9, <1>10

\* What it writes.
LEMMA MakeChildEffect ==
    ASSUME PlanInv, NEW c \in Calls, MakeChild(c)
    PROVE  LET v == call[c].rev
               n == Cursor(c)
           IN  /\ call[c].step = "loop" /\ ~Finished(c)
               /\ issues' = [issues EXCEPT ![v] = Append(issues[v], Child(c, n))]
               /\ issues'[v] = Append(issues[v], Child(c, n))
               /\ issues' \in [Revisions -> Seq(IssueRecords)]
               /\ \A o \in Revisions \ {v} : issues'[o] = issues[o] /\ claim'[o] = claim[o]
               /\ claim' \in [Revisions -> ClaimRecords \cup {NoClaim}]
               /\ claim'[v].made = Append(claim[v].made, <<c, n>>)
               /\ claim'[v].list = claim[v].list /\ claim'[v].print = claim[v].print
               /\ claim'[v] # NoClaim /\ ClaimOK(claim'[v])
               /\ call' \in [Calls -> CallRecords \cup {NoCall}]
               /\ \A d \in Calls : /\ d # c => call'[d] = call[d]
                                   /\ call'[d].step = call[d].step
                                   /\ call'[d].rev = call[d].rev
                                   /\ call'[d].open = call[d].open
                                   /\ Fingerprint(d)' = Fingerprint(d)
<1> DEFINE v == call[c].rev
           n == Cursor(c)
           k == [claim[v] EXCEPT !.made = Append(@, <<c, n>>),
                                 !.status = Status(c, Len(claim[v].made) + 1),
                                 !.owner = NextOwner(c)]
           a == [call[c] EXCEPT !.new = @ \cup {<<c, n>>}]
<1>0. TypeOK /\ call[c].step = "loop" /\ ~Finished(c)
    BY DEF PlanInv, MakeChild
<1>1. /\ v \in Revisions /\ claim[v] \in ClaimRecords /\ issues[v] \in Seq(IssueRecords)
      /\ claim[v].made \in Seq(Ids) /\ <<c, n>> \in Ids /\ Child(c, n) \in IssueRecords
      /\ claim[v].list = call[c].list /\ ClaimOK(claim[v])
      /\ Len(claim[v].made) \in Nat /\ n = Len(claim[v].made) + 1 /\ n \in 1..Len(call[c].list)
    BY <1>0, LoopFacts
<1>2. /\ issues' = [issues EXCEPT ![v] = Append(issues[v], Child(c, n))]
      /\ claim' = [claim EXCEPT ![v] = k]
      /\ call' = [call EXCEPT ![c] = a]
    BY DEF MakeChild
<1>3. /\ Append(issues[v], Child(c, n)) \in Seq(IssueRecords)
      /\ Append(claim[v].made, <<c, n>>) \in Seq(Ids)
      /\ Len(Append(claim[v].made, <<c, n>>)) = n
    BY <1>1, AppendProperties
<1>4. NextOwner(c) \in Runs
    BY <1>0, <1>1, CallFields DEF NextOwner, ClaimRecords
<1>5. /\ k \in ClaimRecords
      /\ k.made = Append(claim[v].made, <<c, n>>)
      /\ k.list = claim[v].list /\ k.print = claim[v].print
      /\ k.status = Status(c, n)
    <2> HIDE DEF n
    <2>1. Status(c, Len(claim[v].made) + 1) = Status(c, n) BY <1>1
    <2>2. Status(c, n) \in {"in_flight", "completed"} BY DEF Status
    <2> QED BY <1>1, <1>3, <1>4, <2>1, <2>2 DEF ClaimRecords
<1>6. ClaimOK(k) /\ k # NoClaim
    <2>1. Len(call[c].list) \in Nat BY <1>0, CallFields, MaxLenBounds
    <2> HIDE DEF k
    <2>2. Len(k.made) = n /\ k.list = call[c].list BY <1>1, <1>3, <1>5
    <2> QED BY <1>1, <1>5, <2>1, <2>2 DEF ClaimOK, Status, NoClaim
<1>7. a \in CallRecords /\ a.step = call[c].step /\ a.rev = call[c].rev
      /\ a.open = call[c].open /\ a.list = call[c].list /\ a.run = call[c].run
    BY <1>0, <1>1, CallFields DEF CallRecords
<1> HIDE DEF k, a
<1>8. /\ claim' \in [Revisions -> ClaimRecords \cup {NoClaim}] /\ claim'[v] = k
      /\ call' \in [Calls -> CallRecords \cup {NoCall}] /\ call'[c] = a
      /\ issues' \in [Revisions -> Seq(IssueRecords)]
      /\ issues'[v] = Append(issues[v], Child(c, n))
    BY <1>0, <1>1, <1>2, <1>3, <1>5, <1>7 DEF TypeOK
<1>9. /\ \A o \in Revisions \ {v} : issues'[o] = issues[o] /\ claim'[o] = claim[o]
      /\ \A d \in Calls \ {c} : call'[d] = call[d]
    BY <1>0, <1>1, <1>2 DEF TypeOK
<1>10. \A d \in Calls : Fingerprint(d)' = Fingerprint(d)
    BY <1>7, <1>8, <1>9 DEF Fingerprint
<1> QED BY <1>0, <1>2, <1>5, <1>6, <1>7, <1>8, <1>9, <1>10

LEMMA MakeChildStep ==
    ASSUME PlanInv, NEW c \in Calls, MakeChild(c)
    PROVE  PlanInv'
<1> DEFINE v == call[c].rev
           n == Cursor(c)
<1>0. TypeOK /\ CallsAgree /\ ClaimKnowsIssues /\ OpenExists BY DEF PlanInv
<1>1. /\ call[c].step = "loop" /\ ~Finished(c)
      /\ issues'[v] = Append(issues[v], Child(c, n))
      /\ \A o \in Revisions \ {v} : issues'[o] = issues[o] /\ claim'[o] = claim[o]
    BY MakeChildEffect
<1>2. /\ v \in Revisions /\ issues[v] \in Seq(IssueRecords) /\ claim[v].made \in Seq(Ids)
      /\ claim[v] # NoClaim /\ claim[v].list = call[c].list
      /\ claim[v].print = Fingerprint(c)
      /\ Len(issues[v]) = Len(claim[v].made) /\ Len(issues[v]) \in Nat
      /\ n = Len(issues[v]) + 1 /\ n \in 1..Len(call[c].list)
      /\ <<c, n>> \in Ids /\ Child(c, n) \in IssueRecords
    BY <1>1, LoopFacts
<1>3. /\ Len(issues'[v]) = n /\ Len(claim'[v].made) = n
      /\ issues'[v][n] = Child(c, n) /\ claim'[v].made[n] = <<c, n>>
      /\ \A i \in 1..Len(issues[v]) :
            issues'[v][i] = issues[v][i] /\ claim'[v].made[i] = claim[v].made[i]
    <2>1. claim'[v].made = Append(claim[v].made, <<c, n>>) BY MakeChildEffect
    <2> HIDE DEF n, v
    <2> QED BY <1>1, <1>2, <2>1, AppendProperties
<1>4. TypeOK'
    <2>1. \A o \in Revisions : claim'[o] # NoClaim => ClaimOK(claim'[o])
        BY <1>0, <1>1, MakeChildEffect DEF TypeOK
    <2>2. UNCHANGED <<accepted, ended, woken>> BY DEF MakeChild
    <2> QED BY <1>0, <2>1, <2>2, MakeChildEffect DEF TypeOK
<1>5. CallsAgree'
    <2> SUFFICES ASSUME NEW d \in Calls, call'[d].step \in {"loop", "wakes", "returned"}
                 PROVE  /\ claim'[call'[d].rev] # NoClaim
                        /\ claim'[call'[d].rev].print = Fingerprint(d)'
                        /\ call'[d].step # "loop" =>
                                claim'[call'[d].rev].status = "completed"
        BY DEF CallsAgree
    <2>1. /\ call'[d].step = call[d].step /\ call'[d].rev = call[d].rev
          /\ Fingerprint(d)' = Fingerprint(d)
        BY MakeChildEffect
    <2>2. /\ claim[call[d].rev] # NoClaim /\ claim[call[d].rev].print = Fingerprint(d)
          /\ call[d].step # "loop" => claim[call[d].rev].status = "completed"
        BY <1>0, <2>1 DEF CallsAgree
    <2>3. CASE call[d].rev = v
        <3>1. claim'[v] # NoClaim /\ claim'[v].print = claim[v].print BY MakeChildEffect
        <3>2. call[d].step = "loop" BY <1>1, <2>2, <2>3 DEF Finished
        <3> QED BY <2>1, <2>2, <2>3, <3>1, <3>2
    <2>4. CASE call[d].rev # v
        <3>1. call[d].rev \in Revisions BY <1>0, <2>1, CallFields
        <3> QED BY <1>1, <2>1, <2>2, <2>4, <3>1
    <2> QED BY <2>3, <2>4
<1>6. ClaimKnowsIssues'
    <2>1. /\ claim'[v] # NoClaim /\ claim'[v].list = claim[v].list
          /\ claim'[v].print = claim[v].print
        BY MakeChildEffect
    <2>2. claim[v].list = claim[v].print[1] BY <1>0, <1>2 DEF ClaimKnowsIssues
    <2>3. ASSUME NEW i \in 1..n
          PROVE  /\ issues'[v][i].id = claim'[v].made[i]
                 /\ issues'[v][i].asks = claim'[v].list[i]
                 /\ claim'[v].print[4] # None =>
                        issues'[v][i].id = <<claim'[v].print[4], i>>
        <3>1. CASE i = n
            <4>1. Child(c, n).id = <<c, n>> /\ Child(c, n).asks = call[c].list[n]
                BY DEF Child
            <4>2. Fingerprint(c)[4] # None => Fingerprint(c)[4] = c BY DEF Fingerprint
            <4> HIDE DEF n, v
            <4> QED BY <1>2, <1>3, <2>1, <3>1, <4>1, <4>2
        <3>2. CASE i # n
            <4>1. i \in 1..Len(issues[v]) BY <1>2, <3>2
            <4> HIDE DEF n, v
            <4> QED BY <1>0, <1>2, <1>3, <2>1, <4>1 DEF ClaimKnowsIssues
        <3> QED BY <3>1, <3>2
    <2>4. ASSUME NEW o \in Revisions, o # v
          PROVE  issues'[o] = issues[o] /\ claim'[o] = claim[o]
        BY <1>1, <2>4
    <2>5. Len(issues'[v]) = n /\ Len(issues'[v]) = Len(claim'[v].made)
          /\ claim'[v].list = claim'[v].print[1]
        BY <1>3, <2>1, <2>2
    <2> HIDE DEF n, v
    <2> SUFFICES ASSUME NEW o \in Revisions
                 PROVE  IF claim'[o] = NoClaim THEN issues'[o] = <<>>
                        ELSE /\ claim'[o].list = claim'[o].print[1]
                             /\ Len(issues'[o]) = Len(claim'[o].made)
                             /\ \A i \in 1..Len(issues'[o]) :
                                    /\ issues'[o][i].id = claim'[o].made[i]
                                    /\ issues'[o][i].asks = claim'[o].list[i]
                                    /\ claim'[o].print[4] # None =>
                                            issues'[o][i].id = <<claim'[o].print[4], i>>
        BY DEF ClaimKnowsIssues
    <2>6. CASE o = v BY <2>1, <2>3, <2>5, <2>6
    <2>7. CASE o # v BY <1>0, <2>4, <2>7 DEF ClaimKnowsIssues
    <2> QED BY <2>6, <2>7
<1>7. OpenExists'
    <2>1. Made \subseteq Made'
        <3> SUFFICES ASSUME NEW o \in Revisions, NEW i \in DOMAIN issues[o]
                     PROVE  /\ i \in DOMAIN issues'[o]
                            /\ issues'[o][i].id = issues[o][i].id
            BY DEF Made
        <3>1. CASE o = v
            <4>1. DOMAIN issues[v] = 1..Len(issues[v]) BY <1>2, LenProperties
            <4>2. issues'[v] \in Seq(IssueRecords) BY <1>2, MakeChildEffect
            <4>3. DOMAIN issues'[v] = 1..n BY <1>3, <4>2, LenProperties
            <4> HIDE DEF n, v
            <4> QED BY <1>2, <1>3, <3>1, <4>1, <4>3
        <3>2. CASE o # v BY <1>1, <3>2
        <3> QED BY <3>1, <3>2
    <2> QED BY <1>0, <2>1, MakeChildEffect DEF OpenExists
<1> QED BY <1>4, <1>5, <1>6, <1>7 DEF PlanInv

\* A request leaves the loop, fails or wakes the children it made.
LEMMA MoveStep ==
    ASSUME PlanInv, NEW c \in Calls,
           \/ LeaveLoop(c) \/ Fail(c)
           \/ \E refused \in SUBSET call[c].new : WakeNew(c, refused)
    PROVE  PlanInv'
<1> DEFINE step == call'[c].step
<1>0. TypeOK BY DEF PlanInv
<1>1. PICK s \in {"wakes", "failed", "returned"} :
        /\ call' = [call EXCEPT ![c].step = s]
        /\ call[c].step \in {"loop", "wakes"}
        /\ s # "failed" /\ call[c].step = "loop" => Finished(c)
    BY DEF LeaveLoop, Fail, WakeNew, Goes
<1>2. UNCHANGED <<accepted, claim, issues, ended>> BY DEF LeaveLoop, Fail, WakeNew
<1>3. woken' \subseteq Ids
    BY <1>0, CallFields DEF LeaveLoop, Fail, WakeNew, TypeOK
<1>4. /\ call' \in [Calls -> CallRecords \cup {NoCall}] /\ call'[c].step = s
      /\ \A d \in Calls : /\ d # c => call'[d] = call[d]
                          /\ Fingerprint(d)' = Fingerprint(d)
                          /\ call'[d].rev = call[d].rev
                          /\ call'[d].open = call[d].open
    BY <1>0, <1>1, MovesKeepFingerprint
<1>5. TypeOK' BY <1>0, <1>2, <1>3, <1>4 DEF TypeOK
<1> QED BY <1>1, <1>2, <1>4, <1>5, QuietStep

\* The server goes down.
LEMMA CrashStep ==
    ASSUME PlanInv, Crash
    PROVE  PlanInv'
<1>0. TypeOK BY DEF PlanInv
<1>1. ASSUME NEW c \in Calls
      PROVE  /\ call'[c] \in CallRecords \cup {NoCall}
             /\ call'[c].open = call[c].open
             /\ call'[c] = call[c] \/ call'[c].step = "failed"
             /\ call'[c].step = "returned" => call'[c] = call[c]
             /\ call'[c].step \notin {"loop", "wakes"}
    <2>1. CASE call[c].step \in {"entered", "loop", "wakes"}
        <3>1. call[c] \in CallRecords BY <1>0, <2>1, CallFields
        <3>2. call'[c] = [call[c] EXCEPT !.step = "failed"] BY <2>1 DEF Crash
        <3> QED BY <3>1, <3>2 DEF CallRecords
    <2>2. CASE call[c].step \notin {"entered", "loop", "wakes"}
        <3>1. call'[c] = call[c] BY <2>2 DEF Crash
        <3> QED BY <1>0, <2>2, <3>1 DEF TypeOK
    <2> QED BY <2>1, <2>2
<1>2. /\ UNCHANGED <<accepted, claim, issues, ended, woken>>
      /\ call' \in [Calls -> CallRecords \cup {NoCall}]
    BY <1>1 DEF Crash
<1>3. TypeOK' BY <1>0, <1>2 DEF TypeOK
<1>4. \A c \in Calls : call'[c] = call[c] => Fingerprint(c)' = Fingerprint(c)
    BY DEF Fingerprint
<1> QED BY <1>1, <1>2, <1>3, <1>4, QuietStep

\* Every step keeps the invariant.
LEMMA PlanStep ==
    ASSUME PlanInv, [Next]_vars
    PROVE  PlanInv'
<1>0. TypeOK BY DEF PlanInv
<1>1. ASSUME NEW v \in Revisions, Accept(v) PROVE PlanInv'
    <2>1. TypeOK' BY <1>0, <1>1 DEF Accept, TypeOK
    <2> QED BY <1>1, <2>1, QuietStep DEF Accept, PlanInv, CallsAgree, Fingerprint
<1>2. ASSUME NEW c \in Calls, NEW v \in Revisions, NEW list \in Lists, NEW r \in Runs,
             NEW open \in Ids \cup {None}, Ask(c, v, list, r, open)
      PROVE  PlanInv'
    BY <1>2, AskStep
<1>3. ASSUME NEW c \in Calls, CallStep(c) \/ Fail(c) PROVE PlanInv'
    BY <1>3, ClaimStep, MakeChildStep, MoveStep DEF CallStep
<1>4. ASSUME NEW v \in Revisions, NEW i \in 1..MaxLen, Dispatch(v, i) PROVE PlanInv'
    <2>1. issues[v][i].id \in Ids
        <3>1. issues[v] \in Seq(IssueRecords) /\ i \in DOMAIN issues[v]
            BY <1>0, <1>4 DEF TypeOK, Dispatch
        <3>2. issues[v][i] \in IssueRecords BY <3>1, LenProperties, ElementOfSeq
        <3> QED BY <3>2 DEF IssueRecords
    <2>2. TypeOK' BY <1>0, <1>4, <2>1 DEF Dispatch, TypeOK
    <2> QED BY <1>4, <2>2, QuietStep DEF Dispatch, PlanInv, CallsAgree, Fingerprint
<1>5. ASSUME NEW r \in Runs, RunEnds(r) PROVE PlanInv'
    <2>1. TypeOK' BY <1>0, <1>5 DEF RunEnds, TypeOK
    <2> QED BY <1>5, <2>1, QuietStep DEF RunEnds, PlanInv, CallsAgree, Fingerprint
<1>6. ASSUME Crash PROVE PlanInv' BY <1>6, CrashStep
<1>7. ASSUME UNCHANGED vars PROVE PlanInv'
    <2>1. TypeOK' BY <1>0, <1>7 DEF vars, TypeOK
    <2> QED BY <1>7, <2>1, QuietStep DEF vars, PlanInv, CallsAgree, Fingerprint
<1> QED BY <1>1, <1>2, <1>3, <1>4, <1>5, <1>6, <1>7 DEF Next

LEMMA PlanInit == Init => PlanInv
<1> SUFFICES ASSUME Init PROVE PlanInv OBVIOUS
<1>1. TypeOK
    <2>1. issues \in [Revisions -> Seq(IssueRecords)] BY EmptySeq DEF Init
    <2> QED BY <2>1 DEF Init, TypeOK
<1>2. CallsAgree BY DEF Init, CallsAgree, NoCall
<1>3. ClaimKnowsIssues BY DEF Init, ClaimKnowsIssues
<1>4. OpenExists BY DEF Init, OpenExists, NoCall
<1> QED BY <1>1, <1>2, <1>3, <1>4 DEF PlanInv

LEMMA PlanAlways == Spec => []PlanInv
BY PlanInit, PlanStep, PTL DEF Spec

-----------------------------------------------------------------------------
(* The theorems.                                                            *)

\* The claims, issues and requests have their types; a claim never has more
\* children than its list, and is complete when it has them all.
THEOREM TypeCorrect == Spec => []TypeOK
<1>1. PlanInv => TypeOK BY DEF PlanInv
<1> QED BY <1>1, PlanAlways, PTL

\* A request that returns reports the whole tree of its revision, also when the
\* children were made by other requests, in turns or before a crash.
THEOREM TreeIsWhole == Spec => []ReturnsWholeTree
<1>1. ASSUME PlanInv PROVE ReturnsWholeTree
    <2> SUFFICES ASSUME NEW c \in Calls, call[c].step \in {"wakes", "returned"}
                 PROVE  LET v == call[c].rev
                        IN  /\ claim[v].list = call[c].list
                            /\ claim[v].made = [i \in DOMAIN issues[v] |-> issues[v][i].id]
                            /\ Len(issues[v]) = Len(call[c].list)
        BY DEF ReturnsWholeTree
    <2> DEFINE v == call[c].rev
    <2>0. TypeOK /\ CallsAgree /\ ClaimKnowsIssues BY <1>1 DEF PlanInv
    <2>1. /\ v \in Revisions /\ claim[v] # NoClaim /\ claim[v].print = Fingerprint(c)
          /\ claim[v].status = "completed" /\ Fingerprint(c)[1] = call[c].list
        BY <2>0, CallFields DEF CallsAgree
    <2>2. claim[v] \in ClaimRecords /\ ClaimOK(claim[v]) /\ issues[v] \in Seq(IssueRecords)
        BY <2>0, <2>1 DEF TypeOK
    <2>3. claim[v].made \in Seq(Ids) BY <2>2 DEF ClaimRecords
    <2>4. claim[v].list = call[c].list /\ Len(issues[v]) = Len(claim[v].made)
        BY <2>0, <2>1 DEF ClaimKnowsIssues
    <2>5. Len(issues[v]) = Len(call[c].list) BY <2>1, <2>2, <2>4 DEF ClaimOK
    <2>6. claim[v].made = [i \in 1..Len(claim[v].made) |-> claim[v].made[i]]
        BY <2>3, LenProperties
    <2>7. DOMAIN issues[v] = 1..Len(claim[v].made) BY <2>2, <2>4, LenProperties
    <2>8. \A i \in 1..Len(claim[v].made) : issues[v][i].id = claim[v].made[i]
        BY <2>0, <2>1, <2>4 DEF ClaimKnowsIssues
    <2> HIDE DEF v
    <2>9. claim[v].made = [i \in DOMAIN issues[v] |-> issues[v][i].id]
        BY <2>6, <2>7, <2>8
    <2> QED BY <2>4, <2>5, <2>9 DEF v
<1> QED BY <1>1, PlanAlways, PTL

\* One more child at the end takes nothing from the children before it.
LEMMA BlockersStep ==
    ASSUME PlanInv, PlanInv', BlockersExist, [Next]_vars
    PROVE  BlockersExist'
<1>0. TypeOK BY DEF PlanInv
<1>1. CASE issues' = issues BY <1>1 DEF BlockersExist
<1>2. ASSUME NEW c \in Calls, MakeChild(c) PROVE BlockersExist'
    <2> DEFINE v == call[c].rev
               n == Cursor(c)
    <2>1. /\ v \in Revisions /\ issues[v] \in Seq(IssueRecords) /\ claim[v] # NoClaim
          /\ claim[v].print = Fingerprint(c)
          /\ Len(issues[v]) \in Nat /\ n = Len(issues[v]) + 1 /\ n \in 1..Len(call[c].list)
          /\ Child(c, n) \in IssueRecords /\ call[c].step = "loop"
        BY <1>2, LoopFacts DEF MakeChild
    <2>2. /\ issues'[v] = Append(issues[v], Child(c, n))
          /\ \A o \in Revisions \ {v} : issues'[o] = issues[o]
          /\ issues' \in [Revisions -> Seq(IssueRecords)]
        BY <1>2, MakeChildEffect
    <2>3. /\ Len(issues'[v]) = n /\ issues'[v][n] = Child(c, n)
          /\ \A i \in 1..Len(issues[v]) : issues'[v][i] = issues[v][i]
        <3> HIDE DEF n, v
        <3> QED BY <2>1, <2>2, AppendProperties
    <2>4. /\ DOMAIN issues[v] = 1..(n - 1) /\ DOMAIN issues'[v] = 1..n
          /\ Len(issues[v]) = n - 1
        <3> HIDE DEF n, v
        <3>1. Len(issues[v]) = n - 1 BY <2>1
        <3> QED BY <2>1, <2>2, <2>3, <3>1, LenProperties
    \* The first child waits for an open child of another plan, the others for
    \* the child before: a fingerprint with fresh ids is of this request only.
    <2>5. ASSUME Child(c, n).blocker # None
          PROVE  \/ \E j \in 1..(n - 1) : issues[v][j].id = Child(c, n).blocker
                 \/ \E o \in Revisions \ {v} : \E j \in DOMAIN issues[o] :
                        issues[o][j].id = Child(c, n).blocker
        <3>1. c \in Serialized BY <2>5 DEF Child
        <3>2. CASE n = 1
            <4>1. Child(c, n).blocker = call[c].open BY <3>1, <3>2 DEF Child
            <4>2. call[c].open \in Made BY <2>5, <4>1 DEF PlanInv, OpenExists
            <4>3. PICK o \in Revisions : \E j \in DOMAIN issues[o] :
                                            issues[o][j].id = call[c].open
                BY <4>2 DEF Made
            <4>4. o # v BY <2>4, <3>2, <4>3
            <4> QED BY <4>1, <4>3, <4>4
        <3>3. CASE n # 1
            <4>0. Len(call[c].list) \in Nat BY <1>0, <2>1, CallFields, MaxLenBounds
            <4>1. Len(call[c].list) > 1 BY <2>1, <3>3, <4>0
            <4>2. claim[v].print[4] = c /\ c # None
                BY <2>1, <3>1, <4>1, PlanAssumption DEF Fingerprint
            <4>3. n - 1 \in 1..Len(issues[v]) BY <2>1, <3>3
            <4>4. issues[v][n - 1].id = <<c, n - 1>>
                <5> HIDE DEF n, v
                <5> QED BY <2>1, <4>2, <4>3 DEF PlanInv, ClaimKnowsIssues
            <4>5. Child(c, n).blocker = <<c, n - 1>> BY <3>1, <3>3 DEF Child
            <4>6. n - 1 \in 1..(n - 1) BY <2>1, <3>3
            <4> HIDE DEF n, v
            <4> QED BY <4>4, <4>5, <4>6
        <3> QED BY <3>2, <3>3
    <2> HIDE DEF n, v
    <2>6. ASSUME NEW w \in Revisions, NEW i \in DOMAIN issues'[w],
                 issues'[w][i].blocker # None
          PROVE  \/ \E j \in 1..(i - 1) : issues'[w][j].id = issues'[w][i].blocker
                 \/ \E o \in Revisions \ {w} : \E j \in DOMAIN issues'[o] :
                        issues'[o][j].id = issues'[w][i].blocker
        <3>0. \A o \in Revisions : \A j \in DOMAIN issues[o] :
                    j \in DOMAIN issues'[o] /\ issues'[o][j] = issues[o][j]
            <4>1. ASSUME NEW j \in 1..(n - 1)
                  PROVE  j \in 1..n /\ issues'[v][j] = issues[v][j]
                BY <2>1, <2>3, <2>4
            <4>2. \A o \in Revisions \ {v} : issues'[o] = issues[o] BY <2>2
            <4> QED BY <2>4, <4>1, <4>2
        <3>1. CASE i \in DOMAIN issues[w]
            <4>1. issues'[w][i] = issues[w][i] BY <3>0, <3>1
            <4>2. CASE \E j \in 1..(i - 1) : issues[w][j].id = issues[w][i].blocker
                <5>1. PICK j \in 1..(i - 1) : issues[w][j].id = issues[w][i].blocker
                    BY <4>2
                <5>2. j \in DOMAIN issues[w]
                    <6>1. issues[w] \in Seq(IssueRecords) BY <1>0 DEF TypeOK
                    <6>2. DOMAIN issues[w] = 1..Len(issues[w]) /\ Len(issues[w]) \in Nat
                        BY <6>1, LenProperties
                    <6> QED BY <3>1, <6>2
                <5> QED BY <3>0, <4>1, <5>1, <5>2
            <4>3. CASE \E o \in Revisions \ {w} : \E j \in DOMAIN issues[o] :
                            issues[o][j].id = issues[w][i].blocker
                BY <3>0, <4>1, <4>3
            <4> QED BY <2>6, <3>1, <4>1, <4>2, <4>3 DEF BlockersExist
        <3>2. CASE i \notin DOMAIN issues[w]
            <4>1. w = v /\ i = n BY <2>1, <2>2, <2>4, <3>2
            <4>2. issues'[w][i] = Child(c, n) BY <2>3, <4>1
            <4>3. CASE \E j \in 1..(n - 1) : issues[v][j].id = Child(c, n).blocker
                BY <2>4, <3>0, <4>1, <4>2, <4>3
            <4>4. CASE \E o \in Revisions \ {v} : \E j \in DOMAIN issues[o] :
                            issues[o][j].id = Child(c, n).blocker
                BY <3>0, <4>1, <4>2, <4>4
            <4> QED BY <2>5, <2>6, <4>2, <4>3, <4>4
        <3> QED BY <3>1, <3>2
    <2> QED BY <2>6 DEF BlockersExist
<1>3. (\E c \in Calls : MakeChild(c)) \/ issues' = issues
    BY DEF Next, CallStep, Accept, Ask, Claim, LeaveLoop, Fail, WakeNew, Dispatch, RunEnds,
           Crash, vars
<1> QED BY <1>1, <1>2, <1>3

\* A serialized child waits for a child that was made before it, whichever
\* requests made the children of the plan.
THEOREM BlockersAlwaysExist == Spec => []BlockersExist
<1>1. Init => BlockersExist BY DEF Init, BlockersExist
<1>2. PlanInv /\ PlanInv' /\ BlockersExist /\ [Next]_vars => BlockersExist'
    BY BlockersStep
<1> QED BY <1>1, <1>2, PlanAlways, PTL DEF Spec

\* A transaction of the loop is the next child of the abstract tree.
LEMMA MakeChildGrows ==
    ASSUME PlanInv, PlanInv', NEW c \in Calls, MakeChild(c)
    PROVE  Tree!Grow(call[c].rev)
<1> DEFINE v == call[c].rev
           n == Cursor(c)
           plan == [o \in Revisions |-> claim[o].list]
           tree == [o \in Revisions |-> [i \in DOMAIN issues[o] |-> issues[o][i].asks]]
<1>1. /\ v \in Revisions /\ issues[v] \in Seq(IssueRecords)
      /\ claim[v].list = call[c].list
      /\ Len(issues[v]) \in Nat /\ n = Len(issues[v]) + 1 /\ n \in 1..Len(call[c].list)
      /\ Child(c, n) \in IssueRecords
    BY LoopFacts DEF MakeChild
<1>2. /\ issues'[v] = Append(issues[v], Child(c, n))
      /\ \A o \in Revisions \ {v} : issues'[o] = issues[o] /\ claim'[o] = claim[o]
      /\ claim'[v].list = claim[v].list
    BY MakeChildEffect
<1>3. Len(call[c].list) \in Nat BY CallFields, MaxLenBounds DEF PlanInv, MakeChild
<1>4. tree[v] = [i \in 1..Len(issues[v]) |-> issues[v][i].asks]
    BY <1>1, LenProperties
<1>5. Len(tree[v]) = Len(issues[v]) /\ tree[v] \in Seq(Children)
    <2>1. \A i \in 1..Len(issues[v]) : issues[v][i].asks \in Children
        <3>1. \A i \in 1..Len(issues[v]) : issues[v][i] \in IssueRecords
            BY <1>1, ElementOfSeq
        <3> QED BY <3>1 DEF IssueRecords
    <2> QED BY <1>1, <1>4, <2>1
<1>6. plan' = plan BY <1>2
<1>7. tree'[v] = Append(tree[v], plan[v][Len(tree[v]) + 1])
    <2>1. Child(c, n).asks = call[c].list[n] BY DEF Child
    <2>2. plan[v][Len(tree[v]) + 1] = call[c].list[n] BY <1>1, <1>5
    <2>3. call[c].list[n] \in Children
        <3>1. call[c].list \in Seq(Children) BY CallFields DEF PlanInv, MakeChild
        <3> QED BY <1>1, <3>1, ElementOfSeq
    <2>4. Append(issues[v], Child(c, n)) \in Seq(IssueRecords) /\ Len(issues'[v]) = n
          /\ issues'[v][n] = Child(c, n)
          /\ \A i \in 1..Len(issues[v]) : issues'[v][i] = issues[v][i]
        <3> HIDE DEF n, v
        <3> QED BY <1>1, <1>2, AppendProperties
    <2>5. tree'[v] = [i \in 1..n |-> issues'[v][i].asks]
        <3>1. DOMAIN issues'[v] = 1..n
            <4> HIDE DEF n, v
            <4> QED BY <1>2, <2>4, LenProperties
        <3>2. tree'[v] = [i \in DOMAIN issues'[v] |-> issues'[v][i].asks]
            BY <1>1
        <3> QED BY <3>1, <3>2
    <2> HIDE DEF n, v
    <2>6. \A i \in 1..n : tree'[v][i] = IF i = n THEN call[c].list[n] ELSE tree[v][i]
        <3> HIDE DEF tree
        <3> QED BY <1>1, <1>4, <2>1, <2>4, <2>5
    <2> HIDE DEF tree, plan
    <2>7. tree'[v] \in Seq(Children) /\ Len(tree'[v]) = n
        <3>1. \A i \in 1..n : tree'[v][i] \in Children
            BY <1>1, <1>5, <2>3, <2>6, ElementOfSeq
        <3>2. tree'[v] = [i \in 1..n |-> tree'[v][i]] BY <2>5
        <3> QED BY <1>1, <3>1, <3>2
    <2>8. /\ Append(tree[v], call[c].list[n]) \in Seq(Children)
          /\ Len(Append(tree[v], call[c].list[n])) = n
          /\ Append(tree[v], call[c].list[n])[n] = call[c].list[n]
          /\ \A i \in 1..Len(tree[v]) : Append(tree[v], call[c].list[n])[i] = tree[v][i]
        BY <1>1, <1>5, <2>3, AppendProperties
    <2>9. \A i \in 1..n : Append(tree[v], call[c].list[n])[i] = tree'[v][i]
        BY <1>1, <1>5, <2>6, <2>8
    <2> QED BY <2>2, <2>7, <2>8, <2>9, SeqEqual
<1>8. \A o \in Revisions \ {v} : tree'[o] = tree[o] BY <1>2
<1>9. tree' = [tree EXCEPT ![v] = Append(tree[v], plan[v][Len(tree[v]) + 1])]
    BY <1>1, <1>7, <1>8
<1>10. Len(tree[v]) < Len(plan[v]) BY <1>1, <1>3, <1>5
<1> QED BY <1>6, <1>9, <1>10 DEF Tree!Grow

\* The decomposition implements the abstract tree: the request that claims a
\* revision settles its list, a transaction of the loop makes the next child of
\* that list, and no other step of any request changes either.
THEOREM PlanTreeImplemented == Spec => ImplementsPlanTree
<1> DEFINE plan == [o \in Revisions |-> claim[o].list]
           tree == [o \in Revisions |-> [i \in DOMAIN issues[o] |-> issues[o][i].asks]]
<1>1. Init => Tree!Init
    <2> SUFFICES ASSUME Init PROVE Tree!Init OBVIOUS
    <2>1. plan = [v \in Revisions |-> <<>>] BY DEF Init, NoClaim
    <2>2. \A v \in Revisions : issues[v] = <<>> BY DEF Init
    <2>3. tree = [v \in Revisions |-> <<>>] BY <2>2
    <2> QED BY <2>1, <2>3 DEF Tree!Init
<1>2. ASSUME PlanInv, PlanInv', [Next]_vars
      PROVE  [Tree!Next]_<<[v \in Revisions |-> claim[v].list],
                           [v \in Revisions |->
                               [i \in DOMAIN issues[v] |-> issues[v][i].asks]]>>
    <2>0. TypeOK BY <1>2 DEF PlanInv
    <2>1. CASE UNCHANGED <<claim, issues>> BY <2>1
    <2>2. ASSUME NEW c \in Calls, MakeChild(c) PROVE Tree!Next
        <3>1. call[c].rev \in Revisions BY <2>0, <2>2, CallFields DEF MakeChild
        <3> QED BY <1>2, <2>2, <3>1, MakeChildGrows DEF Tree!Next, Tree!Grow, Tree!Settle
    <2>3. ASSUME NEW c \in Calls, Claim(c), claim' # claim PROVE Tree!Next
        <3> DEFINE v == call[c].rev
                   new == [status |-> "in_flight", print |-> Fingerprint(c),
                           list |-> call[c].list, made |-> <<>>, owner |-> call[c].run]
        <3>1. v \in Revisions /\ call[c].list \in Lists BY <2>0, <2>3, CallFields DEF Claim
        <3>2. claim[v] = NoClaim /\ claim' = [claim EXCEPT ![v] = new] /\ issues' = issues
            BY <2>3 DEF Claim
        <3>3. plan[v] = <<>> BY <3>1, <3>2 DEF NoClaim
        <3>4. claim'[v].list = call[c].list /\ \A o \in Revisions \ {v} : claim'[o] = claim[o]
            BY <2>0, <3>1, <3>2 DEF TypeOK
        <3>5. plan' = [plan EXCEPT ![v] = call[c].list] BY <3>1, <3>4
        <3>6. tree' = tree BY <3>2
        <3>7. Tree!Settle(v) BY <3>1, <3>3, <3>5, <3>6 DEF Tree!Settle
        <3> QED BY <3>1, <3>7 DEF Tree!Next, Tree!Grow, Tree!Settle
    <2>4. \/ UNCHANGED <<claim, issues>>
          \/ \E c \in Calls : MakeChild(c) \/ (Claim(c) /\ claim' # claim)
        BY <1>2 DEF Next, CallStep, Accept, Ask, Claim, LeaveLoop, Fail, WakeNew, Dispatch,
                    RunEnds, Crash, vars
    <2> QED BY <2>1, <2>2, <2>3, <2>4
<1> QED BY <1>1, <1>2, PlanAlways, PTL DEF Spec, ImplementsPlanTree, Tree!Spec
=============================================================================
