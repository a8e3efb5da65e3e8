------------------------------ MODULE PlanTree ------------------------------
(***************************************************************************)
(* What the decomposition of accepted plans promises, without claims, calls *)
(* or retries: "Accepted-Plan Decomposition" in doc/execution-semantics.md. *)
(* Each plan revision gets one list of children, and each of them is made   *)
(* exactly once.  PlanDecomposition is shown to implement it.               *)
(***************************************************************************)
EXTENDS Naturals, Sequences

CONSTANTS
    Revisions,   \* revisions of the plan documents
    Lists        \* lists of children that may be asked for

VARIABLES
    plan,   \* the list each revision was settled on, or <<>>
    tree    \* the children made for each revision, in order

Init ==
    /\ plan = [v \in Revisions |-> <<>>]
    /\ tree = [v \in Revisions |-> <<>>]

\* A revision is settled on a list, once and for all.
Settle(v) ==
    /\ plan[v] = <<>>
    /\ \E list \in Lists : plan' = [plan EXCEPT ![v] = list]
    /\ UNCHANGED tree

\* The next child of the list is made.
Grow(v) ==
    /\ Len(tree[v]) < Len(plan[v])
    /\ tree' = [tree EXCEPT ![v] = Append(@, plan[v][Len(@) + 1])]
    /\ UNCHANGED plan

Next == \E v \in Revisions : Settle(v) \/ Grow(v)

Spec == Init /\ [][Next]_<<plan, tree>>
=============================================================================
