------------------------ MODULE MCPlanDecomposition ------------------------
(* Small instances of PlanDecomposition.                                    *)
EXTENDS PlanDecomposition

CONSTANTS c1, c2, c3, v1, r1, r2, x, y

TwoLists == {<<x, y>>, <<x>>}
=============================================================================
