---------------------------- MODULE MCWorkflowRun ----------------------------
(* An instance of WorkflowRun for TLC: an any-success join of one request    *)
(* and a join of two.                                                        *)
EXTENDS WorkflowRun, TLC

CONSTANTS top, both, one, left, right

Tree == {top, both, one, left, right}
BranchOf == both :> top @@ one :> top @@ left :> both @@ right :> both
RetryLeft == [n \in Tree |-> IF n = left THEN 2 ELSE 1]
=============================================================================
