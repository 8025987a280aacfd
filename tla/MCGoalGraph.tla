----------------------------- MODULE MCGoalGraph -----------------------------
(***************************************************************************)
(* Two independent nodes and a third that needs both.                      *)
(***************************************************************************)
EXTENDS GoalGraph

CONSTANTS a, b, c

MCNode == {a, b, c}
MCDep == [n \in MCNode |-> IF n = c THEN {a, b} ELSE {}]
=============================================================================
