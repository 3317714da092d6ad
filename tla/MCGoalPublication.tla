-------------------------- MODULE MCGoalPublication -------------------------
(* Instances of GoalPublication for TLC.                                    *)
EXTENDS GoalPublication
=============================================================================
