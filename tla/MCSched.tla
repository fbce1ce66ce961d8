------------------------------- MODULE MCSched -------------------------------
(* Model-checking instance of the scheduler with its history variables.    *)
EXTENDS SchedHist, TLC

Symmetry == Permutations(Task)
=============================================================================
