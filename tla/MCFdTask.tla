------------------------------ MODULE MCFdTask ------------------------------
(* Model-checking instances of the descriptor and timer task.              *)
EXTENDS FdTask

(* The wall clock is set back by a tick.                                   *)
MCSteps == {-1}

Symmetry == Permutations(Client)
=============================================================================
