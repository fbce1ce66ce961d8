------------------------------- MODULE MCLocks -------------------------------
(* Model-checking instances of the locks: one Rendez with a lock and one   *)
(* without, and a reader-writer lock.                                      *)
EXTENDS Locks, TLC

CONSTANTS l1, r1, r2

MCGuard == (r1 :> l1) @@ (r2 :> NoLock)

Symmetry == Permutations(Task)
=============================================================================
