----------------------------- MODULE MCLockFile -----------------------------
(* Instances of LockFile for TLC; the runs are interchangeable. *)
EXTENDS LockFile, TLC

CONSTANTS p1, p2, p3

Symmetric == Permutations(Procs)
=============================================================================
