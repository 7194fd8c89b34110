------------------------------ MODULE MCLock ------------------------------
(***************************************************************************)
(* Two locks; the threads are interchangeable.                             *)
(***************************************************************************)
EXTENDS Lock, TLC

MCLocks == {0, 1}
Symmetry == Permutations(Threads)

=============================================================================
