--------------------------------- MODULE MCShm ---------------------------------
(* Shm for TLC: processes are interchangeable. *)
EXTENDS Shm, TLC

ProcSymmetry == Permutations(Procs)
=============================================================================
