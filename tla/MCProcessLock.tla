--------------------------- MODULE MCProcessLock ---------------------------
(* ProcessLock for TLC: the processes are interchangeable. *)
EXTENDS ProcessLock, TLC

Processes == Permutations(Procs)
=============================================================================
