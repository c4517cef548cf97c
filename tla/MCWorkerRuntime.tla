--------------------------- MODULE MCWorkerRuntime ---------------------------
(* TLC instance of WorkerRuntime with unrestricted clients. *)
EXTENDS WorkerRuntime, TLC

CallerSymmetry == Permutations(Callers)
===============================================================================
