----------------------------- MODULE WorkerClaims -----------------------------
(***************************************************************************)
(* What the documentation of the worker runtime says and the code does not *)
(* do.                                                                     *)
(***************************************************************************)
EXTENDS MCWorkerRuntime

SpentByItself(s) ==
  sups[s].status = "failed" /\ Cardinality(AutoRunsSinceAsked(s)) = MaxRestarts

(* "After maxRestarts (default 50) failed attempts the worker is marked     *)
(* failed and the supervisor stops scheduling restarts.  A subsequent POST  *)
(* /workers/:id/start resets the counter" (worker-runtime README.md 104):   *)
(* a worker that failed after MaxRestarts restarts of the supervisor's own  *)
(* has all of them again once it is started.                                *)
StartResetsCounter ==
  [][(registry # 0 /\ SpentByItself(registry) /\ Start)
       => sups'[registry].restarts = 0]_vars
===============================================================================
