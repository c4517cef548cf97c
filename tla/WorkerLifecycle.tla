--------------------------- MODULE WorkerLifecycle ---------------------------
(***************************************************************************)
(* What services/worker-runtime promises of one worker id (README.md,      *)
(* "Lifecycle" and "Stop semantics"; the status list of schema.ts): the    *)
(* diagram of its statuses, with at most one process, alive exactly while  *)
(* the worker is shown running, and with no launch, and no outcome but     *)
(* "stopped", once a stop has been asked for.                              *)
(***************************************************************************)
EXTENDS Naturals

VARIABLES
  phase,     \* the status shown, "none" while the id is not registered
  stopping,  \* a stop has been asked for since the last start
  procs      \* processes of the id, of any registration of it, still alive

vars == <<phase, stopping, procs>>

AtRest == {"stopped", "crashed", "failed"}

Init == phase = "none" /\ stopping = FALSE /\ procs = 0

Register ==
  /\ phase = "none"
  /\ phase' = "stopped"
  /\ UNCHANGED <<stopping, procs>>

(* By request, which withdraws an earlier stop, or by the restart timer. *)
Launch ==
  /\ phase \in AtRest
  /\ phase' = "starting" /\ stopping' = FALSE
  /\ UNCHANGED procs

Up ==
  /\ phase = "starting" /\ ~stopping
  /\ phase' = "running" /\ procs' = procs + 1
  /\ UNCHANGED stopping

Stop ==
  /\ stopping' = TRUE
  /\ \/ phase = "running" /\ phase' = phase
     \/ phase \in AtRest /\ phase' = "stopped"
  /\ UNCHANGED procs

(* A launch fails or the process exits. *)
Down ==
  /\ phase \in {"starting", "running"}
  /\ procs' = 0
  /\ phase' \in IF stopping THEN {"stopped"} ELSE AtRest
  /\ UNCHANGED stopping

Deregister ==
  /\ phase \in AtRest
  /\ phase' = "none" /\ stopping' = FALSE
  /\ UNCHANGED procs

Next == Register \/ Launch \/ Up \/ Stop \/ Down \/ Deregister

Spec == Init /\ [][Next]_vars

(* A process is alive exactly while the worker is shown running. *)
OneProcess == procs = IF phase = "running" THEN 1 ELSE 0

===============================================================================
