------------------------- MODULE WorkerRuntimeSerial -------------------------
(***************************************************************************)
(* WorkerRuntime under the discipline of a client that reads the status    *)
(* before it asks: no request is made while another one waits or while the *)
(* worker is starting.  The runtime does not enforce it; with it, it keeps *)
(* every promise of WorkerLifecycle.                                       *)
(***************************************************************************)
EXTENDS WorkerRuntime

Quiet == Waiting = {} /\ Launching = {}

SerialNext == (Quiet /\ Request) \/ Internal

SerialSpec == Init /\ [][SerialNext]_vars

FairSerialSpec == SerialSpec /\ Fairness

Shown == sups[registry]

Lifecycle == INSTANCE WorkerLifecycle WITH
  phase    <- IF registry = 0 THEN "none" ELSE Shown.status,
  stopping <- registry # 0 /\ Shown.intentional,
  procs    <- Cardinality(Alive)

(* The runtime implements the lifecycle: one process at most over every     *)
(* registration of the id, alive exactly while the worker is shown running; *)
(* nothing comes up after a stop or a delete.                               *)
ImplementsLifecycle == Lifecycle!Spec

(* The live process is always under the memory watchdog: no exit, stop or   *)
(* restart before it has left memorySampler cancelled or pointing to        *)
(* another run's interval.                                                  *)
WatchdogArmed ==
  \A r \in Alive : runs[r].watch /\ sups[runs[r].sup].sampler = r

(* Every stop, restart, delete and shutdown that waits for an exit gets it, *)
(* even from a process that ignores SIGTERM: the soft-kill timer of the     *)
(* request survives until the exit.                                         *)
StopReturns == \A c \in Callers : c \in Waiting ~> c \notin Waiting

(* A crash under a restarting policy is followed by a new launch, unless a  *)
(* request takes the worker out of the crashed status first.                *)
CrashedNow ==
  registry # 0 /\ Shown.status = "crashed" /\ Shown.policy # "never"

CrashIsRetried == CrashedNow ~> ~CrashedNow

===============================================================================
