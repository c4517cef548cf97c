------------------------------ MODULE Supervisor ------------------------------
(***************************************************************************)
(* The fields of one Supervisor object of services/worker-runtime and what *)
(* each of its uninterrupted blocks (the code between two awaits) assigns  *)
(* to them.  An operator takes the fields as a record v and returns them   *)
(* as the block leaves them.                                               *)
(*                                                                         *)
(* Left out: pid, startedAt, lastExitCode, lastExitSignal, nextRestartAt   *)
(* (what a snapshot shows beside the status; no decision reads them), the  *)
(* backoff delay, and the log lines.                                       *)
(***************************************************************************)
EXTENDS Naturals

CONSTANTS Callers,      \* requests that can wait inside stop() at one time
          NoCaller,     \* softKillTimer = null
          MaxRestarts   \* this.maxRestarts (50 in production)

ASSUME CallersAssumption  == NoCaller \notin Callers
ASSUME RestartsAssumption == MaxRestarts \in Nat

Statuses == {"starting", "running", "crashed", "stopped", "failed"}
Policies == {"always", "on-failure", "never"}

(***************************************************************************)
(* current and sampler name a run (an index of the runs of WorkerRuntime), *)
(* 0 for null.  sampler is the run whose interval the field memorySampler  *)
(* refers to; softKill is the caller whose timer softKillTimer refers to.  *)
(***************************************************************************)
SupervisorFields ==
  [policy: Policies, status: Statuses, restarts: Nat, intentional: BOOLEAN,
   timer: BOOLEAN, current: Nat, sampler: Nat, softKill: Callers \cup {NoCaller}]

NewSupervisor(p) ==
  [policy |-> p, status |-> "stopped", restarts |-> 0, intentional |-> FALSE,
   timer |-> FALSE, current |-> 0, sampler |-> 0, softKill |-> NoCaller]

(* Mutant: a start gives a restart back instead of leaving the count alone. *)
BeginSpawnRefunding(v, asRestart) ==
  [v EXCEPT !.status   = "starting",
            !.restarts = IF asRestart THEN @ + 1 ELSE @ - 1]

(* spawnOnce up to its first await. *)
BeginSpawn(v, asRestart) ==
  [v EXCEPT !.status   = "starting",
            !.restarts = IF asRestart THEN @ + 1 ELSE @]

(* Mutant: the earlier stop is not forgotten. *)
BeginWantedStillStopped(v, asRestart) == BeginSpawn(v, asRestart)

(* start() and restart() forget an earlier stop before they spawn. *)
BeginWanted(v, asRestart) ==
  BeginSpawn([v EXCEPT !.intentional = FALSE], asRestart)

(* Mutant: the handle of the memory interval is not kept. *)
LaunchedUnwatched(v, r) == [v EXCEPT !.status = "running", !.current = r]

(* spawnOnce after both awaits succeeded: the process is this.current. *)
Launched(v, r) ==
  [v EXCEPT !.status = "running", !.current = r, !.sampler = r]

(* The first lines of stop(): remember the intent, cancel the restart. *)
Stopping(v) == [v EXCEPT !.intentional = TRUE, !.timer = FALSE]

(* stop() of a supervisor that has no process. *)
StoppedIdle(v) == [Stopping(v) EXCEPT !.status = "stopped"]

(* Mutant: one restart more than the cap. *)
SchedulesRestartAtCap(v, failed) ==
  /\ ~v.intentional
  /\ v.policy # "never"
  /\ v.policy = "always" \/ failed
  /\ v.restarts <= MaxRestarts

(* The restart policy: does handleExit schedule a restart? *)
SchedulesRestart(v, failed) ==
  /\ ~v.intentional
  /\ v.policy # "never"
  /\ v.policy = "always" \/ failed
  /\ v.restarts < MaxRestarts

(* The status handleExit leaves when it schedules none. *)
FinalStatus(v, failed) ==
  CASE v.intentional                           -> "stopped"
    [] ~v.intentional /\ v.policy = "never"    -> IF failed THEN "crashed" ELSE "stopped"
    [] ~v.intentional /\ v.policy = "on-failure" /\ ~failed -> "stopped"
    [] OTHER                                   -> "failed"

(* Mutant: the pending timer is cancelled after the new one was stored. *)
HandleExitCancelLast(v, failed) ==
  IF SchedulesRestart(v, failed)
  THEN [v EXCEPT !.status = "crashed", !.timer = FALSE]
  ELSE [v EXCEPT !.status = FinalStatus(v, failed)]

(* A restart replaces the pending one; without one a pending timer stays. *)
HandleExit(v, failed) ==
  IF SchedulesRestart(v, failed)
  THEN [v EXCEPT !.status = "crashed", !.timer = TRUE]
  ELSE [v EXCEPT !.status = FinalStatus(v, failed)]

(* The exit of run r: whatever interval the field holds is cancelled. *)
Exited(v, r, failed) ==
  HandleExit([v EXCEPT !.sampler = 0, !.current = IF @ = r THEN 0 ELSE @], failed)

(* Mutant: the callback trusts that the worker is still crashed. *)
TimerSpawnsUnchecked(v) == ~v.intentional

(* The restart timer's callback. *)
TimerSpawns(v) == ~v.intentional /\ v.status = "crashed"

TimerFired(v) ==
  LET w == [v EXCEPT !.timer = FALSE]
  IN  IF TimerSpawns(v) THEN BeginSpawn(w, TRUE) ELSE w

===============================================================================
