------------------------------- MODULE ApiBuilds -------------------------------
(***************************************************************************)
(* apps/api: the deployments of one project, from the request to the app   *)
(* the orchestrator runs (AppDeployer).                                    *)
(*                                                                         *)
(* A row of the deployments table is written by the procedure that creates *)
(* it, by the build runner, by a cancel and by the direct deploy of the    *)
(* projects router; each reads and writes in steps of its own.  The queue  *)
(* and the runner live in memory; rows and the app outlive them.           *)
(***************************************************************************)
EXTENDS AppDeployer, Sequences

CONSTANT MaxFaults \* bound: database errors, lost answers and restarts

ASSUME BuildsAssumption == MaxFaults \in Nat

VARIABLES
  rows,     \* the deployments table
  queue,    \* buildQueue
  draining, \* queueRunning
  runner,   \* where runBuild stands, per deployment
  direct,   \* direct deploys that wait for the orchestrator
  cancels,  \* the status a cancel has read and not yet acted on
  faults,   \* faults that happened
  inTime,   \* history: rows with a cancel request written while the runner
            \* had a check for it ahead
  foreign,  \* history: deployments whose code reached the app, or may yet,
            \* without the runner finishing their rows
  lost,     \* history: rows nobody works on any more
  late      \* history: rows whose status was overwritten after they went live

apiVars == <<rows, queue, draining, runner, direct, cancels, faults>>
history == <<inTime, foreign, lost, late>>
vars == <<deployerVars, apiVars, history>>

-------------------------------------------------------------------------------
Steps == {"load", "prepare", "clone", "install", "build"}

(* The steps after which runBuild looks for a cancel request. *)
Checked == {"prepare", "clone", "install", "build"}

After == [prepare |-> "clone", clone |-> "install", install |-> "build",
          build |-> "handoff"]

Terminal == {"live", "failed", "cancelled"}

Init ==
  /\ DeployerInit
  /\ rows = [d \in Deployments |->
               [status |-> "unborn", cancel |-> FALSE, current |-> FALSE]]
  /\ queue = <<>>
  /\ draining = FALSE
  /\ runner = [d \in Deployments |-> "idle"]
  /\ direct = {}
  /\ cancels = [d \in Deployments |-> "none"]
  /\ faults = 0
  /\ inTime = {} /\ foreign = {} /\ lost = {} /\ late = {}

Settle(d, status) == rows' = [rows EXCEPT ![d].status = status]

At(d, step) == runner' = [runner EXCEPT ![d] = step]

Fault == faults < MaxFaults /\ faults' = faults + 1

Calls == <<direct, cancels>>

-------------------------------------------------------------------------------
(* Mutant: a drain is started for every build. *)
CreateDrainsAtOnce(d) ==
  /\ rows[d].status = "unborn"
  /\ Settle(d, "queued")
  /\ draining' = TRUE
  /\ At(d, "load")
  /\ UNCHANGED queue
  /\ UNCHANGED <<deployerVars, Calls, faults, history>>

(* drainQueue: the head of the queue is built when nothing is. *)
Create(d) ==
  /\ rows[d].status = "unborn"
  /\ Settle(d, "queued")
  /\ IF draining
       THEN /\ queue' = Append(queue, d)
            /\ UNCHANGED <<draining, runner>>
       ELSE /\ draining' = TRUE
            /\ At(d, "load")
            /\ UNCHANGED queue
  /\ UNCHANGED <<deployerVars, Calls, faults, history>>

(* Mutant: the flag stays up when the queue has been drained. *)
ReturnStaysDraining(d) ==
  IF queue = <<>>
    THEN /\ draining' = TRUE
         /\ At(d, "idle")
         /\ UNCHANGED queue
    ELSE /\ runner' = [runner EXCEPT ![d] = "idle", ![Head(queue)] = "load"]
         /\ queue' = Tail(queue)
         /\ UNCHANGED draining

(* runBuild returns, and the drain goes on with the next. *)
Return(d) ==
  IF queue = <<>>
    THEN /\ draining' = FALSE
         /\ At(d, "idle")
         /\ UNCHANGED queue
    ELSE /\ runner' = [runner EXCEPT ![d] = "idle", ![Head(queue)] = "load"]
         /\ queue' = Tail(queue)
         /\ UNCHANGED draining

Start(d) ==
  /\ runner[d] = "load"
  /\ Settle(d, "building")
  /\ At(d, "prepare")
  /\ UNCHANGED <<deployerVars, queue, draining, Calls, faults, history>>

(* Mutant: only the status is looked at, which Start has overwritten. *)
StatusIsCancelled(d) == rows[d].status = "cancelled"

IsCancelled(d) == rows[d].cancel \/ rows[d].status = "cancelled"

(* A step of the build is done, and the row is read for a cancel request. *)
Check(d) ==
  /\ runner[d] \in Checked
  /\ At(d, IF IsCancelled(d) THEN "cancelling" ELSE After[runner[d]])
  /\ UNCHANGED <<deployerVars, rows, queue, draining, Calls, faults, history>>

FinaliseCancelled(d) ==
  /\ runner[d] = "cancelling"
  /\ Settle(d, "cancelled")
  /\ Return(d)
  /\ UNCHANGED <<deployerVars, Calls, faults, history>>

(* Hand off to the deployer. *)
Deploy(d) ==
  /\ runner[d] = "handoff"
  /\ Settle(d, "deploying")
  /\ At(d, "deploy")
  /\ Begin(d)
  /\ UNCHANGED <<queue, draining, Calls, faults, history>>

Deployed(d) ==
  /\ runner[d] = "deploy" /\ req[d].stage = "ok"
  /\ At(d, "flip")
  /\ UNCHANGED <<deployerVars, rows, queue, draining, Calls, faults, history>>

(* The rows that were current no longer are ... *)
Flip(d) ==
  /\ runner[d] = "flip"
  /\ rows' = [e \in Deployments |-> [rows[e] EXCEPT !.current = FALSE]]
  /\ At(d, "golive")
  /\ UNCHANGED <<deployerVars, queue, draining, Calls, faults, history>>

(* Mutant: this row goes live and is not marked. *)
GoLiveUnmarked(d) ==
  /\ runner[d] = "golive"
  /\ rows' = [rows EXCEPT ![d].status = "live"]
  /\ At(d, "record")
  /\ UNCHANGED <<deployerVars, queue, draining, Calls, faults, history>>

(* ... and, in an update of its own, this one is. *)
GoLive(d) ==
  /\ runner[d] = "golive"
  /\ rows' = [rows EXCEPT ![d].status = "live", ![d].current = TRUE]
  /\ At(d, "record")
  /\ UNCHANGED <<deployerVars, queue, draining, Calls, faults, history>>

(* The usage and the last log line are written. *)
Recorded(d) ==
  /\ runner[d] = "record"
  /\ Return(d)
  /\ UNCHANGED <<deployerVars, rows, Calls, faults, history>>

-------------------------------------------------------------------------------
(* No project or no repository, a clone, an install or a build that fails,  *)
(* or the timeout of the whole, which kills the step it is in.              *)
StepFails(d) ==
  /\ runner[d] \in Steps
  /\ At(d, "failing")
  /\ UNCHANGED <<deployerVars, rows, queue, draining, Calls, faults, history>>

DeployFails(d) ==
  /\ runner[d] = "deploy" /\ req[d].stage = "failed"
  /\ At(d, "failing")
  /\ UNCHANGED <<deployerVars, rows, queue, draining, Calls, faults, history>>

(* The call is given up after two minutes, or its answer is lost; the       *)
(* orchestrator goes on.                                                    *)
DeployTimesOut(d) ==
  /\ runner[d] = "deploy" /\ req[d].stage # "failed"
  /\ At(d, "failing")
  /\ foreign' = foreign \cup {d}
  /\ UNCHANGED <<deployerVars, rows, queue, draining, Calls, faults,
                 inTime, lost, late>>

DbError(d) ==
  /\ Fault
  /\ runner[d] \notin {"idle", "deploy", "failing"}
  /\ At(d, "failing")
  /\ foreign' = IF runner[d] \in {"flip", "golive"}
                  THEN foreign \cup {d} ELSE foreign
  /\ UNCHANGED <<deployerVars, rows, queue, draining, Calls,
                 inTime, lost, late>>

(* The catch of runBuild, also for a log line that fails after GoLive. *)
Fail(d) ==
  /\ runner[d] = "failing"
  /\ Settle(d, "failed")
  /\ late' = IF rows[d].status = "live" THEN late \cup {d} ELSE late
  /\ Return(d)
  /\ UNCHANGED <<deployerVars, Calls, faults, inTime, foreign, lost>>

FailUnwritten(d) ==
  /\ Fault
  /\ runner[d] = "failing"
  /\ lost' = lost \cup {d}
  /\ Return(d)
  /\ UNCHANGED <<deployerVars, rows, Calls, inTime, foreign, late>>

RunnerStep(d) ==
  \/ Start(d) \/ Check(d) \/ FinaliseCancelled(d) \/ Deploy(d) \/ Deployed(d)
  \/ Flip(d) \/ GoLive(d) \/ Recorded(d)
  \/ StepFails(d) \/ DeployFails(d) \/ DeployTimesOut(d) \/ Fail(d)

-------------------------------------------------------------------------------
(* cancel: the row is read, then written. *)
Cancel(d) ==
  /\ \A e \in Deployments : cancels[e] = "none"  \* bound: one at a time
  /\ ~rows[d].cancel  \* bound: a second would write the same
  /\ rows[d].status \notin Terminal \cup {"unborn"}
  /\ cancels' = [cancels EXCEPT ![d] = rows[d].status]
  /\ UNCHANGED <<deployerVars, rows, queue, draining, runner, direct, faults,
                 history>>

Ahead(d) ==
  runner[d] \in Steps \/ \E i \in DOMAIN queue : queue[i] = d

RequestCancel(d) ==
  rows' = IF cancels[d] = "queued"
            THEN [rows EXCEPT ![d].status = "cancelled", ![d].cancel = TRUE]
            ELSE [rows EXCEPT ![d].cancel = TRUE]

CancelRead(d) ==
  /\ cancels[d] # "none"
  /\ RequestCancel(d)
  /\ cancels' = [cancels EXCEPT ![d] = "none"]
  /\ inTime' = IF Ahead(d) THEN inTime \cup {d} ELSE inTime
  /\ late' = IF cancels[d] = "queued" /\ rows[d].status = "live"
               THEN late \cup {d} ELSE late
  /\ UNCHANGED <<deployerVars, queue, draining, runner, direct, faults,
                 foreign, lost>>

(* projects.deploy: past the queue, straight to the orchestrator; the row   *)
(* never becomes current.                                                   *)
DirectDeploy(d) ==
  /\ rows[d].status = "unborn"
  /\ Settle(d, "building")
  /\ direct' = direct \cup {d}
  /\ foreign' = foreign \cup {d}
  /\ Begin(d)
  /\ UNCHANGED <<queue, draining, runner, cancels, faults, inTime, lost, late>>

(* Its answer, or its timeout. *)
DirectDone(d) ==
  /\ d \in direct
  /\ \/ req[d].stage = "ok" /\ Settle(d, "active")
     \/ Settle(d, "failed")
  /\ direct' = direct \ {d}
  /\ UNCHANGED <<deployerVars, queue, draining, runner, cancels, faults,
                 history>>

(* A restart of the API process: queue, runner and calls are gone. *)
Restart ==
  /\ Fault
  /\ queue' = <<>> /\ draining' = FALSE
  /\ runner' = [d \in Deployments |-> "idle"]
  /\ direct' = {}
  /\ cancels' = [d \in Deployments |-> "none"]
  /\ lost' = lost \cup {d \in Deployments :
                          rows[d].status \notin Terminal \cup {"unborn", "active"}}
  /\ foreign' = foreign \cup {d \in Deployments :
                                runner[d] \in {"deploy", "flip", "golive"}}
  /\ UNCHANGED <<deployerVars, rows, inTime, late>>

(* What a rollback brings back keeps the row it has. *)
Tenant ==
  /\ TenantStep
  /\ foreign' = foreign \cup (({proc'} \ {proc}) \cap Deployments)
  /\ UNCHANGED <<apiVars, inTime, lost, late>>

Orchestrator ==
  /\ \E r \in Deployments : DeployStep(r)
  /\ UNCHANGED <<apiVars, history>>

Next ==
  \/ \E d \in Deployments :
       \/ Create(d) \/ RunnerStep(d) \/ DbError(d) \/ FailUnwritten(d)
       \/ Cancel(d) \/ CancelRead(d) \/ DirectDeploy(d) \/ DirectDone(d)
  \/ Restart \/ Tenant \/ Orchestrator

Spec == Init /\ [][Next]_vars

(* The runner's awaits end: git is killed at the timeout of the build, the  *)
(* sandbox kills what runs in it, and a call of the deployer, the runner's  *)
(* or a direct one, is given up after two minutes.                          *)
FairSpec ==
  Spec /\ \A d \in Deployments : WF_vars(RunnerStep(d)) /\ WF_vars(DirectDone(d))

-------------------------------------------------------------------------------
TypeOK ==
  /\ DeployerTypeOK
  /\ rows \in [Deployments ->
       [status: {"unborn", "queued", "building", "deploying", "live",
                 "active"} \cup Terminal,
        cancel: BOOLEAN, current: BOOLEAN]]
  /\ queue \in Seq(Deployments)
  /\ draining \in BOOLEAN
  /\ runner \in [Deployments ->
       Steps \cup {"idle", "handoff", "deploy", "flip", "golive", "record",
                   "failing", "cancelling"}]
  /\ direct \subseteq Deployments
  /\ cancels \in [Deployments ->
       {"none", "queued", "building", "deploying", "active"}]
  /\ faults \in 0..MaxFaults
  /\ inTime \subseteq Deployments /\ foreign \subseteq Deployments
  /\ lost \subseteq Deployments /\ late \subseteq Deployments

(* The rows are cleared and the new one is marked in two updates; only the  *)
(* serial queue keeps a second build from marking its row between them      *)
(* (build-runner.ts 698-715, 826-843).                                      *)
OneCurrent ==
  \A d, e \in Deployments : rows[d].current /\ rows[e].current => d = e

(* The current row says live.  Two writes come too late and say otherwise:  *)
(* that of a cancel that read the row while it was queued, and that of the  *)
(* catch when the log line after going live fails (deployments.ts 254-290,  *)
(* build-runner.ts 707-735, 769-783).                                       *)
CurrentIsLive ==
  \A d \in Deployments : rows[d].current => rows[d].status = "live" \/ d \in late

(* A cancel whose request is written while a check is ahead of the runner   *)
(* keeps the deployment from the deployer, although Start overwrites the    *)
(* status the cancel wrote (build-runner.ts 257-270, 528-630).              *)
CancelIsHonoured ==
  \A d \in inTime : rows[d].status \notin {"deploying", "live"}

(* What the app runs is what the table calls current, or a deployment the   *)
(* runner is about to mark - or one that took a way past the runner: a      *)
(* direct deploy, a rollback, a deploy whose answer never came or whose row *)
(* could not be written (build-runner.ts 632-715, projects.ts 689-722,      *)
(* orchestrator-client.ts 26-32).                                           *)
ServedIsCurrent ==
  proc \in Deployments =>
    \/ rows[proc].current
    \/ runner[proc] \in {"deploy", "flip", "golive"}
    \/ proc \in foreign

(* No deployment is queued or under way for ever: every build ends, and its *)
(* row says how, unless the process restarts or the database refuses the    *)
(* last write (build-runner.ts 769-806, 821-843, projects.ts 694-757).      *)
BuildsSettle ==
  <>[] \A d \in Deployments :
         rows[d].status \in {"queued", "building", "deploying"} => d \in lost
===============================================================================
