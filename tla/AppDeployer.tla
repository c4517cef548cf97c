------------------------------ MODULE AppDeployer ------------------------------
(***************************************************************************)
(* services/orchestrator: the deployer of one app.                         *)
(*                                                                         *)
(* A deploy clones, installs and builds in a sandbox directory named after *)
(* the app, copies it over the app's directory and starts the app's        *)
(* process there.  Nothing orders two deploys, a rollback and an undeploy  *)
(* of one app: they share the sandbox, the directory and the process.      *)
(*                                                                         *)
(* A deploy carries the code of one deployment, and its steps are the code *)
(* between two awaits.  The manifest entry is written whole from the       *)
(* object a request read at its start; the status in it, which decides     *)
(* nothing, is left out.                                                   *)
(***************************************************************************)
EXTENDS Naturals, FiniteSets

CONSTANTS Deployments,
          Plain,   \* those detected as plain static sites: outputDir is "."
          MaxCalls \* bound: rollbacks and undeploys asked for

ASSUME DeployerAssumption ==
  /\ Plain \subseteq Deployments
  /\ {"missing", "empty"} \cap Deployments = {}
  /\ MaxCalls \in Nat

VARIABLES
  tree,    \* what the sandbox directory holds
  disk,    \* what the app's directory holds
  beside,  \* what the directory <app>.previous holds
  proc,    \* what the process runs that the manager tracks, "missing" if none
  entry,   \* the manifest's entry
  req,     \* the deploy of each deployment
  rolling, \* the rollback that waits for its health check
  undeploying, \* an undeploy waits for its routes to be removed
  calls,   \* rollbacks and undeploys asked for
  razed    \* history: an undeploy removed the directory of an app another
           \* request had started meanwhile

deployerVars ==
  <<tree, disk, beside, proc, entry, req, rolling, undeploying, calls, razed>>

-------------------------------------------------------------------------------
Contents == Deployments \cup {"missing", "empty"}

NoEntry == [there |-> FALSE, plain |-> FALSE, prev |-> FALSE]

(* The object a request works on: the entry it read, or a new one. *)
Own(r) == [plain |-> req[r].plain, prev |-> req[r].prev]

Entry(own) == [there |-> TRUE, plain |-> own.plain, prev |-> own.prev]

(* A request without an object: not made yet, or answered. *)
Without(stage) == [stage |-> stage, plain |-> FALSE, prev |-> FALSE]

(* Where restoreBackup looks: <app>.previous for a plain site.  For any     *)
(* other the backup was made inside the directory the same deploy removed.  *)
Backup(plain) == IF plain THEN beside ELSE "missing"

DeployerInit ==
  /\ tree = "missing" /\ disk = "missing" /\ beside = "missing"
  /\ proc = "missing"
  /\ entry = NoEntry
  /\ req = [r \in Deployments |-> Without("none")]
  /\ rolling = [on |-> FALSE, plain |-> FALSE]
  /\ undeploying = FALSE
  /\ calls = 0
  /\ razed = FALSE

InFlight(r) == req[r].stage \in {"clone", "install", "build", "health"}

-------------------------------------------------------------------------------
Begin(r) ==
  /\ req[r].stage = "none"
  /\ req' = [req EXCEPT ![r] =
               [stage |-> "clone", plain |-> entry.plain, prev |-> entry.prev]]
  /\ entry' = Entry(entry)
  /\ tree' = "empty"
  /\ UNCHANGED <<disk, beside, proc, rolling, undeploying, calls, razed>>

(* cloneRepo, which git refuses where an overlapping deploy has cloned, and *)
(* the framework the clone is.                                              *)
Cloned(r) ==
  /\ req[r].stage = "clone"
  /\ tree \notin Deployments
  /\ tree' = r
  /\ req' = [req EXCEPT ![r].stage = "install", ![r].plain = r \in Plain]
  /\ entry' = Entry([Own(r) EXCEPT !.plain = r \in Plain])
  /\ UNCHANGED <<disk, beside, proc, rolling, undeploying, calls, razed>>

Installed(r) ==
  /\ req[r].stage = "install"
  /\ tree \in Deployments
  /\ req' = [req EXCEPT ![r].stage = "build"]
  /\ entry' = Entry(Own(r))
  /\ UNCHANGED <<tree, disk, beside, proc, rolling, undeploying, calls, razed>>

(* After the build: the backup, the copy over the app's directory and the   *)
(* restart of its process, without an await between them.                   *)
Promoted(r) ==
  /\ req[r].stage = "build"
  /\ IF req[r].plain THEN tree # "missing" ELSE tree \in Deployments
  /\ LET replaced == IF req[r].plain THEN disk # "missing"
                       ELSE disk \in Deployments \ Plain IN
       /\ req' = [req EXCEPT ![r].stage = "health", ![r].prev = replaced]
       /\ entry' = Entry([Own(r) EXCEPT !.prev = replaced])
       /\ beside' = IF req[r].plain /\ replaced THEN disk ELSE beside
  /\ disk' = tree
  /\ proc' = tree
  /\ razed' = FALSE
  /\ UNCHANGED <<tree, rolling, undeploying, calls>>

Finished(r) ==
  /\ req[r].stage = "health"
  /\ req' = [req EXCEPT ![r] = Without("ok")]
  /\ entry' = Entry(Own(r))
  /\ tree' = "missing"
  /\ UNCHANGED <<disk, beside, proc, rolling, undeploying, calls, razed>>

(* Mutant: the catch leaves the process running. *)
GiveUpKeepsProcess(r) ==
  /\ req' = [req EXCEPT ![r] = Without("failed")]
  /\ entry' = Entry(Own(r))
  /\ proc' = proc
  /\ tree' = "missing"

(* Mutant: the catch leaves the sandbox. *)
GiveUpKeepsTree(r) ==
  /\ req' = [req EXCEPT ![r] = Without("failed")]
  /\ entry' = Entry(Own(r))
  /\ proc' = "missing"
  /\ tree' = tree

(* The catch of deploy, which stops whatever process the app has. *)
GiveUp(r) ==
  /\ req' = [req EXCEPT ![r] = Without("failed")]
  /\ entry' = Entry(Own(r))
  /\ proc' = "missing"
  /\ tree' = "missing"

Failed(r) ==
  /\ req[r].stage \in {"clone", "install", "build"}
  /\ GiveUp(r)
  /\ UNCHANGED <<disk, beside, rolling, undeploying, calls, razed>>

(* The sandbox went while the deploy waited: the app's directory is removed *)
(* and there is nothing to copy there.                                      *)
PromotedNothing(r) ==
  /\ req[r].stage = "build"
  /\ tree = "missing"
  /\ disk' = "missing"
  /\ beside' = IF req[r].plain /\ disk # "missing" THEN disk ELSE beside
  /\ GiveUp(r)
  /\ UNCHANGED <<rolling, undeploying, calls, razed>>

DeployStep(r) ==
  \/ Cloned(r) \/ Installed(r) \/ Promoted(r) \/ Finished(r)
  \/ Failed(r) \/ PromotedNothing(r)

-------------------------------------------------------------------------------
(* rollback: the process is stopped before the backup is looked for. *)
RollBack ==
  /\ calls < MaxCalls
  /\ calls' = calls + 1
  /\ entry.there
  /\ LET backup == Backup(entry.plain) IN
       IF backup = "missing"
         THEN /\ proc' = "missing"
              /\ entry' = Entry(entry)
              /\ UNCHANGED <<disk, rolling>>
         ELSE /\ ~rolling.on
              /\ disk' = backup
              /\ proc' = backup
              /\ entry' = Entry(entry)
              /\ rolling' = [on |-> TRUE, plain |-> entry.plain]
  /\ UNCHANGED <<tree, beside, req, undeploying, razed>>

RolledBack ==
  /\ rolling.on
  /\ entry' = Entry([plain |-> rolling.plain, prev |-> FALSE])
  /\ rolling' = [on |-> FALSE, plain |-> FALSE]
  /\ UNCHANGED <<tree, disk, beside, proc, req, undeploying, calls, razed>>

Undeploy ==
  /\ calls < MaxCalls
  /\ calls' = calls + 1
  /\ ~undeploying
  /\ proc' = "missing"
  /\ undeploying' = (entry.there)
  /\ UNCHANGED <<tree, disk, beside, entry, req, rolling, razed>>

Undeployed ==
  /\ undeploying
  /\ undeploying' = FALSE
  /\ disk' = "missing"
  /\ entry' = NoEntry
  /\ razed' = (proc # "missing")
  /\ UNCHANGED <<tree, beside, proc, req, rolling, calls>>

TenantStep == RollBack \/ RolledBack \/ Undeploy \/ Undeployed

-------------------------------------------------------------------------------
DeployerTypeOK ==
  /\ tree \in Contents /\ disk \in Contents /\ beside \in Contents
  /\ proc \in Contents
  /\ entry \in [there: BOOLEAN, plain: BOOLEAN, prev: BOOLEAN]
  /\ req \in [Deployments ->
               [stage: {"none", "clone", "install", "build", "health", "ok",
                        "failed"},
                plain: BOOLEAN, prev: BOOLEAN]]
  /\ rolling \in [on: BOOLEAN, plain: BOOLEAN]
  /\ undeploying \in BOOLEAN
  /\ calls \in 0..MaxCalls
  /\ razed \in BOOLEAN

(* An app runs what its directory holds, and no process outlives the        *)
(* directory, however deploys, rollbacks and undeploys overlap - except     *)
(* where an undeploy, which stops the process before it awaits its routes,  *)
(* removes the directory under an app started in between (deployer.ts       *)
(* 479-512, 571-577, 627-655).                                              *)
RunsFromDisk == proc # "missing" => proc = disk \/ razed

(* The sandbox is gone when no deploy is in flight: no deploy's end, failed *)
(* or not, in any order with another's, leaves a customer's code there      *)
(* (deployer.ts 436-439, 559-570, 571-581).                                 *)
SandboxIsClean == tree # "missing" => \E r \in Deployments : InFlight(r)

(* A rollback of an app whose manifest names a previous build, asked for    *)
(* while no deploy is in flight, puts that build up.  "We back up the       *)
(* existing appDir first to enable rollback" (deployer.ts 479-481): the     *)
(* backup of every app but a plain site lies in the directory that is       *)
(* removed next.                                                            *)
RollbackFindsBackup ==
  [][(RollBack /\ entry.prev /\ \A r \in Deployments : ~InFlight(r))
       => proc' # "missing"]_deployerVars
===============================================================================
