---------------------------- MODULE DeployPipeline ----------------------------
(***************************************************************************)
(* services/deploy-orchestrator: the per-tenant queue, the deployments it  *)
(* runs, and the three services a deployment writes to: object storage,    *)
(* the bundle registry of the edge runtime and the route table of the      *)
(* tunnel.                                                                 *)
(*                                                                         *)
(* The orchestrator is one event loop and every action of a deployment is  *)
(* one remote call with the code that runs when it settles.  A deployment  *)
(* is known by its position in deploys, which is also its bundle: pipeline *)
(* ids contain the fresh deployment id, so no two deployments share one.   *)
(* The tarball key has the build id instead, and two deployments of one    *)
(* build do share it.                                                      *)
(*                                                                         *)
(* A remote call is done, refused (an error, nothing applied) or           *)
(* unanswered (applied, and the caller sees an error).  A deployment       *)
(* remembers in missed the calls after which the service and the           *)
(* deployment disagree.                                                    *)
(***************************************************************************)
EXTENDS Naturals, Sequences, FiniteSets

CONSTANTS Tenants, Hosts, Builds,
          Owner,       \* the tenant that deploys to a hostname
          MaxDeploys,  \* bound: calls of deploy()
          MaxFaulty,   \* bound: deployments with a missed call
          MaxCrashes   \* bound: restarts of the orchestrator

ASSUME OwnerAssumption == Owner \in [Hosts -> Tenants]

ASSUME DeployBounds ==
  MaxDeploys \in Nat /\ MaxFaulty \in Nat /\ MaxCrashes \in Nat

VARIABLES
  deploys,  \* every call of deploy(), oldest first
  tails,    \* the last queued deployment of each tenant, 0 if none
  routes,   \* tunnel: the bundle each hostname is routed to, 0 if none
  bundles,  \* edge runtime: the registered bundles
  objects,  \* object storage: the <<tenant, build>> keys that hold a tarball
  crashes   \* restarts so far

vars == <<deploys, tails, routes, bundles, objects, crashes>>

-------------------------------------------------------------------------------
Running == {"uploading", "reading", "registering", "routing",
            "health-checking", "swapping", "rolling-back"}
Settled == {"live", "failed", "rejected", "lost"}

SideEffects == {"object", "bundle", "route"}
Forward     == {"put", "register", "swap"}
Backward    == {"unput", "unregister", "restore"}

(* after: the deployment whose settling starts this one.  undo: the side    *)
(* effects rollback will revert.  prev: previousBundleId of the swap.       *)
DeployFields == [host: Hosts, build: Builds, after: Nat,
                 stage: Running \cup Settled \cup {"waiting"},
                 undo: SUBSET SideEffects, prev: Nat,
                 missed: SUBSET (Forward \cup Backward)]

NewDeploy(h, b, last) ==
  [host |-> h, build |-> b, after |-> last, stage |-> "waiting",
   undo |-> {}, prev |-> 0, missed |-> {}]

Host(d)   == deploys[d].host
Tenant(d) == Owner[Host(d)]
Key(d)    == <<Tenant(d), deploys[d].build>>

Init ==
  /\ deploys = << >>
  /\ tails = [t \in Tenants |-> 0]
  /\ routes = [h \in Hosts |-> 0]
  /\ bundles = {}
  /\ objects = {}
  /\ crashes = 0

-------------------------------------------------------------------------------
(* Mutant: the tail points one past the deployment just queued. *)
EnqueueOffByOne(h, b) ==
  /\ Len(deploys) < MaxDeploys
  /\ deploys' = Append(deploys, NewDeploy(h, b, tails[Owner[h]]))
  /\ tails' = [tails EXCEPT ![Owner[h]] = Len(deploys') + 1]
  /\ UNCHANGED <<routes, bundles, objects, crashes>>

(* TenantQueue.enqueue, called by deploy(): chain behind the tenant's tail. *)
Enqueue(h, b) ==
  /\ Len(deploys) < MaxDeploys
  /\ deploys' = Append(deploys, NewDeploy(h, b, tails[Owner[h]]))
  /\ tails' = [tails EXCEPT ![Owner[h]] = Len(deploys')]
  /\ UNCHANGED <<routes, bundles, objects, crashes>>

(* Mutant: previous.then(task), on a chain that does not catch. *)
MayRunUnlessRejected(d) ==
  /\ deploys[d].stage = "waiting"
  /\ deploys[d].after # 0 =>
       deploys[deploys[d].after].stage \in Settled \ {"rejected"}

(* previous.then(task, task): whatever became of the one before. *)
MayRun(d) ==
  /\ deploys[d].stage = "waiting"
  /\ deploys[d].after # 0 => deploys[deploys[d].after].stage \in Settled

(* Mutant: the tail is dropped without looking whose it is. *)
TailsAfterUnchecked(d, stage) ==
  IF stage \in Settled THEN [tails EXCEPT ![Tenant(d)] = 0] ELSE tails

(* A settled deployment drops the tail unless a newer one is behind it. *)
TailsAfter(d, stage) ==
  IF stage \in Settled /\ tails[Tenant(d)] = d
    THEN [tails EXCEPT ![Tenant(d)] = 0] ELSE tails

(* Deployment d goes on with the fields v. *)
Step(d, v) ==
  /\ deploys' = [deploys EXCEPT ![d] = v]
  /\ tails' = TailsAfter(d, v.stage)

(* fail(): roll back what the undo steps name; with none it ends at once. *)
Fail(v) == [v EXCEPT !.stage = IF v.undo = {} THEN "failed" ELSE "rolling-back"]

Succeed(v, next, effect) == [v EXCEPT !.stage = next, !.undo = @ \cup {effect}]

Miss(v, call) == [v EXCEPT !.missed = @ \cup {call}]

MayMiss(d) ==
  \/ deploys[d].missed # {}
  \/ Cardinality({e \in DOMAIN deploys : deploys[e].missed # {}}) < MaxFaulty

(***************************************************************************)
(* A forward call of d: applied says whether the service acts and ok is    *)
(* the deployment if the answer arrives.  The undo step is pushed after    *)
(* the await, so a call that fails after it was applied leaves none.       *)
(***************************************************************************)
Called(d, call, ok, applied) ==
  \/ applied /\ Step(d, ok)
  \/ ~applied /\ Step(d, Fail(deploys[d]))
  \/ applied /\ MayMiss(d) /\ Step(d, Fail(Miss(deploys[d], call)))

(* An undo step of d: an error is swallowed and the next step follows. *)
Undone(d, call, effect, applied) ==
  LET v == [deploys[d] EXCEPT !.undo = @ \ {effect}] IN
  \/ applied /\ Step(d, Fail(v))
  \/ ~applied /\ MayMiss(d) /\ Step(d, Fail(Miss(v, call)))

-------------------------------------------------------------------------------
(* runDeployPipeline starts; an artefact the schema refuses throws outside  *)
(* the try block, so nothing is rolled back and no status is emitted.       *)
Begin(d) ==
  /\ MayRun(d)
  /\ \E stage \in {"uploading", "rejected"} :
       Step(d, [deploys[d] EXCEPT !.stage = stage])
  /\ UNCHANGED <<routes, bundles, objects, crashes>>

(* 1. readTarball, whose error is that of a refused put, and the put. *)
Upload(d) ==
  /\ deploys[d].stage = "uploading"
  /\ \E applied \in BOOLEAN :
       /\ Called(d, "put", Succeed(deploys[d], "reading", "object"), applied)
       /\ objects' = IF applied THEN objects \cup {Key(d)} ELSE objects
  /\ UNCHANGED <<routes, bundles, crashes>>

(* 2. and 3. the entrypoint, the code and the secrets are only read. *)
Read(d) ==
  /\ deploys[d].stage = "reading"
  /\ \/ Step(d, [deploys[d] EXCEPT !.stage = "registering"])
     \/ Step(d, Fail(deploys[d]))
  /\ UNCHANGED <<routes, bundles, objects, crashes>>

(* Mutant: registering pushes no undo step. *)
RegisterBundleUnrecorded(d) ==
  /\ deploys[d].stage = "registering"
  /\ \E applied \in BOOLEAN :
       /\ Called(d, "register", [deploys[d] EXCEPT !.stage = "routing"], applied)
       /\ bundles' = IF applied THEN bundles \cup {d} ELSE bundles
  /\ UNCHANGED <<routes, objects, crashes>>

(* 4. edgeRuntime.registerBundle. *)
RegisterBundle(d) ==
  /\ deploys[d].stage = "registering"
  /\ \E applied \in BOOLEAN :
       /\ Called(d, "register", Succeed(deploys[d], "routing", "bundle"), applied)
       /\ bundles' = IF applied THEN bundles \cup {d} ELSE bundles
  /\ UNCHANGED <<routes, objects, crashes>>

(* 5. tunnel.swap, which answers the bundle the hostname was routed to. *)
Swap(d) ==
  LET ok == [Succeed(deploys[d], "health-checking", "route")
               EXCEPT !.prev = routes[Host(d)]] IN
  /\ deploys[d].stage = "routing"
  /\ \E applied \in BOOLEAN :
       /\ Called(d, "swap", ok, applied)
       /\ routes' = IF applied THEN [routes EXCEPT ![Host(d)] = d] ELSE routes
  /\ UNCHANGED <<bundles, objects, crashes>>

(* 6. the probe; without a previous bundle the deployment is then live. *)
Probe(d) ==
  /\ deploys[d].stage = "health-checking"
  /\ \/ Step(d, [deploys[d] EXCEPT !.stage =
                   IF deploys[d].prev = 0 THEN "live" ELSE "swapping"])
     \/ Step(d, Fail(deploys[d]))
  /\ UNCHANGED <<routes, bundles, objects, crashes>>

(* 7. warmBundle, whose failure is ignored. *)
Warm(d) ==
  /\ deploys[d].stage = "swapping"
  /\ Step(d, [deploys[d] EXCEPT !.stage = "live"])
  /\ UNCHANGED <<routes, bundles, objects, crashes>>

(* Mutant: rollback always deletes the route. *)
UndoRouteDeleting(d) ==
  /\ deploys[d].stage = "rolling-back" /\ "route" \in deploys[d].undo
  /\ \E applied \in BOOLEAN :
       /\ Undone(d, "restore", "route", applied)
       /\ routes' = IF applied THEN [routes EXCEPT ![Host(d)] = 0] ELSE routes
  /\ UNCHANGED <<bundles, objects, crashes>>

(* The undo steps, last pushed first. *)
UndoRoute(d) ==
  /\ deploys[d].stage = "rolling-back" /\ "route" \in deploys[d].undo
  /\ \E applied \in BOOLEAN :
       /\ Undone(d, "restore", "route", applied)
       /\ routes' = IF applied THEN [routes EXCEPT ![Host(d)] = deploys[d].prev]
                    ELSE routes
  /\ UNCHANGED <<bundles, objects, crashes>>

(* Mutant: the bundle is deleted before the route is given back. *)
UndoBundleFirst(d) ==
  /\ deploys[d].stage = "rolling-back"
  /\ "bundle" \in deploys[d].undo
  /\ \E applied \in BOOLEAN :
       /\ Undone(d, "unregister", "bundle", applied)
       /\ bundles' = IF applied THEN bundles \ {d} ELSE bundles
  /\ UNCHANGED <<routes, objects, crashes>>

UndoBundle(d) ==
  /\ deploys[d].stage = "rolling-back"
  /\ "bundle" \in deploys[d].undo /\ "route" \notin deploys[d].undo
  /\ \E applied \in BOOLEAN :
       /\ Undone(d, "unregister", "bundle", applied)
       /\ bundles' = IF applied THEN bundles \ {d} ELSE bundles
  /\ UNCHANGED <<routes, objects, crashes>>

UndoObject(d) ==
  /\ deploys[d].stage = "rolling-back" /\ deploys[d].undo = {"object"}
  /\ \E applied \in BOOLEAN :
       /\ Undone(d, "unput", "object", applied)
       /\ objects' = IF applied THEN objects \ {Key(d)} ELSE objects
  /\ UNCHANGED <<routes, bundles, crashes>>

(* The queue and the pipelines live in memory: a restart forgets them all,  *)
(* and nothing they did is rolled back.                                     *)
Crash ==
  /\ crashes < MaxCrashes
  /\ crashes' = crashes + 1
  /\ deploys' = [d \in DOMAIN deploys |->
                   IF deploys[d].stage \in Settled THEN deploys[d]
                   ELSE [deploys[d] EXCEPT !.stage = "lost"]]
  /\ tails' = [t \in Tenants |-> 0]
  /\ UNCHANGED <<routes, bundles, objects>>

Advance(d) ==
  \/ Begin(d) \/ Upload(d) \/ Read(d) \/ RegisterBundle(d) \/ Swap(d)
  \/ Probe(d) \/ Warm(d) \/ UndoRoute(d) \/ UndoBundle(d) \/ UndoObject(d)

Next ==
  \/ \E h \in Hosts, b \in Builds : Enqueue(h, b)
  \/ \E d \in DOMAIN deploys : Advance(d)
  \/ Crash

Spec == Init /\ [][Next]_vars

(* Every remote call settles in the end: fetch resolves or rejects. *)
FairSpec ==
  Spec /\ \A d \in 1..MaxDeploys : WF_vars(d \in DOMAIN deploys /\ Advance(d))

-------------------------------------------------------------------------------
TypeOK ==
  /\ deploys \in Seq(DeployFields)
  /\ tails \in [Tenants -> {0} \cup DOMAIN deploys]
  /\ routes \in [Hosts -> {0} \cup DOMAIN deploys]
  /\ bundles \subseteq DOMAIN deploys
  /\ objects \subseteq Tenants \X Builds
  /\ crashes \in Nat

(* Deployments of one tenant run one at a time and in the order of their   *)
(* deploy() calls, whatever fails or is thrown and across a restart        *)
(* (queue.ts 20-37).                                                       *)
FirstInFirstOut ==
  \A d, e \in DOMAIN deploys :
    (d < e /\ Tenant(d) = Tenant(e) /\ deploys[e].stage # "waiting")
      => deploys[d].stage \in Settled

Misses(h, calls) ==
  \E d \in DOMAIN deploys : Host(d) = h /\ deploys[d].missed \cap calls # {}

(* A hostname is never routed to a bundle the edge runtime does not have,  *)
(* in the middle of a rollback and after a restart too, as long as no call *)
(* to the tunnel was missed for it (pipeline.ts 98-120, 176-193).          *)
RoutesAreServed ==
  \A h \in Hosts :
    Misses(h, {"swap", "restore"}) \/ routes[h] \in bundles \cup {0}

(* The last deployment of h to go live, 0 if there is none. *)
LatestLive(h) ==
  LET live == {d \in DOMAIN deploys : Host(d) = h /\ deploys[d].stage = "live"}
  IN  CHOOSE d \in live \cup {0} : \A e \in live : e <= d

(* The deployments of h whose swap is neither confirmed nor rolled back. *)
Switched(h) ==
  {d \in DOMAIN deploys : /\ Host(d) = h
                          /\ deploys[d].stage # "live"
                          /\ "route" \in deploys[d].undo}

(* Outside the window between a deployment's swap and its end a hostname   *)
(* serves the last deployment that went live, so every failed deployment   *)
(* gave back exactly the route it found; inside it at most one deployment  *)
(* holds the route and remembers that one (pipeline.ts 176-193).  A missed *)
(* tunnel call or a restart inside the window voids it.                    *)
FailureRestoresRoute ==
  \A h \in Hosts :
    \/ Misses(h, {"swap", "restore"})
    \/ \E d \in Switched(h) : deploys[d].stage = "lost"
    \/ Switched(h) = {} /\ routes[h] = LatestLive(h)
    \/ \E d \in Switched(h) : /\ Switched(h) = {d}
                              /\ routes[h] = d
                              /\ deploys[d].prev = LatestLive(h)

(* A deployment that failed has left no bundle in the edge runtime and one *)
(* that is live has its bundle there, unless a call to the edge runtime    *)
(* was missed: rollback undoes what was done and nothing else does         *)
(* (pipeline.ts 159-172).                                                  *)
BundleIffLive ==
  \A d \in DOMAIN deploys :
    /\ deploys[d].stage = "live" => d \in bundles
    /\ (deploys[d].stage = "failed"
          /\ deploys[d].missed \cap {"register", "unregister"} = {})
         => d \notin bundles

(* Every queued deployment settles: one that fails or is refused does not  *)
(* hold up those behind it (queue.ts 22-28).                               *)
DeploysSettle ==
  \A d \in 1..MaxDeploys :
    d \in DOMAIN deploys
      ~> (d \in DOMAIN deploys /\ deploys[d].stage \in Settled)
===============================================================================
