# Crontech: verification project

TLA+ models of the concurrent parts of Crontech, checked with TLC on small
instances and proved with TLAPS for every value of their constants. Paths are
relative to the repository.

| | |
|---|---|
| Parts modelled | worker-runtime, deploy-orchestrator, tunnel (edge, origin and the sockets between them), cron-scheduler, persistent-disks, the API's builds with the deployer they call, Stripe webhooks, usage reports |
| Checked | 9 runs that hold with 40 properties, 3 runs that show a documented promise broken |
| Proved | 47 theorems over eight specifications, each from an inductive invariant; every safety property of the runs that hold is among them |

Contents: 1 inventory, 2 the modules and the code, 3 runs, 4 proofs, 5 what is
only model-checked, 6 findings, 7 abstractions, 8 what is not modelled,
9 plan.

## 1. Inventory

Crontech is a hosting platform: a Bun/TypeScript monorepo of small services
(`services/`), two applications (`apps/api`, `apps/web`) and shared packages
(`packages/`). Each service is one process with one JavaScript event loop; its
state lives in memory, in a `Map` or in fields of an object, and most of it is
lost when the process restarts. Services call each other over HTTP, and the
tunnel daemons talk over a WebSocket. So nothing is ever pre-empted inside a
handler, and everything hard happens at an `await`: the handler has read
something, other events run, and it goes on with what it read.

### 1.1 Components with behaviour worth checking

**worker-runtime** (`services/worker-runtime`). Runs tenant programs as OS
processes.
- State: the registry (id to supervisor); per supervisor its status, restart
  counter, current process, restart timer, soft-kill timer, memory sampler and
  the `intentionalStop` flag; the processes themselves.
- Operations: register, start, stop, restart, delete, shutdown over HTTP;
  spawn in three awaits; exit handler; restart timer with back-off; soft kill
  after the grace period; memory and wall-clock kills.
- Hard: a request during a launch, two requests waiting for one exit, timers
  in fields that a later process overwrites, a crash while a stop is under way.
- Correct when: no crash is forgotten, the crash loop is bounded, a stop opens
  no run, every stop returns, at most one process per worker and always under
  its watchdog.

**deploy-orchestrator** (`services/deploy-orchestrator`). Turns a build into a
live route.
- State: per-tenant queue tails, the stack of undo steps of each deployment;
  outside it the tarballs in object storage, the bundles of the edge runtime
  and the routes of the tunnel.
- Operations: `deploy()` (queued per tenant), the seven stages of
  `runDeployPipeline`, rollback in reverse order.
- Hard: a call that was applied and whose answer is lost, an undo step that
  fails, a restart halfway, two deployments of one build, the queue's cleanup
  racing the next enqueue.
- Correct when: deployments of a tenant are serial and in order, a hostname is
  never routed to a missing bundle, a failed deployment gives back the route it
  found, every deployment settles.

**tunnel** (`services/tunnel/edge`, `services/tunnel/origin`,
`services/tunnel/shared`). Public requests reach hosts that are behind NAT.
- State: the edge's connection records, `OriginRegistry` (by connection and by
  hostname) and pending requests; the origin's connection state, current
  socket, requests in flight, ping and pong timers, reconnect timer.
- Operations: dial, signed advertise, register with displacement, forward,
  respond, ping/pong, reconnect with back-off, drain and stop, timeouts.
- Hard: close events that come after the connection was replaced, two awaits in
  the handshake, timers whose handle is overwritten, frames under way when a
  socket closes, breaks that nobody notices.
- Correct when: a hostname leads to a live connection that advertised it and the
  latest one wins, a daemon has one socket, heals after a break and stays down
  after a stop, every public request is answered, a drain loses nothing.

**cron-scheduler** (`services/cron-scheduler`). Jobs on cron expressions, one tick
loop.
- State: the registry (id to job with status and `nextRunAt`), `running`, and
  the list the tick under way goes through, which holds job objects and not ids.
- Operations: create, delete, pause, resume, trigger over HTTP; the tick, which
  fires the due jobs in turn, each with retries and back-off; stop.
- Hard: a job deleted, created again, edited or triggered while a tick awaits its
  dispatch; `recordRun` throwing in the middle of a tick; one slow job delaying
  all.
- Correct when: what came due during a firing is skipped and nothing fired twice,
  every due job gets its turn, a stop ends the loop.

**persistent-disks** (`services/persistent-disks`). Volumes and snapshots over a
storage driver.
- State: the registries of volumes and snapshots; the driver's images.
- Operations: create, attach, detach, resize, delete, snapshot, restore into a
  volume or a new one; each checks the registry, awaits the driver and writes the
  record it had read.
- Hard: any two of them overlapping on one volume or one quota; a driver call that
  fails after part of its work.
- Correct when: a volume follows the status diagram, an attachment holds until it
  is detached, the quota is kept and no storage becomes unreachable.

**api-builds** (`apps/api/src/automation`, `trpc/procedures`, `github`) with the
**orchestrator**'s deployer (`services/orchestrator`). From a request or a push to
the app that runs.
- State: the deployments table, the in-memory build queue with its flag, where
  `runBuild` stands; on the other side the sandbox, the app's directory, its
  process and the manifest.
- Operations: create, cancel, direct deploy; the build steps with a look for
  cancel requests after each; hand-off, flip and go-live in updates of their own;
  deploy, rollback and undeploy of the app.
- Hard: a cancel that read an older status, a client that gives up before the
  deployer does, deploys of one app in one sandbox, a restart with rows under way.
- Correct when: one row is current and it is what the app runs, a cancel in time
  is honoured, every build settles, no customer code stays in the sandbox.

**billing** (`apps/api/src/stripe`, `apps/api/src/billing`). The local copy of
subscriptions and the usage told to Stripe.
- State: `billing_events` (the idempotency gate), `subscriptions`, `payments`,
  `usage_events`, `usage_reports`; Stripe's own.
- Operations: one handler per kind of event; a report that goes through the types
  of usage and for each reads, pushes the difference and writes the total.
- Hard: events repeated, out of order or failed after the gate; two reports at a
  time; a crash between push and write.
- Correct when: the newest event repairs the row whatever went wrong before, the row
  ends no subscription that goes on, each payment is recorded, each unit of usage is
  billed once.

**webhook dispatcher** (`apps/api/src/webhooks`), **retry queue**
(`apps/api/src/automation`), **email-send** (`services/email-send`). At-least-once
work with attempts and back-off. Hard: overlapping runs, partial success.
Correct when: no delivery is lost and none is repeated after it succeeded.

**preview-deploys** (`services/preview-deploys`). Pull-request events
serialised by a lock per pull request; builds, cancellation, teardown, expiry.
Hard: cancelling the build that holds the lock. Correct when: a closed pull
request leaves no preview.

**git-webhook** (`services/git-webhook`), **build-runner**
(`services/build-runner`). Deduplicated deliveries publish build jobs; a runner
executes them. Hard: a publish that fails after the delivery id was
recorded, a runner that dies. Correct when: each push is built once in the end.

**edge-runtime** (`services/edge-runtime`). In-memory bundle registry and
request dispatch. Hard: a restart forgets bundles that are still routed.

The other components (codecs, provider clients, stateless handlers, user
interface, shared packages, Rust ports) are listed in PROJECT.json with the
reason they are left out.

### 1.2 Interactions

```
 git push -> git-webhook -> build-runner -> deploy-orchestrator
                                              |  put/delete tarball   -> object-storage
                                              |  register/unregister  -> edge-runtime
                                              |  swap/delete route    -> tunnel routes
 public request -> tunnel edge == WebSocket == tunnel origin -> local service
 control plane (HTTP) -> worker-runtime -> OS processes

 user, GitHub -> apps/api: rows, queue, runner -> services/orchestrator: sandbox,
                                                  directory, process of an app
 Stripe -> apps/api: gate, subscriptions <- usage reporter -> Stripe
```

The deploy orchestrator is the only writer of three remote stores and has no
transaction over them. The tunnel's two daemons share nothing but sockets. The
worker runtime shares processes with the operating system, which decides when
they exit.

### 1.3 Hazards

PROJECT.json lists 40 hazards with the line where each bites and the properties
that watch it. Fifteen have none, and their notes say why. In eleven of them nothing in
the code prevents what the hazard says, so that no property of it holds: they are in the
models, the properties beside them name what they except, and section 6 describes them
(five of overlapping requests to the worker runtime; the swallowed undo step, the lost
answer and the shared tarball of a deployment; the write-back and the quota check of a
resize; the deploy given up too early). Two need a composition (two tenants deploying to
one hostname, a restart of the edge runtime, section 9), and two are in services that are
not modelled.

## 2. The modules and the code

```
 Supervisor <- WorkerRuntime <- MCWorkerRuntime <- WorkerClaims
                     '-- WorkerRuntimeSerial --implements--> WorkerLifecycle
                            ^---- WorkerRuntimeProofs

 DeployPipeline <- MCDeployPipeline
       ^---------- DeployPipelineProofs

 TunnelWire <- TunnelEdge   <--+
        ^----- TunnelOrigin <--+-- Tunnel <- MCTunnel <- TunnelClaims
                                     ^------ TunnelProofs

 CronScheduler <- MCCronScheduler
       ^--------- CronSchedulerProofs

 PersistentDisks <- MCPersistentDisks
    |  ^----------- PersistentDisksProofs
    '--implements--> VolumeLifecycle                  (one per volume)

 AppDeployer <- ApiBuilds <- MCApiBuilds
                    ^------- ApiBuildsProofs

 StripeWebhooks <--- MCBilling ---> UsageReporter
       ^-- StripeWebhooksProofs       ^-- UsageReporterProofs
```

The rule for the grain of atomicity is the event loop's: an action is what runs
from one wake-up (a request, a settled await, a timer, an exit, a frame) to the
next `await`. Definitions whose comment starts with "Mutant:" are deliberate bugs
kept beside the definition they would replace; no specification uses them.

### 2.1 worker-runtime

| Model | Code |
|---|---|
| `Supervisor`: `NewSupervisor`, `BeginWanted`, `Launched`, `HandleExit`, `Exited`, `StoppedIdle`, `Stopping`, `TimerFired` | the uninterrupted stretches of `supervisor.ts`, as functions on the fields of one supervisor |
| `sups[s].softKill` | the field `softKillTimer`, as the request whose timer the field holds |
| `sups[s].sampler`, `runs[r].watch` | the field `memorySampler`, and whether run r's interval still ticks |
| `runs` | activations of `spawnOnce`: launching, alive, gone |
| `req[c]` | a request suspended in `stop()` on the exit of one process |
| `Register`, `Start`, `StopIdle`, `StopAwait`, `ShutdownEmpty` | the handlers of `index.ts` up to their first await |
| `AfterStop`, `Resume` | what each caller of `stop()` does after it |
| `LaunchOk`, `LaunchFails` | `spawnOnce` after `prepare` and `spawn` |
| `Exit`, `TimerFires`, `SoftKill`, `MemoryKill`, `TimeoutKill` | the callbacks of `supervisor.ts` |

The continuations of `stop()` are microtasks of the exit they wait for, so no
other event runs before them: every other action has the guard `Due = {}`.
Worker ids share nothing, so one id stands for all; registering it again
after a delete creates a new supervisor, and old processes keep theirs.

`WorkerLifecycle` is the abstract specification: the status diagram of
`services/worker-runtime/README.md` with one process, alive exactly while the
worker is shown running. `WorkerRuntimeSerial` restricts requests to a client that
waits for each answer and for the end of a launch, and implements it; without
that discipline the runtime does not (section 6).

### 2.2 deploy-orchestrator

| Model | Code |
|---|---|
| `Enqueue`, `MayRun`, `TailsAfter` | `queue.ts`: chaining behind the tail, `previous.then(task, task)`, dropping the tail if it is still one's own |
| `Begin`, `Upload`, `Read`, `RegisterBundle`, `Swap`, `Probe`, `Warm` | the stages of `runDeployPipeline` |
| `undo` | the `undo` array: an undo step exists only after the call it undoes returned |
| `UndoRoute`, `UndoBundle`, `UndoObject`, `Fail` | `fail()` and the loop over the undo steps, last first, errors swallowed |
| `Crash` | a restart of the process, which keeps nothing |
| `routes`, `bundles`, `objects` | the services behind `clients.ts` |

A remote call is done, refused, or unanswered (applied, but the caller sees an
error). A deployment's `missed` set records the calls after which a service and
the deployment disagree: a forward call that was applied and not answered, an
undo call that was not applied. (An undo call that was applied and not answered is
like one that was answered, since errors are swallowed there.) Properties that a missed call
voids by nature name the calls they exclude, and no others. `warmBundle` has no
effect on the state. The tunnel's `/routes/swap`
endpoint exists only in the client code, so `routes` is modelled from its use.

### 2.3 tunnel

| Model | Code |
|---|---|
| `TunnelWire` | the WebSocket as both sides use it (external): FIFO streams, close asked by either end, one close event per end, breaks |
| `Handshake`, `OpenFrame`, `EdgeReceive`, `Verified`, `Refused`, `ServerClosed` | `edge/src/daemon.ts`; `Verified` is what follows `await verifyHandshake` |
| `Register`, `Unregister`, `Rejected` | `edge/src/registry.ts` |
| `Arrive`, `Dispatch`, `Timeout` | `edge/src/forward.ts` around `await request.arrayBuffer()` |
| `Start`, `Reconnect`, `Dial`, `ClientOpened`, `Signed`, `OriginReceive`, `Served`, `SendPing`, `HandlePong`, `PongTimeout`, `HandleClose`, `ClientClosed`, `Stop`, `StopDone` | `origin/src/daemon.ts`; `Signed` follows the signing of the token, `Served` the local fetch, `StopDone` the drain |
| `Tunnel` | the composition: one event at one daemon, or a break |

The handlers that look at "the socket of this moment" (`sendIfOpen`, the pong
timer, `handleClose`) do so in the model: the socket an event belongs to and the
socket it acts on are two different things. Likewise `deadlines` holds every
armed pong timer and `pongDeadline` the one whose handle is kept, since a second
ping overwrites the handle of the first.

### 2.4 cron-scheduler

| Model | Code |
|---|---|
| `objs`, `jobs` | the job objects ever created, and the registry's map from id to object; an id deleted and created again stands for a new object |
| `CreateJob`, `DeleteJob`, `SetStatus`, `TriggerNow` | the routes of `server.ts` with the registry call and `refreshNextFire` each makes |
| `Tick`, `GoOn`, `Scan` | `tick()` between two awaits: the list is read once, the objects in it may be gone; `todo` is what is left of it, a set because the list is in the order of creation |
| `Attempt`, `Settle`, `Retry` | `executeWithRetry`: it looks its job up by id before every attempt |
| `Abort` | the catch of `runLoop` around a tick |
| `Stop`, `LoopEnds`, `Exit`, `SignalAgain` | `stop()` and the signal handler of `index.ts` |

An object's `done` is a history: when the loop last rescheduled it after a firing.

### 2.5 persistent-disks

| Model | Code |
|---|---|
| `CreateVolume`, `ResizeVolume`, `DeleteVolume`, `CreateSnapshot`, `RestoreSnapshot`, `RestoreNew` | each method up to its driver call |
| `Driver` | the commands of `driver.ts`, done or failed halfway |
| `Return`, `AfterCall` | the method after the await: the record it read is written back |
| `AttachVolume`, `DetachVolume` | the two methods without a driver call |

`VolumeLifecycle` is the abstract specification: the diagram at the head of
`registry.ts` and "resize is grow-only", for one volume. `FollowsLifecycle` says
that every volume implements it. Four histories name the cases the code does not
rule out: `raced` volumes (written to while an operation on them was in flight),
`crowded` tenants (let grow while a resize of theirs was), `faulted` volumes (a
driver call failed), and `held`, the worker that was told it has the volume.

### 2.6 Builds and the deployer

| Model | Code |
|---|---|
| `Create`, `Cancel`, `CancelRead`, `DirectDeploy`, `DirectDone` | `deployments.create` (and the push webhook), `deployments.cancel` around its read, `projects.deploy` around its call |
| `queue`, `draining`, `Return` | `buildQueue`, `queueRunning`, `drainQueue` |
| `Start`, `Check`, `FinaliseCancelled`, `Deploy`, `Deployed`, `Flip`, `GoLive`, `Recorded` | `runBuild`, step by step between database writes |
| `StepFails`, `DeployFails`, `DeployTimesOut`, `DbError`, `Fail`, `FailUnwritten` | what ends in its catch, and the catch |
| `Restart` | a restart of the API process |
| `AppDeployer`: `Begin`, `Cloned`, `Installed`, `Promoted`, `Finished`, `GiveUp` | `deploy()` of `deployer.ts` between its awaits |
| `RollBack`, `RolledBack`, `Undeploy`, `Undeployed` | `rollback()`, `undeploy()` |
| `tree`, `disk`, `beside`, `proc`, `entry` | the sandbox, the app's directory, `<app>.previous`, the tracked process, the manifest's entry |

`ApiBuilds` extends `AppDeployer`: the runner's `Deploy` is a step of both, and it
learns the end of the deployer's work from `req`. Histories name the ways a
deployment's code reaches the app past the runner (`foreign`), rows nobody works
on any more (`lost`), rows overwritten after they went live (`late`), and cancels
written in time (`inTime`).

### 2.7 Billing

| Model | Code |
|---|---|
| `Subscribe`, `Checkout`, `Change`, `End`, `Invoice` | Stripe (external): what it does and the event that tells it. A checkout completes at any time after the subscription, once; an invoice is paid or fails at any time, also while the subscription is unpaid, after it ended and before the checkout, and changes no status by itself |
| `Receive`, `Replay`, `GateError` | `recordBillingEvent`: a new event, a known one, and an insert that fails, which the code takes for a known one |
| `Retrieve`, `FindPayer`, `Pay`, `Write` | the handlers between their awaits |
| `Mark`, `HandlerFails` | `markEventProcessed` at the end of a handler, or the error or crash that comes instead |
| `Report`, `ReadReported`, `Push`, `PushRefused`, `WriteReported` | `reportUsageForUser` between its awaits |
| `Unwritten`, `ReadFails`, `Crash` | a lost answer or failed write, a failed read, the end of the process |

One user with one subscription stands for all: no handler touches two. Three
histories say what a delivery was like: `missed` (events whose handler did not do all it
does), `disorder` (an event was applied after a later one) and `last` (the event applied
last).

The reporter reads the row of the subscription, which the webhooks write, and
`UsageReporter` lets that row change at any time in any way; the two share nothing else.
`MCBilling` therefore checks them side by side in one run: its variable `half` chooses
which of the two a behaviour is of, and the other is at rest.

## 3. Runs

`CHECK_DEADLOCK FALSE` is set everywhere because the systems may really stop: a
runtime that was shut down, a queue that has drained, a daemon that was stopped,
or the bound on registrations, deployments and sockets reached.

| Run | Shows | Instance |
|---|---|---|
| `worker_open` | with any interleaving of requests: typing, `CrashIsScheduled`, `RestartBudget`, `StopIsRespected` | 2 interchangeable waiting requests, 1 restart, 2 registrations, 2 launches by request |
| `worker_serial` | `ImplementsLifecycle`, `WatchdogArmed`, `StopReturns`, `CrashIsRetried` | 1 client, 2 restarts, 2 registrations, 3 launches by request |
| `deploy_pipeline` | `FirstInFirstOut`, `RoutesAreServed`, `FailureRestoresRoute`, `BundleIffLive`, `DeploysSettle` | 2 tenants with a hostname each, 1 build, 3 deployments, one of them with missed calls, 1 restart |
| `tunnel_safety` | typing with the in-flight ceiling, `LiveIsRouted`, `RoutesAreLive`, `OneSocket`, `StaysDown` | 1 origin, 1 hostname, 2 interchangeable requests, ceiling 1, 3 sockets, 2 pings, 1 fault |
| `tunnel_heals` | `Heals`, `ForwardSettles` | 1 origin, 1 request, 6 sockets, 1 ping, 1 fault |
| `cron_scheduler` | `NoPileUp`, `EveryDueJobFires`, `StopEnds` | 2 ids, 2 objects, 1 manual trigger at a time, 2 attempts, a clock of 3 with an expression that names 2 and 3 |
| `persistent_disks` | `FollowsLifecycle`, `HolderKeepsVolume`, `WithinQuota`, `StorageAccounted`, `TransientsEnd` | 2 volumes of one tenant, created with size 1 and resized to 2 under a quota of 3, 2 requests at a time, 1 worker, 1 snapshot |
| `api_builds` | `OneCurrent`, `ServedIsCurrent`, `CancelIsHonoured`, `BuildsSettle`, `RunsFromDisk`, `SandboxIsClean` | 2 deployments, one a plain site, 1 rollback or undeploy, 1 fault |
| `billing` | webhooks: `NewestRepairs`, `MirrorsStripe`, `CanceledIsEnded`; reports: `NothingUnpushed`, `NeverOvercounted` | 4 events, 2 handlers at a time, 1 fault; 2 reports, 2 types, 2 units of each, 1 fault |
| `worker_claim_start`, `tunnel_claim_drain`, `builds_claim_rollback` | each finds one documented promise violated (section 6) | the smallest instance that shows it |

Why the bounds are enough. Two waiting requests are what it takes to share a
soft-kill field or to wait for one exit twice, and two registrations to delete
somebody else's. Three deployments of two tenants give a tenant one deployment
running, one chained and a tail to clean up, with another tenant interleaved; a
redeploy of the same build is among them. Three sockets are a connection, its
replacement and one more dial with close events of both still to come; a request
ceiling of one with two requests reaches the 503; two pings are what it takes to
overwrite the handle of a pong timer, which then outlives its socket. One fault is one break,
refused handshake, late answer or late timer at any place; what needs two
together is outside the runs but inside the proofs, which have no bounds.
`tunnel_heals` needs six sockets so that no healing is cut off by the bound: a
fault, a timer left behind by it and each of their consequences cost a dial. It has one
ping, so the overwritten timer is met in `tunnel_safety` and in the proofs only.
Two jobs are one that is fired and one that waits behind it or is deleted and
created again meanwhile, and two instants let one come due during the firing of
the other. Two volumes and two requests overlap on one volume and on one quota,
whose size lets either resize pass and not both. Two deployments are what it takes
to queue one behind the other, to overlap in the deployer, and to have a current
row replaced. Four events are a subscription, its checkout and two more: an end or a
lapse with an invoice before, after or against it. Two reports overlap in every order, and the second unit of usage may
come between them. Symmetry is used only in runs without liveness properties.

### Fairness

- worker: a due timer fires, a due microtask runs, and SIGKILL ends a process.
  Nothing is assumed of `prepare` and `spawn` (the tarball fetch has no timeout),
  nor of a process that received SIGTERM, nor that anyone makes a request.
- deploy: each remote call settles, one way or the other; `fetch` resolves or
  rejects. Nothing is assumed about which.
- tunnel: frames on a sound socket arrive, a close that was asked for is noticed,
  awaits settle, timers fire; a timer that fires while its answer is still under
  way counts as a fault instead. A break need never be noticed by either end: the
  heartbeat has to find it. `stop()` and new requests are never assumed.
- cron: the loop's sleeps end and its dispatches settle, which have a timeout.
- disks: the driver's commands end and their continuations run.
- builds: the runner's awaits end (git is killed at the timeout of the build, the
  sandbox kills what runs in it, the call of the deployer is given up after two
  minutes), and so does the call of a direct deploy. Nothing is assumed of the
  deployer itself, nor of anyone who cancels.
- billing: none. Its properties are safety properties; nobody is bound to start a
  report (`reportAllPendingUsage` is called by an administrator's procedure, and nothing
  in the repository schedules the "nightly cron" its comments speak of), and an event is
  delivered or not.

## 4. Proofs

TLAPS proves, for any sets the constants name (callers, tenants, origins, volumes,
deployments, reports, ...) and any values of the bounds:

| Module | Theorems |
|---|---|
| `WorkerRuntimeProofs` | `TypeCorrect`, `CrashAlwaysScheduled`, `RestartsBounded`, `StopAlwaysRespected`, `LifecycleImplemented`, `WatchdogAlwaysArmed`, `OneProcessShown`, `StopsAreAnswered` |
| `DeployPipelineProofs` | `TypeCorrect`, `DeploysAreOrdered`, `RoutesAlwaysServed`, `BundlesMatch`, `FailuresRestoreRoutes`, `QueueNeverStuck` |
| `TunnelProofs` | `TypeCorrect`, `OneSocketEach`, `StoppedStaysDown`, `RoutesLead`, `LatestWins`, `NobodyStranded` |
| `CronSchedulerProofs` | `TypeCorrect`, `FiringsNeverPileUp` |
| `PersistentDisksProofs` | `TypeCorrect`, `HolderKeeps`, `ImplementsLifecycle`, `StorageIsAccounted`, `QuotaHolds`, `TransientsAreAttended` |
| `ApiBuildsProofs` | `TypeCorrect`, `ProcessRunsFromDisk`, `SandboxIsCleaned`, `AtMostOneCurrent`, `CurrentRowIsLive`, `CancelHonoured`, `CurrentIsServed`, `NobodyIsForgotten` |
| `StripeWebhooksProofs` | `TypeCorrect`, `NewestAlwaysRepairs`, `CanceledHasEnded`, `RowMirrorsStripe` |
| `UsageReporterProofs` | `TypeCorrect`, `ReportedWasPushed`, `PushedAtMostOnce` |

The last four modules also state as `Strengthened` the inductive invariant the
others follow from. `CurrentRowIsLive`, that the current row says live unless one of two
late writes overwrote it, is no property of a run: the invariant needs it, and the two
exceptions are all it is about. `StopsAreAnswered`, `QueueNeverStuck`, `NobodyStranded`,
`TransientsAreAttended` and `NobodyIsForgotten` are not properties of a run: each is
the safety half of a liveness property (section 5).

Where a proof needs a least number, a last deployment or a sum, the definitions it
rests on use CHOOSE or a cardinality, and an induction over data is out of the
prover's reach. The modules take the well-foundedness of strict inclusion on finite
sets instead, which the library proves as a fact about sets: a least counterexample
exists, and one element more or less refutes it.

Assumptions: those the modules declare and nothing else. `CallersAssumption` (the
value for "no request" is none of the requests), `RestartsAssumption` and
`BoundsAssumption` (bounds are naturals), `OwnerAssumption` (each hostname has one
tenant), `DeployBounds`, `TunnelAssumption` (each origin advertises a set of
hostnames, bounds are naturals, there is an origin, request ids are not numbers),
`DiskAssumption` (each volume has a tenant, sizes are positive), `RunnerAssumption`
and `CronBounds` (the loop is none of the callers, at least one attempt, bounds are
naturals, schedules are sets of instants after 0), `DeployerAssumption` and
`BuildsAssumption` (plain sites are deployments, bounds are naturals),
`WebhookAssumption` and `ReporterAssumption` (bounds are naturals, there is a type of
usage with a price).

**Worker.** `IInv` is `TypeOK`, `AllSound` and `Budget`. `Sound` is what every
uninterrupted block keeps of one supervisor's fields. Its first conjunct is
`CrashIsScheduled`. Its second, that a pending timer was armed under a restarting
policy and that no stop has come since, is what `StopIsRespected` rests on; its
third, that a crashed supervisor is below its cap, is what `RestartBudget` rests
on. `Budget` bounds the runs opened by the timer by the restart counter as well
as by the cap, because the counter is what `handleExit` compares. Since several
processes of one supervisor may exit between the arming of the timer and its
firing, neither bound alone survives a step. It counts all of a supervisor's life,
which the code makes true by never lowering the counter; `RestartBudget` promises less, a
bound from the last start or restart asked for, which would hold as well if a start
reset the counter as the README of the service says (section 6).

For a client that waits, `SerialInv` adds `Away` (a supervisor whose registration is
over is stopped for good: no timer, no process, so nothing of it can run under the
next registration) and `Stands`, which lists how the worker can stand: nobody is
registered; nothing is launching or alive; one launch is on its way; one process is
alive and watched. Each action is shown to lead from one to another and to be, under
the mapping (what is shown, whether a stop was asked for, how many are alive), a step
of `WorkerLifecycle` or a stutter. `LifecycleImplemented` follows, and `WatchdogArmed`
is part of the fourth case. `StopsAreAnswered` adds that the one request that waits
holds its own soft-kill timer until that timer has sent SIGKILL or the process is gone.

**Deploy.** `IInv` has three parts. `Queue` (`Typed`, `Chained`,
`FirstInFirstOut`): a deployment of the tenant that is unsettled is at or before
the one a later deployment is chained to, and at or before the tail. `Registry`
(`Shaped`, `Held`, `Recorded`): which undo steps exist at each stage, and that a
bundle is there while its undo step is, and otherwise only if a call was missed.
`RouteTable` (`RouteHeld`, `PrevHeld`): the bundle a hostname is routed to and the
bundle a rollback will route it to are both held, the second by a deployment
that has settled. `PrevHeld` needs `Queue`: while a deployment holds the route no
other of its tenant runs, so nothing removes the bundle it remembers. That is
where `OwnerAssumption` enters. `FailuresRestoreRoutes` adds `Restored`, which says
the property by what the last live deployment satisfies rather than by CHOOSE; it is
inductive because while one deployment is on its way no other of its tenant swaps
the hostname or goes live on it. `QueueNeverStuck` adds `Undoable`, that a deployment
in rollback has an undo step left: the least unsettled deployment of a tenant is then
one that can go on, since the one it is chained to has settled.

**Tunnel.** `IInv` is `Typed`, `Dialled` (nothing is known of a socket that was not
dialled), `GoodDaemon` for each origin (no socket before the start, after the stop or
while the reconnect timer is armed, and the ceiling) and `Linked` (the daemon's
socket is its own, and a socket that is still dialling or open is its daemon's).
Without the last conjunct of `Linked`, that a closing socket is the daemon's too
unless it stopped, a late close event could make a daemon forget a newer socket.
`Routed` (`RoutesAreLive` and `LiveIsRouted`) is inductive relative to `IInv`. `Ages`
says what a step may do to a socket it does not dial: no end opens again and the
owner stays. Each action is shown once to keep `IInv` and to let sockets only age
(`Advances`); the routes and `StaysDown` follow from that. `NobodyStranded` is
inductive beside `IInv`: a close event finds the daemon's own socket or a stopped
daemon, so whoever forgets a socket arms the timer; a token signed for an earlier
socket is dropped while the next one is dialled, and that one, once open, has its own
signed. The theorems cover several origins that advertise the same hostname, while
the TLC instance has one origin.

**Cron.** `IInv` is the types, `Later` (a next fire lies after the last reschedule),
`Calls` (a runner that is not idle is at some attempt of some id), `Listed` and
`InTick`. `Listed` is what an await inside a tick puts at risk: the tick goes on with
objects it listed before it. It says that the ids left on the list differ, that none
of the objects was fired since the tick began, and that an id whose object is gone
stands for nothing or for an object never fired; `InTick`, that the job being fired
is not among them, so the reschedule that follows its firing touches none.

**Disks.** `IInv` is `Global` (typing, and what an operation carries over its driver
call: the size to write exceeds or equals the one read) and `Undisturbed` for each
volume that is not raced. That has four parts: at most one operation in flight
writes the volume (`Alone`); what it read is still what the registry holds (`Kept`);
a volume in creation has the operation that creates it (`Created`); and `Holds`,
which is `HolderKeepsVolume`. `Kept` is the point: it is what makes a write-back of
a stale record harmless, and it rests on `Alone`. `ImplementsLifecycle` is the
step-by-step refinement, one abstract step or a stutter per action, from the same
invariant. `StorageIsAccounted` adds `Behind`, on top of it: between the driver's
answer and the code that runs after it the operation knows what the driver did, so
the status it writes is one the storage agrees with. `QuotaHolds` adds `Room`: a
tenant has finitely many volumes, and one for which nothing raced has one resize in
flight at most and room for what it will add, so that the write-back, which checks
nothing, stays within the quota. `TransientsAreAttended` adds `Ended`: of an operation
that writes back what it read, the status it read was not a transient one. It needs
no exception for volumes that are raced.

**Builds.** The deployer's two invariants are inductive with its types, and each of
its steps is shown once to keep them, whatever the API does. `Serial` says that the
one drain runs one build, that the queue holds each row once, and that nothing runs
or waits when the flag is down; `Marking` that no row is current while a build is
about to mark its own, which is what two separate updates leave to be shown; `Row(d)`
ties a row's status and mark to where its build stands and to the cancels that were
written. The proof goes writer by writer: the drain, the runner, the catch, the
cancel, the direct deploy and the restart. `CurrentIsServed` is about both
specifications at once and adds `Serving`: what lies in the sandbox is the code of a
deploy in flight, a deploy in flight is the one the runner waits for or one that got
past it, and once the runner's deploy is promoted no other current row has to do with
the process, so the marks can be cleared. The proof is also what showed that a
rollback can bring back the code that the directory still holds (three overlapping
deploys of a plain site, the promoted one then failing), which the two deployments of
the instance are too few to reach; `foreign` follows the process for that reason.
`NobodyIsForgotten` adds `Worked`, that the flag of the drain is up only while a
build is going on.

**Stripe.** `IInv` is the types and five parts that hold whatever is missed or
reordered, then two that do not. `Told`: the newest event names the present status, and
a subscription that has ended stays so. `Gated`: what is handled was recorded, what was
recorded was sent, and a handler about to write is at a checkout that has read its
status or at a paid invoice that is recorded. `Rows`: a row, and with it a payment, comes
of a checkout that was applied. `Fresh`: the two properties `NewestRepairs` and
`CanceledIsEnded`, and that a checkout about to write which is the newest event has read
the present status. This is where an early read could go wrong: a checkout writes what
Stripe said when it asked, and only an event after it can have changed that. `Complete`,
while no event was missed: what was answered was recorded, and a checkout that is settled
has made its row. `Followed`, while events were also applied in order: what is settled is
no later than the event applied last, and a settled invoice is a payment exactly if it is
later than the checkout. The proof needs nothing of when invoices come.

**Usage.** `Backed` says that a total about to be written was pushed, and that before
a push the quantity it starts from was: the increment then reaches the total
whatever other reports have pushed or written back in between. `PushedAtMostOnce`
needs `Exact` besides, for the types of which nothing is in doubt: one report runs,
what it read is still the row, and what was pushed is what the row says or, between
the push and the write, the total about to be written.

## 5. Only model-checked

Every invariant and every action property of the runs that hold is also a theorem.
The nine liveness properties are not: `StopReturns`, `CrashIsRetried`,
`DeploysSettle`, `Heals`, `ForwardSettles`, `EveryDueJobFires`, `StopEnds`,
`TransientsEnd` and `BuildsSettle`. The prover has no rules for
fairness of these actions and none for ENABLED. What it can do is their safety half,
that whatever has to end always has somebody who will end it. It is proved for
`CrashIsRetried` (`CrashAlwaysScheduled`), `StopReturns` (`StopsAreAnswered`),
`DeploysSettle` (`QueueNeverStuck`), `Heals` (`NobodyStranded`), `TransientsEnd`
(`TransientsAreAttended`) and `BuildsSettle` (`NobodyIsForgotten`); TLC then shows, on
its instances, that fairness turns it into an end. For the other three it would repeat
the guard of one action.

## 6. Findings

Each is a run whose single property says what a document or comment of the
repository says.

| Run | Document | Code |
|---|---|---|
| `worker_claim_start` | `services/worker-runtime/README.md:104` "A subsequent `POST /workers/:id/start` resets the counter." | nothing ever lowers the counter: a worker that was marked failed and is started again is marked failed at its next crash, without one restart |
| `tunnel_claim_drain` | `services/tunnel/README.md:73` "Drain in-flight requests" | the edge closes on the shutdown frame, and the responses of the drain go nowhere |
| `builds_claim_rollback` | `services/orchestrator/src/deployer.ts:480-481` "We back up the existing appDir first to enable rollback." | the backup is a copy made inside the directory that is removed next: after two deploys, one after the other, of an app that is not a plain site, a rollback stops the process, finds no backup and starts nothing |

Further disagreements between documents and code, which the models contain and
the properties allow for, without a run of their own:
- worker-runtime: a DELETE during a launch deregisters the worker and the process
  still comes up (README:34); two restarts that wait for one exit both spawn, and the
  supervisor then tracks one of two processes; a DELETE that waited for an exit deletes a
  newer registration of its id; the exit of a replaced process cancels the watchdog of
  its successor; two stops of two processes share one timer field, so the exit of
  one cancels the SIGKILL of the other (README:108).
- deploy-orchestrator: a refused restore is swallowed and the bundle the hostname is
  routed to is deleted next (README:67-70); the object key has the build id, so a
  failed redeploy deletes the live deployment's tarball (README:53-55).
- persistent-disks: two resizes pass the quota check together (`crowded`; the README
  has it enforced at resize), and a resize or restore that ends after an attach,
  detach or delete undoes it, or shrinks the volume (`raced`). The driver names a
  snapshot's file by an id of its own while restore looks for the registry's, so
  with that driver no restore finds its file.
- builds: flip and go-live are two updates where the web page on deploys says "in
  one transaction"; a cancel is accepted while the row says deploying and then
  never honoured, against the comment at `deployments.ts:271-272`; a cancel that
  read `queued` may overwrite a row that is live, and a log line that fails after
  go-live marks the current row failed (`late`); the client gives up after 120 s
  where the deployer allows 600 s, and the orchestrator goes on alone (`foreign`); a
  direct deploy passes the queue, writes a status that no other code knows and never
  becomes current; rows under way at a restart stay so (`lost`); the catch of a
  failed deploy stops the process of the previous one; an undeploy removes the
  directory of an app that was started meanwhile (`razed`).
- billing: an event whose gate insert or handler fails is lost, since Stripe's retry is
  taken for a replay (the comment at `webhooks.ts:109` calls the handlers safe to
  replay): the row stays wrong until a later event is applied. An update applied after a
  deletion revives the row. So does an invoice even when every event is delivered once and in order:
  the handlers write `active` and `past_due` whatever the subscription is
  (`webhooks.ts:292-297`, `311-314`), so a final or late invoice told after the end, or
  while the subscription is unpaid, leaves a row that differs from Stripe until the next
  event of the subscription, if there is one. That is why `NewestRepairs` speaks of what
  the newest event says, invoices included, and `MirrorsStripe` of no status. A status such as `unpaid` counts as
  active (`Shows` says so). An invoice paid before the checkout has made the row, as
  the first may be, is not recorded. The comment at `webhooks.ts:184-186` speaks of an
  upsert for "subscriptions created outside the checkout flow"; the handler only
  updates, and such a subscription never gets a row. A crash or an overlap between push
  and write pushes usage twice, against "Idempotent & resumable" at the head of
  `usage-reporter.ts` (`doubtful`).

Seen while modelling and allowed by the models, without a document that says
otherwise:
- A cron job that is paused while a tick waits may be given a next fire from the
  tick's stale list, an id deleted and created again may be fired at the old job's
  instant, and a manual trigger overlaps the tick's dispatch of the same job.
- A response to a request of an earlier socket, sent after the new socket opened
  and before its advertise, is taken for the handshake and the edge closes the
  new socket.
- A handshake verified after its socket closed registers a connection whose close
  event has already been handled; it stays until it is displaced.
- A pong timer whose handle was overwritten outlives its socket and closes the
  next one, once.
- A handshake signed during the drain marks the daemon open again, and a close
  then makes it reconnect until the drain ends.

`NoPileUp` holds in spite of the first and `RoutesAreLive` in spite of the others. `Heals`
is checked with all of them but the overwritten timer, which needs a second ping;
`OneSocket` is checked, and proved, with that one too.

## 7. Abstractions

- Data: a request, tarball, bundle or frame is an identity. Headers, bodies,
  codes, log lines and status listeners are left out. Validation that rejects
  without touching the state is left out.
- Time: a timer may fire whenever it is armed. Back-off lengths, the scheduled
  times and the attempt counter of the reconnect are not modelled.
- worker: `prepare` and `spawn` are one await, since they fail alike and nothing is
  read between them. Pids, logs and memory figures are left out. A SIGTERM may or
  may not lead to an exit.
- deploy: reading entrypoint, code and secrets is one step that may fail. Status
  callbacks are left out. Each hostname has one owner.
- tunnel: a daemon is started once and stopped at most once, as
  `origin/src/index.ts` does. A refused handshake is a fault of the environment. Ping
  ids are recycled once no trace of the last one is left. Restarts of the edge or
  of the origin process, a failing signature and a dial that throws
  are not modelled.

- cron: an expression is a set of instants and the clock steps through them; one retry
  policy for all jobs; run history and dead letters left out.
- disks: the driver is what its interface allows, an image per volume; a volume id is
  never used again. A restart, which loses the registry, is left out.
- builds: one project. The steps of a build fail or not, their commands left out.
  Ports, Caddy routes, DNS, health probes and a restart of the orchestrator are not
  modelled, nor a process that dies by itself, which the manager restarts from the
  same directory. The promotion of an older row is left out.
- billing: one subscription, statuses as Stripe names them, trialing left out,
  of which the handlers make nothing but the status; payments by the event that told them. An invoice without a payment
  intent or a subscription, which its handler ignores, is left out. The customer's record and the tenant database are left out. Usage of
  one user in one month.

## 8. Not modelled

The webhook dispatcher, the retry queue, email-send, preview-deploys and
git-webhook keep state that interleaves and have no module. In the first
two nothing prevents overlapping runs from doing the work twice, so the property one
wants does not hold and the one that does says little; the others are planned
(section 9). The rest are listed in PROJECT.json with their reason: provider clients
and codecs are pure I/O, text analysis and configuration rendering keep no state,
cryptography is beyond this method, the user interface, which is most of the
repository's lines, has no protocol of its own, and the Rust crates repeat
TypeScript services.

## 9. Plan

Done: worker-runtime, deploy-orchestrator, tunnel, cron-scheduler,
persistent-disks, builds and deployer, Stripe webhooks, usage reports. Next, in
order:

1. `PreviewDeploys` and `GitWebhook`, the latter feeding `DeployPipeline`.
2. `EmailSend`: attempts per recipient against what the server accepted.
3. Compositions: `DeployPipeline` with a restarting edge runtime and with two owners
   of one hostname; the tunnel with two origins and a restarting edge; `ApiBuilds`
   with a restarting orchestrator.
