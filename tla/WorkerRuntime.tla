---------------------------- MODULE WorkerRuntime ----------------------------
(***************************************************************************)
(* services/worker-runtime: the HTTP control plane, the registry entry of  *)
(* one worker id, the supervisors registered under it one after another,   *)
(* and the operating-system processes those supervisors spawn.             *)
(*                                                                         *)
(* The program is one JavaScript event loop.  An action is one macrotask   *)
(* (a request, a timer, a settled fetch or spawn, an exit) up to its next  *)
(* await, with one exception: the continuations of stop() that wait for an *)
(* exit are microtasks of that exit.  Each is an action Resume(c), and no  *)
(* macrotask runs while one is due (Due = {}).                             *)
(*                                                                         *)
(* Several worker ids share nothing, so one id stands for all.             *)
(***************************************************************************)
EXTENDS Supervisor, Sequences, FiniteSets

CONSTANTS MaxWorkers,   \* bound: registrations of the id
          MaxLaunches   \* bound: start and restart requests that spawn

ASSUME BoundsAssumption == MaxWorkers \in Nat /\ MaxLaunches \in Nat

VARIABLES
  registry,  \* the supervisor the id maps to (an index of sups), 0 if none
  sups,      \* every Supervisor created, oldest first
  runs,      \* every activation of spawnOnce and the process it spawned
  req,       \* the requests waiting inside stop() for an exit
  open       \* the HTTP server is listening

vars == <<registry, sups, runs, req, open>>

-------------------------------------------------------------------------------
Ops == {"stop", "restart", "delete", "shutdown"}

(***************************************************************************)
(* A run is launching while spawnOnce awaits prepare and spawn (the two    *)
(* awaits fail alike and nothing is read between them), alive while the    *)
(* process is, then gone.  auto: spawned by the restart timer.  killed:    *)
(* sent SIGKILL and not yet gone.  watch: its memory interval still ticks. *)
(***************************************************************************)
RunFields == [sup: Nat, auto: BOOLEAN, at: {"launching", "alive", "gone"},
              killed: BOOLEAN, watch: BOOLEAN]

NewRun(s, auto) == [sup |-> s, auto |-> auto, at |-> "launching",
                    killed |-> FALSE, watch |-> FALSE]

(* A request that waits holds its own soft-kill timer while soft is TRUE. *)
ReqFields == [op: Ops \cup {"none"}, sup: Nat, run: Nat, soft: BOOLEAN]

NoReq == [op |-> "none", sup |-> 0, run |-> 0, soft |-> FALSE]

Waiting == {c \in Callers : req[c].op # "none"}

(* The stop() calls whose process has exited: microtasks about to run. *)
Due == {c \in Waiting : runs[req[c].run].at = "gone"}

Launching == {r \in DOMAIN runs : runs[r].at = "launching"}
Alive     == {r \in DOMAIN runs : runs[r].at = "alive"}

(* The runs that requests have opened or, waiting in restart(), will open. *)
LaunchesAsked ==
  Cardinality({r \in DOMAIN runs : ~runs[r].auto})
    + Cardinality({c \in Waiting : req[c].op = "restart"})

Init ==
  /\ registry = 0
  /\ sups = << >>
  /\ runs = << >>
  /\ req = [c \in Callers |-> NoReq]
  /\ open = TRUE

-------------------------------------------------------------------------------
(* handleRegister; a body that fails validation or an id already registered *)
(* is answered without touching the state.                                  *)
Register(p) ==
  /\ open /\ Due = {}
  /\ registry = 0
  /\ Len(sups) < MaxWorkers
  /\ sups' = Append(sups, NewSupervisor(p))
  /\ registry' = Len(sups')
  /\ UNCHANGED <<runs, req, open>>

(* start(); it returns at once when the worker is running or starting. *)
Start ==
  /\ open /\ Due = {}
  /\ registry # 0
  /\ sups[registry].status \notin {"running", "starting"}
  /\ LaunchesAsked < MaxLaunches
  /\ sups' = [sups EXCEPT ![registry] = BeginWanted(@, FALSE)]
  /\ runs' = Append(runs, NewRun(registry, FALSE))
  /\ UNCHANGED <<registry, req, open>>

(***************************************************************************)
(* What follows the await of stop() in each of its callers, v being the    *)
(* fields of supervisor s that stop() left.  handleDelete deletes the id   *)
(* whatever it maps to by then.                                            *)
(***************************************************************************)
AfterStop(op, s, v) ==
  \/ /\ op = "stop"
     /\ sups' = [sups EXCEPT ![s] = v]
     /\ UNCHANGED <<registry, runs, open>>
  \/ /\ op = "delete"
     /\ sups' = [sups EXCEPT ![s] = v]
     /\ registry' = 0
     /\ UNCHANGED <<runs, open>>
  \/ /\ op = "restart"
     /\ sups' = [sups EXCEPT ![s] = BeginWanted(v, TRUE)]
     /\ runs' = Append(runs, NewRun(s, FALSE))
     /\ UNCHANGED <<registry, open>>
  \/ /\ op = "shutdown"
     /\ sups' = [sups EXCEPT ![s] = v]
     /\ open' = FALSE
     /\ UNCHANGED <<registry, runs>>

(* The four callers of stop(): handleAction, handleDelete, restart() and   *)
(* the runtime's own stop().                                               *)
MayAsk(op) ==
  /\ open /\ Due = {}
  /\ registry # 0
  /\ op = "restart" => LaunchesAsked < MaxLaunches

(* stop() finds no process: status stopped, and its caller goes on. *)
StopIdle(op) ==
  /\ MayAsk(op)
  /\ sups[registry].current = 0
  /\ AfterStop(op, registry, StoppedIdle(sups[registry]))
  /\ UNCHANGED req

(* stop() finds a process: SIGTERM (after which the process may exit, as it *)
(* may at any time), the soft-kill timer, and the wait for the exit.        *)
StopAwait(c, op) ==
  /\ MayAsk(op)
  /\ c \notin Waiting
  /\ sups[registry].current # 0
  /\ sups' = [sups EXCEPT ![registry] = [Stopping(@) EXCEPT !.softKill = c]]
  /\ req' = [req EXCEPT ![c] = [op |-> op, sup |-> registry,
                                run |-> sups[registry].current, soft |-> TRUE]]
  /\ UNCHANGED <<registry, runs, open>>

(* The runtime's stop() with nothing registered closes the listener. *)
ShutdownEmpty ==
  /\ open /\ Due = {}
  /\ registry = 0
  /\ open' = FALSE
  /\ UNCHANGED <<registry, sups, runs, req>>

(* The exit that c waited for has happened: the finally of stop() cancels  *)
(* the timer the field holds, its own or not, and c's caller goes on.      *)
Resume(c) ==
  /\ c \in Due
  /\ LET s == req[c].sup
         held == sups[s].softKill
     IN  /\ req' = [d \in Callers |->
                      CASE d = c -> NoReq
                        [] d # c /\ d = held -> [req[d] EXCEPT !.soft = FALSE]
                        [] OTHER -> req[d]]
         /\ AfterStop(req[c].op, s, [sups[s] EXCEPT !.softKill = NoCaller])

-------------------------------------------------------------------------------
(* prepare and spawn have both succeeded. *)
LaunchOk(r) ==
  /\ Due = {}
  /\ r \in Launching
  /\ runs' = [runs EXCEPT ![r].at = "alive", ![r].watch = TRUE]
  /\ sups' = [sups EXCEPT ![runs[r].sup] = Launched(@, r)]
  /\ UNCHANGED <<registry, req, open>>

(* prepare or spawn has rejected: spawnOnce reports an exit with code 1. *)
LaunchFails(r) ==
  /\ Due = {}
  /\ r \in Launching
  /\ runs' = [runs EXCEPT ![r].at = "gone"]
  /\ sups' = [sups EXCEPT ![runs[r].sup] = HandleExit(@, TRUE)]
  /\ UNCHANGED <<registry, req, open>>

(* The process of run r exits and the supervisor's handler runs; a process *)
(* that was sent SIGKILL does not exit with code 0.                        *)
Exit(r, failed) ==
  /\ Due = {}
  /\ r \in Alive
  /\ runs[r].killed => failed
  /\ LET v == sups[runs[r].sup]
     IN  /\ runs' = [q \in DOMAIN runs |->
                       [runs[q] EXCEPT !.at     = IF q = r THEN "gone" ELSE @,
                                       !.killed = @ /\ q # r,
                                       !.watch  = @ /\ q \notin {r, v.sampler}]]
         /\ sups' = [sups EXCEPT ![runs[r].sup] = Exited(@, r, failed)]
  /\ UNCHANGED <<registry, req, open>>

TimerFires(s) ==
  /\ Due = {}
  /\ s \in DOMAIN sups
  /\ sups[s].timer
  /\ sups' = [sups EXCEPT ![s] = TimerFired(@)]
  /\ runs' = IF TimerSpawns(sups[s]) THEN Append(runs, NewRun(s, TRUE)) ELSE runs
  /\ UNCHANGED <<registry, req, open>>

(* Mutant: the grace period ends with a second SIGTERM. *)
SoftKillAsksAgain(c) ==
  /\ Due = {}
  /\ c \in Waiting /\ req[c].soft
  /\ req' = [req EXCEPT ![c].soft = FALSE]
  /\ UNCHANGED <<registry, sups, runs, open>>

(* The grace period of c's stop() is over. *)
SoftKill(c) ==
  /\ Due = {}
  /\ c \in Waiting /\ req[c].soft
  /\ req' = [req EXCEPT ![c].soft = FALSE]
  /\ runs' = [runs EXCEPT ![req[c].run].killed = TRUE]
  /\ UNCHANGED <<registry, sups, open>>

(* The memory interval finds the process over its limit. *)
MemoryKill(r) ==
  /\ Due = {}
  /\ r \in Alive
  /\ runs[r].watch /\ sups[runs[r].sup].current = r
  /\ runs' = [runs EXCEPT ![r].killed = TRUE]
  /\ UNCHANGED <<registry, sups, req, open>>

(* The wall-clock timer of a worker registered with timeoutMs. *)
TimeoutKill(r) ==
  /\ Due = {}
  /\ r \in Alive
  /\ sups[runs[r].sup].current = r
  /\ runs' = [runs EXCEPT ![r].killed = TRUE]
  /\ UNCHANGED <<registry, sups, req, open>>

-------------------------------------------------------------------------------
(* The steps taken because somebody asked ... *)
Request ==
  \/ \E p \in Policies : Register(p)
  \/ Start
  \/ \E op \in Ops : StopIdle(op)
  \/ \E c \in Callers, op \in Ops : StopAwait(c, op)
  \/ ShutdownEmpty

(* ... and those the runtime and the operating system take by themselves. *)
Internal ==
  \/ \E c \in Callers : Resume(c) \/ SoftKill(c)
  \/ \E r \in DOMAIN runs : LaunchOk(r) \/ LaunchFails(r) \/ MemoryKill(r) \/ TimeoutKill(r)
  \/ \E r \in DOMAIN runs, failed \in BOOLEAN : Exit(r, failed)
  \/ \E s \in DOMAIN sups : TimerFires(s)

Next == Request \/ Internal

Spec == Init /\ [][Next]_vars

(***************************************************************************)
(* What the host guarantees: a due timer fires, a due microtask runs, and  *)
(* SIGKILL ends a process.  Nothing is assumed of prepare and spawn (the   *)
(* tarball fetch has no timeout) nor of a process that got SIGTERM.        *)
(***************************************************************************)
Fairness ==
  /\ \A c \in Callers : WF_vars(Resume(c)) /\ WF_vars(SoftKill(c))
  /\ \A s \in 1..MaxWorkers : WF_vars(TimerFires(s))
  /\ WF_vars(\E r \in DOMAIN runs : runs[r].killed /\ Exit(r, TRUE))

FairSpec == Spec /\ Fairness

-------------------------------------------------------------------------------
(* The type invariant. *)
TypeOK ==
  /\ registry \in 0..Len(sups)
  /\ sups \in Seq(SupervisorFields)
  /\ runs \in Seq(RunFields)
  /\ req \in [Callers -> ReqFields]
  /\ open \in BOOLEAN
  /\ \A r \in DOMAIN runs : runs[r].sup \in DOMAIN sups
  /\ \A s \in DOMAIN sups : sups[s].current \in 0..Len(runs)
  /\ \A c \in Waiting : req[c].sup \in DOMAIN sups /\ req[c].run \in DOMAIN runs

(* A worker shown as crashed under a policy that restarts, and that nobody  *)
(* asked to stop, has a restart timer pending: whatever starts, stops and   *)
(* exits of other processes of the same supervisor cut in, no crash is      *)
(* forgotten (handleExit, cancelRestartTimer).                              *)
CrashIsScheduled ==
  \A s \in DOMAIN sups :
    sups[s].status = "crashed" /\ sups[s].policy # "never" /\ ~sups[s].intentional
      => sups[s].timer

(* The runs the timer of s opened after the last that was asked for. *)
AutoRunsSinceAsked(s) ==
  {r \in DOMAIN runs :
     /\ runs[r].auto /\ runs[r].sup = s
     /\ \A q \in DOMAIN runs : q > r /\ runs[q].sup = s => runs[q].auto}

(* The crash loop is bounded: however many processes of a supervisor exit   *)
(* between the arming of its timer and its firing, it respawns by itself at *)
(* most MaxRestarts times after the last start or restart that was asked    *)
(* for (handleExit's comparison, supervisor.ts 315).  This holds whether or *)
(* not a start resets the counter; it does not, see WorkerClaims.           *)
RestartBudget ==
  \A s \in DOMAIN sups : Cardinality(AutoRunsSinceAsked(s)) <= MaxRestarts

(* From stop() on, until a start or a restart withdraws it, the supervisor  *)
(* opens no new run: neither an exit that comes late nor a timer that was   *)
(* armed before undoes the stop (README: an intentional stop is never       *)
(* interpreted as a crash).                                                 *)
RunsOf(s, rs) == {r \in DOMAIN rs : rs[r].sup = s}

StopIsRespected ==
  [][\A s \in DOMAIN sups :
       sups[s].intentional /\ sups'[s].intentional => RunsOf(s, runs') = RunsOf(s, runs)]_vars

===============================================================================
