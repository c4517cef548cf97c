----------------------------- MODULE CronScheduler -----------------------------
(***************************************************************************)
(* services/cron-scheduler: the job registry, the tick loop, the retries   *)
(* of one firing and the HTTP routes that create, delete, pause, resume    *)
(* and trigger jobs.                                                       *)
(*                                                                         *)
(* The service is one event loop.  A step is the code between two awaits:  *)
(* a dispatch, a back-off sleep, the sleep between ticks, or the return of *)
(* executeWithRetry.  tick() keeps references to the job objects it        *)
(* listed, while executeWithRetry looks its job up by id before every      *)
(* attempt, and an id can be deleted and created again: so an object is    *)
(* its position in objs, and jobs says which object an id stands for.      *)
(*                                                                         *)
(* Left out: the run history and the dead-letter list, logs that nothing   *)
(* reads back; what is kept of recordRun is that it throws for an id that  *)
(* is no longer registered.                                                *)
(***************************************************************************)
EXTENDS Naturals, Sequences, FiniteSets

CONSTANTS Ids,          \* job ids
          Callers,      \* manual triggers that may be in flight
          Loop,         \* the tick loop, as a runner of firings
          Schedules,    \* the instants a cron expression names
          MaxAttempts,  \* retryPolicy.maxAttempts, one policy for every job
          MaxJobs,      \* bound: jobs created
          MaxTime       \* bound: the clock

ASSUME RunnerAssumption == Loop \notin Callers
ASSUME CronBounds ==
  /\ MaxAttempts \in Nat \ {0} /\ MaxJobs \in Nat /\ MaxTime \in Nat
  /\ Schedules \subseteq SUBSET (Nat \ {0})

VARIABLES
  now,      \* the clock
  objs,     \* every job object created, oldest first
  jobs,     \* registry.jobs: the object of each id, 0 if none
  running,  \* scheduler.running
  phase,    \* the loop: between ticks, in a tick, or ended
  tickNow,  \* the clock as the tick under way read it
  todo,     \* the listed objects this tick has not looked at
  exec      \* the firing each runner is at

vars == <<now, objs, jobs, running, phase, tickNow, todo, exec>>

-------------------------------------------------------------------------------
(* next: nextRunAt, 0 for null.  done: history, when the loop last set it   *)
(* after a firing.                                                          *)
JobFields == [id: Ids, fires: Schedules, status: {"active", "paused"},
              next: Nat, done: Nat]

Runners == Callers \cup {Loop}

(* cur: the object the attempt read.  due: scheduledFor. *)
ExecFields == [state: {"idle", "calling", "backoff"}, id: Ids \cup {Loop},
               cur: Nat, attempt: Nat, due: Nat]

Idle == [state |-> "idle", id |-> Loop, cur |-> 0, attempt |-> 0, due |-> 0]

Returned(id) == [Idle EXCEPT !.id = id]

IsActive(id) == jobs[id] # 0 /\ objs[jobs[id]].status = "active"

(* nextFire: the first instant of the schedule after t, 0 if none. *)
NextFire(fires, t) ==
  IF \E f \in fires : f > t
    THEN CHOOSE f \in fires : f > t /\ \A g \in fires : g > t => f <= g
    ELSE 0

Init ==
  /\ now = 1
  /\ objs = << >>
  /\ jobs = [id \in Ids |-> 0]
  /\ running = TRUE
  /\ phase = "sleeping"
  /\ tickNow = 0
  /\ todo = {}
  /\ exec = [r \in Runners |-> Idle]

-------------------------------------------------------------------------------
Advance ==
  /\ now < MaxTime
  /\ now' = now + 1
  /\ UNCHANGED <<objs, jobs, running, phase, tickNow, todo, exec>>

(* POST /jobs: createJob, then refreshNextFire. *)
CreateJob(id, fires, status) ==
  /\ jobs[id] = 0
  /\ Len(objs) < MaxJobs
  /\ objs' = Append(objs,
       [id |-> id, fires |-> fires, status |-> status, done |-> 0,
        next |-> IF status = "active" THEN NextFire(fires, now) ELSE 0])
  /\ jobs' = [jobs EXCEPT ![id] = Len(objs')]
  /\ UNCHANGED <<now, running, phase, tickNow, todo, exec>>

(* DELETE /jobs/:id.  Runners and the tick's list keep the object. *)
DeleteJob(id) ==
  /\ jobs[id] # 0
  /\ jobs' = [jobs EXCEPT ![id] = 0]
  /\ UNCHANGED <<now, objs, running, phase, tickNow, todo, exec>>

(* POST /jobs/:id/pause and /resume: setStatus, then refreshNextFire. *)
SetStatus(id, status) ==
  /\ jobs[id] # 0
  /\ objs' = [objs EXCEPT ![jobs[id]].status = status,
                          ![jobs[id]].next =
       IF status = "active" THEN NextFire(objs[jobs[id]].fires, now) ELSE 0]
  /\ UNCHANGED <<now, jobs, running, phase, tickNow, todo, exec>>

(* executeWithRetry up to its next await: return if the job is gone or not  *)
(* active, else dispatch.                                                   *)
Attempt(id, n, due) ==
  IF IsActive(id)
    THEN [state |-> "calling", id |-> id, cur |-> jobs[id],
          attempt |-> n, due |-> due]
    ELSE Returned(id)

(* POST /jobs/:id/trigger: 404 for an unknown id, else a firing due now. *)
TriggerNow(r, id) ==
  /\ r \in Callers /\ exec[r].state = "idle"
  /\ jobs[id] # 0
  /\ exec' = [exec EXCEPT ![r] = Attempt(id, 1, now)]
  /\ UNCHANGED <<now, objs, jobs, running, phase, tickNow, todo>>

-------------------------------------------------------------------------------
(* The rest of a tick's list, up to the next await, the oldest object first *)
(* (registry.jobs is a Map, which lists in the order of creation): a job    *)
(* without a next fire is given one (setNextRunAt throws if its id is gone, *)
(* and the tick is over), the first due one is fired, others are passed by. *)
Scan(os, list, t) ==
  LET Unset == {o \in list : os[o].next = 0}
      Lost  == {o \in Unset : jobs[os[o].id] = 0}
      Due   == {o \in list : os[o].next \in 1..t}
      Before(o)  == \A s \in Due \cup Lost : o < s
      Reached(o) == \A s \in Due \cup Lost : o <= s
      SetBy(o)   == {l \in Unset : jobs[os[l].id] = o /\ Before(l)}
  IN /\ objs' = [o \in DOMAIN os |->
          IF SetBy(o) = {} THEN os[o]
          ELSE [os[o] EXCEPT !.next = NextFire(os[CHOOSE l \in SetBy(o) : TRUE].fires, t)]]
     /\ \/ \E o \in Due :
             /\ Reached(o)
             /\ exec' = [exec EXCEPT ![Loop] = Attempt(os[o].id, 1, os[o].next)]
             /\ todo' = {l \in list : l > o}
             /\ tickNow' = t
             /\ phase' = "ticking"
        \/ /\ \A o \in Due : ~Reached(o)
           /\ exec' = [exec EXCEPT ![Loop] = Idle]
           /\ todo' = {}
           /\ tickNow' = 0
           /\ phase' = "sleeping"

Active(o) == jobs[objs[o].id] = o /\ objs[o].status = "active"

(* The sleep ends while the service runs: tick() lists the active jobs. *)
Tick ==
  /\ phase = "sleeping" /\ running
  /\ Scan(objs, {o \in DOMAIN objs : Active(o)}, now)
  /\ UNCHANGED <<now, jobs, running>>

(* Mutant: the next fire is computed from the instant just fired. *)
AfterFiringFromDue(id) ==
  IF IsActive(id)
    THEN [objs EXCEPT ![jobs[id]].next =
            NextFire(objs[jobs[id]].fires, exec[Loop].due),
                      ![jobs[id]].done = now]
    ELSE objs

(* Lines 96-99: the job is looked up again and, if active, rescheduled. *)
AfterFiring(id) ==
  IF IsActive(id)
    THEN [objs EXCEPT ![jobs[id]].next = NextFire(objs[jobs[id]].fires, now),
                      ![jobs[id]].done = now]
    ELSE objs

(* executeWithRetry has returned to the tick, which goes on with its list. *)
GoOn ==
  /\ phase = "ticking" /\ exec[Loop].state = "idle"
  /\ Scan(AfterFiring(exec[Loop].id), todo, tickNow)
  /\ UNCHANGED <<now, jobs, running>>

Retry(r) ==
  /\ exec[r].state = "backoff"
  /\ exec' = [exec EXCEPT ![r] =
       Attempt(exec[r].id, exec[r].attempt + 1, exec[r].due)]
  /\ UNCHANGED <<now, objs, jobs, running, phase, tickNow, todo>>

(* Mutant: an exception of a tick ends the loop. *)
AbortEndsLoop == phase' = "ended"

(* runLoop's catch: the rest of the tick is dropped, the loop sleeps. *)
Abort == phase' = "sleeping"

(* A dispatch settles.  recordRun throws if the id is gone: out of          *)
(* executeWithRetry, and out of the tick when the runner is the loop.       *)
Settle(r, ok) ==
  LET e == exec[r]  gone == jobs[e.id] = 0 IN
  /\ e.state = "calling"
  /\ exec' = [exec EXCEPT ![r] =
       IF gone \/ ok \/ e.attempt >= MaxAttempts
         THEN Returned(e.id) ELSE [e EXCEPT !.state = "backoff", !.cur = 0]]
  /\ IF gone /\ r = Loop
       THEN Abort /\ todo' = {} /\ tickNow' = 0
       ELSE UNCHANGED <<phase, todo, tickNow>>
  /\ UNCHANGED <<now, objs, jobs, running>>

-------------------------------------------------------------------------------
(* SIGTERM: stop() clears running and cuts the sleep short if there is one. *)
Stop ==
  /\ running
  /\ running' = FALSE
  /\ UNCHANGED <<now, objs, jobs, phase, tickNow, todo, exec>>

(* process.exit: the registry and what was in flight are memory, and gone.  *)
Exit ==
  /\ phase' = "ended"
  /\ objs' = << >> /\ todo' = {} /\ tickNow' = 0
  /\ jobs' = [id \in Ids |-> 0]
  /\ exec' = [r \in Runners |-> Idle]
  /\ UNCHANGED <<now, running>>

(* Mutant: stop() must find the loop asleep with no job left to wait for. *)
LoopEndsIfNoJob ==
  /\ phase = "sleeping" /\ ~running /\ objs = << >>
  /\ Exit

(* runLoop finds running false after its sleep, and stop() returns. *)
LoopEnds ==
  /\ phase = "sleeping" /\ ~running
  /\ Exit

(* A second signal: stop() returns at once, running being false already,    *)
(* and the process exits in the middle of whatever it was doing.            *)
SignalAgain == ~running /\ Exit

Routes ==
  \/ \E id \in Ids, fires \in Schedules, s \in {"active", "paused"} :
       CreateJob(id, fires, s)
  \/ \E id \in Ids : DeleteJob(id)
  \/ \E id \in Ids, s \in {"active", "paused"} : SetStatus(id, s)
  \/ \E r \in Callers, id \in Ids : TriggerNow(r, id)

Next ==
  /\ phase # "ended"
  /\ \/ Advance
     \/ Routes
     \/ Tick
     \/ GoOn
     \/ \E r \in Runners : Retry(r)
     \/ \E r \in Runners, ok \in BOOLEAN : Settle(r, ok)
     \/ Stop
     \/ LoopEnds
     \/ SignalAgain

Spec == Init /\ [][Next]_vars

(* The sleeps of the loop end, and a dispatch settles within its timeout.   *)
FairSpec ==
  /\ Spec
  /\ WF_vars(Tick)
  /\ WF_vars(GoOn)
  /\ WF_vars(Retry(Loop))
  /\ WF_vars(\E ok \in BOOLEAN : Settle(Loop, ok))
  /\ WF_vars(LoopEnds)

-------------------------------------------------------------------------------
(* Every variable has its type; an id stands for an object of that id.      *)
TypeOK ==
  /\ now \in Nat /\ tickNow \in Nat
  /\ objs \in Seq(JobFields)
  /\ jobs \in [Ids -> 0..Len(objs)]
  /\ \A id \in Ids : jobs[id] # 0 => objs[jobs[id]].id = id
  /\ running \in BOOLEAN
  /\ phase \in {"sleeping", "ticking", "ended"}
  /\ todo \subseteq DOMAIN objs
  /\ exec \in [Runners -> ExecFields]

FiringBegins ==
  /\ exec'[Loop].state = "calling"
  /\ exec'[Loop].attempt = 1
  /\ exec'[Loop] # exec[Loop]

(* Firings never pile up (scheduler.ts:92-99): the instant the loop fires a *)
(* job for is later than the end of the job's previous firing, so what came *)
(* due while that one was dispatched and retried is skipped, and nothing    *)
(* is fired twice, whatever pauses, resumes, triggers, deletions and        *)
(* re-creations come in between.                                            *)
NoPileUp ==
  [][FiringBegins => exec'[Loop].due > objs[exec'[Loop].cur].done]_vars

Due(id) ==
  IsActive(id) /\ objs[jobs[id]].next # 0 /\ objs[jobs[id]].next <= now

FiredByLoop(id) == exec[Loop].state = "calling" /\ exec[Loop].id = id

(* An active job that is due is fired by the loop, or paused, deleted or    *)
(* rescheduled first (scheduler.ts:85-102, 215-230): neither another job's  *)
(* retries nor an exception that drops the rest of a tick starves it.       *)
EveryDueJobFires ==
  \A id \in Ids : Due(id) ~> FiredByLoop(id) \/ ~Due(id) \/ ~running

(* The loop comes to its end once the service is told to stop, also in the  *)
(* middle of a tick with retries left (scheduler.ts:72-79, index.ts:92-95). *)
StopEnds == ~running ~> phase = "ended"

===============================================================================
