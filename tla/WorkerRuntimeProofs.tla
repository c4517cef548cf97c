------------------------- MODULE WorkerRuntimeProofs -------------------------
(***************************************************************************)
(* What holds of WorkerRuntime for every number of callers, registrations, *)
(* launches and restarts, whatever order requests, timers, settled awaits  *)
(* and exits come in; and, at the end, what WorkerRuntimeSerial adds for   *)
(* a client that waits for its answers: the refinement of WorkerLifecycle. *)
(***************************************************************************)
EXTENDS WorkerRuntimeSerial, FiniteSetTheorems, SequenceTheorems, TLAPS

-------------------------------------------------------------------------------
(***************************************************************************)
(* One supervisor.  Sound is what every block keeps of its fields; the     *)
(* second conjunct is the strengthening: without it a timer left pending   *)
(* by a stop, or armed under policy never, would respawn.                  *)
(***************************************************************************)
Sound(v) ==
  /\ v.status = "crashed" /\ v.policy # "never" /\ ~v.intentional => v.timer
  /\ v.timer => ~v.intentional /\ v.policy # "never"
  /\ v.status = "crashed" /\ v.policy # "never" => v.restarts < MaxRestarts

LEMMA NewSupervisorSound ==
  ASSUME NEW p \in Policies
  PROVE  /\ NewSupervisor(p) \in SupervisorFields
         /\ NewSupervisor(p).current = 0
         /\ NewSupervisor(p).restarts = 0
         /\ Sound(NewSupervisor(p))
BY DEF NewSupervisor, SupervisorFields, Statuses, Sound

(* start(), restart(): the spawn counts a restart or not. *)
LEMMA BeginWantedSound ==
  ASSUME NEW v \in SupervisorFields, NEW b \in BOOLEAN
  PROVE  LET w == BeginWanted(v, b)
         IN  /\ w \in SupervisorFields
             /\ w.current = v.current
             /\ w.restarts >= v.restarts
             /\ ~w.intentional
             /\ Sound(v) => Sound(w)
<1> DEFINE n == IF b THEN v.restarts + 1 ELSE v.restarts
           w == [v EXCEPT !.intentional = FALSE, !.status = "starting", !.restarts = n]
<1>1. n \in Nat /\ n >= v.restarts
  BY DEF SupervisorFields
<1>2. BeginWanted(v, b) = w
  BY DEF BeginWanted, BeginSpawn, SupervisorFields
<1>3. HIDE DEF n
<1>4. w \in SupervisorFields
  BY <1>1 DEF SupervisorFields, Statuses
<1>5. w.current = v.current /\ w.restarts = n /\ ~w.intentional
  BY DEF SupervisorFields
<1>6. Sound(v) => Sound(w)
  BY DEF Sound, SupervisorFields
<1>. QED  BY <1>1, <1>2, <1>4, <1>5, <1>6

LEMMA StoppingSound ==
  ASSUME NEW v \in SupervisorFields, NEW c \in Callers \cup {NoCaller}
  PROVE  LET w == [Stopping(v) EXCEPT !.softKill = c]
         IN  /\ w \in SupervisorFields
             /\ w.current = v.current
             /\ w.restarts = v.restarts
             /\ Sound(v) => Sound(w)
BY DEF Stopping, Sound, SupervisorFields

LEMMA StoppedIdleSound ==
  ASSUME NEW v \in SupervisorFields
  PROVE  LET w == StoppedIdle(v)
         IN  /\ w \in SupervisorFields
             /\ w.current = v.current
             /\ w.restarts = v.restarts
             /\ Sound(w)
BY DEF StoppedIdle, Stopping, Sound, SupervisorFields, Statuses

LEMMA ReleasedSound ==
  ASSUME NEW v \in SupervisorFields
  PROVE  LET w == [v EXCEPT !.softKill = NoCaller]
         IN  /\ w \in SupervisorFields
             /\ w.current = v.current
             /\ w.restarts = v.restarts
             /\ Sound(v) => Sound(w)
BY DEF Sound, SupervisorFields

LEMMA LaunchedSound ==
  ASSUME NEW v \in SupervisorFields, NEW r \in Nat
  PROVE  LET w == Launched(v, r)
         IN  /\ w \in SupervisorFields
             /\ w.current = r
             /\ w.restarts = v.restarts
             /\ Sound(v) => Sound(w)
BY DEF Launched, Sound, SupervisorFields, Statuses

(* The policy engine: the only place that arms the restart timer. *)
LEMMA HandleExitSound ==
  ASSUME NEW v \in SupervisorFields, NEW b \in BOOLEAN
  PROVE  LET w == HandleExit(v, b)
         IN  /\ w \in SupervisorFields
             /\ w.current = v.current
             /\ w.restarts = v.restarts
             /\ Sound(v) => Sound(w)
<1>1. CASE SchedulesRestart(v, b)
  BY <1>1 DEF HandleExit, SchedulesRestart, Sound, SupervisorFields, Statuses
<1>2. CASE ~SchedulesRestart(v, b)
  <2> DEFINE f == FinalStatus(v, b)
             w == [v EXCEPT !.status = f]
  <2>1. f \in Statuses
    BY DEF FinalStatus, Statuses
  <2>2. f = "crashed" => v.policy = "never"
    BY DEF FinalStatus
  <2>3. HandleExit(v, b) = w
    BY <1>2 DEF HandleExit
  <2>4. HIDE DEF f
  <2>5. w \in SupervisorFields /\ w.current = v.current /\ w.restarts = v.restarts
    BY <2>1 DEF SupervisorFields
  <2>6. Sound(v) => Sound(w)
    BY <2>2 DEF Sound, SupervisorFields
  <2>. QED  BY <2>3, <2>5, <2>6
<1>. QED  BY <1>1, <1>2

LEMMA ExitedSound ==
  ASSUME NEW v \in SupervisorFields, NEW r \in Nat, NEW b \in BOOLEAN
  PROVE  LET w == Exited(v, r, b)
         IN  /\ w \in SupervisorFields
             /\ w.current \in {0, v.current}
             /\ w.restarts = v.restarts
             /\ Sound(v) => Sound(w)
<1> DEFINE c == IF v.current = r THEN 0 ELSE v.current
           u == [v EXCEPT !.sampler = 0, !.current = c]
<1>1. c \in Nat /\ c \in {0, v.current}
  BY DEF SupervisorFields
<1>2. Exited(v, r, b) = HandleExit(u, b)
  BY DEF Exited
<1>3. HIDE DEF c
<1>4. u \in SupervisorFields /\ u.current = c /\ u.restarts = v.restarts
  BY <1>1 DEF SupervisorFields
<1>5. Sound(v) => Sound(u)
  BY DEF Sound, SupervisorFields
<1>6. HIDE DEF u
<1>. QED  BY <1>1, <1>2, <1>4, <1>5, HandleExitSound

(* The restart timer respawns only below the cap. *)
LEMMA TimerFiredSound ==
  ASSUME NEW v \in SupervisorFields, v.timer, Sound(v)
  PROVE  LET w == TimerFired(v)
         IN  /\ w \in SupervisorFields
             /\ w.current = v.current
             /\ Sound(w)
             /\ w.intentional = v.intentional
             /\ IF TimerSpawns(v)
                THEN ~v.intentional /\ v.restarts < MaxRestarts /\ w.restarts = v.restarts + 1
                ELSE w.restarts = v.restarts
<1>1. CASE TimerSpawns(v)
  <2> DEFINE n == v.restarts + 1
             w == [v EXCEPT !.timer = FALSE, !.status = "starting", !.restarts = n]
  <2>1. n \in Nat
    BY DEF SupervisorFields
  <2>2. TimerFired(v) = w
    BY <1>1 DEF TimerFired, BeginSpawn, SupervisorFields
  <2>3. ~v.intentional /\ v.restarts < MaxRestarts
    BY <1>1 DEF TimerSpawns, Sound
  <2>4. HIDE DEF n
  <2>5. w \in SupervisorFields /\ w.current = v.current /\ w.restarts = n
    BY <2>1 DEF SupervisorFields, Statuses
  <2>6. Sound(w) /\ w.intentional = v.intentional
    BY DEF Sound, SupervisorFields
  <2>. QED  BY <1>1, <2>2, <2>3, <2>5, <2>6 DEF n
<1>2. CASE ~TimerSpawns(v)
  <2> DEFINE w == [v EXCEPT !.timer = FALSE]
  <2>1. TimerFired(v) = w
    BY <1>2 DEF TimerFired
  <2>2. w \in SupervisorFields /\ w.current = v.current /\ w.restarts = v.restarts
    BY DEF SupervisorFields
  <2>3. Sound(w) /\ w.intentional = v.intentional
    BY <1>2 DEF Sound, TimerSpawns, SupervisorFields
  <2>. QED  BY <1>2, <2>1, <2>2, <2>3
<1>. QED  BY <1>1, <1>2

-------------------------------------------------------------------------------
(***************************************************************************)
(* A step, seen from the supervisors and the runs: what all the proofs     *)
(* below use of Next.                                                      *)
(***************************************************************************)
AllSound == \A s \in DOMAIN sups : Sound(sups[s])

Kept ==
  /\ runs' \in Seq(RunFields)
  /\ Len(runs') = Len(runs)
  /\ \A r \in DOMAIN runs : runs'[r].sup = runs[r].sup /\ runs'[r].auto = runs[r].auto

Spawns(s, auto) == runs' = Append(runs, NewRun(s, auto))

Registers ==
  /\ runs' = runs
  /\ \E p \in Policies : sups' = Append(sups, NewSupervisor(p))

Moves(s, w) ==
  /\ w \in SupervisorFields
  /\ w.current \in 0..Len(runs)
  /\ Sound(sups[s]) => Sound(w)
  /\ sups' = [sups EXCEPT ![s] = w]

MovesByRequest(s, w) ==
  /\ Moves(s, w)
  /\ w.restarts >= sups[s].restarts
  /\ Kept \/ (Spawns(s, FALSE) /\ ~w.intentional)

MovesByTimer(s, w) ==
  /\ Moves(s, w)
  /\ Spawns(s, TRUE)
  /\ ~sups[s].intentional
  /\ sups[s].restarts < MaxRestarts
  /\ w.restarts = sups[s].restarts + 1

StepShape ==
  \/ sups' = sups /\ Kept
  \/ Registers
  \/ \E s \in DOMAIN sups, w \in SupervisorFields : MovesByRequest(s, w) \/ MovesByTimer(s, w)

LEMMA SupFacts ==
  ASSUME TypeOK
  PROVE  /\ DOMAIN sups = 1..Len(sups) /\ Len(sups) \in Nat
         /\ DOMAIN runs = 1..Len(runs) /\ Len(runs) \in Nat
         /\ \A s \in DOMAIN sups : /\ sups[s] \in SupervisorFields
                                   /\ sups[s].restarts \in Nat
                                   /\ sups[s].current \in 0..Len(runs)
         /\ \A r \in DOMAIN runs : runs[r] \in RunFields /\ runs[r].sup \in DOMAIN sups
         /\ registry # 0 => registry \in DOMAIN sups
<1>1. DOMAIN sups = 1..Len(sups) /\ Len(sups) \in Nat /\ DOMAIN runs = 1..Len(runs) /\ Len(runs) \in Nat
  BY LenProperties DEF TypeOK
<1>2. \A s \in DOMAIN sups : sups[s] \in SupervisorFields
  BY <1>1, ElementOfSeq DEF TypeOK
<1>3. \A r \in DOMAIN runs : runs[r] \in RunFields
  BY <1>1, ElementOfSeq DEF TypeOK
<1>4. \A s \in DOMAIN sups : sups[s].restarts \in Nat
  BY <1>2 DEF SupervisorFields
<1>. QED  BY <1>1, <1>2, <1>3, <1>4 DEF TypeOK

LEMMA KeptIfUnchanged ==
  ASSUME TypeOK, runs' = runs
  PROVE  Kept
BY DEF Kept, TypeOK

(* A run record changed in place keeps its supervisor and its origin. *)
LEMMA KeptIfUpdated ==
  ASSUME TypeOK, NEW q \in DOMAIN runs, NEW x \in RunFields,
         x.sup = runs[q].sup, x.auto = runs[q].auto,
         runs' = [runs EXCEPT ![q] = x]
  PROVE  Kept
<1>1. q \in 1..Len(runs)
  BY SupFacts
<1>2. /\ runs' \in Seq(RunFields)
      /\ Len(runs') = Len(runs)
      /\ \A r \in 1..Len(runs) : runs'[r] = IF r = q THEN x ELSE runs[r]
  BY <1>1, ExceptSeq DEF TypeOK
<1>. QED  BY <1>2, SupFacts DEF Kept

LEMMA AfterStopShape ==
  ASSUME TypeOK, NEW op \in Ops, NEW s \in DOMAIN sups, NEW v \in SupervisorFields,
         v.current = sups[s].current, v.restarts = sups[s].restarts,
         Sound(sups[s]) => Sound(v), AfterStop(op, s, v)
  PROVE  StepShape
<1>1. sups[s].restarts \in Nat /\ sups[s].current \in 0..Len(runs)
  BY SupFacts
<1>2. CASE op # "restart"
  <2>1. sups' = [sups EXCEPT ![s] = v] /\ runs' = runs
    BY <1>2 DEF AfterStop
  <2>2. MovesByRequest(s, v)
    BY <1>1, <2>1, KeptIfUnchanged DEF MovesByRequest, Moves
  <2>. QED  BY <2>2 DEF StepShape
<1>3. CASE op = "restart"
  <2> DEFINE w == BeginWanted(v, TRUE)
  <2>1. sups' = [sups EXCEPT ![s] = w] /\ Spawns(s, FALSE)
    BY <1>3 DEF AfterStop, Spawns
  <2>2. /\ w \in SupervisorFields /\ w.current = v.current /\ w.restarts >= v.restarts
        /\ ~w.intentional /\ (Sound(v) => Sound(w))
    BY BeginWantedSound
  <2>3. HIDE DEF w
  <2>4. MovesByRequest(s, w)
    BY <1>1, <2>1, <2>2 DEF MovesByRequest, Moves
  <2>. QED  BY <2>2, <2>4 DEF StepShape
<1>. QED  BY <1>2, <1>3

LEMMA NextShape ==
  ASSUME TypeOK, AllSound, Next
  PROVE  StepShape
<1>. USE SupFacts
<1>1. ASSUME NEW p \in Policies, Register(p)
      PROVE  StepShape
  BY <1>1 DEF Register, StepShape, Registers
<1>2. CASE Start
  <2> DEFINE w == BeginWanted(sups[registry], FALSE)
  <2>1. registry \in DOMAIN sups /\ sups' = [sups EXCEPT ![registry] = w] /\ Spawns(registry, FALSE)
    BY <1>2 DEF Start, Spawns
  <2>2. /\ w \in SupervisorFields /\ w.current = sups[registry].current
        /\ w.restarts >= sups[registry].restarts /\ ~w.intentional
        /\ Sound(sups[registry]) => Sound(w)
    BY <2>1, BeginWantedSound
  <2>3. HIDE DEF w
  <2>4. MovesByRequest(registry, w)
    BY <2>1, <2>2 DEF MovesByRequest, Moves
  <2>. QED  BY <2>1, <2>2, <2>4 DEF StepShape
<1>3. ASSUME NEW op \in Ops, StopIdle(op)
      PROVE  StepShape
  <2> DEFINE v == StoppedIdle(sups[registry])
  <2>1. registry \in DOMAIN sups /\ AfterStop(op, registry, v)
    BY <1>3 DEF StopIdle, MayAsk
  <2>2. /\ v \in SupervisorFields /\ v.current = sups[registry].current
        /\ v.restarts = sups[registry].restarts /\ Sound(v)
    BY <2>1, StoppedIdleSound
  <2>3. HIDE DEF v
  <2>. QED  BY <2>1, <2>2, AfterStopShape
<1>4. ASSUME NEW c \in Callers, NEW op \in Ops, StopAwait(c, op)
      PROVE  StepShape
  <2> DEFINE w == [Stopping(sups[registry]) EXCEPT !.softKill = c]
  <2>1. registry \in DOMAIN sups /\ sups' = [sups EXCEPT ![registry] = w] /\ runs' = runs
    BY <1>4 DEF StopAwait, MayAsk
  <2>2. /\ w \in SupervisorFields /\ w.current = sups[registry].current
        /\ w.restarts = sups[registry].restarts
        /\ Sound(sups[registry]) => Sound(w)
    BY <2>1, StoppingSound
  <2>3. HIDE DEF w
  <2>4. MovesByRequest(registry, w)
    BY <2>1, <2>2, KeptIfUnchanged DEF MovesByRequest, Moves
  <2>. QED  BY <2>1, <2>2, <2>4 DEF StepShape
<1>5. CASE ShutdownEmpty
  BY <1>5, KeptIfUnchanged DEF ShutdownEmpty, StepShape
<1>6. ASSUME NEW c \in Callers, Resume(c)
      PROVE  StepShape
  <2> DEFINE s == req[c].sup
             v == [sups[s] EXCEPT !.softKill = NoCaller]
  <2>1. c \in Waiting /\ AfterStop(req[c].op, s, v)
    BY <1>6 DEF Resume, Due
  <2>2. s \in DOMAIN sups /\ req[c].op \in Ops
    BY <2>1 DEF TypeOK, Waiting, ReqFields
  <2>3. /\ v \in SupervisorFields /\ v.current = sups[s].current
        /\ v.restarts = sups[s].restarts /\ (Sound(sups[s]) => Sound(v))
    BY <2>2, ReleasedSound
  <2>4. HIDE DEF s, v
  <2>. QED  BY <2>1, <2>2, <2>3, AfterStopShape
<1>7. ASSUME NEW c \in Callers, SoftKill(c)
      PROVE  StepShape
  <2> DEFINE q == req[c].run
             x == [runs[q] EXCEPT !.killed = TRUE]
  <2>1. sups' = sups /\ runs' = [runs EXCEPT ![q] = x] /\ c \in Waiting
    BY <1>7 DEF SoftKill
  <2>2. q \in DOMAIN runs
    BY <2>1 DEF TypeOK
  <2>3. x \in RunFields /\ x.sup = runs[q].sup /\ x.auto = runs[q].auto
    BY <2>2 DEF RunFields
  <2>4. HIDE DEF x, q
  <2>5. Kept
    BY <2>1, <2>2, <2>3, KeptIfUpdated
  <2>. QED  BY <2>1, <2>5 DEF StepShape
<1>8. ASSUME NEW r \in DOMAIN runs, LaunchOk(r)
      PROVE  StepShape
  <2> DEFINE s == runs[r].sup
             w == Launched(sups[s], r)
             x == [runs[r] EXCEPT !.at = "alive", !.watch = TRUE]
  <2>1. s \in DOMAIN sups /\ sups' = [sups EXCEPT ![s] = w] /\ runs' = [runs EXCEPT ![r] = x]
    BY <1>8 DEF LaunchOk
  <2>2. x \in RunFields /\ x.sup = runs[r].sup /\ x.auto = runs[r].auto
    BY DEF RunFields
  <2>3. /\ w \in SupervisorFields /\ w.current = r /\ r \in 0..Len(runs)
        /\ w.restarts = sups[s].restarts /\ (Sound(sups[s]) => Sound(w))
    BY <2>1, LaunchedSound, SMTT(30)
  <2>4. HIDE DEF w, x, s
  <2>5. Kept
    BY <2>1, <2>2, KeptIfUpdated
  <2>6. MovesByRequest(s, w)
    BY <2>1, <2>3, <2>5 DEF MovesByRequest, Moves
  <2>. QED  BY <2>1, <2>3, <2>6 DEF StepShape
<1>9. ASSUME NEW r \in DOMAIN runs, LaunchFails(r)
      PROVE  StepShape
  <2> DEFINE s == runs[r].sup
             w == HandleExit(sups[s], TRUE)
             x == [runs[r] EXCEPT !.at = "gone"]
  <2>1. s \in DOMAIN sups /\ sups' = [sups EXCEPT ![s] = w] /\ runs' = [runs EXCEPT ![r] = x]
    BY <1>9 DEF LaunchFails
  <2>2. x \in RunFields /\ x.sup = runs[r].sup /\ x.auto = runs[r].auto
    BY DEF RunFields
  <2>3. /\ w \in SupervisorFields /\ w.current = sups[s].current
        /\ w.restarts = sups[s].restarts /\ (Sound(sups[s]) => Sound(w))
    BY <2>1, HandleExitSound
  <2>4. HIDE DEF w, x, s
  <2>5. Kept
    BY <2>1, <2>2, KeptIfUpdated
  <2>6. MovesByRequest(s, w)
    BY <2>1, <2>3, <2>5 DEF MovesByRequest, Moves
  <2>. QED  BY <2>1, <2>3, <2>6 DEF StepShape
<1>10. ASSUME NEW r \in DOMAIN runs, NEW failed \in BOOLEAN, Exit(r, failed)
       PROVE  StepShape
  <2> DEFINE s == runs[r].sup
             w == Exited(sups[s], r, failed)
             at(q) == IF q = r THEN "gone" ELSE runs[q].at
             killed(q) == runs[q].killed /\ q # r
             watch(q) == runs[q].watch /\ q \notin {r, sups[s].sampler}
             x(q) == [runs[q] EXCEPT !.at = at(q), !.killed = killed(q), !.watch = watch(q)]
  <2>1. r \in Nat /\ s \in DOMAIN sups /\ sups[s] \in SupervisorFields
    OBVIOUS
  <2>2. /\ sups' = [sups EXCEPT ![s] = w]
        /\ runs' = [q \in 1..Len(runs) |-> x(q)]
    BY <1>10 DEF Exit
  <2>3. ASSUME NEW q \in 1..Len(runs)
        PROVE  /\ at(q) \in {"launching", "alive", "gone"}
               /\ killed(q) \in BOOLEAN /\ watch(q) \in BOOLEAN
               /\ runs[q] \in RunFields
    <3>1. runs[q] \in RunFields
      OBVIOUS
    <3>2. runs[q].at \in {"launching", "alive", "gone"}
      BY <3>1 DEF RunFields
    <3>. QED  BY <3>1, <3>2
  <2>4. HIDE DEF at, killed, watch, s
  <2>5. ASSUME NEW q \in 1..Len(runs)
        PROVE  x(q) \in RunFields /\ x(q).sup = runs[q].sup /\ x(q).auto = runs[q].auto
    BY <2>3 DEF RunFields
  <2>6. HIDE DEF x
  <2>7. /\ w \in SupervisorFields /\ w.current \in {0, sups[s].current}
        /\ w.restarts = sups[s].restarts /\ (Sound(sups[s]) => Sound(w))
    BY <2>1, ExitedSound
  <2>8. HIDE DEF w
  <2>9. runs' \in Seq(RunFields)
    BY <2>2, <2>5, IsASeq
  <2>10. Kept
    BY <2>2, <2>5, <2>9, LenProperties DEF Kept
  <2>11. MovesByRequest(s, w)
    BY <2>1, <2>2, <2>7, <2>10 DEF MovesByRequest, Moves
  <2>. QED  BY <2>1, <2>7, <2>11 DEF StepShape
<1>11. ASSUME NEW r \in DOMAIN runs, MemoryKill(r) \/ TimeoutKill(r)
       PROVE  StepShape
  <2> DEFINE x == [runs[r] EXCEPT !.killed = TRUE]
  <2>1. sups' = sups /\ runs' = [runs EXCEPT ![r] = x]
    BY <1>11 DEF MemoryKill, TimeoutKill
  <2>2. x \in RunFields /\ x.sup = runs[r].sup /\ x.auto = runs[r].auto
    BY DEF RunFields
  <2>3. HIDE DEF x
  <2>4. Kept
    BY <2>1, <2>2, KeptIfUpdated
  <2>. QED  BY <2>1, <2>4 DEF StepShape
<1>12. ASSUME NEW s \in DOMAIN sups, TimerFires(s)
       PROVE  StepShape
  <2> DEFINE w == TimerFired(sups[s])
  <2>1. /\ sups[s].timer /\ sups' = [sups EXCEPT ![s] = w]
        /\ IF TimerSpawns(sups[s]) THEN Spawns(s, TRUE) ELSE runs' = runs
    BY <1>12 DEF TimerFires, Spawns
  <2>2. /\ w \in SupervisorFields /\ w.current = sups[s].current /\ Sound(w)
        /\ IF TimerSpawns(sups[s])
           THEN ~sups[s].intentional /\ sups[s].restarts < MaxRestarts /\ w.restarts = sups[s].restarts + 1
           ELSE w.restarts = sups[s].restarts
    BY <2>1, TimerFiredSound DEF AllSound
  <2>3. HIDE DEF w
  <2>4. MovesByTimer(s, w) \/ MovesByRequest(s, w)
    <3>1. Moves(s, w)
      BY <2>1, <2>2 DEF Moves
    <3>2. CASE TimerSpawns(sups[s])
      BY <2>1, <2>2, <3>1, <3>2 DEF MovesByTimer
    <3>3. CASE ~TimerSpawns(sups[s])
      BY <2>1, <2>2, <3>1, <3>3, KeptIfUnchanged DEF MovesByRequest
    <3>. QED  BY <3>2, <3>3
  <2>. QED  BY <2>2, <2>4 DEF StepShape
<1>. QED
  BY <1>1, <1>2, <1>3, <1>4, <1>5, <1>6, <1>7, <1>8, <1>9, <1>10, <1>11, <1>12
  DEF Next, Request, Internal

-------------------------------------------------------------------------------
(* The three ways the two sequences change. *)

LEMMA RegistersFacts ==
  ASSUME TypeOK, NEW p \in Policies, sups' = Append(sups, NewSupervisor(p))
  PROVE  /\ sups' \in Seq(SupervisorFields)
         /\ Len(sups') = Len(sups) + 1 /\ DOMAIN sups' = 1..Len(sups')
         /\ \A s \in DOMAIN sups : sups'[s] = sups[s]
         /\ sups'[Len(sups) + 1] = NewSupervisor(p)
BY SupFacts, NewSupervisorSound, AppendProperties, LenProperties DEF TypeOK

LEMMA MovesFacts ==
  ASSUME TypeOK, NEW s \in DOMAIN sups, NEW w \in SupervisorFields, Moves(s, w)
  PROVE  /\ sups' \in Seq(SupervisorFields)
         /\ Len(sups') = Len(sups) /\ DOMAIN sups' = DOMAIN sups
         /\ \A t \in DOMAIN sups : sups'[t] = IF t = s THEN w ELSE sups[t]
BY SupFacts, ExceptSeq, LenProperties DEF TypeOK, Moves

LEMMA SpawnsFacts ==
  ASSUME TypeOK, NEW s \in DOMAIN sups, NEW auto \in BOOLEAN, Spawns(s, auto)
  PROVE  /\ runs' \in Seq(RunFields)
         /\ Len(runs') = Len(runs) + 1 /\ DOMAIN runs' = 1..Len(runs')
         /\ \A r \in DOMAIN runs : runs'[r] = runs[r]
         /\ runs'[Len(runs) + 1].sup = s
         /\ runs'[Len(runs) + 1].auto = auto
<1>1. NewRun(s, auto) \in RunFields /\ NewRun(s, auto).sup = s /\ NewRun(s, auto).auto = auto
  BY SupFacts DEF NewRun, RunFields
<1>. QED  BY <1>1, SupFacts, AppendProperties, LenProperties DEF TypeOK, Spawns

LEMMA KeptFacts ==
  ASSUME TypeOK, Kept
  PROVE  /\ runs' \in Seq(RunFields)
         /\ Len(runs') = Len(runs) /\ DOMAIN runs' = DOMAIN runs
         /\ \A r \in DOMAIN runs' : runs'[r].sup \in DOMAIN sups
BY SupFacts, LenProperties DEF Kept

LEMMA SpawnsTypes ==
  ASSUME TypeOK, NEW s \in DOMAIN sups, NEW auto \in BOOLEAN, Spawns(s, auto)
  PROVE  \A r \in DOMAIN runs' : runs'[r].sup \in DOMAIN sups
<1>1. ASSUME NEW r \in DOMAIN runs'
      PROVE  r \in DOMAIN runs \/ r = Len(runs) + 1
  BY SupFacts, SpawnsFacts
<1>2. \A r \in DOMAIN runs : runs'[r].sup = runs[r].sup
  BY SpawnsFacts
<1>3. runs'[Len(runs) + 1].sup = s
  BY SpawnsFacts
<1>. QED  BY <1>1, <1>2, <1>3, SupFacts

(* The runs and the supervisors stay well typed ... *)
LEMMA ShapeTypes ==
  ASSUME TypeOK, StepShape
  PROVE  /\ sups' \in Seq(SupervisorFields) /\ runs' \in Seq(RunFields)
         /\ Len(sups') \in Nat /\ Len(sups') >= Len(sups) /\ DOMAIN sups' = 1..Len(sups')
         /\ Len(runs') \in Nat /\ Len(runs') >= Len(runs) /\ DOMAIN runs' = 1..Len(runs')
         /\ \A r \in DOMAIN runs' : runs'[r].sup \in DOMAIN sups'
         /\ \A s \in DOMAIN sups' : sups'[s].current \in 0..Len(runs')
         /\ AllSound => AllSound'
<1>1. CASE sups' = sups /\ Kept
  BY <1>1, SupFacts, KeptFacts DEF TypeOK, AllSound
<1>2. CASE Registers
  <2>1. PICK p \in Policies : sups' = Append(sups, NewSupervisor(p))
    BY <1>2 DEF Registers
  <2>2. runs' = runs
    BY <1>2 DEF Registers
  <2>. QED  BY <2>1, <2>2, SupFacts, RegistersFacts, NewSupervisorSound DEF TypeOK, AllSound
<1>3. CASE \E s \in DOMAIN sups, w \in SupervisorFields : MovesByRequest(s, w) \/ MovesByTimer(s, w)
  <2>0. PICK s \in DOMAIN sups, w \in SupervisorFields : MovesByRequest(s, w) \/ MovesByTimer(s, w)
    BY <1>3
  <2>1. Moves(s, w)
    BY <2>0 DEF MovesByRequest, MovesByTimer
  <2>2. Kept \/ (\E auto \in BOOLEAN : Spawns(s, auto))
    BY <2>0 DEF MovesByRequest, MovesByTimer
  <2>3. AllSound => AllSound'
    BY <2>1, MovesFacts DEF AllSound, Moves
  <2>4. /\ runs' \in Seq(RunFields) /\ \A r \in DOMAIN runs' : runs'[r].sup \in DOMAIN sups
        /\ Len(runs') \in Nat /\ Len(runs') >= Len(runs)
    BY <2>2, SupFacts, KeptFacts, SpawnsFacts, SpawnsTypes
  <2>5. \A t \in DOMAIN sups : sups'[t].current \in 0..Len(runs)
    BY <2>1, SupFacts, MovesFacts DEF Moves
  <2>6. DOMAIN runs' = 1..Len(runs')
    BY <2>4, LenProperties
  <2>7. /\ sups' \in Seq(SupervisorFields)
        /\ Len(sups') = Len(sups) /\ DOMAIN sups' = DOMAIN sups
    BY <2>1, MovesFacts
  <2>8. \A t \in DOMAIN sups : sups'[t].current \in 0..Len(runs')
    BY <2>4, <2>5, SupFacts
  <2>. QED  BY <2>3, <2>4, <2>6, <2>7, <2>8, SupFacts
<1>. QED  BY <1>1, <1>2, <1>3 DEF StepShape

(* ... and so do the requests and the registry. *)
Points(x) == x.op # "none" => x.sup \in DOMAIN sups /\ x.run \in DOMAIN runs

LEMMA ReqStep ==
  ASSUME TypeOK, Next
  PROVE  /\ req' \in [Callers -> ReqFields]
         /\ \A c \in Callers : Points(req'[c])
<1>1. /\ req \in [Callers -> ReqFields]
      /\ \A c \in Callers : Points(req[c])
  BY DEF TypeOK, Waiting, Points
<1>2. NoReq \in ReqFields /\ Points(NoReq)
  BY DEF NoReq, ReqFields, Points
<1>3. ASSUME NEW c \in Callers, NEW x \in ReqFields, Points(x), req' = [req EXCEPT ![c] = x]
      PROVE  /\ req' \in [Callers -> ReqFields]
             /\ \A d \in Callers : Points(req'[d])
  BY <1>1, <1>3
<1>4. CASE UNCHANGED req
  BY <1>1, <1>4
<1>5. ASSUME NEW c \in Callers, NEW op \in Ops, StopAwait(c, op)
      PROVE  /\ req' \in [Callers -> ReqFields]
             /\ \A d \in Callers : Points(req'[d])
  <2> DEFINE x == [op |-> op, sup |-> registry, run |-> sups[registry].current, soft |-> TRUE]
  <2>1. registry \in DOMAIN sups /\ sups[registry].current \in DOMAIN runs
    BY <1>5, SupFacts DEF StopAwait, MayAsk
  <2>2. registry \in Nat /\ sups[registry].current \in Nat
    BY <2>1, SupFacts
  <2>3. x \in ReqFields /\ Points(x)
    BY <2>1, <2>2 DEF ReqFields, Points
  <2>4. req' = [req EXCEPT ![c] = x]
    BY <1>5 DEF StopAwait
  <2>5. HIDE DEF x
  <2>. QED  BY <1>3, <2>3, <2>4
<1>6. ASSUME NEW c \in Callers, Resume(c)
      PROVE  /\ req' \in [Callers -> ReqFields]
             /\ \A d \in Callers : Points(req'[d])
  <2> DEFINE h == sups[req[c].sup].softKill
             y(d) == [req[d] EXCEPT !.soft = FALSE]
             x(d) == CASE d = c -> NoReq
                       [] d # c /\ d = h -> y(d)
                       [] OTHER -> req[d]
  <2>1. req' = [d \in Callers |-> x(d)]
    BY <1>6 DEF Resume
  <2>2. ASSUME NEW d \in Callers
        PROVE  y(d) \in ReqFields /\ Points(y(d))
    BY <1>1 DEF ReqFields, Points
  <2>3. HIDE DEF h, y
  <2>4. ASSUME NEW d \in Callers
        PROVE  x(d) \in ReqFields /\ Points(x(d))
    BY <1>1, <1>2, <2>2
  <2>5. HIDE DEF x
  <2>. QED  BY <2>1, <2>4
<1>7. ASSUME NEW c \in Callers, SoftKill(c)
      PROVE  /\ req' \in [Callers -> ReqFields]
             /\ \A d \in Callers : Points(req'[d])
  <2> DEFINE x == [req[c] EXCEPT !.soft = FALSE]
  <2>1. req' = [req EXCEPT ![c] = x]
    BY <1>7 DEF SoftKill
  <2>2. x \in ReqFields /\ Points(x)
    BY <1>1 DEF ReqFields, Points
  <2>3. HIDE DEF x
  <2>. QED  BY <1>3, <2>1, <2>2
<1>8. \/ UNCHANGED req
      \/ \E c \in Callers : Resume(c) \/ SoftKill(c) \/ \E op \in Ops : StopAwait(c, op)
  BY DEF Next, Request, Internal, Register, Start, StopIdle, ShutdownEmpty, LaunchOk,
         LaunchFails, Exit, TimerFires, MemoryKill, TimeoutKill
<1>. QED  BY <1>4, <1>5, <1>6, <1>7, <1>8

LEMMA RegistryStep ==
  ASSUME TypeOK, Next
  PROVE  /\ registry' = registry \/ registry' = 0 \/ registry' = Len(sups')
         /\ open' \in BOOLEAN
<1>1. open \in BOOLEAN
  BY DEF TypeOK
<1>2. ASSUME NEW op, NEW s, NEW v, AfterStop(op, s, v)
      PROVE  (registry' = registry \/ registry' = 0) /\ open' \in BOOLEAN
  BY <1>1, <1>2 DEF AfterStop
<1>3. ASSUME NEW c \in Callers, Resume(c)
      PROVE  (registry' = registry \/ registry' = 0) /\ open' \in BOOLEAN
  BY <1>2, <1>3 DEF Resume
<1>4. ASSUME NEW op \in Ops, StopIdle(op)
      PROVE  (registry' = registry \/ registry' = 0) /\ open' \in BOOLEAN
  BY <1>2, <1>4, SMTT(30) DEF StopIdle
<1>5. \/ UNCHANGED <<registry, open>>
      \/ registry' = Len(sups') /\ UNCHANGED open
      \/ UNCHANGED registry /\ open' = FALSE
      \/ \E c \in Callers : Resume(c)
      \/ \E op \in Ops : StopIdle(op)
  BY DEF Next, Request, Internal, Register, Start, StopAwait, ShutdownEmpty, SoftKill, LaunchOk,
         LaunchFails, Exit, TimerFires, MemoryKill, TimeoutKill
<1>. QED  BY <1>1, <1>3, <1>4, <1>5

-------------------------------------------------------------------------------
(* Type correctness; a step needs AllSound because its shape does. *)

LEMMA TypeStep ==
  ASSUME TypeOK, AllSound, [Next]_vars
  PROVE  TypeOK' /\ AllSound'
<1>1. CASE UNCHANGED vars
  BY <1>1 DEF vars, TypeOK, AllSound, Waiting
<1>2. CASE Next
  <2>1. StepShape
    BY <1>2, NextShape
  <2>2. registry' \in 0..Len(sups')
    BY <1>2, <2>1, SupFacts, ShapeTypes, RegistryStep DEF TypeOK
  <2>3. \A c \in Waiting' : req'[c].sup \in DOMAIN sups' /\ req'[c].run \in DOMAIN runs'
    BY <1>2, <2>1, SupFacts, ShapeTypes, ReqStep DEF Points, Waiting
  <2>. QED  BY <1>2, <2>1, <2>2, <2>3, ShapeTypes, ReqStep, RegistryStep DEF TypeOK
<1>. QED  BY <1>1, <1>2

(***************************************************************************)
(* The inductive invariant.  Budget bounds the respawns by the counter as  *)
(* well as by the cap: the counter alone is what handleExit compares.      *)
(***************************************************************************)
AutoRuns(s) == {r \in DOMAIN runs : runs[r].auto /\ runs[r].sup = s}

Budget ==
  \A s \in DOMAIN sups : /\ Cardinality(AutoRuns(s)) <= sups[s].restarts
                         /\ Cardinality(AutoRuns(s)) <= MaxRestarts

IInv == TypeOK /\ AllSound /\ Budget

LEMMA AutoRunsFinite ==
  ASSUME TypeOK, NEW s
  PROVE  IsFiniteSet(AutoRuns(s)) /\ Cardinality(AutoRuns(s)) \in Nat
<1>1. IsFiniteSet(1..Len(runs))
  BY SupFacts, FS_Interval
<1>2. AutoRuns(s) \subseteq 1..Len(runs)
  BY SupFacts DEF AutoRuns
<1>. QED  BY <1>1, <1>2, FS_Subset, FS_CardinalityType

LEMMA KeptAutoRuns ==
  ASSUME TypeOK, Kept, NEW t
  PROVE  AutoRuns(t)' = AutoRuns(t)
BY KeptFacts DEF Kept, AutoRuns

(* Only the restart timer adds a run to AutoRuns(s), and only to its own s. *)
LEMMA SpawnAutoRuns ==
  ASSUME TypeOK, NEW s \in DOMAIN sups, NEW auto \in BOOLEAN, Spawns(s, auto), NEW t
  PROVE  AutoRuns(t)' = IF auto /\ t = s THEN AutoRuns(t) \cup {Len(runs) + 1} ELSE AutoRuns(t)
BY SupFacts, SpawnsFacts DEF AutoRuns

LEMMA BudgetStep ==
  ASSUME IInv, [Next]_vars
  PROVE  Budget'
<1>1. CASE UNCHANGED vars
  BY <1>1 DEF vars, IInv, Budget, AutoRuns
<1>2. CASE Next
  <2>. USE SupFacts, AutoRunsFinite DEF IInv
  <2>1. StepShape
    BY <1>2, NextShape
  <2>2. CASE sups' = sups /\ Kept
    <3>1. \A t : AutoRuns(t)' = AutoRuns(t)
      BY <2>2, KeptAutoRuns
    <3>. QED  BY <2>2, <3>1 DEF Budget
  <2>3. CASE Registers
    <3>1. PICK p \in Policies : sups' = Append(sups, NewSupervisor(p))
      BY <2>3 DEF Registers
    <3>2. \A t : AutoRuns(t)' = AutoRuns(t)
      BY <2>3 DEF Registers, AutoRuns
    <3>3. AutoRuns(Len(sups) + 1) = {}
      BY DEF AutoRuns
    <3>4. Cardinality(AutoRuns(Len(sups) + 1)) = 0
      BY <3>3, FS_EmptySet
    <3>5. \A s \in DOMAIN sups' : s \in DOMAIN sups \/ s = Len(sups) + 1
      BY <3>1, RegistersFacts
    <3>6. sups'[Len(sups) + 1].restarts = 0
      BY <3>1, RegistersFacts, NewSupervisorSound
    <3>7. \A s \in DOMAIN sups : sups'[s] = sups[s]
      BY <3>1, RegistersFacts
    <3>. QED  BY <3>2, <3>4, <3>5, <3>6, <3>7, RestartsAssumption DEF Budget
  <2>4. ASSUME NEW s \in DOMAIN sups, NEW w \in SupervisorFields, MovesByRequest(s, w)
        PROVE  Budget'
    <3>1. \A t : AutoRuns(t)' = AutoRuns(t)
      BY <2>4, KeptAutoRuns, SpawnAutoRuns DEF MovesByRequest
    <3>2. Moves(s, w) /\ w.restarts >= sups[s].restarts /\ w.restarts \in Nat
      BY <2>4 DEF MovesByRequest, SupervisorFields
    <3>3. DOMAIN sups' = DOMAIN sups /\ \A t \in DOMAIN sups : sups'[t] = IF t = s THEN w ELSE sups[t]
      BY <3>2, MovesFacts
    <3>. QED  BY <3>1, <3>2, <3>3, SMTT(30) DEF Budget
  <2>5. ASSUME NEW s \in DOMAIN sups, NEW w \in SupervisorFields, MovesByTimer(s, w)
        PROVE  Budget'
    <3>1. \A t : AutoRuns(t)' = IF t = s THEN AutoRuns(t) \cup {Len(runs) + 1} ELSE AutoRuns(t)
      BY <2>5, SpawnAutoRuns DEF MovesByTimer
    <3>2. Cardinality(AutoRuns(s) \cup {Len(runs) + 1}) = Cardinality(AutoRuns(s)) + 1
      <4>1. Len(runs) + 1 \notin AutoRuns(s)
        BY DEF AutoRuns
      <4>. QED  BY <4>1, FS_AddElement
    <3>3. /\ Moves(s, w) /\ sups[s].restarts < MaxRestarts
          /\ w.restarts = sups[s].restarts + 1
      BY <2>5 DEF MovesByTimer
    <3>4. DOMAIN sups' = DOMAIN sups /\ \A t \in DOMAIN sups : sups'[t] = IF t = s THEN w ELSE sups[t]
      BY <3>3, MovesFacts
    <3>5. /\ Cardinality(AutoRuns(s)') <= w.restarts
          /\ Cardinality(AutoRuns(s)') <= MaxRestarts
      <4>1. Cardinality(AutoRuns(s)) \in Nat /\ sups[s].restarts \in Nat
        OBVIOUS
      <4>2. Cardinality(AutoRuns(s)) <= sups[s].restarts
        BY DEF Budget
      <4>3. Cardinality(AutoRuns(s)') = Cardinality(AutoRuns(s)) + 1
        BY <3>1, <3>2
      <4>. QED  BY <3>3, <4>1, <4>2, <4>3, RestartsAssumption
    <3>6. \A t \in DOMAIN sups : t # s => AutoRuns(t)' = AutoRuns(t)
      BY <3>1
    <3>. QED  BY <3>4, <3>5, <3>6 DEF Budget
  <2>. QED  BY <2>1, <2>2, <2>3, <2>4, <2>5 DEF StepShape
<1>. QED  BY <1>1, <1>2

LEMMA InitIInv == Init => IInv
<1>. SUFFICES ASSUME Init PROVE IInv
  OBVIOUS
<1>1. /\ sups \in Seq(SupervisorFields) /\ runs \in Seq(RunFields)
      /\ Len(sups) = 0 /\ Len(runs) = 0 /\ DOMAIN sups = {} /\ DOMAIN runs = {}
  BY EmptySeq DEF Init
<1>2. req \in [Callers -> ReqFields] /\ Waiting = {}
  BY DEF Init, NoReq, ReqFields, Waiting
<1>3. registry \in 0..Len(sups) /\ open \in BOOLEAN
  BY <1>1 DEF Init
<1>. QED  BY <1>1, <1>2, <1>3 DEF IInv, TypeOK, AllSound, Budget

LEMMA StepIInv == IInv /\ [Next]_vars => IInv'
BY TypeStep, BudgetStep DEF IInv

LEMMA InvariantHolds == Spec => []IInv
BY InitIInv, StepIInv, PTL DEF Spec

(* Every reachable state of the worker runtime is well typed. *)
THEOREM TypeCorrect == Spec => []TypeOK
<1>1. IInv => TypeOK
  BY DEF IInv
<1>. QED  BY <1>1, InvariantHolds, PTL

(* No crash under a restarting policy is ever left without a pending        *)
(* restart timer, for any interleaving of any number of requests and exits. *)
THEOREM CrashAlwaysScheduled == Spec => []CrashIsScheduled
<1>1. IInv => CrashIsScheduled
  BY DEF IInv, AllSound, Sound, CrashIsScheduled
<1>. QED  BY <1>1, InvariantHolds, PTL

(* After a start or a restart that was asked for, a supervisor respawns by  *)
(* itself at most MaxRestarts times before the next, however many exits     *)
(* come between the arming of its timer and the firing (supervisor.ts 315,  *)
(* 327-341).                                                                *)
THEOREM RestartsBounded == Spec => []RestartBudget
<1>1. ASSUME IInv, NEW s \in DOMAIN sups
      PROVE  Cardinality(AutoRunsSinceAsked(s)) <= MaxRestarts
  <2>1. IsFiniteSet(AutoRuns(s)) /\ Cardinality(AutoRuns(s)) \in Nat
    BY <1>1, AutoRunsFinite DEF IInv
  <2>2. AutoRunsSinceAsked(s) \subseteq AutoRuns(s)
    BY DEF AutoRunsSinceAsked, AutoRuns
  <2>3. /\ Cardinality(AutoRunsSinceAsked(s)) <= Cardinality(AutoRuns(s))
        /\ Cardinality(AutoRunsSinceAsked(s)) \in Nat
    BY <2>1, <2>2, FS_Subset, FS_CardinalityType
  <2>4. Cardinality(AutoRuns(s)) <= MaxRestarts
    BY <1>1 DEF IInv, Budget
  <2>. QED  BY <2>1, <2>3, <2>4, RestartsAssumption
<1>2. IInv => RestartBudget
  BY <1>1 DEF RestartBudget
<1>. QED  BY <1>2, InvariantHolds, PTL

(* Between a stop and the start or restart that withdraws it, a supervisor  *)
(* opens no run.                                                            *)
THEOREM StopAlwaysRespected == Spec => StopIsRespected
<1> DEFINE Respects ==
      \A s \in DOMAIN sups :
        sups[s].intentional /\ sups'[s].intentional => RunsOf(s, runs') = RunsOf(s, runs)
<1>1. IInv /\ [Next]_vars => [Respects]_vars
  <2>. SUFFICES ASSUME IInv, Next PROVE Respects
    OBVIOUS
  <2>1. StepShape
    BY NextShape DEF IInv
  <2>2. ASSUME Kept
        PROVE  Respects
    BY <2>2, KeptFacts DEF Kept, RunsOf, IInv
  <2>3. CASE Registers
    BY <2>3 DEF Registers
  <2>4. ASSUME NEW t \in DOMAIN sups, NEW auto \in BOOLEAN, Spawns(t, auto), NEW s \in DOMAIN sups, s # t
        PROVE  RunsOf(s, runs') = RunsOf(s, runs)
    BY <2>4, SupFacts, SpawnsFacts DEF RunsOf, IInv
  <2>5. ASSUME NEW t \in DOMAIN sups, NEW w \in SupervisorFields, MovesByRequest(t, w), ~Kept
        PROVE  Respects
    <3>1. Spawns(t, FALSE) /\ ~w.intentional /\ Moves(t, w)
      BY <2>5 DEF MovesByRequest
    <3>2. ~sups'[t].intentional
      BY <3>1, MovesFacts DEF IInv
    <3>. QED  BY <2>4, <3>1, <3>2
  <2>6. ASSUME NEW t \in DOMAIN sups, NEW w \in SupervisorFields, MovesByTimer(t, w)
        PROVE  Respects
    BY <2>4, <2>6 DEF MovesByTimer
  <2>. QED  BY <2>1, <2>2, <2>3, <2>5, <2>6 DEF StepShape
<1>. QED  BY <1>1, InvariantHolds, PTL DEF Spec, StopIsRespected


-------------------------------------------------------------------------------
(***************************************************************************)
(* The runtime under WorkerRuntimeSerial.  SerialInv describes the whole   *)
(* of it by where the one registered worker stands; the supervisors of     *)
(* earlier registrations are out of use.  A step is followed from one such *)
(* description to the next, and on the way it is a step of the lifecycle.  *)
(***************************************************************************)
Away ==
  \A s \in DOMAIN sups : s # registry =>
    sups[s].status = "stopped" /\ ~sups[s].timer /\ sups[s].current = 0

Nobody == registry = 0 /\ Launching = {} /\ Alive = {} /\ Waiting = {}

(* A request that waits now is due: its process has exited. *)
Resting ==
  /\ registry # 0 /\ Launching = {} /\ Alive = {}
  /\ Shown.status \in {"stopped", "crashed", "failed"} /\ Shown.current = 0
  /\ Waiting # {} =>
       /\ Shown.status = "stopped" /\ Shown.intentional
       /\ \E c \in Callers : Waiting = {c} /\ req[c].sup = registry

Starting(r) ==
  /\ registry # 0 /\ Launching = {r} /\ Alive = {} /\ Waiting = {}
  /\ runs[r].sup = registry
  /\ Shown.status = "starting" /\ Shown.current = 0 /\ ~Shown.intentional

Running(r) ==
  /\ registry # 0 /\ Launching = {} /\ Alive = {r}
  /\ runs[r].sup = registry /\ runs[r].watch
  /\ Shown.status = "running" /\ Shown.current = r /\ Shown.sampler = r
  /\ Waiting # {} =>
       /\ Shown.intentional
       /\ \E c \in Callers : Waiting = {c} /\ req[c].sup = registry /\ req[c].run = r

Stands == Nobody \/ Resting \/ \E r \in DOMAIN runs : Starting(r) \/ Running(r)

SerialInv == IInv /\ Away /\ Stands

(* The variables of the lifecycle. *)
Phase == IF registry = 0 THEN "none" ELSE Shown.status
Asked == registry # 0 /\ Shown.intentional
Procs == Cardinality(Alive)

Refines == Lifecycle!Next \/ UNCHANGED <<Phase, Asked, Procs>>

Follows == Away' /\ Stands' /\ Refines

LEMMA SerialFacts ==
  ASSUME SerialInv
  PROVE  /\ TypeOK /\ AllSound
         /\ registry # 0 => registry \in DOMAIN sups /\ Shown \in SupervisorFields
         /\ Asked \in BOOLEAN
         /\ 0 \notin DOMAIN runs
         /\ Alive = {} => Procs = 0
         /\ \A r : Alive = {r} => Procs = 1
<1>1. TypeOK /\ AllSound
  BY DEF SerialInv, IInv
<1>2. registry # 0 => registry \in DOMAIN sups /\ Shown \in SupervisorFields
  BY <1>1, SupFacts DEF Shown
<1>3. Asked \in BOOLEAN
  BY DEF Asked
<1>4. Alive = {} => Procs = 0
  BY FS_EmptySet DEF Procs
<1>5. \A r : Alive = {r} => Procs = 1
  BY FS_Singleton DEF Procs
<1>6. 0 \notin DOMAIN runs
  BY <1>1, SupFacts
<1>. QED  BY <1>1, <1>2, <1>3, <1>4, <1>5, <1>6

LEMMA ProcsAfter ==
  /\ Alive' = {} => Procs' = 0
  /\ \A r : Alive' = {r} => Procs' = 1
BY FS_EmptySet, FS_Singleton DEF Procs

(* The worker shown gets the fields w, the others stay as they are. *)
LEMMA ShownMoves ==
  ASSUME TypeOK, registry # 0, NEW w, sups' = [sups EXCEPT ![registry] = w]
  PROVE  /\ DOMAIN sups' = DOMAIN sups /\ sups'[registry] = w
         /\ registry' = registry => Shown' = w
         /\ Away /\ registry' = registry => Away'
         /\ Away /\ registry' = 0 /\ w.status = "stopped" /\ ~w.timer /\ w.current = 0 => Away'
<1>1. registry \in DOMAIN sups
  BY SupFacts
<1>2. DOMAIN sups' = DOMAIN sups /\ sups'[registry] = w
  BY <1>1
<1>3. \A s \in DOMAIN sups : s # registry => sups'[s] = sups[s]
  BY <1>1
<1>4. registry' = registry => Shown' = w
  BY <1>2 DEF Shown
<1>5. Away /\ registry' = registry => Away'
  BY <1>2, <1>3 DEF Away
<1>6. Away /\ registry' = 0 /\ w.status = "stopped" /\ ~w.timer /\ w.current = 0 => Away'
  BY <1>2, <1>3 DEF Away
<1>. QED  BY <1>2, <1>4, <1>5, <1>6

LEMMA SpawnOpens ==
  ASSUME TypeOK, NEW s \in DOMAIN sups, NEW auto \in BOOLEAN, runs' = Append(runs, NewRun(s, auto))
  PROVE  LET r == Len(runs) + 1
         IN  /\ r \in DOMAIN runs' /\ runs'[r].sup = s
             /\ Launching' = Launching \cup {r}
             /\ Alive' = Alive
<1>1. NewRun(s, auto) \in RunFields /\ NewRun(s, auto).at = "launching"
  BY SupFacts DEF NewRun, RunFields
<1>2. /\ DOMAIN runs' = 1..(Len(runs) + 1)
      /\ \A q \in DOMAIN runs : runs'[q] = runs[q]
      /\ runs'[Len(runs) + 1] = NewRun(s, auto)
  BY <1>1, SupFacts, AppendProperties, LenProperties DEF TypeOK
<1>3. DOMAIN runs = 1..Len(runs) /\ Len(runs) \in Nat
  BY SupFacts
<1>4. runs'[Len(runs) + 1].sup = s
  BY SpawnsFacts DEF Spawns
<1>. QED  BY <1>1, <1>2, <1>3, <1>4 DEF Launching, Alive

(* The spawn of the worker shown, from rest. *)
LEMMA LaunchFollows ==
  ASSUME SerialInv, Resting, Waiting' = {}, registry' = registry, NEW auto \in BOOLEAN,
         runs' = Append(runs, NewRun(registry, auto)), NEW w \in SupervisorFields,
         sups' = [sups EXCEPT ![registry] = w],
         w.status = "starting", w.current = 0, ~w.intentional
  PROVE  Follows
<1>. USE SerialFacts
<1>1. registry # 0 /\ registry \in DOMAIN sups /\ Alive = {} /\ Launching = {}
  BY DEF Resting
<1>2. Shown' = w /\ Away'
  BY <1>1, ShownMoves DEF SerialInv
<1>3. PICK r : /\ r \in DOMAIN runs' /\ runs'[r].sup = registry
               /\ Launching' = {r} /\ Alive' = {}
  BY <1>1, SpawnOpens
<1>4. Starting(r)'
  BY <1>1, <1>2, <1>3 DEF Starting
<1>5. Phase \in {"stopped", "crashed", "failed"} /\ Phase' = "starting" /\ Asked' = FALSE
  BY <1>1, <1>2 DEF Resting, Phase, Asked
<1>6. Procs' = Procs
  BY <1>1, <1>3, ProcsAfter
<1>7. Lifecycle!Launch
  BY <1>5, <1>6 DEF Lifecycle!Launch, Lifecycle!AtRest, Phase, Asked, Procs
<1>. QED  BY <1>2, <1>3, <1>4, <1>7 DEF Follows, Stands, Refines, Lifecycle!Next

(* What follows stop() when the worker has no process any more. *)
LEMMA AfterStopFollows ==
  ASSUME SerialInv, Resting, Waiting' = {}, NEW op \in Ops, NEW v \in SupervisorFields,
         v.status = "stopped", v.intentional, ~v.timer, v.current = 0,
         AfterStop(op, registry, v)
  PROVE  Follows
<1>. USE SerialFacts
<1>1. registry # 0 /\ registry \in DOMAIN sups /\ Alive = {} /\ Launching = {}
      /\ Phase \in {"stopped", "crashed", "failed"}
  BY DEF Resting, Phase
<1>2. CASE op = "restart"
  <2> DEFINE w == BeginWanted(v, TRUE)
  <2>1. /\ sups' = [sups EXCEPT ![registry] = w] /\ registry' = registry
        /\ runs' = Append(runs, NewRun(registry, FALSE))
    BY <1>2 DEF AfterStop
  <2>2. w \in SupervisorFields /\ w.current = 0 /\ ~w.intentional
    BY BeginWantedSound
  <2>3. w.status = "starting"
    BY DEF BeginWanted, BeginSpawn, SupervisorFields
  <2>4. HIDE DEF w
  <2>. QED  BY <2>1, <2>2, <2>3, LaunchFollows
<1>3. CASE op \in {"stop", "shutdown"}
  <2>1. sups' = [sups EXCEPT ![registry] = v] /\ registry' = registry /\ runs' = runs
    BY <1>3 DEF AfterStop
  <2>2. Shown' = v /\ Away'
    BY <1>1, <2>1, ShownMoves DEF SerialInv
  <2>3. Alive' = {} /\ Launching' = {} /\ Procs' = Procs
    BY <1>1, <2>1 DEF Alive, Launching, Procs
  <2>4. Resting'
    BY <1>1, <2>1, <2>2, <2>3 DEF Resting
  <2>5. Phase' = "stopped" /\ Asked' = TRUE
    BY <1>1, <2>1, <2>2 DEF Phase, Asked, SupervisorFields
  <2>6. Lifecycle!Stop
    BY <1>1, <2>3, <2>5 DEF Lifecycle!Stop, Lifecycle!AtRest, Phase, Asked, Procs
  <2>. QED  BY <2>2, <2>4, <2>6 DEF Follows, Stands, Refines, Lifecycle!Next
<1>4. CASE op = "delete"
  <2>1. sups' = [sups EXCEPT ![registry] = v] /\ registry' = 0 /\ runs' = runs
    BY <1>4 DEF AfterStop
  <2>2. Away'
    BY <1>1, <2>1, ShownMoves DEF SerialInv
  <2>3. Alive' = {} /\ Launching' = {} /\ Procs' = Procs
    BY <1>1, <2>1 DEF Alive, Launching, Procs
  <2>4. Nobody'
    BY <2>1, <2>3 DEF Nobody
  <2>5. Phase' = "none" /\ Asked' = FALSE
    BY <2>1 DEF Phase, Asked
  <2>6. Lifecycle!Deregister
    BY <1>1, <2>3, <2>5 DEF Lifecycle!Deregister, Lifecycle!AtRest, Phase, Asked, Procs
  <2>. QED  BY <2>2, <2>4, <2>6 DEF Follows, Stands, Refines, Lifecycle!Next
<1>. QED  BY <1>2, <1>3, <1>4 DEF Ops

(***************************************************************************)
(* One lemma per action.  What a guard says of the state picks where the   *)
(* worker stands: a request finds nobody waiting and nothing starting.     *)
(***************************************************************************)
LEMMA RestsIfQuiet ==
  ASSUME SerialInv, Quiet, registry # 0
  PROVE  Resting \/ \E r \in DOMAIN runs : Running(r)
<1>1. ~Nobody
  BY DEF Nobody
<1>2. \A r : ~Starting(r)
  BY DEF Starting, Quiet
<1>. QED  BY <1>1, <1>2 DEF SerialInv, Stands

LEMMA RegisterFollows ==
  ASSUME SerialInv, NEW p \in Policies, Register(p)
  PROVE  Follows
<1>. USE SerialFacts
<1>1. Nobody
  <2>1. registry = 0
    BY DEF Register
  <2>. QED  BY <2>1 DEF SerialInv, Stands, Resting, Starting, Running
<1>2. /\ sups' = Append(sups, NewSupervisor(p)) /\ registry' = Len(sups') /\ runs' = runs
      /\ req' = req /\ registry = 0
  BY DEF Register
<1>3. /\ registry' = Len(sups) + 1 /\ DOMAIN sups' = 1..(Len(sups) + 1)
      /\ \A s \in DOMAIN sups : sups'[s] = sups[s]
      /\ sups'[Len(sups) + 1] = NewSupervisor(p)
  BY <1>2, RegistersFacts
<1>4. DOMAIN sups = 1..Len(sups) /\ Len(sups) \in Nat
  BY SupFacts
<1>5. Shown' = NewSupervisor(p) /\ registry' # 0
  BY <1>3, <1>4 DEF Shown
<1>6. Away'
  BY <1>2, <1>3, <1>4 DEF Away, SerialInv
<1>7. Alive' = {} /\ Launching' = {} /\ Waiting' = {} /\ Procs' = Procs
  BY <1>1, <1>2 DEF Nobody, Alive, Launching, Waiting, Procs
<1>8. Resting'
  BY <1>5, <1>7 DEF Resting, NewSupervisor
<1>9. Phase = "none" /\ Phase' = "stopped" /\ Asked' = FALSE /\ Asked = FALSE
  BY <1>2, <1>5 DEF Phase, Asked, NewSupervisor
<1>10. Lifecycle!Register
  BY <1>7, <1>9 DEF Lifecycle!Register, Phase, Asked, Procs
<1>. QED  BY <1>6, <1>8, <1>10 DEF Follows, Stands, Refines, Lifecycle!Next

LEMMA StartFollows ==
  ASSUME SerialInv, Quiet, Start
  PROVE  Follows
<1>. USE SerialFacts
<1> DEFINE w == BeginWanted(Shown, FALSE)
<1>1. /\ registry # 0 /\ Shown.status \notin {"running", "starting"}
      /\ sups' = [sups EXCEPT ![registry] = w] /\ registry' = registry
      /\ runs' = Append(runs, NewRun(registry, FALSE)) /\ req' = req
  BY DEF Start, Shown
<1>2. Resting
  BY <1>1, RestsIfQuiet DEF Running
<1>3. Waiting' = {}
  BY <1>1 DEF Quiet, Waiting
<1>4. w \in SupervisorFields /\ ~w.intentional /\ w.current = Shown.current
  BY <1>1, BeginWantedSound
<1>5. w.status = "starting"
  BY <1>1 DEF BeginWanted, BeginSpawn, SupervisorFields
<1>6. Shown.current = 0
  BY <1>2 DEF Resting
<1>7. HIDE DEF w
<1>. QED  BY <1>1, <1>2, <1>3, <1>4, <1>5, <1>6, LaunchFollows

LEMMA StopIdleFollows ==
  ASSUME SerialInv, Quiet, NEW op \in Ops, StopIdle(op)
  PROVE  Follows
<1>. USE SerialFacts
<1> DEFINE v == StoppedIdle(Shown)
<1>1. registry # 0 /\ Shown.current = 0 /\ AfterStop(op, registry, v) /\ req' = req
  BY DEF StopIdle, MayAsk, Shown
<1>2. Resting
  BY <1>1, RestsIfQuiet DEF Running
<1>3. Waiting' = {}
  BY <1>1 DEF Quiet, Waiting
<1>4. v \in SupervisorFields /\ v.current = 0
  BY <1>1, StoppedIdleSound
<1>5. v.status = "stopped" /\ v.intentional /\ ~v.timer
  BY <1>1 DEF StoppedIdle, Stopping, SupervisorFields
<1>6. HIDE DEF v
<1>. QED  BY <1>1, <1>2, <1>3, <1>4, <1>5, AfterStopFollows

LEMMA StopAwaitFollows ==
  ASSUME SerialInv, Quiet, NEW c \in Callers, NEW op \in Ops, StopAwait(c, op)
  PROVE  Follows
<1>. USE SerialFacts
<1> DEFINE w == [Stopping(Shown) EXCEPT !.softKill = c]
           x == [op |-> op, sup |-> registry, run |-> Shown.current, soft |-> TRUE]
<1>1. /\ registry # 0 /\ Shown.current # 0 /\ registry' = registry /\ runs' = runs
      /\ sups' = [sups EXCEPT ![registry] = w] /\ req' = [req EXCEPT ![c] = x]
  BY DEF StopAwait, MayAsk, Shown
<1>2. PICK r \in DOMAIN runs : Running(r)
  BY <1>1, RestsIfQuiet DEF Resting
<1>3. Shown' = w /\ Away'
  BY <1>1, ShownMoves DEF SerialInv
<1>4. /\ w.status = "running" /\ w.current = r /\ w.sampler = r /\ w.intentional
      /\ w \in SupervisorFields
  BY <1>1, <1>2, StoppingSound DEF Running, Stopping, SupervisorFields
<1>5. Waiting' = {c} /\ req'[c].sup = registry /\ req'[c].run = r
  <2>1. x.op # "none" /\ x.sup = registry /\ x.run = r
    BY <1>2 DEF Running, Ops
  <2>2. Waiting = {} /\ req \in [Callers -> ReqFields]
    BY DEF Quiet, TypeOK
  <2>3. HIDE DEF x
  <2>. QED  BY <1>1, <2>1, <2>2 DEF Waiting
<1>6. Alive' = Alive /\ Launching' = Launching /\ Procs' = Procs
  BY <1>1 DEF Alive, Launching, Procs
<1>7. HIDE DEF w, x
<1>8. Running(r)' /\ r \in DOMAIN runs'
  BY <1>1, <1>2, <1>3, <1>4, <1>5, <1>6 DEF Running
<1>9. Phase = "running" /\ Phase' = "running" /\ Asked' = TRUE
  BY <1>1, <1>2, <1>3, <1>4 DEF Phase, Asked, Running, SupervisorFields
<1>10. Lifecycle!Stop
  BY <1>6, <1>9 DEF Lifecycle!Stop, Phase, Asked, Procs
<1>. QED  BY <1>3, <1>8, <1>10 DEF Follows, Stands, Refines, Lifecycle!Next

(* Steps that change nothing the description names: the timer of a stop,   *)
(* the kills, the closing of the listener.                                 *)
LEMMA StutterFollows ==
  ASSUME SerialInv, UNCHANGED <<registry, sups>>, DOMAIN runs' = DOMAIN runs,
         \A r \in DOMAIN runs : /\ runs'[r].at = runs[r].at /\ runs'[r].sup = runs[r].sup
                                /\ runs'[r].watch = runs[r].watch,
         \A c \in Callers : /\ req'[c].op = req[c].op /\ req'[c].sup = req[c].sup
                            /\ req'[c].run = req[c].run
  PROVE  Follows
<1>1. /\ Alive' = Alive /\ Launching' = Launching /\ Waiting' = Waiting
      /\ Shown' = Shown /\ registry' = registry
  BY DEF Alive, Launching, Waiting, Shown
<1>2. Away'
  BY DEF Away, SerialInv
<1>3. Nobody => Nobody'
  BY <1>1 DEF Nobody
<1>4. Resting => Resting'
  BY <1>1 DEF Resting
<1>5. ASSUME NEW r \in DOMAIN runs
      PROVE  (Starting(r) => Starting(r)') /\ (Running(r) => Running(r)') /\ r \in DOMAIN runs'
  BY <1>1 DEF Starting, Running
<1>6. Stands'
  BY <1>3, <1>4, <1>5 DEF SerialInv, Stands
<1>7. UNCHANGED <<Phase, Asked, Procs>>
  BY <1>1 DEF Phase, Asked, Procs
<1>. QED  BY <1>2, <1>6, <1>7 DEF Follows, Refines

LEMMA ShutdownEmptyFollows ==
  ASSUME SerialInv, ShutdownEmpty
  PROVE  Follows
BY StutterFollows DEF ShutdownEmpty

LEMMA SoftKillFollows ==
  ASSUME SerialInv, NEW c \in Callers, SoftKill(c)
  PROVE  Follows
<1>1. /\ UNCHANGED <<registry, sups>> /\ req' = [req EXCEPT ![c].soft = FALSE]
      /\ runs' = [runs EXCEPT ![req[c].run].killed = TRUE]
  BY DEF SoftKill
<1>2. req \in [Callers -> ReqFields] /\ \A r \in DOMAIN runs : runs[r] \in RunFields
  BY SerialFacts, SupFacts DEF TypeOK
<1>3. \A d \in Callers : /\ req'[d].op = req[d].op /\ req'[d].sup = req[d].sup
                         /\ req'[d].run = req[d].run
  BY <1>1, <1>2 DEF ReqFields
<1>4. \A r \in DOMAIN runs : /\ runs'[r].at = runs[r].at /\ runs'[r].sup = runs[r].sup
                             /\ runs'[r].watch = runs[r].watch
  BY <1>1, <1>2 DEF RunFields
<1>5. DOMAIN runs' = DOMAIN runs
  BY <1>1
<1>. QED  BY <1>1, <1>3, <1>4, <1>5, StutterFollows

LEMMA KillFollows ==
  ASSUME SerialInv, NEW r \in DOMAIN runs, MemoryKill(r) \/ TimeoutKill(r)
  PROVE  Follows
<1>1. UNCHANGED <<registry, sups, req>> /\ runs' = [runs EXCEPT ![r].killed = TRUE]
  BY DEF MemoryKill, TimeoutKill
<1>2. \A q \in DOMAIN runs : runs[q] \in RunFields
  BY SerialFacts, SupFacts
<1>3. \A q \in DOMAIN runs : /\ runs'[q].at = runs[q].at /\ runs'[q].sup = runs[q].sup
                             /\ runs'[q].watch = runs[q].watch
  BY <1>1, <1>2 DEF RunFields
<1>4. DOMAIN runs' = DOMAIN runs
  BY <1>1
<1>. QED  BY <1>1, <1>3, <1>4, StutterFollows

LEMMA ResumeFollows ==
  ASSUME SerialInv, NEW c \in Callers, Resume(c)
  PROVE  Follows
<1>. USE SerialFacts
<1>1. c \in Waiting /\ runs[req[c].run].at = "gone" /\ req[c].op \in Ops
  BY DEF Resume, Due, Waiting, TypeOK, ReqFields
<1>2. \A r : ~Running(r) /\ ~Starting(r)
  BY <1>1 DEF Running, Starting, Alive
<1>3. Resting
  BY <1>1, <1>2 DEF SerialInv, Stands, Nobody
<1>4. Waiting = {c} /\ req[c].sup = registry /\ registry # 0
  BY <1>1, <1>3 DEF Resting
<1> DEFINE v == [Shown EXCEPT !.softKill = NoCaller]
<1>5. AfterStop(req[c].op, registry, v)
  BY <1>4 DEF Resume, Shown
<1>6. Waiting' = {}
  <2>1. req'[c] = NoReq
    BY DEF Resume
  <2>2. \A d \in Callers : d # c => req'[d].op = "none"
    BY <1>4 DEF Resume, Waiting, TypeOK, ReqFields
  <2>. QED  BY <2>1, <2>2 DEF Waiting, NoReq
<1>7. v \in SupervisorFields /\ v.current = 0 /\ v.status = "stopped" /\ v.intentional
  BY <1>1, <1>3, ReleasedSound DEF Resting, SupervisorFields
<1>8. ~v.timer
  <2>1. Sound(Shown)
    BY <1>4, SupFacts DEF AllSound, Shown
  <2>. QED  BY <1>1, <1>3, <2>1 DEF Resting, Sound, SupervisorFields
<1>9. HIDE DEF v
<1>. QED  BY <1>1, <1>3, <1>5, <1>6, <1>7, <1>8, AfterStopFollows

LEMMA LaunchOkFollows ==
  ASSUME SerialInv, NEW r \in DOMAIN runs, LaunchOk(r)
  PROVE  Follows
<1>. USE SerialFacts
<1>1. /\ r \in Launching /\ registry' = registry /\ req' = req
      /\ runs' = [runs EXCEPT ![r].at = "alive", ![r].watch = TRUE]
      /\ sups' = [sups EXCEPT ![runs[r].sup] = Launched(@, r)]
  BY DEF LaunchOk
<1>2. Starting(r)
  BY <1>1 DEF SerialInv, Stands, Nobody, Resting, Starting, Running
<1>3. registry # 0 /\ runs[r].sup = registry /\ registry \in DOMAIN sups
  BY <1>2 DEF Starting
<1> DEFINE w == Launched(Shown, r)
<1>4. sups' = [sups EXCEPT ![registry] = w]
  BY <1>1, <1>3 DEF Shown
<1>5. /\ w \in SupervisorFields /\ w.current = r /\ w.sampler = r /\ w.status = "running"
      /\ ~w.intentional
  <2>1. r \in Nat
    BY SupFacts
  <2>. QED  BY <1>2, <1>3, <2>1 DEF Launched, SupervisorFields, Statuses, Starting
<1>6. HIDE DEF w
<1>7. Shown' = w /\ Away'
  BY <1>1, <1>3, <1>4, ShownMoves DEF SerialInv
<1>8. /\ DOMAIN runs' = DOMAIN runs
      /\ runs'[r].at = "alive" /\ runs'[r].watch /\ runs'[r].sup = registry
      /\ \A q \in DOMAIN runs : q # r => runs'[q] = runs[q]
  <2>1. runs[r] \in RunFields
    BY SupFacts
  <2>. QED  BY <1>1, <1>3, <2>1 DEF RunFields
<1>9. Alive' = {r} /\ Launching' = {} /\ Waiting' = {}
  BY <1>1, <1>2, <1>8 DEF Starting, Alive, Launching, Waiting
<1>10. Procs = 0 /\ Procs' = 1
  BY <1>2, <1>9, ProcsAfter DEF Starting
<1>11. Running(r)' /\ r \in DOMAIN runs'
  BY <1>1, <1>3, <1>5, <1>7, <1>8, <1>9 DEF Running
<1>12. Phase = "starting" /\ Phase' = "running" /\ Asked = FALSE /\ Asked' = FALSE
  BY <1>1, <1>2, <1>5, <1>7 DEF Phase, Asked, Starting
<1>13. Lifecycle!Up
  BY <1>10, <1>12 DEF Lifecycle!Up, Phase, Asked, Procs
<1>. QED  BY <1>7, <1>11, <1>13 DEF Follows, Stands, Refines, Lifecycle!Next

(* The policy engine leaves the worker at rest, stopped if so intended. *)
LEMMA HandleExitRests ==
  ASSUME NEW v \in SupervisorFields, NEW b \in BOOLEAN
  PROVE  LET w == HandleExit(v, b)
         IN  /\ w.status \in {"stopped", "crashed", "failed"}
             /\ w.intentional = v.intentional
             /\ v.intentional => w.status = "stopped"
<1>1. CASE SchedulesRestart(v, b)
  BY <1>1 DEF HandleExit, SchedulesRestart, SupervisorFields
<1>2. CASE ~SchedulesRestart(v, b)
  <2> DEFINE f == FinalStatus(v, b)
  <2>1. f \in {"stopped", "crashed", "failed"} /\ (v.intentional => f = "stopped")
    BY DEF FinalStatus
  <2>2. HandleExit(v, b) = [v EXCEPT !.status = f]
    BY <1>2 DEF HandleExit
  <2>3. HIDE DEF f
  <2>. QED  BY <2>1, <2>2 DEF SupervisorFields
<1>. QED  BY <1>1, <1>2

(* A launch failed or the process exited: the worker shown comes to rest. *)
LEMMA DownFollows ==
  ASSUME SerialInv, NEW r, Starting(r) \/ Running(r), registry' = registry, req' = req,
         Alive' = {}, Launching' = {}, NEW w \in SupervisorFields,
         sups' = [sups EXCEPT ![registry] = w],
         w.status \in {"stopped", "crashed", "failed"}, w.intentional = Shown.intentional,
         w.intentional => w.status = "stopped", w.current = 0
  PROVE  Follows
<1>. USE SerialFacts
<1>1. registry # 0 /\ registry \in DOMAIN sups
  BY DEF Starting, Running
<1>2. Shown' = w /\ Away'
  BY <1>1, ShownMoves DEF SerialInv
<1>3. Waiting' = Waiting /\ Procs' = 0
  BY ProcsAfter DEF Waiting
<1>4. Waiting # {} => /\ Shown.intentional
                      /\ \E c \in Callers : Waiting = {c} /\ req[c].sup = registry
  BY DEF Starting, Running
<1>5. Resting'
  BY <1>1, <1>2, <1>3, <1>4 DEF Resting
<1>6. /\ Phase \in {"starting", "running"} /\ Phase' = w.status
      /\ Asked = Shown.intentional /\ Asked' = w.intentional
  BY <1>1, <1>2 DEF Phase, Asked, Starting, Running, SupervisorFields
<1>7. Lifecycle!Down
  BY <1>3, <1>6 DEF Lifecycle!Down, Lifecycle!AtRest, Phase, Asked, Procs
<1>. QED  BY <1>2, <1>5, <1>7 DEF Follows, Stands, Refines, Lifecycle!Next

LEMMA LaunchFailsFollows ==
  ASSUME SerialInv, NEW r \in DOMAIN runs, LaunchFails(r)
  PROVE  Follows
<1>. USE SerialFacts
<1>1. /\ r \in Launching /\ registry' = registry /\ req' = req
      /\ runs' = [runs EXCEPT ![r].at = "gone"]
      /\ sups' = [sups EXCEPT ![runs[r].sup] = HandleExit(@, TRUE)]
  BY DEF LaunchFails
<1>2. Starting(r)
  BY <1>1 DEF SerialInv, Stands, Nobody, Resting, Starting, Running
<1>3. /\ registry # 0 /\ runs[r].sup = registry /\ Shown.current = 0
      /\ registry \in DOMAIN sups /\ Shown \in SupervisorFields
  BY <1>2 DEF Starting
<1> DEFINE w == HandleExit(Shown, TRUE)
<1>4. sups' = [sups EXCEPT ![registry] = w]
  BY <1>1, <1>3 DEF Shown
<1>5. /\ w \in SupervisorFields /\ w.status \in {"stopped", "crashed", "failed"}
      /\ w.intentional = Shown.intentional /\ (w.intentional => w.status = "stopped")
      /\ w.current = 0
  BY <1>3, HandleExitSound, HandleExitRests
<1>6. HIDE DEF w
<1>7. Alive' = {} /\ Launching' = {}
  <2>1. runs'[r].at = "gone" /\ \A q \in DOMAIN runs : q # r => runs'[q] = runs[q]
    BY <1>1, SupFacts DEF RunFields
  <2>. QED  BY <1>1, <1>2, <2>1 DEF Starting, Alive, Launching
<1>. QED  BY <1>1, <1>2, <1>4, <1>5, <1>7, DownFollows

LEMMA ExitFollows ==
  ASSUME SerialInv, NEW r \in DOMAIN runs, NEW failed \in BOOLEAN, Exit(r, failed)
  PROVE  Follows
<1>. USE SerialFacts
<1>1. r \in Alive /\ registry' = registry /\ req' = req
  BY DEF Exit
<1>2. Running(r)
  BY <1>1 DEF SerialInv, Stands, Nobody, Resting, Starting, Running
<1>3. /\ registry # 0 /\ runs[r].sup = registry /\ Shown.current = r
      /\ registry \in DOMAIN sups /\ Shown \in SupervisorFields
  BY <1>2 DEF Running
<1> DEFINE u == [Shown EXCEPT !.sampler = 0, !.current = 0]
           w == HandleExit(u, failed)
<1>4. u \in SupervisorFields /\ u.intentional = Shown.intentional /\ u.current = 0
  BY <1>3 DEF SupervisorFields
<1>5. sups' = [sups EXCEPT ![registry] = w]
  <2>1. Exited(Shown, r, failed) = w
    BY <1>3 DEF Exited, SupervisorFields
  <2>. QED  BY <1>3, <2>1 DEF Exit, Shown
<1>6. /\ w \in SupervisorFields /\ w.status \in {"stopped", "crashed", "failed"}
      /\ w.intentional = Shown.intentional /\ (w.intentional => w.status = "stopped")
      /\ w.current = 0
  <2>. HIDE DEF u
  <2>. QED  BY <1>4, HandleExitSound, HandleExitRests
<1>7. HIDE DEF w
<1>8. Alive' = {} /\ Launching' = {}
  <2>1. DOMAIN runs' = DOMAIN runs
    BY DEF Exit
  <2>2. \A q \in DOMAIN runs : runs'[q].at = IF q = r THEN "gone" ELSE runs[q].at
    BY SupFacts DEF Exit, RunFields
  <2>. QED  BY <1>2, <2>1, <2>2 DEF Running, Alive, Launching
<1>. QED  BY <1>1, <1>2, <1>5, <1>6, <1>8, DownFollows

LEMMA TimerFiresFollows ==
  ASSUME SerialInv, NEW s \in DOMAIN sups, TimerFires(s)
  PROVE  Follows
<1>. USE SerialFacts
<1>1. s = registry /\ Shown.timer /\ registry # 0
  BY SupFacts DEF TimerFires, SerialInv, Away, Shown
<1>2. registry' = registry /\ req' = req /\ sups' = [sups EXCEPT ![registry] = TimerFired(Shown)]
  BY <1>1 DEF TimerFires, Shown
<1>3. CASE TimerSpawns(Shown)
  <2> DEFINE w == TimerFired(Shown)
  <2>1. Shown.status = "crashed" /\ ~Shown.intentional
    BY <1>3 DEF TimerSpawns
  <2>2. Resting /\ Waiting = {}
    BY <1>1, <2>1 DEF SerialInv, Stands, Nobody, Resting, Starting, Running
  <2>3. Waiting' = {} /\ runs' = Append(runs, NewRun(registry, TRUE))
    BY <1>1, <1>2, <1>3, <2>2 DEF Waiting, TimerFires, Shown
  <2>4. Sound(Shown)
    BY <1>1 DEF AllSound, Shown
  <2>5. w \in SupervisorFields /\ w.current = 0 /\ ~w.intentional
    BY <1>1, <2>1, <2>2, <2>4, TimerFiredSound DEF Resting
  <2>6. w.status = "starting"
    BY <1>1, <1>3 DEF TimerFired, BeginSpawn, SupervisorFields
  <2>7. sups' = [sups EXCEPT ![registry] = w] /\ registry' = registry
    BY <1>2
  <2>8. HIDE DEF w
  <2>. QED  BY <2>2, <2>3, <2>5, <2>6, <2>7, LaunchFollows
<1>4. CASE ~TimerSpawns(Shown)
  <2> DEFINE w == [Shown EXCEPT !.timer = FALSE]
  <2>1. sups' = [sups EXCEPT ![registry] = w] /\ runs' = runs
    BY <1>1, <1>2, <1>4 DEF TimerFired, TimerFires, Shown
  <2>2. /\ w.status = Shown.status /\ w.current = Shown.current
        /\ w.sampler = Shown.sampler /\ w.intentional = Shown.intentional
    BY <1>1 DEF SupervisorFields
  <2>3. HIDE DEF w
  <2>4. Shown' = w /\ Away'
    BY <1>1, <1>2, <2>1, ShownMoves DEF SerialInv
  <2>5. Alive' = Alive /\ Launching' = Launching /\ Waiting' = Waiting
    BY <1>2, <2>1 DEF Alive, Launching, Waiting
  <2>6. Resting => Resting'
    BY <1>2, <2>2, <2>4, <2>5 DEF Resting
  <2>7. ASSUME NEW r \in DOMAIN runs
        PROVE  (Starting(r) => Starting(r)') /\ (Running(r) => Running(r)') /\ r \in DOMAIN runs'
    BY <1>2, <2>1, <2>2, <2>4, <2>5 DEF Starting, Running
  <2>8. Stands'
    BY <1>1, <2>6, <2>7 DEF SerialInv, Stands, Nobody
  <2>9. UNCHANGED <<Phase, Asked, Procs>>
    BY <1>1, <1>2, <2>2, <2>4, <2>5 DEF Phase, Asked, Procs
  <2>. QED  BY <2>4, <2>8, <2>9 DEF Follows, Refines
<1>. QED  BY <1>3, <1>4

-------------------------------------------------------------------------------
LEMMA SerialStep == SerialInv /\ [SerialNext]_vars => SerialInv' /\ [Lifecycle!Next]_(Lifecycle!vars)
<1>. SUFFICES ASSUME SerialInv, [SerialNext]_vars
              PROVE  SerialInv' /\ [Lifecycle!Next]_(Lifecycle!vars)
  OBVIOUS
<1>1. Follows
  <2>1. CASE UNCHANGED vars
    BY <2>1, StutterFollows DEF vars
  <2>2. CASE Quiet /\ Request
    BY <2>2, RegisterFollows, StartFollows, StopIdleFollows, StopAwaitFollows, ShutdownEmptyFollows
    DEF Request
  <2>3. CASE Internal
    BY <2>3, ResumeFollows, SoftKillFollows, LaunchOkFollows, LaunchFailsFollows, KillFollows,
       ExitFollows, TimerFiresFollows DEF Internal
  <2>. QED  BY <2>1, <2>2, <2>3 DEF SerialNext
<1>2. IInv'
  BY StepIInv DEF SerialInv, SerialNext, Next
<1>3. [Lifecycle!Next]_(Lifecycle!vars)
  BY <1>1 DEF Follows, Refines, Lifecycle!vars, Phase, Asked, Procs
<1>. QED  BY <1>1, <1>2, <1>3 DEF Follows, SerialInv

LEMMA SerialInit == Init => SerialInv /\ Lifecycle!Init
<1>. SUFFICES ASSUME Init PROVE SerialInv /\ Lifecycle!Init
  OBVIOUS
<1>1. IInv /\ registry = 0
  BY InitIInv DEF Init
<1>2. DOMAIN runs = {} /\ DOMAIN sups = {}
  BY EmptySeq DEF Init
<1>3. Alive = {} /\ Launching = {} /\ Waiting = {} /\ Procs = 0
  BY <1>2, FS_EmptySet DEF Init, Alive, Launching, Waiting, NoReq, Procs
<1>4. Lifecycle!Init
  BY <1>1, <1>3 DEF Lifecycle!Init, Procs
<1>. QED  BY <1>1, <1>2, <1>3, <1>4 DEF SerialInv, Away, Stands, Nobody

LEMMA SerialInvHolds == SerialSpec => []SerialInv
BY SerialInit, SerialStep, PTL DEF SerialSpec

(* With a client that waits for its answers, the runtime implements the     *)
(* lifecycle the README promises of a worker id, for every number of        *)
(* registrations, launches and restarts: one process at most over all of    *)
(* them, up only after a launch and never once a stop has been asked for.   *)
THEOREM LifecycleImplemented == SerialSpec => ImplementsLifecycle
<1>1. SerialInv /\ [SerialNext]_vars => [Lifecycle!Next]_(Lifecycle!vars)
  BY SerialStep
<1>2. Init => Lifecycle!Init
  BY SerialInit
<1>. QED  BY <1>1, <1>2, SerialInvHolds, PTL DEF SerialSpec, ImplementsLifecycle, Lifecycle!Spec

(* With such a client, the process that is alive is always under the        *)
(* interval that memorySampler refers to, whatever exits and restarts came  *)
(* before.                                                                  *)
THEOREM WatchdogAlwaysArmed == SerialSpec => []WatchdogArmed
<1>1. SerialInv => WatchdogArmed
  BY DEF SerialInv, Stands, Nobody, Resting, Starting, Running, WatchdogArmed, Shown
<1>. QED  BY <1>1, SerialInvHolds, PTL

(* ... and the processes of the id, of all its registrations together, are  *)
(* one exactly while the worker is shown running and none otherwise.        *)
THEOREM OneProcessShown == SerialSpec => []Lifecycle!OneProcess
<1>1. SerialInv => Lifecycle!OneProcess
  <2>. SUFFICES ASSUME SerialInv PROVE Procs = IF Phase = "running" THEN 1 ELSE 0
    BY DEF Lifecycle!OneProcess, Procs, Phase
  <2>. QED  BY SerialFacts DEF SerialInv, Stands, Nobody, Resting, Starting, Running, Phase
<1>. QED  BY <1>1, SerialInvHolds, PTL

-------------------------------------------------------------------------------
(***************************************************************************)
(* A request that waits in stop() will be answered: its process has exited *)
(* and it is about to go on, or the process is alive and either its own    *)
(* soft-kill timer is armed or SIGKILL was sent.                           *)
(***************************************************************************)
Comes(c) ==
  \/ c \in Due
  \/ /\ req[c].run \in Alive
     /\ req[c].soft \/ runs[req[c].run].killed

ExitComes == \A c \in Waiting : Comes(c)

LEMMA WaitsForRun ==
  ASSUME SerialInv, NEW c \in Waiting
  PROVE  req[c].run \in DOMAIN runs /\ c \in Callers
BY DEF SerialInv, IInv, TypeOK, Waiting

(* A step that answers and asks nothing and takes no process away. *)
LEMMA RunsGoOn ==
  ASSUME SerialInv, ExitComes, req' = req,
         \A q \in DOMAIN runs : /\ q \in DOMAIN runs' /\ runs'[q].at = runs[q].at
                                /\ runs[q].killed => runs'[q].killed
  PROVE  ExitComes'
<1>1. SUFFICES ASSUME NEW c \in Waiting PROVE Comes(c)'
  BY DEF ExitComes, Waiting
<1>2. req[c].run \in DOMAIN runs /\ c \in Callers /\ Comes(c)
  BY WaitsForRun DEF ExitComes
<1>. QED  BY <1>2 DEF Comes, Due, Waiting, Alive

LEMMA NobodyWaits == ASSUME Waiting' = {} PROVE ExitComes'
BY DEF ExitComes

LEMMA RequestComes ==
  ASSUME SerialInv, Quiet, Request
  PROVE  ExitComes'
<1>1. CASE req' = req
  BY <1>1, NobodyWaits DEF Quiet, Waiting
<1>2. ASSUME NEW c \in Callers, NEW op \in Ops, StopAwait(c, op)
      PROVE  ExitComes'
  <2> DEFINE x == [op |-> op, sup |-> registry, run |-> Shown.current, soft |-> TRUE]
  <2>1. registry # 0 /\ Shown.current # 0 /\ runs' = runs /\ req' = [req EXCEPT ![c] = x]
    BY <1>2 DEF StopAwait, MayAsk, Shown
  <2>2. PICK r \in DOMAIN runs : Running(r)
    BY <2>1, RestsIfQuiet DEF Resting
  <2>3. Waiting' \subseteq {c} /\ req'[c].run = r /\ req'[c].soft
    <3>1. Waiting = {} /\ req \in [Callers -> ReqFields] /\ x.run = r /\ x.soft
      BY <2>2 DEF Quiet, SerialInv, IInv, TypeOK, Running
    <3> HIDE DEF x
    <3>. QED  BY <2>1, <3>1 DEF Waiting
  <2>4. r \in Alive'
    BY <2>1, <2>2 DEF Running, Alive
  <2>. QED  BY <2>3, <2>4 DEF ExitComes, Comes
<1>3. req' = req \/ \E c \in Callers, op \in Ops : StopAwait(c, op)
  BY DEF Request, Register, Start, StopIdle, ShutdownEmpty
<1>. QED  BY <1>1, <1>2, <1>3

LEMMA InternalComes ==
  ASSUME SerialInv, ExitComes, Internal
  PROVE  ExitComes'
<1>0. /\ DOMAIN runs = 1..Len(runs) /\ Len(runs) \in Nat /\ TypeOK
      /\ req \in [Callers -> ReqFields]
      /\ \A q \in DOMAIN runs : runs[q] \in RunFields /\ runs[q].sup \in DOMAIN sups
  BY SupFacts DEF SerialInv, IInv, TypeOK
<1>1. ASSUME NEW c \in Callers, Resume(c) PROVE ExitComes'
  <2>1. Waiting = {c}
    <3>1. c \in Waiting /\ runs[req[c].run].at = "gone"
      BY <1>1 DEF Resume, Due
    <3>. QED  BY <3>1 DEF SerialInv, Stands, Nobody, Resting, Starting, Running, Alive
  <2>2. req'[c] = NoReq /\ \A d \in Callers : d # c => req'[d].op = "none"
    BY <1>0, <1>1, <2>1 DEF Resume, Waiting, ReqFields
  <2>. QED  BY <2>2, NobodyWaits DEF Waiting, NoReq
<1>2. ASSUME NEW c \in Callers, SoftKill(c) PROVE ExitComes'
  <2> DEFINE r == req[c].run
             x == [req[c] EXCEPT !.soft = FALSE]
             w == [runs[r] EXCEPT !.killed = TRUE]
  <2>1. r \in DOMAIN runs /\ c \in Waiting /\ Comes(c) /\ c \notin Due
    BY <1>2, WaitsForRun DEF SoftKill, ExitComes
  <2>2. req' = [req EXCEPT ![c] = x] /\ runs' = [runs EXCEPT ![r] = w]
    BY <1>2 DEF SoftKill
  <2>3. x.op = req[c].op /\ x.run = r /\ w.at = runs[r].at /\ w.killed = TRUE
    BY <1>0, <2>1 DEF ReqFields, RunFields
  <2>4. Waiting = {c} /\ r \in Alive
    <3>1. r \in Alive
      BY <2>1 DEF Comes
    <3>. QED  BY <2>1, <3>1 DEF SerialInv, Stands, Nobody, Resting, Starting, Running
  <2> HIDE DEF x, w
  <2>5. Waiting' = {c} /\ req'[c].run = r
    BY <1>0, <2>2, <2>3, <2>4 DEF Waiting
  <2>6. r \in Alive' /\ runs'[r].killed
    BY <1>0, <2>2, <2>3, <2>4 DEF Alive
  <2>. QED  BY <2>5, <2>6 DEF ExitComes, Comes
<1>3. ASSUME NEW r \in DOMAIN runs, LaunchOk(r) \/ LaunchFails(r) PROVE ExitComes'
  <2>1. r \in Launching /\ req' = req
    BY <1>3 DEF LaunchOk, LaunchFails
  <2>2. Waiting = {}
    BY <2>1 DEF SerialInv, Stands, Nobody, Resting, Starting, Running
  <2>. QED  BY <2>1, <2>2, NobodyWaits DEF Waiting
<1>4. ASSUME NEW r \in DOMAIN runs, MemoryKill(r) \/ TimeoutKill(r) PROVE ExitComes'
  <2> DEFINE w == [runs[r] EXCEPT !.killed = TRUE]
  <2>1. runs' = [runs EXCEPT ![r] = w] /\ req' = req
    BY <1>4 DEF MemoryKill, TimeoutKill
  <2>2. w.at = runs[r].at /\ w.killed = TRUE
    BY <1>0 DEF RunFields
  <2> HIDE DEF w
  <2>3. \A q \in DOMAIN runs : /\ q \in DOMAIN runs' /\ runs'[q].at = runs[q].at
                               /\ runs[q].killed => runs'[q].killed
    BY <2>1, <2>2
  <2>. QED  BY <2>1, <2>3, RunsGoOn
<1>5. ASSUME NEW r \in DOMAIN runs, NEW failed \in BOOLEAN, Exit(r, failed)
      PROVE  ExitComes'
  <2>1. r \in Alive /\ req' = req
    BY <1>5 DEF Exit
  <2>2. \A c \in Waiting : req[c].run = r
    BY <2>1 DEF SerialInv, Stands, Nobody, Resting, Starting, Running
  <2>3. runs'[r].at = "gone"
    BY <1>0, <1>5 DEF Exit, RunFields
  <2>. QED  BY <2>1, <2>2, <2>3 DEF ExitComes, Comes, Due, Waiting
<1>6. ASSUME NEW s \in DOMAIN sups, TimerFires(s) PROVE ExitComes'
  <2>1. req' = req /\ (runs' = runs \/ runs' = Append(runs, NewRun(s, TRUE)))
    BY <1>6 DEF TimerFires
  <2>2. \A q \in DOMAIN runs : q \in DOMAIN runs' /\ runs'[q] = runs[q]
    <3>1. CASE runs' = runs
      BY <3>1
    <3>2. CASE Spawns(s, TRUE)
      <4>1. /\ DOMAIN runs' = 1..Len(runs') /\ Len(runs') = Len(runs) + 1
            /\ \A q \in DOMAIN runs : runs'[q] = runs[q]
        BY <1>0, <1>6, <3>2, SpawnsFacts
      <4>2. DOMAIN runs \subseteq DOMAIN runs'
        BY <1>0, <4>1
      <4>. QED  BY <4>1, <4>2
    <3>. QED  BY <2>1, <3>1, <3>2 DEF Spawns
  <2>. QED  BY <2>1, <2>2, RunsGoOn
<1>. QED  BY <1>1, <1>2, <1>3, <1>4, <1>5, <1>6 DEF Internal

(* With a client that waits for its answers, no stop, restart, delete or    *)
(* shutdown waits for an exit that nothing brings about: the soft-kill      *)
(* timer of a request survives until the exit, through every kill, exit and *)
(* restart before it (supervisor.ts 166-193).  StopReturns needs no more    *)
(* than that the timer fires and SIGKILL works.                             *)
THEOREM StopsAreAnswered == SerialSpec => []ExitComes
<1>1. ASSUME Init PROVE ExitComes
  <2>1. \A c \in Callers : req[c].op = "none"
    BY <1>1 DEF Init, NoReq
  <2>. QED  BY <2>1 DEF ExitComes, Waiting
<1>2. ASSUME SerialInv, ExitComes, [SerialNext]_vars PROVE ExitComes'
  <2>1. CASE UNCHANGED vars
    BY <1>2, <2>1, RunsGoOn DEF vars
  <2>. QED  BY <1>2, <2>1, RequestComes, InternalComes DEF SerialNext
<1>3. SerialInv /\ ExitComes /\ [SerialNext]_vars => ExitComes'
  BY <1>2
<1>. QED  BY <1>1, <1>3, SerialInvHolds, PTL DEF SerialSpec

===============================================================================
