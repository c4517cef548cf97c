-------------------------- MODULE CronSchedulerProofs --------------------------
(***************************************************************************)
(* What holds of CronScheduler for every set of jobs, callers and cron     *)
(* expressions, every retry policy, and every order of routes, triggers,   *)
(* ticks and settled dispatches.                                           *)
(***************************************************************************)
EXTENDS CronScheduler, SequenceTheorems, FiniteSetTheorems, WellFoundedInduction, TLAPS

-------------------------------------------------------------------------------
(***************************************************************************)
(* The next fire.  That a set of naturals has a least member is had from   *)
(* the well-foundedness of strict inclusion on finite sets, here the       *)
(* intervals from 1.                                                       *)
(***************************************************************************)
LEMMA LeastNatural ==
  ASSUME NEW T \in SUBSET Nat, T # {}
  PROVE  \E m \in T : \A n \in T : m <= n
<1>1. PICK k \in T : TRUE
  OBVIOUS
<1> DEFINE Family == {1..n : n \in {j \in T : j <= k}}
<1>2. IsFiniteSet(1..k)
  BY FS_Interval
<1>3. Family \subseteq SUBSET (1..k)
  <2>1. \A n \in T : n <= k => 1..n \subseteq 1..k
    OBVIOUS
  <2>. QED  BY <2>1
<1>4. Family # {}
  OBVIOUS
<1>5. Family \subseteq FiniteSubsetsOf(1..k)
  BY <1>2, <1>3, FS_FiniteSubsetsOfFinite
<1>6. IsWellFoundedOn(StrictSubsetOrdering(1..k), FiniteSubsetsOf(1..k))
  BY <1>2, FS_StrictSubsetOrderingWellFounded
<1>7. PICK U \in Family : \A V \in Family : <<V, U>> \notin StrictSubsetOrdering(1..k)
  <2>. HIDE DEF Family
  <2>. QED  BY <1>4, <1>5, <1>6, WFMin
<1>8. PICK m \in T : m <= k /\ U = 1..m
  OBVIOUS
<1>9. ASSUME NEW n \in T, n < m
      PROVE  FALSE
  <2>1. 1..n \in Family
    BY <1>8, <1>9
  <2>2. 1..n \subseteq U /\ 1..n # U
    BY <1>8, <1>9
  <2>3. <<1..n, U>> \in StrictSubsetOrdering(1..k)
    <3>. HIDE DEF Family
    <3>. QED  BY <1>3, <2>1, <2>2 DEF StrictSubsetOrdering
  <2>. QED  BY <1>7, <2>1, <2>3
<1>. QED  BY <1>8, <1>9

LEMMA NextFireLater ==
  ASSUME NEW fires \in Schedules, NEW t \in Nat
  PROVE  NextFire(fires, t) \in Nat /\ (NextFire(fires, t) = 0 \/ NextFire(fires, t) > t)
<1> DEFINE T == {f \in fires : f > t}
<1>1. fires \subseteq Nat
  BY CronBounds
<1>2. CASE T = {}
  BY <1>2 DEF NextFire
<1>3. CASE T # {}
  <2>1. T \in SUBSET Nat
    BY <1>1
  <2>2. PICK m \in T : \A n \in T : m <= n
    <3>. HIDE DEF T
    <3>. QED  BY <1>3, <2>1, LeastNatural
  <2>3. \E f \in fires : f > t /\ \A g \in fires : g > t => f <= g
    BY <2>2
  <2>4. NextFire(fires, t) \in fires /\ NextFire(fires, t) > t
    BY <2>3 DEF NextFire
  <2>. QED  BY <1>1, <2>4
<1>. QED  BY <1>2, <1>3

-------------------------------------------------------------------------------
(***************************************************************************)
(* The inductive invariant.  os are the objects and t is a clock.          *)
(***************************************************************************)
(* No firing has ended in the future, and a next fire lies after the last.  *)
Later(os, t) ==
  \A o \in DOMAIN os : os[o].done <= t /\ (os[o].next = 0 \/ os[o].next > os[o].done)

Calls == \A r \in Runners : exec[r].state # "idle" => exec[r].attempt >= 1 /\ exec[r].id \in Ids

(* What a tick that began at t has still to look at has not been fired      *)
(* since: the ids on its list differ, and a job re-created under one of     *)
(* them has never been fired.                                               *)
Listed(os, list, t) ==
  \A l \in list : /\ os[l].done <= t
                  /\ \A m \in list : os[l].id = os[m].id => l = m
                  /\ jobs[os[l].id] \in {0, l} \/ os[jobs[os[l].id]].done = 0

(* The job being fired is none of those left: its reschedule touches none.  *)
InTick ==
  /\ tickNow <= now
  /\ phase # "ticking" => todo = {}
  /\ phase = "ticking" => exec[Loop].id \in Ids /\ \A l \in todo : objs[l].id # exec[Loop].id

IInv == TypeOK /\ Later(objs, now) /\ Calls /\ Listed(objs, todo, tickNow) /\ InTick

LEMMA ObjFacts ==
  ASSUME TypeOK
  PROVE  /\ DOMAIN objs = 1..Len(objs) /\ Len(objs) \in Nat
         /\ \A o \in DOMAIN objs : objs[o] \in JobFields /\ objs[o].id \in Ids
         /\ \A id \in Ids : jobs[id] # 0 => jobs[id] \in DOMAIN objs /\ objs[jobs[id]].id = id
<1>1. DOMAIN objs = 1..Len(objs) /\ Len(objs) \in Nat
  BY LenProperties DEF TypeOK
<1>2. \A o \in DOMAIN objs : objs[o] \in JobFields
  BY <1>1, ElementOfSeq DEF TypeOK
<1>3. \A o \in DOMAIN objs : objs[o].id \in Ids
  BY <1>2 DEF JobFields
<1>4. \A id \in Ids : jobs[id] # 0 => jobs[id] \in DOMAIN objs /\ objs[jobs[id]].id = id
  BY <1>1 DEF TypeOK
<1>. QED  BY <1>1, <1>2, <1>3, <1>4

(* The objects remade in place are still a sequence. *)
LEMMA Remade ==
  ASSUME TypeOK, NEW os \in [DOMAIN objs -> JobFields]
  PROVE  os \in Seq(JobFields) /\ Len(os) = Len(objs) /\ DOMAIN os = DOMAIN objs
<1>1. os = [o \in 1..Len(objs) |-> os[o]] /\ \A o \in 1..Len(objs) : os[o] \in JobFields
  BY ObjFacts
<1>2. os \in Seq(JobFields)
  BY <1>1, ObjFacts, IsASeq
<1>. QED  BY <1>1, <1>2, ObjFacts, LenProperties

LEMMA AttemptFacts ==
  ASSUME TypeOK, NEW id \in Ids, NEW n \in Nat, NEW due \in Nat
  PROVE  LET e == Attempt(id, n, due)
         IN  /\ e \in ExecFields /\ e.id = id
             /\ e.state \in {"idle", "calling"}
             /\ e.state = "calling" =>
                  /\ e.attempt = n /\ e.due = due
                  /\ e.cur = jobs[id] /\ jobs[id] \in DOMAIN objs
<1>1. CASE IsActive(id)
  <2>1. jobs[id] \in DOMAIN objs /\ jobs[id] \in Nat
    BY <1>1, ObjFacts DEF IsActive
  <2>. QED  BY <1>1, <2>1 DEF Attempt, ExecFields
<1>2. CASE ~IsActive(id)
  BY <1>2 DEF Attempt, Returned, Idle, ExecFields
<1>. QED  BY <1>1, <1>2

-------------------------------------------------------------------------------
(***************************************************************************)
(* A tick going through a list: os are the objects it finds, list what it  *)
(* has still to look at, t its clock.                                      *)
(***************************************************************************)
Scans(os, list, t) ==
  /\ os \in [DOMAIN objs -> JobFields]
  /\ \A o \in DOMAIN objs : os[o].id = objs[o].id
  /\ list \subseteq DOMAIN objs /\ t \in Nat /\ t <= now
  /\ Later(os, now) /\ Listed(os, list, t)
  /\ Scan(os, list, t)
  /\ UNCHANGED <<now, jobs, running>>

(* The objects afterwards: a next fire that was set lies after t, and so    *)
(* after whatever the job did before.                                       *)
LEMMA ScanObjects ==
  ASSUME TypeOK, NEW os, NEW list, NEW t, Scans(os, list, t)
  PROVE  /\ objs' \in [DOMAIN objs -> JobFields]
         /\ \A o \in DOMAIN objs :
              /\ objs'[o].id = os[o].id /\ objs'[o].done = os[o].done
              /\ objs'[o].next = 0 \/ objs'[o].next > objs'[o].done
<1> DEFINE Unset == {o \in list : os[o].next = 0}
           Lost  == {o \in Unset : jobs[os[o].id] = 0}
           DueNow == {o \in list : os[o].next \in 1..t}
           Before(o) == \A s \in DueNow \cup Lost : o < s
           SetBy(o)  == {l \in Unset : jobs[os[l].id] = o /\ Before(l)}
           By(o) == CHOOSE l \in SetBy(o) : TRUE
           n(o)  == NextFire(os[By(o)].fires, t)
<1>1. objs' = [o \in DOMAIN os |-> IF SetBy(o) = {} THEN os[o] ELSE [os[o] EXCEPT !.next = n(o)]]
  BY DEF Scans, Scan
<1>2. DOMAIN os = DOMAIN objs /\ \A o \in DOMAIN objs : os[o] \in JobFields
  BY DEF Scans
<1>3. ASSUME NEW o \in DOMAIN objs, SetBy(o) # {}
      PROVE  /\ n(o) \in Nat /\ (n(o) = 0 \/ n(o) > t)
             /\ os[o].done <= t
  <2>1. By(o) \in SetBy(o)
    BY <1>3
  <2>2. By(o) \in list /\ By(o) \in DOMAIN objs /\ jobs[os[By(o)].id] = o
    BY <2>1 DEF Scans
  <2>3. HIDE DEF By, SetBy
  <2>4. os[By(o)].fires \in Schedules
    BY <1>2, <2>2 DEF JobFields
  <2>5. n(o) \in Nat /\ (n(o) = 0 \/ n(o) > t)
    BY <2>4, NextFireLater DEF Scans
  <2>6. os[By(o)].done <= t /\ (o \in {0, By(o)} \/ os[o].done = 0)
    BY <2>2 DEF Scans, Listed
  <2>7. o # 0 /\ t \in Nat
    BY ObjFacts DEF Scans
  <2>. QED  BY <2>5, <2>6, <2>7
<1>4. HIDE DEF SetBy, n
<1>5. ASSUME NEW o \in DOMAIN objs
      PROVE  /\ objs'[o] \in JobFields
             /\ objs'[o].id = os[o].id /\ objs'[o].done = os[o].done
             /\ objs'[o].next = 0 \/ objs'[o].next > objs'[o].done
  <2>1. CASE SetBy(o) = {}
    <3>1. objs'[o] = os[o]
      BY <1>1, <1>2, <2>1
    <3>. QED  BY <1>2, <3>1 DEF Scans, Later
  <2>2. CASE SetBy(o) # {}
    <3>1. objs'[o] = [os[o] EXCEPT !.next = n(o)]
      BY <1>1, <1>2, <2>2
    <3>2. n(o) \in Nat /\ (n(o) = 0 \/ n(o) > t) /\ os[o].done <= t /\ t \in Nat
      BY <1>3, <2>2 DEF Scans
    <3>3. os[o] \in JobFields
      BY <1>2
    <3>. QED  BY <3>1, <3>2, <3>3 DEF JobFields
  <2>. QED  BY <2>1, <2>2
<1>6. objs' = [o \in DOMAIN objs |-> objs'[o]]
  BY <1>1, <1>2
<1>. QED  BY <1>5, <1>6

(* The loop afterwards: asleep, or at the firing of one of the list, with   *)
(* the younger ones left.                                                   *)
Fires(os, list, t, o) ==
  /\ os[o].next \in 1..t
  /\ exec' = [exec EXCEPT ![Loop] = Attempt(os[o].id, 1, os[o].next)]
  /\ todo' = {l \in list : l > o} /\ tickNow' = t /\ phase' = "ticking"

LEMMA ScanLoop ==
  ASSUME NEW os, NEW list, NEW t, Scan(os, list, t)
  PROVE  \/ \E o \in list : Fires(os, list, t, o)
         \/ /\ exec' = [exec EXCEPT ![Loop] = Idle]
            /\ todo' = {} /\ tickNow' = 0 /\ phase' = "sleeping"
BY DEF Scan, Fires

LEMMA ScanStep ==
  ASSUME TypeOK, Calls, NEW os, NEW list, NEW t, Scans(os, list, t)
  PROVE  /\ IInv'
         /\ exec'[Loop].state = "calling" =>
              /\ exec'[Loop].cur \in DOMAIN objs
              /\ exec'[Loop].due > os[exec'[Loop].cur].done
<1>1. /\ objs' \in Seq(JobFields) /\ Len(objs') = Len(objs) /\ DOMAIN objs' = DOMAIN objs
      /\ \A o \in DOMAIN objs : /\ objs'[o].id = os[o].id /\ objs'[o].done = os[o].done
                                /\ objs'[o].next = 0 \/ objs'[o].next > objs'[o].done
  BY ScanObjects, Remade
<1>2. /\ now' = now /\ jobs' = jobs /\ running' = running /\ DOMAIN os = DOMAIN objs
      /\ \A o \in DOMAIN objs : os[o] \in JobFields /\ os[o].id = objs[o].id
      /\ list \subseteq DOMAIN objs /\ t \in Nat /\ t <= now
  BY DEF Scans
<1>3. Later(objs, now)'
  BY <1>1, <1>2 DEF Later, Scans
<1>4. /\ objs' \in Seq(JobFields) /\ now' \in Nat /\ running' \in BOOLEAN
      /\ jobs' \in [Ids -> 0..Len(objs')]
      /\ \A id \in Ids : jobs'[id] # 0 => objs'[jobs'[id]].id = id
  BY <1>1, <1>2, ObjFacts DEF TypeOK
<1>5. exec \in [Runners -> ExecFields] /\ Loop \in Runners
  BY DEF TypeOK, Runners
<1>6. ASSUME NEW o \in list, Fires(os, list, t, o)
      PROVE  /\ IInv'
             /\ exec'[Loop].state = "calling" =>
                  /\ exec'[Loop].cur \in DOMAIN objs
                  /\ exec'[Loop].due > os[exec'[Loop].cur].done
  <2> DEFINE e == Attempt(os[o].id, 1, os[o].next)
  <2>1. o \in DOMAIN objs /\ os[o].id \in Ids /\ os[o].next \in Nat /\ os[o].next >= 1
    BY <1>2, <1>6, ObjFacts DEF Fires
  <2>2. /\ e \in ExecFields /\ e.id = os[o].id /\ e.state \in {"idle", "calling"}
        /\ e.state = "calling" => /\ e.attempt = 1 /\ e.due = os[o].next
                                  /\ e.cur = jobs[os[o].id] /\ e.cur \in DOMAIN objs
    BY <2>1, AttemptFacts
  <2>3. HIDE DEF e
  <2>4. exec' = [exec EXCEPT ![Loop] = e] /\ exec'[Loop] = e
    BY <1>5, <1>6 DEF Fires, e
  <2>5. exec' \in [Runners -> ExecFields]
    BY <1>5, <2>2, <2>4
  <2>6. Calls'
    BY <1>5, <2>1, <2>2, <2>4 DEF Calls
  <2>7. todo' = {l \in list : l > o} /\ tickNow' = t /\ phase' = "ticking"
    BY <1>6 DEF Fires
  <2>8. TypeOK'
    BY <1>1, <1>2, <1>4, <2>5, <2>7 DEF TypeOK
  <2>9. Listed(objs, todo, tickNow)'
    <3>1. \A l \in list : objs'[l].id = os[l].id /\ objs'[l].done = os[l].done /\ os[l].id \in Ids
      BY <1>1, <1>2, ObjFacts
    <3>2. \A l \in list : jobs[os[l].id] # 0 => objs'[jobs[os[l].id]].done = os[jobs[os[l].id]].done
      BY <1>1, <1>2, <3>1, ObjFacts
    <3>3. Listed(os, list, t)
      BY DEF Scans
    <3>. QED  BY <1>2, <2>7, <3>1, <3>2, <3>3 DEF Listed
  <2>10. InTick'
    <3>1. \A l \in todo' : objs'[l].id = os[l].id /\ os[l].id # os[o].id
      <4>1. \A l \in list : l > o => l # o
        BY <1>2, <2>1, ObjFacts
      <4>2. \A l \in list : l # o => os[l].id # os[o].id
        BY DEF Scans, Listed
      <4>. QED  BY <1>1, <1>2, <2>7, <4>1, <4>2
    <3>. QED  BY <1>2, <2>1, <2>2, <2>4, <2>7, <3>1 DEF InTick
  <2>11. ASSUME e.state = "calling"
         PROVE  e.cur \in DOMAIN objs /\ e.due > os[e.cur].done
    <3>1. e.cur # 0
      BY <2>2, <2>11, ObjFacts
    <3>2. e.cur = o \/ os[e.cur].done = 0
      BY <2>2, <2>11, <3>1 DEF Scans, Listed
    <3>3. os[o].next > os[o].done
      BY <1>2, <2>1 DEF Scans, Later
    <3>. QED  BY <2>1, <2>2, <2>11, <3>2, <3>3
  <2>. QED  BY <1>3, <2>4, <2>6, <2>8, <2>9, <2>10, <2>11 DEF IInv
<1>7. CASE /\ exec' = [exec EXCEPT ![Loop] = Idle]
           /\ todo' = {} /\ tickNow' = 0 /\ phase' = "sleeping"
  <2>1. Idle \in ExecFields /\ Idle.state = "idle"
    BY DEF Idle, ExecFields
  <2>2. exec' \in [Runners -> ExecFields] /\ exec'[Loop].state = "idle"
    BY <1>5, <1>7, <2>1
  <2>3. Calls'
    BY <1>5, <1>7, <2>1 DEF Calls
  <2>4. TypeOK'
    BY <1>1, <1>4, <1>7, <2>2 DEF TypeOK
  <2>5. Listed(objs, todo, tickNow)' /\ InTick'
    BY <1>2, <1>7 DEF Listed, InTick, TypeOK
  <2>. QED  BY <1>3, <2>2, <2>3, <2>4, <2>5 DEF IInv
<1>. QED  BY <1>6, <1>7, ScanLoop DEF Scans

-------------------------------------------------------------------------------
LEMMA ExecAt ==
  ASSUME TypeOK, NEW r \in Runners
  PROVE  /\ exec[r] \in ExecFields /\ exec[r].attempt \in Nat /\ exec[r].due \in Nat
         /\ exec[r].state \in {"idle", "calling", "backoff"}
BY DEF TypeOK, ExecFields

(* The tick lists the registered jobs, which carry distinct ids. *)
LEMMA TickScans ==
  ASSUME IInv, Tick
  PROVE  Scans(objs, {o \in DOMAIN objs : Active(o)}, now)
<1>1. objs \in [DOMAIN objs -> JobFields]
  BY ObjFacts DEF IInv, TypeOK
<1>2. Listed(objs, {o \in DOMAIN objs : Active(o)}, now)
  BY DEF Listed, Active, Later, IInv
<1>. QED  BY <1>1, <1>2 DEF Scans, Tick, IInv, TypeOK

(* The reschedule of the job just fired disturbs no other on the list. *)
LEMMA AfterFiringFacts ==
  ASSUME IInv, NEW id \in Ids
  PROVE  LET os == AfterFiring(id)
         IN  /\ os \in [DOMAIN objs -> JobFields]
             /\ \A o \in DOMAIN objs :
                  /\ os[o].id = objs[o].id /\ os[o].done >= objs[o].done
                  /\ objs[o].id # id => os[o] = objs[o]
             /\ Later(os, now)
<1>. USE DEF IInv
<1>1. objs \in [DOMAIN objs -> JobFields] /\ now \in Nat
  BY ObjFacts DEF TypeOK
<1>2. CASE IsActive(id)
  <2> DEFINE c == jobs[id]
             n == NextFire(objs[c].fires, now)
             x == [objs[c] EXCEPT !.next = n, !.done = now]
  <2>1. c \in DOMAIN objs /\ objs[c].id = id /\ objs[c] \in JobFields
    BY <1>2, ObjFacts DEF IsActive
  <2>2. n \in Nat /\ (n = 0 \/ n > now)
    BY <1>1, <2>1, NextFireLater DEF JobFields
  <2>3. AfterFiring(id) = [objs EXCEPT ![c] = x]
    BY <1>2, <2>1 DEF AfterFiring
  <2>4. objs[c].done <= now
    BY <2>1 DEF Later
  <2>5. HIDE DEF n, c
  <2>6. x \in JobFields /\ x.id = id /\ x.done = now /\ x.next = n /\ x.done >= objs[c].done
    BY <1>1, <2>1, <2>2, <2>4 DEF JobFields
  <2>7. HIDE DEF x
  <2>8. \A o \in DOMAIN objs : objs[o].done \in Nat
    BY <1>1 DEF JobFields
  <2>9. \A o \in DOMAIN objs : AfterFiring(id)[o] = IF o = c THEN x ELSE objs[o]
    BY <2>1, <2>3
  <2>10. AfterFiring(id) \in [DOMAIN objs -> JobFields]
    BY <1>1, <2>3, <2>6
  <2>11. \A o \in DOMAIN objs : AfterFiring(id)[o].done >= objs[o].done
    BY <2>6, <2>8, <2>9
  <2>12. Later(AfterFiring(id), now)
    BY <1>1, <2>2, <2>6, <2>9, <2>10 DEF Later
  <2>. QED  BY <2>1, <2>6, <2>9, <2>10, <2>11, <2>12
<1>3. CASE ~IsActive(id)
  <2>1. AfterFiring(id) = objs
    BY <1>3 DEF AfterFiring
  <2>2. \A o \in DOMAIN objs : objs[o].done \in Nat
    BY <1>1 DEF JobFields
  <2>. QED  BY <1>1, <2>1, <2>2
<1>. QED  BY <1>2, <1>3

LEMMA GoOnScans ==
  ASSUME IInv, GoOn
  PROVE  LET os == AfterFiring(exec[Loop].id)
         IN  /\ Scans(os, todo, tickNow)
             /\ \A o \in DOMAIN objs : os[o].done >= objs[o].done
<1>. USE DEF IInv
<1> DEFINE os == AfterFiring(exec[Loop].id)
<1>1. exec[Loop].id \in Ids /\ \A l \in todo : objs[l].id # exec[Loop].id
  BY DEF GoOn, InTick
<1>2. /\ os \in [DOMAIN objs -> JobFields]
      /\ \A o \in DOMAIN objs : /\ os[o].id = objs[o].id /\ os[o].done >= objs[o].done
                                /\ objs[o].id # exec[Loop].id => os[o] = objs[o]
      /\ Later(os, now)
  BY <1>1, AfterFiringFacts
<1>3. todo \subseteq DOMAIN objs /\ tickNow \in Nat /\ tickNow <= now
  BY DEF TypeOK, InTick
<1>4. \A l \in todo : os[l] = objs[l]
  BY <1>1, <1>2, <1>3
<1>5. \A l \in todo : jobs[objs[l].id] # 0 => os[jobs[objs[l].id]] = objs[jobs[objs[l].id]]
  <2>1. ASSUME NEW l \in todo, jobs[objs[l].id] # 0
        PROVE  /\ jobs[objs[l].id] \in DOMAIN objs
               /\ objs[jobs[objs[l].id]].id = objs[l].id
    BY <1>3, <2>1, ObjFacts
  <2>. QED  BY <1>1, <1>2, <2>1
<1>6. Listed(os, todo, tickNow)
  <2>. HIDE DEF os
  <2>. QED  BY <1>4, <1>5 DEF Listed
<1>. QED  BY <1>2, <1>3, <1>6 DEF Scans, GoOn

(* A firing begins with a scan only: a retry is a later attempt. *)
LEMMA FiringIsLate ==
  ASSUME IInv, [Next]_vars, FiringBegins
  PROVE  exec'[Loop].due > objs[exec'[Loop].cur].done
<1>. USE DEF IInv
<1>1. CASE Tick
  BY <1>1, TickScans, ScanStep DEF FiringBegins
<1>2. CASE GoOn
  <2>1. PICK os : os = AfterFiring(exec[Loop].id)
    OBVIOUS
  <2>2. Scans(os, todo, tickNow) /\ \A o \in DOMAIN objs : os[o].done >= objs[o].done
    BY <1>2, <2>1, GoOnScans
  <2>3. /\ exec'[Loop].cur \in DOMAIN objs
        /\ exec'[Loop].due > os[exec'[Loop].cur].done
        /\ exec' \in [Runners -> ExecFields] /\ Loop \in Runners
    BY <2>2, ScanStep DEF FiringBegins, TypeOK, Runners
  <2>4. \A o \in DOMAIN objs : objs[o].done \in Nat /\ os[o].done \in Nat
    BY <2>2, ObjFacts DEF Scans, JobFields
  <2>5. exec'[Loop].due \in Nat
    BY <2>3 DEF ExecFields
  <2>. QED  BY <2>2, <2>3, <2>4, <2>5
<1>3. ASSUME NEW r \in Runners, Retry(r)
      PROVE  FALSE
  <2>1. exec[r].attempt \in Nat /\ exec[r].attempt >= 1 /\ exec[r].id \in Ids /\ exec[r].due \in Nat
    BY <1>3, ExecAt DEF Retry, Calls
  <2> DEFINE e == Attempt(exec[r].id, exec[r].attempt + 1, exec[r].due)
  <2>2. e.state = "calling" => e.attempt = exec[r].attempt + 1
    BY <2>1, AttemptFacts
  <2>3. exec' = [exec EXCEPT ![r] = e]
    BY <1>3 DEF Retry
  <2>4. HIDE DEF e
  <2>. QED  BY <2>1, <2>2, <2>3 DEF FiringBegins, TypeOK
<1>4. ASSUME NEW r \in Runners, NEW ok \in BOOLEAN, Settle(r, ok)
      PROVE  FALSE
  <2> DEFINE e == IF jobs[exec[r].id] = 0 \/ ok \/ exec[r].attempt >= MaxAttempts
                    THEN Returned(exec[r].id) ELSE [exec[r] EXCEPT !.state = "backoff", !.cur = 0]
  <2>1. exec' = [exec EXCEPT ![r] = e]
    BY <1>4 DEF Settle
  <2>2. e.state # "calling"
    BY ExecAt DEF Returned, Idle, ExecFields
  <2>3. HIDE DEF e
  <2>. QED  BY <2>1, <2>2 DEF FiringBegins, TypeOK
<1>5. ASSUME NEW r \in Callers, NEW id \in Ids, TriggerNow(r, id)
      PROVE  FALSE
  <2>1. r # Loop
    BY RunnerAssumption
  <2>. QED  BY <1>5, <2>1 DEF TriggerNow, FiringBegins, TypeOK
<1>6. CASE Exit
  BY <1>6 DEF Exit, FiringBegins, Idle, Runners
<1>7. CASE exec' = exec
  BY <1>7 DEF FiringBegins
<1>. QED
  BY <1>1, <1>2, <1>3, <1>4, <1>5, <1>6, <1>7
  DEF Next, Routes, Advance, CreateJob, DeleteJob, SetStatus, Stop, LoopEnds, SignalAgain, vars

-------------------------------------------------------------------------------
(* What the steps that are no scan keep of the tick. *)
LEMMA TickKept ==
  ASSUME IInv, UNCHANGED <<phase, tickNow, todo>>, now' \in Nat, now' >= now,
         exec'[Loop].id = exec[Loop].id,
         \A l \in todo : objs'[l].id = objs[l].id
  PROVE  InTick'
BY DEF IInv, InTick, TypeOK

LEMMA ListedKept ==
  ASSUME IInv, UNCHANGED <<jobs, tickNow, todo>>,
         \A o \in DOMAIN objs : objs'[o].id = objs[o].id /\ objs'[o].done = objs[o].done
  PROVE  Listed(objs, todo, tickNow)'
<1>1. \A l \in todo : l \in DOMAIN objs /\ objs[l].id \in Ids
  BY ObjFacts DEF IInv, TypeOK
<1>2. \A l \in todo : jobs[objs[l].id] # 0 => jobs[objs[l].id] \in DOMAIN objs
  BY <1>1, ObjFacts DEF IInv
<1>. QED  BY <1>1, <1>2 DEF IInv, Listed

LEMMA AdvanceStep ==
  ASSUME IInv, Advance
  PROVE  IInv'
<1>. USE DEF IInv
<1>1. now' = now + 1 /\ UNCHANGED <<objs, jobs, running, phase, tickNow, todo, exec>> /\ now \in Nat
  BY DEF Advance, TypeOK
<1>2. TypeOK' /\ Calls' /\ Listed(objs, todo, tickNow)'
  BY <1>1 DEF TypeOK, Calls, Listed
<1>3. Later(objs, now)'
  <2>1. \A o \in DOMAIN objs : objs[o].done \in Nat
    BY ObjFacts DEF JobFields
  <2>. QED  BY <1>1, <2>1 DEF Later
<1>4. InTick'
  BY <1>1, TickKept
<1>. QED  BY <1>2, <1>3, <1>4

LEMMA CreateJobStep ==
  ASSUME IInv, NEW id \in Ids, NEW fires \in Schedules, NEW s \in {"active", "paused"},
         CreateJob(id, fires, s)
  PROVE  IInv'
<1>. USE DEF IInv
<1> DEFINE n == IF s = "active" THEN NextFire(fires, now) ELSE 0
           x == [id |-> id, fires |-> fires, status |-> s, done |-> 0, next |-> n]
<1>1. /\ jobs[id] = 0 /\ objs' = Append(objs, x) /\ jobs' = [jobs EXCEPT ![id] = Len(objs')]
      /\ UNCHANGED <<now, running, phase, tickNow, todo, exec>>
  BY DEF CreateJob
<1>2. n \in Nat /\ now \in Nat
  BY NextFireLater DEF TypeOK
<1>3. x \in JobFields /\ x.id = id /\ x.done = 0 /\ x.next = n
  BY <1>2 DEF JobFields
<1>4. HIDE DEF x, n
<1>5. /\ objs' \in Seq(JobFields) /\ Len(objs') = Len(objs) + 1
      /\ DOMAIN objs' = 1..(Len(objs) + 1)
      /\ \A o \in DOMAIN objs : objs'[o] = objs[o]
      /\ objs'[Len(objs) + 1] = x
  BY <1>1, <1>3, ObjFacts, AppendProperties, LenProperties DEF TypeOK
<1>6. DOMAIN objs = 1..Len(objs) /\ Len(objs) \in Nat
  BY ObjFacts
<1>7. /\ jobs' \in [Ids -> 0..Len(objs')]
      /\ \A i \in Ids : jobs'[i] = IF i = id THEN Len(objs) + 1 ELSE jobs[i]
  BY <1>1, <1>5, <1>6 DEF TypeOK
<1>8. \A i \in Ids : jobs'[i] # 0 => objs'[jobs'[i]].id = i
  BY <1>3, <1>5, <1>7, ObjFacts
<1>9. TypeOK'
  BY <1>1, <1>5, <1>6, <1>7, <1>8 DEF TypeOK
<1>10. Later(objs, now)'
  <2>1. \A o \in DOMAIN objs' : o \in DOMAIN objs \/ o = Len(objs) + 1
    BY <1>5, <1>6
  <2>. QED  BY <1>1, <1>2, <1>3, <1>5, <2>1 DEF Later
<1>11. Listed(objs, todo, tickNow)'
  <2>1. \A l \in todo : l \in DOMAIN objs /\ objs'[l] = objs[l] /\ objs[l].id \in Ids
    BY <1>5, ObjFacts DEF TypeOK
  <2>2. ASSUME NEW l \in todo
        PROVE  jobs'[objs[l].id] \in {0, l} \/ objs'[jobs'[objs[l].id]].done = 0
    <3>1. CASE objs[l].id = id
      BY <1>3, <1>5, <1>7, <2>1, <3>1
    <3>2. CASE objs[l].id # id
      <4>1. jobs'[objs[l].id] = jobs[objs[l].id]
        BY <1>7, <2>1, <3>2
      <4>2. jobs[objs[l].id] # 0 => jobs[objs[l].id] \in DOMAIN objs
        BY <2>1, ObjFacts
      <4>. QED  BY <1>5, <4>1, <4>2 DEF Listed
    <3>. QED  BY <3>1, <3>2
  <2>3. ASSUME NEW l \in todo
        PROVE  objs'[l].done <= tickNow /\ \A m \in todo : objs'[l].id = objs'[m].id => l = m
    BY <2>1 DEF Listed
  <2>4. ASSUME NEW l \in todo
        PROVE  jobs'[objs'[l].id] \in {0, l} \/ objs'[jobs'[objs'[l].id]].done = 0
    BY <2>1, <2>2
  <2>. QED  BY <1>1, <2>3, <2>4 DEF Listed
<1>12. InTick'
  BY <1>1, <1>2, <1>5, TickKept DEF TypeOK
<1>13. Calls'
  BY <1>1 DEF Calls
<1>. QED  BY <1>9, <1>10, <1>11, <1>12, <1>13

LEMMA DeleteJobStep ==
  ASSUME IInv, NEW id \in Ids, DeleteJob(id)
  PROVE  IInv'
<1>. USE DEF IInv
<1>1. /\ jobs' = [jobs EXCEPT ![id] = 0]
      /\ UNCHANGED <<now, objs, running, phase, tickNow, todo, exec>>
  BY DEF DeleteJob
<1>2. \A i \in Ids : jobs'[i] = IF i = id THEN 0 ELSE jobs[i]
  BY <1>1 DEF TypeOK
<1>3. jobs' \in [Ids -> 0..Len(objs)]
  BY <1>1, ObjFacts DEF TypeOK
<1>4. TypeOK' /\ Calls' /\ Later(objs, now)'
  BY <1>1, <1>2, <1>3 DEF TypeOK, Calls, Later
<1>5. Listed(objs, todo, tickNow)'
  <2>1. \A l \in todo : objs[l].id \in Ids
    BY ObjFacts DEF TypeOK
  <2>. QED  BY <1>1, <1>2, <2>1 DEF Listed
<1>6. InTick'
  BY <1>1, TickKept DEF TypeOK
<1>. QED  BY <1>4, <1>5, <1>6

LEMMA SetStatusStep ==
  ASSUME IInv, NEW id \in Ids, NEW s \in {"active", "paused"}, SetStatus(id, s)
  PROVE  IInv'
<1>. USE DEF IInv
<1> DEFINE c == jobs[id]
           n == IF s = "active" THEN NextFire(objs[c].fires, now) ELSE 0
           x == [objs[c] EXCEPT !.status = s, !.next = n]
<1>1. /\ c # 0 /\ UNCHANGED <<now, jobs, running, phase, tickNow, todo, exec>>
      /\ now \in Nat
  BY DEF SetStatus, TypeOK
<1>2. c \in DOMAIN objs /\ objs[c] \in JobFields
  BY <1>1, ObjFacts
<1>3. objs' = [objs EXCEPT ![c] = x]
  BY <1>2 DEF SetStatus
<1>4. n \in Nat /\ (n = 0 \/ n > now)
  BY <1>1, <1>2, NextFireLater DEF JobFields
<1>5. HIDE DEF n, c
<1>6. /\ x \in JobFields /\ x.id = objs[c].id /\ x.done = objs[c].done
      /\ x.next = n
  BY <1>2, <1>4 DEF JobFields
<1>7. HIDE DEF x
<1>8. /\ objs' \in [DOMAIN objs -> JobFields]
      /\ \A o \in DOMAIN objs : objs'[o] = IF o = c THEN x ELSE objs[o]
  BY <1>2, <1>3, <1>6, ObjFacts
<1>9. objs' \in Seq(JobFields) /\ Len(objs') = Len(objs) /\ DOMAIN objs' = DOMAIN objs
  BY <1>8, Remade
<1>10. \A o \in DOMAIN objs : objs'[o].id = objs[o].id /\ objs'[o].done = objs[o].done
  BY <1>6, <1>8
<1>11. TypeOK'
  BY <1>1, <1>9, <1>10, ObjFacts DEF TypeOK
<1>12. Later(objs, now)'
  <2>1. \A o \in DOMAIN objs : objs[o].done \in Nat
    BY ObjFacts DEF JobFields
  <2>. QED  BY <1>1, <1>2, <1>4, <1>6, <1>8, <1>9, <2>1 DEF Later
<1>13. Listed(objs, todo, tickNow)'
  BY <1>1, <1>10, ListedKept
<1>14. InTick'
  BY <1>1, <1>10, TickKept DEF TypeOK
<1>15. Calls'
  BY <1>1 DEF Calls
<1>. QED  BY <1>11, <1>12, <1>13, <1>14, <1>15

(* One runner moves, to e; the tick is where it was or, at an exception of  *)
(* the loop's, over.                                                        *)
LEMMA RunnerStep ==
  ASSUME IInv, NEW r \in Runners, NEW e \in ExecFields, exec' = [exec EXCEPT ![r] = e],
         e.state # "idle" => e.attempt >= 1 /\ e.id \in Ids,
         UNCHANGED <<now, objs, jobs, running>>,
         \/ UNCHANGED <<phase, tickNow, todo>> /\ (r = Loop => e.id = exec[Loop].id)
         \/ phase' = "sleeping" /\ todo' = {} /\ tickNow' = 0
  PROVE  IInv'
<1>. USE DEF IInv
<1>1. exec' \in [Runners -> ExecFields] /\ Loop \in Runners
  BY DEF TypeOK, Runners
<1>2. \A q \in Runners : exec'[q] = IF q = r THEN e ELSE exec[q]
  BY DEF TypeOK
<1>3. Calls' /\ Later(objs, now)'
  BY <1>2 DEF Calls, Later
<1>4. TypeOK'
  BY <1>1 DEF TypeOK
<1>5. CASE UNCHANGED <<phase, tickNow, todo>> /\ (r = Loop => e.id = exec[Loop].id)
  <2>1. Listed(objs, todo, tickNow)'
    BY <1>5, ListedKept
  <2>2. InTick'
    BY <1>1, <1>2, <1>5, TickKept DEF TypeOK
  <2>. QED  BY <1>3, <1>4, <2>1, <2>2
<1>6. CASE phase' = "sleeping" /\ todo' = {} /\ tickNow' = 0
  <2>1. Listed(objs, todo, tickNow)' /\ InTick'
    BY <1>4, <1>6 DEF Listed, InTick, TypeOK
  <2>. QED  BY <1>3, <1>4, <2>1
<1>. QED  BY <1>5, <1>6

LEMMA TriggerNowStep ==
  ASSUME IInv, NEW r \in Callers, NEW id \in Ids, TriggerNow(r, id)
  PROVE  IInv'
<1> DEFINE e == Attempt(id, 1, now)
<1>1. exec' = [exec EXCEPT ![r] = e] /\ UNCHANGED <<now, objs, jobs, running, phase, tickNow, todo>>
  BY DEF TriggerNow
<1>2. r \in Runners /\ r # Loop
  BY RunnerAssumption DEF Runners
<1>3. TypeOK /\ now \in Nat
  BY DEF IInv, TypeOK
<1>4. e \in ExecFields /\ e.id = id /\ (e.state # "idle" => e.attempt = 1)
  BY <1>3, AttemptFacts
<1>5. e.state # "idle" => e.attempt >= 1 /\ e.id \in Ids
  BY <1>4
<1>6. HIDE DEF e
<1>. QED  BY <1>1, <1>2, <1>4, <1>5, RunnerStep

LEMMA RetryStep ==
  ASSUME IInv, NEW r \in Runners, Retry(r)
  PROVE  IInv'
<1> DEFINE e == Attempt(exec[r].id, exec[r].attempt + 1, exec[r].due)
<1>1. exec' = [exec EXCEPT ![r] = e] /\ UNCHANGED <<now, objs, jobs, running, phase, tickNow, todo>>
  BY DEF Retry
<1>2. exec[r].attempt \in Nat /\ exec[r].attempt >= 1 /\ exec[r].id \in Ids /\ exec[r].due \in Nat
  BY ExecAt DEF Retry, Calls, IInv
<1>3. /\ e \in ExecFields /\ e.id = exec[r].id
      /\ e.state # "idle" => e.attempt >= 1 /\ e.id \in Ids
  BY <1>2, AttemptFacts DEF IInv
<1>4. HIDE DEF e
<1>. QED  BY <1>1, <1>3, RunnerStep

LEMMA SettleStep ==
  ASSUME IInv, NEW r \in Runners, NEW ok \in BOOLEAN, Settle(r, ok)
  PROVE  IInv'
<1> DEFINE e == IF jobs[exec[r].id] = 0 \/ ok \/ exec[r].attempt >= MaxAttempts
                  THEN Returned(exec[r].id) ELSE [exec[r] EXCEPT !.state = "backoff", !.cur = 0]
<1>1. /\ exec' = [exec EXCEPT ![r] = e] /\ UNCHANGED <<now, objs, jobs, running>>
      /\ \/ UNCHANGED <<phase, tickNow, todo>>
         \/ phase' = "sleeping" /\ todo' = {} /\ tickNow' = 0
  BY DEF Settle, Abort
<1>2. exec[r] \in ExecFields /\ exec[r].attempt >= 1 /\ exec[r].id \in Ids
  BY ExecAt DEF Settle, Calls, IInv
<1>3. /\ e \in ExecFields /\ e.id = exec[r].id
      /\ e.state # "idle" => e.attempt >= 1 /\ e.id \in Ids
  BY <1>2 DEF Returned, Idle, ExecFields
<1>4. HIDE DEF e
<1>. QED  BY <1>1, <1>3, RunnerStep

LEMMA ExitStep ==
  ASSUME IInv, Exit
  PROVE  IInv'
<1>1. /\ phase' = "ended" /\ objs' = << >> /\ todo' = {} /\ tickNow' = 0
      /\ jobs' = [id \in Ids |-> 0] /\ exec' = [r \in Runners |-> Idle] /\ UNCHANGED <<now, running>>
  BY DEF Exit
<1>2. Idle \in ExecFields /\ Idle.state = "idle"
  BY DEF Idle, ExecFields
<1>3. objs' \in Seq(JobFields) /\ Len(objs') = 0 /\ DOMAIN objs' = {}
  BY <1>1, EmptySeq
<1>4. TypeOK'
  BY <1>1, <1>2, <1>3 DEF IInv, TypeOK
<1>5. Later(objs, now)' /\ Calls' /\ Listed(objs, todo, tickNow)' /\ InTick'
  BY <1>1, <1>2, <1>3 DEF IInv, TypeOK, Later, Calls, Listed, InTick
<1>. QED  BY <1>4, <1>5 DEF IInv

LEMMA InitIInv == Init => IInv
<1>. SUFFICES ASSUME Init PROVE IInv
  OBVIOUS
<1>1. Idle \in ExecFields /\ Idle.state = "idle"
  BY DEF Idle, ExecFields
<1>2. objs \in Seq(JobFields) /\ Len(objs) = 0 /\ DOMAIN objs = {}
  BY EmptySeq DEF Init
<1>3. TypeOK
  BY <1>1, <1>2 DEF Init, TypeOK
<1>4. Later(objs, now) /\ Calls /\ Listed(objs, todo, tickNow) /\ InTick
  BY <1>1, <1>2 DEF Init, Later, Calls, Listed, InTick
<1>. QED  BY <1>3, <1>4 DEF IInv

LEMMA StepIInv == IInv /\ [Next]_vars => IInv'
<1>. SUFFICES ASSUME IInv, [Next]_vars PROVE IInv'
  OBVIOUS
<1>1. CASE Tick
  BY <1>1, TickScans, ScanStep DEF IInv
<1>2. CASE GoOn
  BY <1>2, GoOnScans, ScanStep DEF IInv
<1>3. CASE Stop
  BY <1>3 DEF Stop, IInv, TypeOK, Later, Calls, Listed, InTick
<1>4. CASE UNCHANGED vars
  BY <1>4 DEF vars, IInv, TypeOK, Later, Calls, Listed, InTick
<1>5. CASE Routes
  BY <1>5, CreateJobStep, DeleteJobStep, SetStatusStep, TriggerNowStep DEF Routes
<1>. QED
  BY <1>1, <1>2, <1>3, <1>4, <1>5, AdvanceStep, RetryStep, SettleStep, ExitStep
  DEF Next, LoopEnds, SignalAgain

LEMMA InvariantHolds == Spec => []IInv
BY InitIInv, StepIInv, PTL DEF Spec

-------------------------------------------------------------------------------
(* Every reachable state of the scheduler is well typed, and an id stands   *)
(* for an object of that id.                                                *)
THEOREM TypeCorrect == Spec => []TypeOK
<1>1. IInv => TypeOK
  BY DEF IInv
<1>. QED  BY <1>1, InvariantHolds, PTL

(* However routes, triggers and the awaits of a tick interleave, the loop   *)
(* fires a job for an instant later than the end of its previous firing.    *)
THEOREM FiringsNeverPileUp == Spec => NoPileUp
<1>1. IInv /\ [Next]_vars =>
        [FiringBegins => exec'[Loop].due > objs[exec'[Loop].cur].done]_vars
  BY FiringIsLate
<1>. QED  BY <1>1, InvariantHolds, PTL DEF Spec, NoPileUp

===============================================================================
