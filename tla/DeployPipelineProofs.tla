------------------------- MODULE DeployPipelineProofs -------------------------
(***************************************************************************)
(* DeployPipeline for any tenants, hostnames and builds and any bounds:    *)
(* each tenant's deployments run one at a time in queue order, and a       *)
(* hostname whose tunnel calls were not missed is never routed to a bundle *)
(* the edge runtime does not have and is given back by every failure.      *)
(***************************************************************************)
EXTENDS DeployPipeline, FiniteSetTheorems, WellFoundedInduction, TLAPS

-------------------------------------------------------------------------------
(* Records: what the helpers that build a deployment's next fields return. *)

(* A record of deployment fields is a function on its field names. *)
LEMMA FieldsExpanded ==
  ASSUME NEW v \in DeployFields
  PROVE  /\ v.host \in Hosts /\ v.build \in Builds /\ v.after \in Nat
         /\ v.stage \in Running \cup Settled \cup {"waiting"}
         /\ v.undo \in SUBSET SideEffects /\ v.prev \in Nat
         /\ v.missed \in SUBSET (Forward \cup Backward)
BY DEF DeployFields

(* fail() changes the stage alone, and ends at once with nothing to undo. *)
LEMMA FailFields ==
  ASSUME NEW v \in DeployFields
  PROVE  /\ Fail(v) \in DeployFields
         /\ Fail(v).stage = IF v.undo = {} THEN "failed" ELSE "rolling-back"
         /\ Fail(v).host = v.host /\ Fail(v).build = v.build
         /\ Fail(v).after = v.after /\ Fail(v).undo = v.undo
         /\ Fail(v).prev = v.prev /\ Fail(v).missed = v.missed
BY DEF Fail, DeployFields, Running, Settled

(* A call that succeeds sets the stage and records its side effect. *)
LEMMA SucceedFields ==
  ASSUME NEW v \in DeployFields, NEW next \in Running, NEW effect \in SideEffects
  PROVE  LET w == Succeed(v, next, effect) IN
         /\ w \in DeployFields
         /\ w.stage = next /\ w.undo = v.undo \cup {effect}
         /\ w.host = v.host /\ w.build = v.build /\ w.after = v.after
         /\ w.prev = v.prev /\ w.missed = v.missed
BY DEF Succeed, DeployFields

(* A missed call is recorded and nothing else changes. *)
LEMMA MissFields ==
  ASSUME NEW v \in DeployFields, NEW call \in Forward \cup Backward
  PROVE  LET w == Miss(v, call) IN
         /\ w \in DeployFields
         /\ w.missed = v.missed \cup {call}
         /\ w.host = v.host /\ w.build = v.build /\ w.after = v.after
         /\ w.stage = v.stage /\ w.undo = v.undo /\ w.prev = v.prev
BY DEF Miss, DeployFields

(* Updating one element of a sequence keeps its length and the others. *)
LEMMA SeqUpdate ==
  ASSUME NEW S, NEW s \in Seq(S), NEW i \in DOMAIN s, NEW v \in S
  PROVE  /\ [s EXCEPT ![i] = v] \in Seq(S)
         /\ Len([s EXCEPT ![i] = v]) = Len(s)
         /\ DOMAIN [s EXCEPT ![i] = v] = DOMAIN s
         /\ [s EXCEPT ![i] = v][i] = v
         /\ \A j \in DOMAIN s : j # i => [s EXCEPT ![i] = v][j] = s[j]
OBVIOUS

-------------------------------------------------------------------------------
(***************************************************************************)
(* One deployment's step.  Moved says what every action of a deployment    *)
(* has in common: it started or was running, and it keeps its artefact and *)
(* its place in the queue.                                                 *)
(***************************************************************************)
SameArtefact(v, w) == v.host = w.host /\ v.build = w.build /\ v.after = w.after

(* The bundles a deployment may name. *)
Refs == {0} \cup DOMAIN deploys

Moved(d) ==
  \E v \in DeployFields :
    /\ Step(d, v)
    /\ SameArtefact(v, deploys[d])
    /\ v.stage # "waiting" /\ v.prev \in Refs
    /\ deploys[d].stage \notin Settled
    /\ deploys[d].stage = "waiting" => MayRun(d)

(* What a deployment names was there before it. *)
Placed ==
  \A d \in DOMAIN deploys : deploys[d].after < d /\ deploys[d].prev \in Refs

Typed == TypeOK /\ Placed

LEMMA DeployTyped ==
  ASSUME Typed, NEW d \in DOMAIN deploys
  PROVE  /\ deploys[d] \in DeployFields /\ d \in Nat \ {0}
         /\ Host(d) \in Hosts /\ Tenant(d) \in Tenants /\ Key(d) \in Tenants \X Builds
<1>1. deploys[d] \in DeployFields /\ d \in Nat \ {0}
  BY DEF Typed, TypeOK
<1>2. Host(d) \in Hosts /\ deploys[d].build \in Builds
  BY <1>1 DEF DeployFields, Host
<1>3. Tenant(d) \in Tenants
  BY <1>2, OwnerAssumption DEF Tenant
<1>. QED  BY <1>1, <1>2, <1>3 DEF Key

(* The fields a forward call may leave. *)
LEMMA CalledMoves ==
  ASSUME Typed, NEW d \in DOMAIN deploys, NEW call \in Forward,
         NEW ok \in DeployFields, NEW applied \in BOOLEAN,
         SameArtefact(ok, deploys[d]), ok.stage \in Running, ok.prev \in Refs,
         deploys[d].stage \in Running,
         Called(d, call, ok, applied)
  PROVE  Moved(d)
<1>1. deploys[d] \in DeployFields /\ deploys[d].prev \in Refs
  BY DeployTyped DEF Typed, Placed
<1>2. deploys[d].stage \notin Settled /\ deploys[d].stage # "waiting"
  BY DEF Running, Settled
<1>3. CASE Step(d, ok)
  BY <1>2, <1>3 DEF Moved, Running
<1>4. CASE Step(d, Fail(deploys[d]))
  BY <1>1, <1>2, <1>4, FailFields DEF Moved, SameArtefact
<1>5. CASE Step(d, Fail(Miss(deploys[d], call)))
  <2> DEFINE m == Miss(deploys[d], call)
  <2>1. m \in DeployFields /\ SameArtefact(m, deploys[d]) /\ m.prev = deploys[d].prev
    BY <1>1, MissFields DEF SameArtefact
  <2>2. Fail(m) \in DeployFields /\ SameArtefact(Fail(m), m) /\ Fail(m).prev = m.prev
          /\ Fail(m).stage # "waiting"
    BY <2>1, FailFields DEF SameArtefact
  <2>. QED  BY <1>1, <1>2, <1>5, <2>1, <2>2 DEF Moved, SameArtefact
<1>. QED  BY <1>3, <1>4, <1>5 DEF Called

(* The fields an undo step may leave. *)
LEMMA UndoneMoves ==
  ASSUME Typed, NEW d \in DOMAIN deploys, NEW call \in Backward,
         NEW effect \in SideEffects, NEW applied \in BOOLEAN,
         deploys[d].stage \in Running,
         Undone(d, call, effect, applied)
  PROVE  Moved(d)
<1> DEFINE v == [deploys[d] EXCEPT !.undo = @ \ {effect}]
           m == Miss(v, call)
<1>1. deploys[d] \in DeployFields /\ deploys[d].prev \in Refs
  BY DeployTyped DEF Typed, Placed
<1>2. deploys[d].stage \notin Settled /\ deploys[d].stage # "waiting"
  BY DEF Running, Settled
<1>3. v \in DeployFields /\ SameArtefact(v, deploys[d]) /\ v.prev = deploys[d].prev
  BY <1>1 DEF DeployFields, SameArtefact
<1>4. CASE Step(d, Fail(v))
  BY <1>1, <1>2, <1>3, <1>4, FailFields DEF Moved, SameArtefact
<1>5. CASE Step(d, Fail(m))
  <2>1. m \in DeployFields /\ SameArtefact(m, v) /\ m.prev = v.prev
    BY <1>3, MissFields DEF SameArtefact
  <2>2. Fail(m) \in DeployFields /\ SameArtefact(Fail(m), m) /\ Fail(m).prev = m.prev
          /\ Fail(m).stage # "waiting"
    BY <2>1, FailFields DEF SameArtefact
  <2>. QED  BY <1>1, <1>2, <1>3, <1>5, <2>1, <2>2 DEF Moved, SameArtefact
<1>. QED  BY <1>4, <1>5 DEF Undone

LEMMA AdvanceMoves ==
  ASSUME Typed, NEW d \in DOMAIN deploys, Advance(d)
  PROVE  Moved(d)
<1> DEFINE v == deploys[d]
<1>1. v \in DeployFields /\ v.prev \in Refs /\ Host(d) \in Hosts
  BY DeployTyped DEF Typed, Placed
<1>2. CASE Begin(d)
  <2>1. PICK stage \in {"uploading", "rejected"} : Step(d, [v EXCEPT !.stage = stage])
    BY <1>2 DEF Begin
  <2>2. [v EXCEPT !.stage = stage] \in DeployFields
    BY <1>1 DEF DeployFields, Running, Settled
  <2>3. v.stage = "waiting" /\ MayRun(d)
    BY <1>2 DEF Begin, MayRun
  <2>. QED  BY <1>1, <2>1, <2>2, <2>3 DEF Moved, SameArtefact, Settled, DeployFields
<1>3. CASE Upload(d)
  <2>1. Succeed(v, "reading", "object") \in DeployFields
          /\ SameArtefact(Succeed(v, "reading", "object"), v)
          /\ Succeed(v, "reading", "object").stage \in Running
          /\ Succeed(v, "reading", "object").prev \in Refs
    BY <1>1, SucceedFields DEF Running, SideEffects, SameArtefact
  <2>. QED  BY <1>3, <2>1, CalledMoves DEF Upload, Running, Forward
<1>4. CASE Read(d)
  <2>1. [v EXCEPT !.stage = "registering"] \in DeployFields
    BY <1>1 DEF DeployFields, Running
  <2>2. CASE Step(d, [v EXCEPT !.stage = "registering"])
    BY <1>1, <1>4, <2>1, <2>2 DEF Read, Moved, SameArtefact, Settled, DeployFields
  <2>3. CASE Step(d, Fail(v))
    BY <1>1, <1>4, <2>3, FailFields DEF Read, Moved, SameArtefact, Settled
  <2>. QED  BY <1>4, <2>2, <2>3 DEF Read
<1>5. CASE RegisterBundle(d)
  <2>1. Succeed(v, "routing", "bundle") \in DeployFields
          /\ SameArtefact(Succeed(v, "routing", "bundle"), v)
          /\ Succeed(v, "routing", "bundle").stage \in Running
          /\ Succeed(v, "routing", "bundle").prev \in Refs
    BY <1>1, SucceedFields DEF Running, SideEffects, SameArtefact
  <2>. QED  BY <1>5, <2>1, CalledMoves DEF RegisterBundle, Running, Forward
<1>6. CASE Swap(d)
  <2> DEFINE s == Succeed(v, "health-checking", "route")
             ok == [s EXCEPT !.prev = routes[Host(d)]]
  <2>1. s \in DeployFields /\ SameArtefact(s, v) /\ s.stage = "health-checking"
    BY <1>1, SucceedFields DEF Running, SideEffects, SameArtefact
  <2>2. routes[Host(d)] \in Refs /\ routes[Host(d)] \in Nat
    BY <1>1 DEF Typed, TypeOK, Refs
  <2>. HIDE DEF s
  <2>3. ok \in DeployFields /\ SameArtefact(ok, s) /\ ok.stage = s.stage
          /\ ok.prev = routes[Host(d)]
    BY <2>1, <2>2 DEF DeployFields, SameArtefact
  <2>4. PICK applied \in BOOLEAN : Called(d, "swap", ok, applied)
    BY <1>6 DEF Swap, s
  <2>. QED  BY <1>6, <2>1, <2>2, <2>3, <2>4, CalledMoves DEF Swap, Running, Forward, SameArtefact
<1>7. CASE Probe(d)
  <2> DEFINE next == IF v.prev = 0 THEN "live" ELSE "swapping"
             w == [v EXCEPT !.stage = next]
  <2>1. w \in DeployFields /\ SameArtefact(w, v) /\ w.prev = v.prev /\ w.stage # "waiting"
    BY <1>1 DEF DeployFields, Running, Settled, SameArtefact
  <2>2. CASE Step(d, w)
    BY <1>1, <1>7, <2>1, <2>2 DEF Probe, Moved, Settled
  <2>3. CASE Step(d, Fail(v))
    BY <1>1, <1>7, <2>3, FailFields DEF Probe, Moved, SameArtefact, Settled
  <2>. QED  BY <1>7, <2>2, <2>3 DEF Probe
<1>8. CASE Warm(d)
  <2>1. [v EXCEPT !.stage = "live"] \in DeployFields
    BY <1>1 DEF DeployFields, Settled
  <2>. QED  BY <1>1, <1>8, <2>1 DEF Warm, Moved, SameArtefact, Settled, DeployFields
<1>9. CASE UndoRoute(d)
  BY <1>9, UndoneMoves DEF UndoRoute, Running, Backward, SideEffects
<1>10. CASE UndoBundle(d)
  BY <1>10, UndoneMoves DEF UndoBundle, Running, Backward, SideEffects
<1>11. CASE UndoObject(d)
  BY <1>11, UndoneMoves DEF UndoObject, Running, Backward, SideEffects
<1>. QED
  BY <1>2, <1>3, <1>4, <1>5, <1>6, <1>7, <1>8, <1>9, <1>10, <1>11 DEF Advance

-------------------------------------------------------------------------------
(***************************************************************************)
(* The queue.  FirstInFirstOut is not inductive: that a deployment may run *)
(* follows from the one it is chained to only because every earlier one of *)
(* its tenant is chained before that, and the tail is where a new one      *)
(* chains to.  Chained says both.                                          *)
(***************************************************************************)
Chained ==
  /\ \A d, e \in DOMAIN deploys :
       d < e /\ Tenant(d) = Tenant(e)
         => deploys[d].stage \in Settled \/ d <= deploys[e].after
  /\ \A e \in DOMAIN deploys :
       deploys[e].after # 0 => Tenant(deploys[e].after) = Tenant(e)
  /\ \A d \in DOMAIN deploys :
       deploys[d].stage \in Settled \/ d <= tails[Tenant(d)]
  /\ \A t \in Tenants : tails[t] # 0 => Tenant(tails[t]) = t

Queue == Typed /\ Chained /\ FirstInFirstOut

(* A deployment that may run has only settled ones of its tenant before it. *)
LEMMA RunsAlone ==
  ASSUME Queue, NEW e \in DOMAIN deploys,
         deploys[e].stage = "waiting" => MayRun(e),
         NEW d \in DOMAIN deploys, d < e, Tenant(d) = Tenant(e)
  PROVE  deploys[d].stage \in Settled
<1> DEFINE a == deploys[e].after
<1>1. d \in Nat /\ e \in Nat /\ a \in Nat /\ a < e /\ Len(deploys) \in Nat
        /\ DOMAIN deploys = 1..Len(deploys)
  <2>1. deploys[e] \in DeployFields
    BY DeployTyped DEF Queue
  <2>. QED  BY <2>1 DEF Queue, Typed, TypeOK, Placed, DeployFields
<1>2. CASE deploys[e].stage # "waiting"
  BY <1>2 DEF Queue, FirstInFirstOut
<1>3. CASE deploys[e].stage = "waiting" /\ d > a
  BY <1>1, <1>3 DEF Queue, Chained
<1>4. CASE deploys[e].stage = "waiting" /\ d <= a
  <2>1. a \in DOMAIN deploys /\ Tenant(a) = Tenant(e) /\ deploys[a].stage \in Settled
    BY <1>1, <1>4 DEF Queue, Chained, MayRun
  <2>2. CASE d = a
    BY <2>1, <2>2
  <2>3. CASE d < a
    BY <2>1, <2>3 DEF Queue, FirstInFirstOut, Settled
  <2>. QED  BY <1>1, <1>4, <2>2, <2>3
<1>. QED  BY <1>1, <1>2, <1>3, <1>4

(* A step of deployment d, seen from the next state. *)
LEMMA StepEffect ==
  ASSUME Typed, NEW d \in DOMAIN deploys, NEW v \in DeployFields,
         Step(d, v), SameArtefact(v, deploys[d])
  PROVE  /\ deploys' \in Seq(DeployFields) /\ DOMAIN deploys' = DOMAIN deploys
         /\ Len(deploys') = Len(deploys)
         /\ deploys'[d] = v
         /\ \A e \in DOMAIN deploys : e # d => deploys'[e] = deploys[e]
         /\ \A e \in DOMAIN deploys : /\ deploys'[e].host = deploys[e].host
                                      /\ deploys'[e].after = deploys[e].after
                                      /\ Tenant(e)' = Tenant(e)
<1>1. deploys' = [deploys EXCEPT ![d] = v] /\ deploys \in Seq(DeployFields)
  BY DEF Step, Typed, TypeOK
<1>2. /\ deploys' \in Seq(DeployFields) /\ DOMAIN deploys' = DOMAIN deploys
      /\ Len(deploys') = Len(deploys)
      /\ deploys'[d] = v
      /\ \A e \in DOMAIN deploys : e # d => deploys'[e] = deploys[e]
  BY <1>1, SeqUpdate
<1>3. \A e \in DOMAIN deploys :
        deploys'[e].host = deploys[e].host /\ deploys'[e].after = deploys[e].after
  BY <1>2 DEF SameArtefact
<1>. QED  BY <1>2, <1>3 DEF Tenant, Host

(* What a deployment's step does to the tails of the queue. *)
LEMMA TailsEffect ==
  ASSUME Typed, NEW d \in DOMAIN deploys, NEW v \in DeployFields, Step(d, v)
  PROVE  /\ tails' \in [Tenants -> Refs]
         /\ \A t \in Tenants :
              \/ tails'[t] = tails[t]
              \/ t = Tenant(d) /\ tails[t] = d /\ tails'[t] = 0 /\ v.stage \in Settled
<1>1. tails \in [Tenants -> Refs] /\ Tenant(d) \in Tenants
  BY DeployTyped DEF Typed, TypeOK, Refs
<1>2. tails' = TailsAfter(d, v.stage)
  BY DEF Step
<1>. QED  BY <1>1, <1>2 DEF TailsAfter, Refs

LEMMA MovedKeepsQueue ==
  ASSUME Queue, NEW d \in DOMAIN deploys, Moved(d)
  PROVE  Placed' /\ Chained' /\ FirstInFirstOut' /\ tails' \in [Tenants -> Refs']
           /\ deploys' \in Seq(DeployFields)
<1>1. PICK v \in DeployFields :
        /\ Step(d, v) /\ SameArtefact(v, deploys[d])
        /\ v.stage # "waiting" /\ v.prev \in Refs
        /\ deploys[d].stage \notin Settled
        /\ deploys[d].stage = "waiting" => MayRun(d)
  BY DEF Moved
<1>2. /\ deploys' \in Seq(DeployFields) /\ DOMAIN deploys' = DOMAIN deploys
      /\ deploys'[d] = v
      /\ \A e \in DOMAIN deploys : e # d => deploys'[e] = deploys[e]
      /\ \A e \in DOMAIN deploys : /\ deploys'[e].after = deploys[e].after
                                   /\ Tenant(e)' = Tenant(e)
  BY <1>1, StepEffect DEF Queue
<1>3. /\ tails' \in [Tenants -> Refs]
      /\ \A t \in Tenants :
           \/ tails'[t] = tails[t]
           \/ t = Tenant(d) /\ tails[t] = d /\ tails'[t] = 0 /\ v.stage \in Settled
  BY <1>1, TailsEffect DEF Queue
<1>4. Refs' = Refs
  BY <1>2 DEF Refs
<1>5. \A e \in DOMAIN deploys : deploys[e].stage \in Settled => deploys'[e].stage \in Settled
  BY <1>1, <1>2
<1>6. \A e \in DOMAIN deploys : e < d /\ Tenant(e) = Tenant(d) => deploys[e].stage \in Settled
  BY <1>1, RunsAlone
<1>7. \A e \in DOMAIN deploys :
        e \in Nat \ {0} /\ deploys[e].after \in Refs /\ Tenant(e) \in Tenants
  <2>1. TAKE e \in DOMAIN deploys
  <2>2. deploys[e] \in DeployFields /\ e \in Nat \ {0} /\ Tenant(e) \in Tenants
    BY DeployTyped DEF Queue
  <2>3. deploys[e].after \in Nat /\ deploys[e].after < e
    BY <2>2 DEF DeployFields, Queue, Typed, Placed
  <2>. QED  BY <2>2, <2>3 DEF Queue, Typed, TypeOK, Refs
<1>8. Placed'
  BY <1>1, <1>2, <1>4 DEF Placed, Queue, Typed
<1>9. Chained'
  <2>1. \A e, f \in DOMAIN deploys' :
          e < f /\ Tenant(e)' = Tenant(f)'
            => deploys'[e].stage \in Settled \/ e <= deploys'[f].after
    BY <1>2, <1>5 DEF Queue, Chained
  <2>2. \A f \in DOMAIN deploys' :
          deploys'[f].after # 0 => Tenant(deploys[f].after)' = Tenant(f)'
    BY <1>2, <1>7 DEF Queue, Chained, Refs
  <2>3. \A e \in DOMAIN deploys' :
          deploys'[e].stage \in Settled \/ e <= tails'[Tenant(e)']
    <3>1. SUFFICES ASSUME NEW e \in DOMAIN deploys
                   PROVE  deploys'[e].stage \in Settled \/ e <= tails'[Tenant(e)]
      BY <1>2
    <3>2. CASE tails'[Tenant(e)] = tails[Tenant(e)]
      BY <1>5, <3>2 DEF Queue, Chained
    <3>3. CASE Tenant(e) = Tenant(d) /\ tails[Tenant(e)] = d /\ v.stage \in Settled
      <4>1. deploys[e].stage \in Settled \/ e <= d
        BY <3>3 DEF Queue, Chained
      <4>. QED  BY <1>2, <1>5, <1>6, <1>7, <3>3, <4>1
    <3>. QED  BY <1>3, <1>7, <3>2, <3>3
  <2>4. \A t \in Tenants : tails'[t] # 0 => Tenant(tails[t])' = t /\ tails'[t] = tails[t]
    <3>1. SUFFICES ASSUME NEW t \in Tenants, tails'[t] # 0
                   PROVE  Tenant(tails[t])' = t /\ tails'[t] = tails[t]
      OBVIOUS
    <3>2. tails'[t] = tails[t] /\ tails[t] \in DOMAIN deploys /\ Tenant(tails[t]) = t
      BY <1>3, <3>1 DEF Queue, Chained, Refs
    <3>. QED  BY <1>2, <3>2
  <2>. QED  BY <1>2, <2>1, <2>2, <2>3, <2>4 DEF Chained, Tenant, Host
<1>10. FirstInFirstOut'
  <2>1. SUFFICES ASSUME NEW e \in DOMAIN deploys, NEW f \in DOMAIN deploys,
                        e < f, Tenant(e) = Tenant(f), deploys'[f].stage # "waiting"
                 PROVE  deploys'[e].stage \in Settled
    BY <1>2 DEF FirstInFirstOut
  <2>2. CASE f = d
    BY <1>5, <1>6, <2>1, <2>2
  <2>3. CASE f # d
    BY <1>2, <1>5, <2>1, <2>3 DEF Queue, FirstInFirstOut
  <2>. QED  BY <2>2, <2>3
<1>. QED  BY <1>2, <1>3, <1>4, <1>8, <1>9, <1>10

LEMMA EnqueueEffect ==
  ASSUME Typed, NEW h \in Hosts, NEW b \in Builds, Enqueue(h, b)
  PROVE  LET n == Len(deploys) + 1 IN
         /\ n \in Nat \ {0} /\ n \notin DOMAIN deploys
         /\ deploys' \in Seq(DeployFields) /\ DOMAIN deploys' = DOMAIN deploys \cup {n}
         /\ \A d \in DOMAIN deploys : d < n
         /\ deploys'[n] = NewDeploy(h, b, tails[Owner[h]])
         /\ \A d \in DOMAIN deploys : deploys'[d] = deploys[d]
         /\ tails' = [tails EXCEPT ![Owner[h]] = n]
<1>1. /\ deploys \in Seq(DeployFields) /\ tails \in [Tenants -> Refs]
      /\ Owner[h] \in Tenants
  BY OwnerAssumption DEF Typed, TypeOK, Refs
<1>2. tails[Owner[h]] \in Nat
  BY <1>1 DEF Refs
<1>3. NewDeploy(h, b, tails[Owner[h]]) \in DeployFields
  BY <1>2 DEF NewDeploy, DeployFields
<1>. QED  BY <1>1, <1>3 DEF Enqueue

LEMMA EnqueueKeepsQueue ==
  ASSUME Queue, NEW h \in Hosts, NEW b \in Builds, Enqueue(h, b)
  PROVE  Queue'
<1> DEFINE t == Owner[h]
<1>1. PICK n \in Nat \ {0} :
      /\ n \notin DOMAIN deploys
      /\ deploys' \in Seq(DeployFields) /\ DOMAIN deploys' = DOMAIN deploys \cup {n}
      /\ \A d \in DOMAIN deploys : d < n
      /\ deploys'[n] = NewDeploy(h, b, tails[t])
      /\ \A d \in DOMAIN deploys : deploys'[d] = deploys[d]
      /\ tails' = [tails EXCEPT ![t] = n]
  BY EnqueueEffect DEF Queue
<1>2. t \in Tenants /\ tails \in [Tenants -> Refs]
  BY OwnerAssumption DEF Queue, Typed, TypeOK, Refs
<1>3. /\ deploys'[n].host = h /\ deploys'[n].after = tails[t]
      /\ deploys'[n].stage = "waiting" /\ deploys'[n].prev = 0
  BY <1>1 DEF NewDeploy
<1>4. Tenant(n)' = t /\ \A d \in DOMAIN deploys : Tenant(d)' = Tenant(d)
  BY <1>1, <1>3 DEF Tenant, Host
<1>5. Refs' = Refs \cup {n} /\ tails' \in [Tenants -> Refs']
  BY <1>1, <1>2 DEF Refs
<1>6. \A d \in DOMAIN deploys :
        d \in Nat \ {0} /\ deploys[d].after \in Refs /\ Tenant(d) \in Tenants
          /\ deploys[d].after < d
  <2>1. TAKE d \in DOMAIN deploys
  <2>2. deploys[d] \in DeployFields /\ d \in Nat \ {0} /\ Tenant(d) \in Tenants
    BY DeployTyped DEF Queue
  <2>3. deploys[d].after \in Nat /\ deploys[d].after < d
    BY <2>2 DEF DeployFields, Queue, Typed, Placed
  <2>. QED  BY <2>2, <2>3 DEF Queue, Typed, TypeOK, Refs
<1>. HIDE DEF t
<1>7. TypeOK'
  BY <1>1, <1>2, <1>5 DEF Queue, Typed, TypeOK, Enqueue, Refs
<1>8. Placed'
  <2>1. tails[t] < n
    BY <1>1, <1>2 DEF Refs
  <2>. QED  BY <1>1, <1>3, <1>5, <2>1 DEF Queue, Typed, Placed, Refs
<1>9. Chained'
  <2>1. \A d, e \in DOMAIN deploys' :
          d < e /\ Tenant(d)' = Tenant(e)'
            => deploys'[d].stage \in Settled \/ d <= deploys'[e].after
    <3>1. SUFFICES ASSUME NEW d \in DOMAIN deploys', NEW e \in DOMAIN deploys',
                          d < e, Tenant(d)' = Tenant(e)'
                   PROVE  deploys'[d].stage \in Settled \/ d <= deploys'[e].after
      OBVIOUS
    <3>2. d \in DOMAIN deploys
      BY <1>1, <1>6, <3>1
    <3>3. CASE e = n
      BY <1>1, <1>3, <1>4, <3>1, <3>2, <3>3 DEF Queue, Chained
    <3>4. CASE e \in DOMAIN deploys
      BY <1>1, <1>4, <3>1, <3>2, <3>4 DEF Queue, Chained
    <3>. QED  BY <1>1, <3>3, <3>4
  <2>2. \A e \in DOMAIN deploys' :
          deploys'[e].after # 0
            => deploys'[e].after \in DOMAIN deploys' /\ Tenant(deploys[e].after)' = Tenant(e)'
    <3>1. SUFFICES ASSUME NEW e \in DOMAIN deploys', deploys'[e].after # 0
                   PROVE  /\ deploys'[e].after \in DOMAIN deploys'
                          /\ Tenant(deploys[e].after)' = Tenant(e)'
      OBVIOUS
    <3>2. CASE e = n
      <4>1. tails[t] \in DOMAIN deploys /\ Tenant(tails[t]) = t
        BY <1>2, <1>3, <3>1, <3>2 DEF Queue, Chained, Refs
      <4>2. deploys'[e].after = tails[t]
        BY <1>3, <3>2
      <4>3. deploys'[tails[t]] = deploys[tails[t]]
        BY <1>1, <4>1
      <4>. QED  BY <1>1, <1>4, <3>2, <4>1, <4>2, <4>3 DEF Tenant, Host
    <3>3. CASE e \in DOMAIN deploys
      <4>1. /\ deploys'[e].after = deploys[e].after
            /\ deploys[e].after \in DOMAIN deploys
            /\ Tenant(deploys[e].after) = Tenant(e)
        BY <1>1, <1>6, <3>1, <3>3 DEF Queue, Chained, Refs
      <4>2. deploys'[deploys[e].after] = deploys[deploys[e].after]
        BY <1>1, <4>1
      <4>. QED  BY <1>1, <1>4, <3>3, <4>1, <4>2 DEF Tenant, Host
    <3>. QED  BY <1>1, <3>2, <3>3
  <2>3. \A d \in DOMAIN deploys' :
          deploys'[d].stage \in Settled \/ d <= tails'[Tenant(d)']
    <3>1. SUFFICES ASSUME NEW d \in DOMAIN deploys'
                   PROVE  deploys'[d].stage \in Settled \/ d <= tails'[Tenant(d)']
      OBVIOUS
    <3>2. CASE d = n
      BY <1>1, <1>2, <1>4, <3>2
    <3>3. CASE d \in DOMAIN deploys /\ Tenant(d) = t
      BY <1>1, <1>2, <1>4, <1>6, <3>3
    <3>4. CASE d \in DOMAIN deploys /\ Tenant(d) # t
      BY <1>1, <1>2, <1>4, <1>6, <3>4 DEF Queue, Chained
    <3>. QED  BY <1>1, <3>2, <3>3, <3>4
  <2>4. \A u \in Tenants : tails'[u] # 0 => Tenant(tails[u])' = u
    <3>1. SUFFICES ASSUME NEW u \in Tenants, tails'[u] # 0
                   PROVE  Tenant(tails[u])' = u
      OBVIOUS
    <3>2. CASE u = t
      BY <1>1, <1>2, <1>3, <3>2 DEF Tenant, Host, t
    <3>3. CASE u # t
      <4>1. tails'[u] = tails[u] /\ tails[u] \in DOMAIN deploys /\ Tenant(tails[u]) = u
        BY <1>1, <1>2, <3>1, <3>3 DEF Queue, Chained, Refs
      <4>. QED  BY <1>1, <4>1 DEF Tenant, Host
    <3>. QED  BY <3>2, <3>3
  <2>. QED  BY <2>1, <2>2, <2>3, <2>4 DEF Chained, Tenant, Host
<1>10. FirstInFirstOut'
  <2>1. SUFFICES ASSUME NEW d \in DOMAIN deploys', NEW e \in DOMAIN deploys',
                        d < e, Tenant(d)' = Tenant(e)', deploys'[e].stage # "waiting"
                 PROVE  deploys'[d].stage \in Settled
    BY DEF FirstInFirstOut, Tenant, Host
  <2>2. e \in DOMAIN deploys /\ d \in DOMAIN deploys
    BY <1>1, <1>3, <1>6, <2>1
  <2>. QED  BY <1>1, <1>4, <2>1, <2>2 DEF Queue, FirstInFirstOut
<1>. QED  BY <1>7, <1>8, <1>9, <1>10 DEF Queue, Typed

(* After a restart everything is settled, so there is nothing to order. *)
LEMMA CrashEffect ==
  ASSUME Typed, Crash
  PROVE  /\ deploys' \in Seq(DeployFields) /\ DOMAIN deploys' = DOMAIN deploys
         /\ \A d \in DOMAIN deploys :
              /\ deploys'[d].stage \in Settled
              /\ deploys'[d].stage \in {deploys[d].stage, "lost"}
              /\ SameArtefact(deploys'[d], deploys[d])
              /\ deploys'[d].undo = deploys[d].undo
              /\ deploys'[d].prev = deploys[d].prev
              /\ deploys'[d].missed = deploys[d].missed
              /\ Host(d)' = Host(d) /\ Tenant(d)' = Tenant(d)
         /\ tails' = [t \in Tenants |-> 0]
         /\ routes' = routes /\ bundles' = bundles /\ objects' = objects
<1> DEFINE f(d) == IF deploys[d].stage \in Settled THEN deploys[d]
                   ELSE [deploys[d] EXCEPT !.stage = "lost"]
<1>1. deploys \in Seq(DeployFields) /\ deploys' = [d \in DOMAIN deploys |-> f(d)]
  BY DEF Typed, TypeOK, Crash
<1>2. ASSUME NEW d \in DOMAIN deploys
      PROVE  /\ f(d) \in DeployFields
             /\ f(d).stage \in Settled
             /\ f(d).stage \in {deploys[d].stage, "lost"}
             /\ SameArtefact(f(d), deploys[d]) /\ f(d).undo = deploys[d].undo
             /\ f(d).prev = deploys[d].prev /\ f(d).missed = deploys[d].missed
  <2>1. deploys[d] \in DeployFields
    BY DeployTyped
  <2>2. CASE deploys[d].stage \in Settled
    BY <2>1, <2>2 DEF SameArtefact
  <2>3. CASE deploys[d].stage \notin Settled
    BY <2>1, <2>3 DEF DeployFields, SameArtefact, Settled
  <2>. QED  BY <2>2, <2>3
<1>. HIDE DEF f
<1>3. deploys' \in Seq(DeployFields) /\ DOMAIN deploys' = DOMAIN deploys
  BY <1>1, <1>2
<1>4. \A d \in DOMAIN deploys : deploys'[d] = f(d)
  BY <1>1
<1>5. \A d \in DOMAIN deploys : Host(d)' = Host(d) /\ Tenant(d)' = Tenant(d)
  BY <1>2, <1>4 DEF Host, Tenant, SameArtefact
<1>. QED  BY <1>2, <1>3, <1>4, <1>5 DEF Crash

LEMMA CrashKeepsQueue ==
  ASSUME Queue, Crash
  PROVE  Queue'
<1>1. /\ deploys' \in Seq(DeployFields) /\ DOMAIN deploys' = DOMAIN deploys
      /\ \A d \in DOMAIN deploys :
           /\ deploys'[d].stage \in Settled
           /\ deploys'[d].after = deploys[d].after
           /\ deploys'[d].prev = deploys[d].prev
           /\ Tenant(d)' = Tenant(d)
      /\ tails' = [t \in Tenants |-> 0]
      /\ routes' = routes /\ bundles' = bundles /\ objects' = objects
  BY CrashEffect DEF Queue, SameArtefact
<1>2. crashes' \in Nat
  BY DEF Crash, Queue, Typed, TypeOK
<1>3. TypeOK'
  BY <1>1, <1>2 DEF Queue, Typed, TypeOK
<1>4. Placed'
  BY <1>1 DEF Queue, Typed, Placed, Refs
<1>5. FirstInFirstOut'
  BY <1>1 DEF FirstInFirstOut
<1>6. Chained'
  <2>1. \A e \in DOMAIN deploys' :
          deploys'[e].after # 0 => Tenant(deploys[e].after)' = Tenant(e)'
    <3>1. SUFFICES ASSUME NEW e \in DOMAIN deploys, deploys[e].after # 0
                   PROVE  Tenant(deploys[e].after)' = Tenant(e)'
      BY <1>1
    <3>2. deploys[e].after \in Nat /\ deploys[e].after < e
      BY DeployTyped DEF Queue, Typed, Placed, DeployFields
    <3>3. deploys[e].after \in DOMAIN deploys /\ deploys'[e].after = deploys[e].after
      BY <1>1, <3>1, <3>2, SMTT(30) DEF Queue, Typed, TypeOK
    <3>4. Tenant(deploys[e].after) = Tenant(e)
      BY <3>1 DEF Queue, Chained
    <3>5. \A a \in DOMAIN deploys : deploys'[e].after = a => Tenant(deploys[e].after)' = Tenant(a)
      BY <1>1 DEF Tenant, Host
    <3>. QED  BY <1>1, <3>3, <3>4, <3>5
  <2>. QED  BY <1>1, <2>1 DEF Chained, Tenant, Host
<1>. QED  BY <1>3, <1>4, <1>5, <1>6 DEF Queue, Typed

(* The services' state stays within its types. *)
LEMMA AdvanceTyped ==
  ASSUME Typed, NEW d \in DOMAIN deploys, Advance(d)
  PROVE  /\ routes' \in [Hosts -> Refs] /\ bundles' \subseteq DOMAIN deploys
         /\ objects' \subseteq Tenants \X Builds /\ crashes' \in Nat
<1>1. /\ routes \in [Hosts -> Refs] /\ bundles \subseteq DOMAIN deploys
      /\ objects \subseteq Tenants \X Builds /\ crashes \in Nat
      /\ Key(d) \in Tenants \X Builds /\ d \in Refs /\ deploys[d].prev \in Refs
  BY DeployTyped DEF Typed, TypeOK, Placed, Refs
<1>2. CASE Begin(d) \/ Read(d) \/ Probe(d) \/ Warm(d)
  BY <1>1, <1>2 DEF Begin, Read, Probe, Warm
<1>3. CASE Upload(d) \/ UndoObject(d)
  BY <1>1, <1>3 DEF Upload, UndoObject
<1>4. CASE RegisterBundle(d) \/ UndoBundle(d)
  BY <1>1, <1>4 DEF RegisterBundle, UndoBundle
<1>5. CASE Swap(d) \/ UndoRoute(d)
  BY <1>1, <1>5 DEF Swap, UndoRoute
<1>. QED  BY <1>2, <1>3, <1>4, <1>5 DEF Advance

LEMMA QueueInit == Init => Queue
<1>1. Init => TypeOK
  BY DEF Init, TypeOK
<1>. QED  BY <1>1 DEF Init, Queue, Typed, Placed, Chained, FirstInFirstOut

LEMMA QueueNext == Queue /\ [Next]_vars => Queue'
<1> SUFFICES ASSUME Queue, [Next]_vars PROVE Queue'
  OBVIOUS
<1>1. ASSUME NEW h \in Hosts, NEW b \in Builds, Enqueue(h, b) PROVE Queue'
  BY <1>1, EnqueueKeepsQueue
<1>2. ASSUME NEW d \in DOMAIN deploys, Advance(d) PROVE Queue'
  <2>1. Moved(d)
    BY <1>2, AdvanceMoves DEF Queue
  <2>2. Placed' /\ Chained' /\ FirstInFirstOut' /\ tails' \in [Tenants -> Refs']
          /\ deploys' \in Seq(DeployFields)
    BY <2>1, MovedKeepsQueue
  <2>3. DOMAIN deploys' = DOMAIN deploys
    BY <2>1, StepEffect DEF Moved, Queue
  <2>4. /\ routes' \in [Hosts -> Refs] /\ bundles' \subseteq DOMAIN deploys
        /\ objects' \subseteq Tenants \X Builds /\ crashes' \in Nat
    BY <1>2, AdvanceTyped DEF Queue
  <2>. QED  BY <2>2, <2>3, <2>4 DEF Queue, Typed, TypeOK, Refs
<1>3. CASE Crash
  BY <1>3, CrashKeepsQueue
<1>4. CASE UNCHANGED vars
  BY <1>4 DEF vars, Queue, Typed, TypeOK, Placed, Refs, Chained, FirstInFirstOut, Tenant, Host
<1>. QED  BY <1>1, <1>2, <1>3, <1>4 DEF Next

(* Types of the state, from the queue's invariant (services/deploy-         *)
(* orchestrator/src/schemas.ts 49-75).                                      *)
THEOREM TypeCorrect == Spec => []TypeOK
<1>1. Queue => TypeOK
  BY DEF Queue, Typed
<1>. QED  BY <1>1, QueueInit, QueueNext, PTL DEF Spec

(* For any number of tenants and deployments: deployments of one tenant run *)
(* one at a time, in the order of their deploy() calls (queue.ts 20-37).    *)
THEOREM DeploysAreOrdered == Spec => []FirstInFirstOut
<1>1. Queue => FirstInFirstOut
  BY DEF Queue
<1>. QED  BY <1>1, QueueInit, QueueNext, PTL DEF Spec

-------------------------------------------------------------------------------
(***************************************************************************)
(* The route table.  RoutesAreServed is not inductive: a rollback restores *)
(* the bundle the swap answered, and nothing in RoutesAreServed says that  *)
(* bundle is still there.  It is, because the deployment it belongs to had *)
(* settled with its undo steps untouched, and settled deployments do not   *)
(* move.  Shaped ties the undo steps to the stage, Held and Recorded tie   *)
(* them to the edge runtime's registry.                                    *)
(***************************************************************************)
Shape(v) ==
  /\ v.stage \in {"waiting", "uploading", "rejected", "failed"} => v.undo = {}
  /\ v.stage \in {"reading", "registering"} => v.undo = {"object"}
  /\ v.stage = "routing" => v.undo = {"object", "bundle"}
  /\ v.stage \in {"health-checking", "swapping", "live"} => v.undo = SideEffects
  /\ "route" \in v.undo => "bundle" \in v.undo

Shaped == \A d \in DOMAIN deploys : Shape(deploys[d])

Held == \A d \in DOMAIN deploys : "bundle" \in deploys[d].undo => d \in bundles

EdgeCalls   == {"register", "unregister"}
TunnelCalls == {"swap", "restore"}

Recorded ==
  \A d \in DOMAIN deploys :
    d \in bundles /\ deploys[d].missed \cap EdgeCalls = {}
      => "bundle" \in deploys[d].undo

Serves(h, r) ==
  r = 0 \/ (r \in DOMAIN deploys /\ Host(r) = h /\ "route" \in deploys[r].undo)

RouteHeld == \A h \in Hosts : Misses(h, TunnelCalls) \/ Serves(h, routes[h])

PrevHeld ==
  \A d \in DOMAIN deploys :
    "route" \in deploys[d].undo /\ deploys[d].stage \notin Settled
      => \/ Misses(Host(d), TunnelCalls)
         \/ deploys[d].prev = 0
         \/ /\ Serves(Host(d), deploys[d].prev)
            /\ deploys[deploys[d].prev].stage \in Settled

Registry == Shaped /\ Held /\ Recorded
RouteTable == RouteHeld /\ PrevHeld
IInv == Queue /\ Registry /\ RouteTable

(***************************************************************************)
(* A step of deployment d to the fields v: what it must satisfy so that    *)
(* every other deployment's part of the invariant is kept.                 *)
(***************************************************************************)
StepsTo(d, v) ==
  /\ v \in DeployFields /\ Step(d, v) /\ SameArtefact(v, deploys[d])
  /\ deploys[d].missed \subseteq v.missed
  /\ deploys[d].stage \notin Settled

LEMMA MissesGrow ==
  ASSUME Typed, NEW d \in DOMAIN deploys, NEW v, StepsTo(d, v), NEW h \in Hosts,
         Misses(h, TunnelCalls)
  PROVE  Misses(h, TunnelCalls)'
<1>1. /\ DOMAIN deploys' = DOMAIN deploys /\ deploys'[d] = v
      /\ \A e \in DOMAIN deploys : e # d => deploys'[e] = deploys[e]
      /\ \A e \in DOMAIN deploys : deploys'[e].host = deploys[e].host
  BY StepEffect DEF StepsTo
<1>2. PICK e \in DOMAIN deploys : Host(e) = h /\ deploys[e].missed \cap TunnelCalls # {}
  BY DEF Misses
<1>3. deploys'[e].host = h /\ deploys'[e].missed \cap TunnelCalls # {}
  BY <1>1, <1>2 DEF StepsTo, Host
<1>. QED  BY <1>1, <1>3 DEF Misses, Host, TunnelCalls

LEMMA RegistryKept ==
  ASSUME Typed, Registry, NEW d \in DOMAIN deploys, NEW v, StepsTo(d, v), Shape(v),
         "bundle" \in v.undo => d \in bundles',
         d \in bundles' /\ v.missed \cap EdgeCalls = {} => "bundle" \in v.undo,
         \A e \in DOMAIN deploys : e # d => (e \in bundles' <=> e \in bundles)
  PROVE  Registry'
<1>1. /\ DOMAIN deploys' = DOMAIN deploys /\ deploys'[d] = v
      /\ \A e \in DOMAIN deploys : e # d => deploys'[e] = deploys[e]
  BY StepEffect DEF StepsTo
<1>2. Shaped'
  BY <1>1 DEF Registry, Shaped, Shape
<1>3. Held'
  BY <1>1 DEF Registry, Held
<1>4. Recorded'
  BY <1>1 DEF Registry, Recorded, EdgeCalls
<1>. QED  BY <1>2, <1>3, <1>4 DEF Registry

(* Only the route of d's hostname may change, and only d's prev matters. *)
LEMMA RouteTableKept ==
  ASSUME Typed, RouteTable, NEW d \in DOMAIN deploys, NEW v, StepsTo(d, v),
         \A h \in Hosts : h # Host(d) => routes'[h] = routes[h],
         Misses(Host(d), TunnelCalls)' \/ Serves(Host(d), routes[Host(d)])',
         "route" \in v.undo /\ v.stage \notin Settled
           => \/ Misses(Host(d), TunnelCalls)'
              \/ v.prev = 0
              \/ /\ v.prev \in DOMAIN deploys /\ v.prev # d
                 /\ Serves(Host(d), v.prev) /\ deploys[v.prev].stage \in Settled
  PROVE  RouteTable'
<1>1. /\ DOMAIN deploys' = DOMAIN deploys /\ deploys'[d] = v
      /\ \A e \in DOMAIN deploys : e # d => deploys'[e] = deploys[e]
      /\ \A e \in DOMAIN deploys : deploys'[e].host = deploys[e].host
  BY StepEffect DEF StepsTo
<1>2. \A e \in DOMAIN deploys : Host(e)' = Host(e) /\ Host(e) \in Hosts
  BY <1>1, DeployTyped DEF Host
<1>3. RouteHeld'
  <2>1. SUFFICES ASSUME NEW h \in Hosts
                 PROVE  Misses(h, TunnelCalls)' \/ Serves(h, routes[h])'
    BY DEF RouteHeld
  <2>2. CASE h = Host(d)
    <3>1. Host(d)' = Host(d)
      BY <1>2
    <3>. QED  BY <2>2, <3>1
  <2>3. CASE h # Host(d)
    <3>1. CASE Misses(h, TunnelCalls)
      BY <3>1, MissesGrow
    <3>2. CASE Serves(h, routes[h])
      <4>1. routes'[h] = 0 \/ (/\ routes'[h] \in DOMAIN deploys /\ routes'[h] # d
                               /\ deploys[routes'[h]].host = h
                               /\ "route" \in deploys[routes'[h]].undo)
        BY <2>3, <3>2 DEF Serves, Host
      <4>. QED  BY <1>1, <4>1 DEF Serves, Host
    <3>. QED  BY <3>1, <3>2 DEF RouteTable, RouteHeld
  <2>. QED  BY <2>2, <2>3
<1>4. PrevHeld'
  <2>1. SUFFICES ASSUME NEW e \in DOMAIN deploys,
                        "route" \in deploys'[e].undo, deploys'[e].stage \notin Settled
                 PROVE  \/ Misses(Host(e), TunnelCalls)'
                        \/ deploys'[e].prev = 0
                        \/ /\ Serves(Host(e), deploys[e].prev)'
                           /\ deploys'[deploys'[e].prev].stage \in Settled
    BY <1>1 DEF PrevHeld
  <2>2. \/ Misses(Host(e), TunnelCalls)'
        \/ deploys'[e].prev = 0
        \/ /\ deploys'[e].prev \in DOMAIN deploys /\ deploys'[e].prev # d
           /\ Serves(Host(e), deploys'[e].prev)
           /\ deploys[deploys'[e].prev].stage \in Settled
    <3>1. CASE e = d
      BY <1>1, <1>2, <2>1, <3>1
    <3>2. CASE e # d
      <4>1. deploys'[e] = deploys[e]
        BY <1>1, <3>2
      <4>2. CASE Misses(Host(e), TunnelCalls)
        <5>1. \A h \in Hosts : Misses(h, TunnelCalls) => Misses(h, TunnelCalls)'
          BY MissesGrow
        <5>. QED  BY <1>2, <4>2, <5>1
      <4>3. CASE ~Misses(Host(e), TunnelCalls)
        BY <2>1, <4>1, <4>3 DEF RouteTable, PrevHeld, StepsTo, Serves
      <4>. QED  BY <4>2, <4>3
    <3>. QED  BY <3>1, <3>2
  <2>3. ASSUME /\ deploys'[e].prev \in DOMAIN deploys /\ deploys'[e].prev # d
               /\ Serves(Host(e), deploys'[e].prev)
               /\ deploys[deploys'[e].prev].stage \in Settled
        PROVE  deploys'[e].prev = 0
                 \/ /\ Serves(Host(e), deploys[e].prev)'
                    /\ deploys'[deploys'[e].prev].stage \in Settled
    <3>1. deploys'[deploys'[e].prev] = deploys[deploys'[e].prev]
      BY <1>1, <2>3
    <3>. QED  BY <1>1, <1>2, <2>3, <3>1 DEF Serves, Host
  <2>. QED  BY <2>2, <2>3
<1>. QED  BY <1>3, <1>4 DEF RouteTable

(* A step that leaves the routes and d's hold on them alone. *)
LEMMA RouteFrame ==
  ASSUME Typed, RouteTable, NEW d \in DOMAIN deploys, NEW v, StepsTo(d, v),
         v.prev = deploys[d].prev,
         "route" \in v.undo <=> "route" \in deploys[d].undo,
         routes' = routes
  PROVE  RouteTable'
<1>1. /\ DOMAIN deploys' = DOMAIN deploys /\ deploys'[d] = v
      /\ \A e \in DOMAIN deploys : e # d => deploys'[e] = deploys[e]
      /\ \A e \in DOMAIN deploys : deploys'[e].host = deploys[e].host
      /\ Host(d)' = Host(d) /\ Host(d) \in Hosts
  BY StepEffect, DeployTyped DEF StepsTo, Host
<1>2. Misses(Host(d), TunnelCalls) => Misses(Host(d), TunnelCalls)'
  <2>1. \A h \in Hosts : Misses(h, TunnelCalls) => Misses(h, TunnelCalls)'
    BY MissesGrow
  <2>. QED  BY <1>1, <2>1
<1>3. Serves(Host(d), routes[Host(d)]) => Serves(Host(d), routes[Host(d)])'
  BY <1>1 DEF Serves, Host
<1>4. Misses(Host(d), TunnelCalls)' \/ Serves(Host(d), routes[Host(d)])'
  BY <1>1, <1>2, <1>3 DEF RouteTable, RouteHeld
<1>5. "route" \in v.undo /\ v.stage \notin Settled
        => \/ Misses(Host(d), TunnelCalls)'
           \/ v.prev = 0
           \/ /\ v.prev \in DOMAIN deploys /\ v.prev # d
              /\ Serves(Host(d), v.prev) /\ deploys[v.prev].stage \in Settled
  BY <1>2 DEF RouteTable, PrevHeld, StepsTo, Serves
<1>. QED  BY <1>4, <1>5, RouteTableKept

(* A missed call to the tunnel ends what is claimed of d's hostname. *)
LEMMA RouteMissed ==
  ASSUME Typed, RouteTable, NEW d \in DOMAIN deploys, NEW v, StepsTo(d, v),
         v.missed \cap TunnelCalls # {},
         \A h \in Hosts : h # Host(d) => routes'[h] = routes[h]
  PROVE  RouteTable'
<1>1. DOMAIN deploys' = DOMAIN deploys /\ deploys'[d] = v
  BY StepEffect DEF StepsTo
<1>2. Misses(Host(d), TunnelCalls)'
  BY <1>1 DEF Misses, TunnelCalls
<1>. QED  BY <1>2, RouteTableKept

(* The fields that a forward call leaves, spelled out. *)
LEMMA CalledCases ==
  ASSUME Typed, NEW d \in DOMAIN deploys, NEW call \in Forward,
         NEW ok \in DeployFields, NEW applied \in BOOLEAN,
         SameArtefact(ok, deploys[d]), ok.missed = deploys[d].missed,
         deploys[d].stage \in Running,
         Called(d, call, ok, applied)
  PROVE  \E v \in DeployFields :
           /\ StepsTo(d, v)
           /\ \/ applied /\ v = ok
              \/ /\ v.undo = deploys[d].undo /\ v.prev = deploys[d].prev
                 /\ v.stage = IF v.undo = {} THEN "failed" ELSE "rolling-back"
                 /\ \/ ~applied /\ v.missed = deploys[d].missed
                    \/ applied /\ v.missed = deploys[d].missed \cup {call}
<1>1. deploys[d] \in DeployFields /\ deploys[d].stage \notin Settled
  BY DeployTyped DEF Running, Settled
<1>2. CASE applied /\ Step(d, ok)
  BY <1>1, <1>2 DEF StepsTo
<1>3. CASE ~applied /\ Step(d, Fail(deploys[d]))
  BY <1>1, <1>3, FailFields DEF StepsTo, SameArtefact
<1>4. CASE applied /\ Step(d, Fail(Miss(deploys[d], call)))
  <2> DEFINE m == Miss(deploys[d], call)
  <2>1. m \in DeployFields /\ SameArtefact(m, deploys[d]) /\ m.prev = deploys[d].prev
          /\ m.undo = deploys[d].undo /\ m.missed = deploys[d].missed \cup {call}
    BY <1>1, MissFields DEF SameArtefact
  <2>2. Fail(m) \in DeployFields /\ SameArtefact(Fail(m), m) /\ Fail(m).prev = m.prev
          /\ Fail(m).undo = m.undo /\ Fail(m).missed = m.missed
          /\ Fail(m).stage = IF m.undo = {} THEN "failed" ELSE "rolling-back"
    BY <2>1, FailFields DEF SameArtefact
  <2>. HIDE DEF m
  <2>. QED  BY <1>1, <1>4, <2>1, <2>2 DEF StepsTo, SameArtefact, m
<1>. QED  BY <1>2, <1>3, <1>4 DEF Called

LEMMA UndoneCases ==
  ASSUME Typed, NEW d \in DOMAIN deploys, NEW call \in Backward,
         NEW effect \in SideEffects, NEW applied \in BOOLEAN,
         deploys[d].stage \in Running,
         Undone(d, call, effect, applied)
  PROVE  \E v \in DeployFields :
           /\ StepsTo(d, v)
           /\ v.undo = deploys[d].undo \ {effect} /\ v.prev = deploys[d].prev
           /\ v.stage = IF v.undo = {} THEN "failed" ELSE "rolling-back"
           /\ \/ applied /\ v.missed = deploys[d].missed
              \/ ~applied /\ v.missed = deploys[d].missed \cup {call}
<1> DEFINE u == [deploys[d] EXCEPT !.undo = @ \ {effect}]
           m == Miss(u, call)
<1>1. deploys[d] \in DeployFields /\ deploys[d].stage \notin Settled
  BY DeployTyped DEF Running, Settled
<1>2. u \in DeployFields /\ SameArtefact(u, deploys[d]) /\ u.prev = deploys[d].prev
        /\ u.undo = deploys[d].undo \ {effect} /\ u.missed = deploys[d].missed
  BY <1>1 DEF DeployFields, SameArtefact
<1>3. (applied /\ Step(d, Fail(u))) \/ (~applied /\ Step(d, Fail(m)))
  BY DEF Undone
<1>. HIDE DEF u
<1>4. CASE applied /\ Step(d, Fail(u))
  BY <1>1, <1>2, <1>4, FailFields DEF StepsTo, SameArtefact
<1>5. CASE ~applied /\ Step(d, Fail(m))
  <2>1. m \in DeployFields /\ SameArtefact(m, u) /\ m.prev = u.prev
          /\ m.undo = u.undo /\ m.missed = u.missed \cup {call}
    BY <1>2, MissFields DEF SameArtefact
  <2>2. Fail(m) \in DeployFields /\ SameArtefact(Fail(m), m) /\ Fail(m).prev = m.prev
          /\ Fail(m).undo = m.undo /\ Fail(m).missed = m.missed
          /\ Fail(m).stage = IF m.undo = {} THEN "failed" ELSE "rolling-back"
    BY <2>1, FailFields DEF SameArtefact
  <2>. HIDE DEF m
  <2>. QED  BY <1>1, <1>2, <1>5, <2>1, <2>2 DEF StepsTo, SameArtefact, m
<1>. QED  BY <1>3, <1>4, <1>5

(* The deployment a running one found on its hostname had settled. *)
LEMMA ServedIsSettled ==
  ASSUME Queue, Registry, NEW d \in DOMAIN deploys, deploys[d].stage = "routing",
         NEW r, r # 0, Serves(Host(d), r)
  PROVE  r \in DOMAIN deploys /\ r # d /\ deploys[r].stage \in Settled
<1>1. /\ r \in DOMAIN deploys /\ "route" \in deploys[r].undo
      /\ Tenant(r) = Tenant(d) /\ r \in Nat /\ d \in Nat
  BY DeployTyped DEF Serves, Tenant, Queue
<1>2. r # d
  BY <1>1 DEF Registry, Shaped, Shape
<1>3. deploys[r].stage # "waiting"
  BY <1>1 DEF Registry, Shaped, Shape
<1>4. CASE r < d
  BY <1>1, <1>4 DEF Queue, FirstInFirstOut
<1>5. CASE d < r
  <2>1. deploys[d].stage \in Settled
    BY <1>1, <1>3, <1>5 DEF Queue, FirstInFirstOut
  <2>. QED  BY <2>1 DEF Settled
<1>. QED  BY <1>1, <1>2, <1>4, <1>5

(* The steps that call no service, or whose call changes none. *)
LEMMA LocalStep ==
  ASSUME Queue, Registry, RouteTable, NEW d \in DOMAIN deploys,
         Begin(d) \/ Read(d) \/ Probe(d) \/ Warm(d)
  PROVE  Registry' /\ RouteTable'
<1> DEFINE v == deploys[d]
<1>1. v \in DeployFields /\ Typed
  BY DeployTyped DEF Queue
<1>2. routes' = routes /\ bundles' = bundles
  BY DEF Begin, Read, Probe, Warm
<1>3. Shape(v) /\ ("bundle" \in v.undo => d \in bundles)
        /\ (d \in bundles /\ v.missed \cap EdgeCalls = {} => "bundle" \in v.undo)
  BY DEF Registry, Shaped, Held, Recorded
<1>4. ASSUME NEW w, StepsTo(d, w), Shape(w), w.undo = v.undo, w.missed = v.missed,
             w.prev = v.prev
      PROVE  Registry' /\ RouteTable'
  BY <1>1, <1>2, <1>3, <1>4, RegistryKept, RouteFrame
<1>5. ASSUME Step(d, Fail(v)), v.stage \in {"reading", "health-checking"}
      PROVE  Registry' /\ RouteTable'
  <2>1. /\ Fail(v) \in DeployFields /\ SameArtefact(Fail(v), v)
        /\ Fail(v).undo = v.undo /\ Fail(v).missed = v.missed /\ Fail(v).prev = v.prev
        /\ Fail(v).stage = IF v.undo = {} THEN "failed" ELSE "rolling-back"
    BY <1>1, FailFields DEF SameArtefact
  <2>2. StepsTo(d, Fail(v)) /\ Shape(Fail(v))
    BY <1>3, <1>5, <2>1 DEF StepsTo, Shape, Settled
  <2>. QED  BY <1>4, <2>1, <2>2
<1>6. ASSUME NEW next \in Running \cup Settled, Step(d, [v EXCEPT !.stage = next]),
             v.stage \notin Settled, Shape([v EXCEPT !.stage = next])
      PROVE  Registry' /\ RouteTable'
  <2> DEFINE w == [v EXCEPT !.stage = next]
  <2>1. w \in DeployFields /\ SameArtefact(w, v) /\ w.undo = v.undo
          /\ w.missed = v.missed /\ w.prev = v.prev
    BY <1>1 DEF DeployFields, SameArtefact
  <2>2. StepsTo(d, w)
    BY <1>6, <2>1 DEF StepsTo
  <2>3. Shape(w)
    BY <1>6
  <2>. HIDE DEF w
  <2>. QED  BY <1>4, <2>1, <2>2, <2>3
<1>7. CASE Begin(d)
  <2>1. PICK stage \in {"uploading", "rejected"} : Step(d, [v EXCEPT !.stage = stage])
    BY <1>7 DEF Begin
  <2>2. v.stage = "waiting"
    BY <1>7 DEF Begin, MayRun
  <2>3. Shape([v EXCEPT !.stage = stage])
    BY <1>1, <1>3, <2>2 DEF Shape, DeployFields
  <2>4. stage \in Running \cup Settled /\ v.stage \notin Settled
    BY <2>2 DEF Running, Settled
  <2>. QED  BY <1>6, <2>1, <2>3, <2>4
<1>8. CASE Read(d)
  <2>1. v.stage = "reading"
    BY <1>8 DEF Read
  <2>2. "registering" \in Running \cup Settled /\ v.stage \notin Settled
          /\ Shape([v EXCEPT !.stage = "registering"])
    BY <1>1, <1>3, <2>1 DEF Shape, DeployFields, Running, Settled
  <2>. QED  BY <1>5, <1>6, <1>8, <2>1, <2>2 DEF Read
<1>9. CASE Probe(d)
  <2> DEFINE next == IF v.prev = 0 THEN "live" ELSE "swapping"
  <2>1. v.stage = "health-checking"
    BY <1>9 DEF Probe
  <2>2. next \in {"live", "swapping"}
    OBVIOUS
  <2>3. Step(d, [v EXCEPT !.stage = next]) \/ Step(d, Fail(v))
    BY <1>9 DEF Probe
  <2>. HIDE DEF next
  <2>4. next \in Running \cup Settled /\ v.stage \notin Settled
          /\ Shape([v EXCEPT !.stage = next])
    BY <1>1, <1>3, <2>1, <2>2 DEF Shape, DeployFields, Running, Settled
  <2>. QED  BY <1>5, <1>6, <2>1, <2>3, <2>4
<1>10. CASE Warm(d)
  <2>1. v.stage = "swapping"
    BY <1>10 DEF Warm
  <2>2. "live" \in Running \cup Settled /\ v.stage \notin Settled
          /\ Shape([v EXCEPT !.stage = "live"])
    BY <1>1, <1>3, <2>1 DEF Shape, DeployFields, Running, Settled
  <2>. QED  BY <1>6, <1>10, <2>2 DEF Warm
<1>. QED  BY <1>7, <1>8, <1>9, <1>10

(* Upload and UndoObject: neither the registry nor the routes change. *)
LEMMA ObjectStep ==
  ASSUME Queue, Registry, RouteTable, NEW d \in DOMAIN deploys,
         Upload(d) \/ UndoObject(d)
  PROVE  Registry' /\ RouteTable'
<1> DEFINE v == deploys[d]
<1>1. v \in DeployFields /\ Typed
  BY DeployTyped DEF Queue
<1>2. routes' = routes /\ bundles' = bundles
  BY DEF Upload, UndoObject
<1>3. Shape(v) /\ ("bundle" \in v.undo => d \in bundles)
        /\ (d \in bundles /\ v.missed \cap EdgeCalls = {} => "bundle" \in v.undo)
  BY DEF Registry, Shaped, Held, Recorded
<1>4. v.undo = {} \/ v.undo = {"object"}
  BY <1>3 DEF Upload, UndoObject, Shape
<1>5. ASSUME NEW w, StepsTo(d, w), w.prev = v.prev, Shape(w),
             "bundle" \notin w.undo, "route" \notin w.undo
      PROVE  Registry' /\ RouteTable'
  <2>1. d \in bundles' /\ w.missed \cap EdgeCalls = {} => "bundle" \in w.undo
    BY <1>2, <1>3, <1>4, <1>5 DEF StepsTo
  <2>2. Registry'
    BY <1>1, <1>2, <1>5, <2>1, RegistryKept
  <2>3. RouteTable'
    BY <1>1, <1>2, <1>4, <1>5, RouteFrame
  <2>. QED  BY <2>2, <2>3
<1>6. CASE Upload(d)
  <2> DEFINE ok == Succeed(v, "reading", "object")
  <2>1. ok \in DeployFields /\ SameArtefact(ok, v) /\ ok.missed = v.missed
          /\ ok.prev = v.prev /\ ok.stage = "reading" /\ ok.undo = v.undo \cup {"object"}
    BY <1>1, SucceedFields DEF Running, SideEffects, SameArtefact
  <2>2. PICK applied \in BOOLEAN : Called(d, "put", ok, applied)
    BY <1>6 DEF Upload
  <2>3. v.stage = "uploading" /\ v.undo = {}
    BY <1>3, <1>6 DEF Upload, Shape
  <2>. HIDE DEF ok
  <2>4. PICK w \in DeployFields :
          /\ StepsTo(d, w)
          /\ \/ w = ok
             \/ /\ w.undo = v.undo /\ w.prev = v.prev
                /\ w.stage = IF w.undo = {} THEN "failed" ELSE "rolling-back"
    BY <1>1, <2>1, <2>2, <2>3, CalledCases DEF Running, Forward
  <2>5. Shape(w) /\ "bundle" \notin w.undo /\ "route" \notin w.undo /\ w.prev = v.prev
    BY <2>1, <2>3, <2>4 DEF Shape
  <2>. QED  BY <1>5, <2>4, <2>5
<1>7. CASE UndoObject(d)
  <2>1. v.stage = "rolling-back" /\ v.undo = {"object"}
    BY <1>7 DEF UndoObject
  <2>2. PICK applied \in BOOLEAN : Undone(d, "unput", "object", applied)
    BY <1>7 DEF UndoObject
  <2>3. PICK w \in DeployFields :
          /\ StepsTo(d, w)
          /\ w.undo = v.undo \ {"object"} /\ w.prev = v.prev
          /\ w.stage = IF w.undo = {} THEN "failed" ELSE "rolling-back"
    BY <1>1, <2>1, <2>2, UndoneCases DEF Running, Backward, SideEffects
  <2>4. Shape(w) /\ "bundle" \notin w.undo /\ "route" \notin w.undo
    BY <2>1, <2>3 DEF Shape
  <2>. QED  BY <1>5, <2>3, <2>4
<1>. QED  BY <1>6, <1>7

(* RegisterBundle and UndoBundle: the routes do not change. *)
LEMMA BundleStep ==
  ASSUME Queue, Registry, RouteTable, NEW d \in DOMAIN deploys,
         RegisterBundle(d) \/ UndoBundle(d)
  PROVE  Registry' /\ RouteTable'
<1> DEFINE v == deploys[d]
<1>1. v \in DeployFields /\ Typed /\ routes' = routes
  BY DeployTyped DEF Queue, RegisterBundle, UndoBundle
<1>2. Shape(v) /\ ("bundle" \in v.undo => d \in bundles)
        /\ (d \in bundles /\ v.missed \cap EdgeCalls = {} => "bundle" \in v.undo)
  BY DEF Registry, Shaped, Held, Recorded
<1>3. CASE RegisterBundle(d)
  <2> DEFINE ok == Succeed(v, "routing", "bundle")
  <2>1. ok \in DeployFields /\ SameArtefact(ok, v) /\ ok.missed = v.missed
          /\ ok.prev = v.prev /\ ok.stage = "routing" /\ ok.undo = v.undo \cup {"bundle"}
    BY <1>1, SucceedFields DEF Running, SideEffects, SameArtefact
  <2>2. v.stage = "registering" /\ v.undo = {"object"}
    BY <1>2, <1>3 DEF RegisterBundle, Shape
  <2>3. PICK applied \in BOOLEAN :
          /\ Called(d, "register", ok, applied)
          /\ bundles' = IF applied THEN bundles \cup {d} ELSE bundles
    BY <1>3 DEF RegisterBundle
  <2>. HIDE DEF ok
  <2>4. PICK w \in DeployFields :
          /\ StepsTo(d, w)
          /\ \/ applied /\ w = ok
             \/ /\ w.undo = v.undo /\ w.prev = v.prev
                /\ w.stage = IF w.undo = {} THEN "failed" ELSE "rolling-back"
                /\ \/ ~applied /\ w.missed = v.missed
                   \/ applied /\ w.missed = v.missed \cup {"register"}
    BY <1>1, <2>1, <2>2, <2>3, CalledCases DEF Running, Forward
  <2>5. Shape(w) /\ ("bundle" \in w.undo => d \in bundles')
    BY <2>1, <2>2, <2>3, <2>4 DEF Shape
  <2>6. d \in bundles' /\ w.missed \cap EdgeCalls = {} => "bundle" \in w.undo
    BY <1>2, <2>1, <2>2, <2>3, <2>4 DEF EdgeCalls
  <2>7. Registry'
    BY <1>1, <2>3, <2>4, <2>5, <2>6, RegistryKept
  <2>8. w.prev = v.prev /\ "route" \notin w.undo /\ "route" \notin v.undo
    BY <2>1, <2>2, <2>4
  <2>. QED  BY <1>1, <2>4, <2>7, <2>8, RouteFrame
<1>4. CASE UndoBundle(d)
  <2>1. v.stage = "rolling-back" /\ "route" \notin v.undo
    BY <1>4 DEF UndoBundle
  <2>2. PICK applied \in BOOLEAN :
          /\ Undone(d, "unregister", "bundle", applied)
          /\ bundles' = IF applied THEN bundles \ {d} ELSE bundles
    BY <1>4 DEF UndoBundle
  <2>3. PICK w \in DeployFields :
          /\ StepsTo(d, w)
          /\ w.undo = v.undo \ {"bundle"} /\ w.prev = v.prev
          /\ w.stage = IF w.undo = {} THEN "failed" ELSE "rolling-back"
          /\ \/ applied /\ w.missed = v.missed
             \/ ~applied /\ w.missed = v.missed \cup {"unregister"}
    <3>1. "unregister" \in Backward /\ "bundle" \in SideEffects
            /\ deploys[d].stage \in Running
      BY <2>1 DEF Running, Backward, SideEffects
    <3>2. Undone(d, "unregister", "bundle", applied)
      BY <2>2
    <3>. QED  BY <1>1, <3>1, <3>2, UndoneCases
  <2>4. Shape(w) /\ "bundle" \notin w.undo /\ "route" \notin w.undo
    BY <2>1, <2>3 DEF Shape
  <2>5. ~(d \in bundles' /\ w.missed \cap EdgeCalls = {})
    BY <2>2, <2>3 DEF EdgeCalls
  <2>6. Registry'
    BY <1>1, <2>2, <2>3, <2>4, <2>5, RegistryKept
  <2>. QED  BY <1>1, <2>1, <2>3, <2>4, <2>6, RouteFrame
<1>. QED  BY <1>3, <1>4

(* Swap: the only step that moves a route to a new bundle. *)
LEMMA SwapStep ==
  ASSUME Queue, Registry, RouteTable, NEW d \in DOMAIN deploys, Swap(d)
  PROVE  Registry' /\ RouteTable'
<1> DEFINE v == deploys[d]
           h == Host(d)
           s == Succeed(v, "health-checking", "route")
           ok == [s EXCEPT !.prev = routes[h]]
<1>1. v \in DeployFields /\ Typed /\ bundles' = bundles /\ h \in Hosts
        /\ v.stage = "routing" /\ v.stage \in Running
  BY DeployTyped DEF Queue, Swap, Running
<1>2. Shape(v) /\ ("bundle" \in v.undo => d \in bundles)
        /\ (d \in bundles /\ v.missed \cap EdgeCalls = {} => "bundle" \in v.undo)
  BY DEF Registry, Shaped, Held, Recorded
<1>3. v.undo = {"object", "bundle"} /\ d \in bundles
  BY <1>1, <1>2 DEF Shape
<1>4. routes \in [Hosts -> Refs] /\ routes[h] \in Nat
  BY <1>1 DEF Typed, TypeOK, Refs
<1>5. PICK applied \in BOOLEAN :
        /\ Called(d, "swap", ok, applied)
        /\ routes' = IF applied THEN [routes EXCEPT ![h] = d] ELSE routes
  BY DEF Swap
<1>6. s \in DeployFields /\ SameArtefact(s, v) /\ s.missed = v.missed
        /\ s.stage = "health-checking" /\ s.undo = v.undo \cup {"route"}
  BY <1>1, SucceedFields DEF Running, SideEffects, SameArtefact
<1>. HIDE DEF s
<1>7. ok \in DeployFields /\ SameArtefact(ok, v) /\ ok.missed = v.missed
        /\ ok.stage = "health-checking" /\ ok.undo = v.undo \cup {"route"}
        /\ ok.prev = routes[h]
  BY <1>4, <1>6 DEF DeployFields, SameArtefact
<1>. HIDE DEF ok
<1>8. PICK w \in DeployFields :
        /\ StepsTo(d, w)
        /\ \/ applied /\ w = ok
           \/ /\ w.undo = v.undo /\ w.prev = v.prev
              /\ w.stage = IF w.undo = {} THEN "failed" ELSE "rolling-back"
              /\ \/ ~applied /\ w.missed = v.missed
                 \/ applied /\ w.missed = v.missed \cup {"swap"}
  <2>1. "swap" \in Forward
    BY DEF Forward
  <2>2. Typed /\ ok \in DeployFields /\ SameArtefact(ok, deploys[d])
          /\ ok.missed = deploys[d].missed /\ deploys[d].stage \in Running
    BY <1>1, <1>7
  <2>3. Called(d, "swap", ok, applied)
    BY <1>5
  <2>4. \E w \in DeployFields :
          /\ StepsTo(d, w)
          /\ \/ applied /\ w = ok
             \/ /\ w.undo = deploys[d].undo /\ w.prev = deploys[d].prev
                /\ w.stage = IF w.undo = {} THEN "failed" ELSE "rolling-back"
                /\ \/ ~applied /\ w.missed = deploys[d].missed
                   \/ applied /\ w.missed = deploys[d].missed \cup {"swap"}
    <3> HIDE DEF v, h
    <3>. QED  BY <2>1, <2>2, <2>3, CalledCases, SMTT(30)
  <2>. QED  BY <2>4
<1>9. Registry'
  <2>1. Shape(w) /\ "bundle" \in w.undo
    BY <1>3, <1>7, <1>8 DEF Shape, SideEffects
  <2>. QED  BY <1>1, <1>3, <1>8, <2>1, RegistryKept
<1>10. CASE applied /\ w = ok
  <2>1. /\ DOMAIN deploys' = DOMAIN deploys /\ deploys'[d] = w /\ Host(d)' = h
    BY <1>1, <1>8, StepEffect DEF StepsTo, Host
  <2>2. routes'[h] = d /\ \A g \in Hosts : g # h => routes'[g] = routes[g]
    BY <1>1, <1>4, <1>5, <1>10
  <2>3. Serves(h, routes[h])'
    BY <1>7, <1>10, <2>1, <2>2 DEF Serves, Host
  <2>4. \/ Misses(h, TunnelCalls)'
        \/ w.prev = 0
        \/ /\ w.prev \in DOMAIN deploys /\ w.prev # d
           /\ Serves(h, w.prev) /\ deploys[w.prev].stage \in Settled
    <3>1. \A g \in Hosts : Misses(g, TunnelCalls) => Misses(g, TunnelCalls)'
      BY <1>1, <1>8, MissesGrow
    <3>2. CASE Misses(h, TunnelCalls)
      BY <1>1, <2>1, <3>1, <3>2
    <3>3. CASE Serves(h, routes[h]) /\ routes[h] # 0
      <4>1. routes[h] \in DOMAIN deploys /\ routes[h] # d
              /\ deploys[routes[h]].stage \in Settled
        BY <1>1, <3>3, ServedIsSettled
      <4>. QED  BY <1>7, <1>10, <3>3, <4>1
    <3>4. CASE routes[h] = 0
      BY <1>7, <1>10, <3>4
    <3>. QED  BY <1>1, <3>2, <3>3, <3>4 DEF RouteTable, RouteHeld
  <2>5. RouteTable'
    BY <1>1, <1>8, <2>2, <2>3, <2>4, RouteTableKept
  <2>. QED  BY <1>9, <2>5
<1>11. CASE ~applied /\ w.undo = v.undo /\ w.prev = v.prev
  <2>1. routes' = routes
    BY <1>5, <1>11
  <2>. QED  BY <1>1, <1>8, <1>9, <1>11, <2>1, RouteFrame
<1>12. CASE applied /\ w.missed = v.missed \cup {"swap"}
  <2>1. w.missed \cap TunnelCalls # {}
    BY <1>12 DEF TunnelCalls
  <2>2. \A g \in Hosts : g # h => routes'[g] = routes[g]
    BY <1>4, <1>5, <1>12
  <2>. QED  BY <1>1, <1>8, <1>9, <2>1, <2>2, RouteMissed
<1>. QED  BY <1>8, <1>10, <1>11, <1>12

(* UndoRoute: the route goes back to the bundle the swap answered. *)
LEMMA UndoRouteStep ==
  ASSUME Queue, Registry, RouteTable, NEW d \in DOMAIN deploys, UndoRoute(d)
  PROVE  Registry' /\ RouteTable'
<1> DEFINE v == deploys[d]
           h == Host(d)
<1>1. v \in DeployFields /\ Typed /\ bundles' = bundles /\ h \in Hosts
        /\ v.stage = "rolling-back" /\ v.stage \in Running /\ v.stage \notin Settled
        /\ "route" \in v.undo
  BY DeployTyped DEF Queue, UndoRoute, Running, Settled
<1>2. Shape(v) /\ "bundle" \in v.undo /\ d \in bundles
  BY <1>1 DEF Registry, Shaped, Shape, Held
<1>3. routes \in [Hosts -> Refs]
  BY DEF Queue, Typed, TypeOK, Refs
<1>4. PICK applied \in BOOLEAN :
        /\ Undone(d, "restore", "route", applied)
        /\ routes' = IF applied THEN [routes EXCEPT ![h] = v.prev] ELSE routes
  BY DEF UndoRoute
<1>5. PICK w \in DeployFields :
        /\ StepsTo(d, w)
        /\ w.undo = v.undo \ {"route"} /\ w.prev = v.prev
        /\ w.stage = IF w.undo = {} THEN "failed" ELSE "rolling-back"
        /\ \/ applied /\ w.missed = v.missed
           \/ ~applied /\ w.missed = v.missed \cup {"restore"}
  <2>1. "restore" \in Backward /\ "route" \in SideEffects
    BY DEF Backward, SideEffects
  <2>2. Undone(d, "restore", "route", applied)
    BY <1>4
  <2>. QED  BY <1>1, <2>1, <2>2, UndoneCases
<1>6. Registry'
  <2>1. Shape(w) /\ "bundle" \in w.undo
    BY <1>2, <1>5 DEF Shape
  <2>. QED  BY <1>1, <1>2, <1>5, <2>1, RegistryKept
<1>7. CASE applied
  <2>1. /\ DOMAIN deploys' = DOMAIN deploys /\ Host(d)' = h
        /\ \A e \in DOMAIN deploys : e # d => deploys'[e] = deploys[e]
    BY <1>1, <1>5, StepEffect DEF StepsTo, Host
  <2>2. routes'[h] = v.prev /\ \A g \in Hosts : g # h => routes'[g] = routes[g]
    BY <1>1, <1>3, <1>4, <1>7
  <2>3. Misses(h, TunnelCalls)' \/ Serves(h, routes[h])'
    <3>1. \A g \in Hosts : Misses(g, TunnelCalls) => Misses(g, TunnelCalls)'
      BY <1>1, <1>5, MissesGrow
    <3>2. CASE Misses(h, TunnelCalls)
      BY <1>1, <2>1, <3>1, <3>2
    <3>3. CASE v.prev = 0
      BY <2>1, <2>2, <3>3 DEF Serves
    <3>4. CASE v.prev # 0 /\ Serves(h, v.prev) /\ deploys[v.prev].stage \in Settled
      <4>1. v.prev \in DOMAIN deploys /\ v.prev # d /\ deploys[v.prev].host = h
              /\ "route" \in deploys[v.prev].undo
        BY <1>1, <3>4 DEF Serves, Host
      <4>2. deploys'[v.prev] = deploys[v.prev]
        BY <2>1, <4>1
      <4>3. routes'[h] \in DOMAIN deploys' /\ deploys'[routes'[h]].host = h
              /\ "route" \in deploys'[routes'[h]].undo
        BY <2>1, <2>2, <4>1, <4>2
      <4>. QED  BY <2>1, <4>3 DEF Serves, Host
    <3>. QED  BY <1>1, <3>2, <3>3, <3>4 DEF RouteTable, PrevHeld
  <2>4. "route" \notin w.undo
    BY <1>5
  <2>5. RouteTable'
    BY <1>1, <1>5, <2>2, <2>3, <2>4, RouteTableKept
  <2>. QED  BY <1>6, <2>5
<1>8. CASE ~applied
  <2>1. w.missed \cap TunnelCalls # {} /\ routes' = routes
    BY <1>4, <1>5, <1>8 DEF TunnelCalls
  <2>. QED  BY <1>1, <1>5, <1>6, <2>1, RouteMissed
<1>. QED  BY <1>7, <1>8

-------------------------------------------------------------------------------
LEMMA EnqueueKeepsRoutes ==
  ASSUME Queue, Registry, RouteTable, NEW h \in Hosts, NEW b \in Builds, Enqueue(h, b)
  PROVE  Registry' /\ RouteTable'
<1>1. PICK n \in Nat \ {0} :
      /\ n \notin DOMAIN deploys
      /\ DOMAIN deploys' = DOMAIN deploys \cup {n}
      /\ deploys'[n] = NewDeploy(h, b, tails[Owner[h]])
      /\ \A d \in DOMAIN deploys : deploys'[d] = deploys[d]
  BY EnqueueEffect DEF Queue
<1>2. /\ deploys'[n].undo = {} /\ deploys'[n].missed = {}
      /\ deploys'[n].stage = "waiting"
      /\ routes' = routes /\ bundles' = bundles /\ n \notin bundles
  BY <1>1 DEF NewDeploy, Enqueue, Queue, Typed, TypeOK
<1>3. Registry'
  <2>1. Shaped'
    BY <1>1, <1>2 DEF Registry, Shaped, Shape
  <2>2. Held' /\ Recorded'
    BY <1>1, <1>2 DEF Registry, Held, Recorded
  <2>. QED  BY <2>1, <2>2 DEF Registry
<1>4. ASSUME NEW g \in Hosts, Misses(g, TunnelCalls)
      PROVE  Misses(g, TunnelCalls)'
  BY <1>1, <1>4 DEF Misses, Host, TunnelCalls
<1>5. ASSUME NEW g \in Hosts, NEW r, Serves(g, r)
      PROVE  r = 0 \/ (/\ r \in DOMAIN deploys' /\ deploys'[r].host = g
                       /\ "route" \in deploys'[r].undo /\ deploys'[r] = deploys[r])
  BY <1>1, <1>5 DEF Serves, Host
<1>6. RouteHeld'
  <2>1. ASSUME NEW g \in Hosts, Serves(g, routes[g])
        PROVE  Serves(g, routes[g])'
    <3>1. routes[g] = 0 \/ (/\ routes[g] \in DOMAIN deploys' /\ deploys'[routes[g]].host = g
                            /\ "route" \in deploys'[routes[g]].undo)
      BY <1>5, <2>1
    <3>. QED  BY <1>2, <3>1 DEF Serves, Host
  <2>. QED  BY <1>4, <2>1 DEF RouteTable, RouteHeld
<1>7. PrevHeld'
  <2>1. SUFFICES ASSUME NEW e \in DOMAIN deploys',
                        "route" \in deploys'[e].undo, deploys'[e].stage \notin Settled
                 PROVE  \/ Misses(Host(e), TunnelCalls)'
                        \/ deploys'[e].prev = 0
                        \/ /\ Serves(Host(e), deploys[e].prev)'
                           /\ deploys'[deploys'[e].prev].stage \in Settled
    BY DEF PrevHeld
  <2>2. e \in DOMAIN deploys /\ deploys'[e] = deploys[e] /\ Host(e)' = Host(e)
          /\ Host(e) \in Hosts
    <3>1. e \in DOMAIN deploys
      BY <1>1, <1>2, <2>1
    <3>. QED  BY <1>1, <3>1, DeployTyped DEF Host, Queue
  <2>3. CASE Misses(Host(e), TunnelCalls)
    <3>1. \A g \in Hosts : Misses(g, TunnelCalls) => Misses(g, TunnelCalls)'
      BY <1>4
    <3>. QED  BY <2>2, <2>3, <3>1
  <2>4. CASE /\ deploys[e].prev # 0 /\ Serves(Host(e), deploys[e].prev)
             /\ deploys[deploys[e].prev].stage \in Settled
    <3>1. /\ deploys[e].prev \in DOMAIN deploys'
          /\ deploys'[deploys[e].prev].host = Host(e)
          /\ "route" \in deploys'[deploys[e].prev].undo
          /\ deploys'[deploys[e].prev].stage \in Settled
      BY <1>5, <2>2, <2>4
    <3>. QED  BY <2>2, <3>1 DEF Serves, Host
  <2>5. CASE deploys[e].prev = 0
    BY <2>2, <2>5
  <2>. QED  BY <2>1, <2>2, <2>3, <2>4, <2>5 DEF RouteTable, PrevHeld
<1>. QED  BY <1>3, <1>6, <1>7 DEF RouteTable

LEMMA CrashKeepsRoutes ==
  ASSUME Queue, Registry, RouteTable, Crash
  PROVE  Registry' /\ RouteTable'
<1>1. /\ DOMAIN deploys' = DOMAIN deploys
      /\ \A d \in DOMAIN deploys :
           /\ deploys'[d].stage \in Settled
           /\ deploys'[d].stage \in {deploys[d].stage, "lost"}
           /\ deploys'[d].host = deploys[d].host
           /\ deploys'[d].undo = deploys[d].undo
           /\ deploys'[d].missed = deploys[d].missed
      /\ routes' = routes /\ bundles' = bundles
  BY CrashEffect DEF Queue, SameArtefact
<1>2. Registry'
  <2>1. ASSUME NEW d \in DOMAIN deploys PROVE Shape(deploys'[d])
    <3>1. Shape(deploys[d])
      BY DEF Registry, Shaped
    <3>. QED  BY <1>1, <3>1 DEF Shape
  <2>2. Shaped'
    BY <1>1, <2>1 DEF Shaped, Shape
  <2>3. Held' /\ Recorded'
    BY <1>1 DEF Registry, Held, Recorded, EdgeCalls
  <2>. QED  BY <2>2, <2>3 DEF Registry
<1>3. PrevHeld'
  BY <1>1 DEF PrevHeld
<1>4. RouteHeld'
  <2>1. ASSUME NEW g \in Hosts, Misses(g, TunnelCalls)
        PROVE  Misses(g, TunnelCalls)'
    BY <1>1, <2>1 DEF Misses, Host, TunnelCalls
  <2>2. ASSUME NEW g \in Hosts, Serves(g, routes[g])
        PROVE  Serves(g, routes[g])'
    BY <1>1, <2>2 DEF Serves, Host
  <2>. QED  BY <2>1, <2>2 DEF RouteTable, RouteHeld
<1>. QED  BY <1>2, <1>3, <1>4 DEF RouteTable

LEMMA IInvInit == Init => IInv
<1> SUFFICES ASSUME Init PROVE IInv
  OBVIOUS
<1>1. Registry /\ RouteTable
  BY DEF Init, Registry, Shaped, Held, Recorded, RouteTable, RouteHeld, PrevHeld, Serves
<1>. QED  BY <1>1, QueueInit DEF IInv

LEMMA IInvNext == IInv /\ [Next]_vars => IInv'
<1> SUFFICES ASSUME IInv, [Next]_vars PROVE IInv'
  OBVIOUS
<1>1. Queue'
  BY QueueNext DEF IInv
<1>2. Queue /\ Registry /\ RouteTable
  BY DEF IInv
<1>3. ASSUME NEW h \in Hosts, NEW b \in Builds, Enqueue(h, b)
      PROVE  Registry' /\ RouteTable'
  BY <1>2, <1>3, EnqueueKeepsRoutes
<1>4. ASSUME NEW d \in DOMAIN deploys, Advance(d)
      PROVE  Registry' /\ RouteTable'
  <2>1. CASE Begin(d) \/ Read(d) \/ Probe(d) \/ Warm(d)
    BY <1>2, <2>1, LocalStep
  <2>2. CASE Upload(d) \/ UndoObject(d)
    BY <1>2, <2>2, ObjectStep
  <2>3. CASE RegisterBundle(d) \/ UndoBundle(d)
    BY <1>2, <2>3, BundleStep
  <2>4. CASE Swap(d)
    BY <1>2, <2>4, SwapStep
  <2>5. CASE UndoRoute(d)
    BY <1>2, <2>5, UndoRouteStep
  <2>. QED  BY <1>4, <2>1, <2>2, <2>3, <2>4, <2>5 DEF Advance
<1>5. ASSUME Crash PROVE Registry' /\ RouteTable'
  BY <1>2, <1>5, CrashKeepsRoutes
<1>6. ASSUME UNCHANGED vars PROVE Registry' /\ RouteTable'
  BY <1>2, <1>6 DEF vars, Registry, Shaped, Held, Recorded, RouteTable, RouteHeld,
                    PrevHeld, Serves, Misses, Host
<1>. QED  BY <1>1, <1>3, <1>4, <1>5, <1>6 DEF Next, IInv

(* A hostname with no missed tunnel call is never routed to a bundle that  *)
(* the edge runtime does not have, at any moment of any number of          *)
(* deployments, rollbacks and restarts (pipeline.ts 98-120, 176-193).      *)
THEOREM RoutesAlwaysServed == Spec => []RoutesAreServed
<1>1. IInv => RoutesAreServed
  <2> SUFFICES ASSUME IInv, NEW h \in Hosts, ~Misses(h, TunnelCalls), routes[h] # 0
               PROVE  routes[h] \in bundles
    BY DEF RoutesAreServed, TunnelCalls
  <2>1. routes[h] \in DOMAIN deploys /\ "route" \in deploys[routes[h]].undo
    BY DEF IInv, RouteTable, RouteHeld, Serves
  <2>. QED  BY <2>1 DEF IInv, Registry, Shaped, Shape, Held
<1>. QED  BY <1>1, IInvInit, IInvNext, PTL DEF Spec

(* A failed deployment leaves no bundle behind and a live one has its      *)
(* bundle, for every deployment whose calls to the edge runtime were not   *)
(* missed (pipeline.ts 159-172).                                           *)
THEOREM BundlesMatch == Spec => []BundleIffLive
<1>1. IInv => BundleIffLive
  BY DEF IInv, Registry, Shaped, Shape, Held, Recorded, EdgeCalls, SideEffects, BundleIffLive
<1>. QED  BY <1>1, IInvInit, IInvNext, PTL DEF Spec

-------------------------------------------------------------------------------
(***************************************************************************)
(* Giving the route back.  Restored says it without CHOOSE: the route, or  *)
(* what the one deployment that holds it remembers, is the last that went  *)
(* live.  It is inductive beside IInv because a tenant's deployments run   *)
(* one at a time: while one is on its way nobody else swaps the hostname   *)
(* or goes live on it, and whoever is live already came before.            *)
(***************************************************************************)
Live(h) == {d \in DOMAIN deploys : Host(d) = h /\ deploys[d].stage = "live"}

Last(h, r) == r \in Live(h) \cup {0} /\ \A e \in Live(h) : e <= r

Restored(h) ==
  \/ Misses(h, TunnelCalls)
  \/ \E d \in Switched(h) : deploys[d].stage = "lost"
  \/ Switched(h) = {} /\ Last(h, routes[h])
  \/ \E d \in Switched(h) : /\ Switched(h) = {d}
                            /\ routes[h] = d
                            /\ Last(h, deploys[d].prev)

AllRestored == \A h \in Hosts : Restored(h)

(* A hostname whose route, live and switched deployments are the same. *)
LEMMA RestoredKept ==
  ASSUME NEW h \in Hosts, Restored(h), routes'[h] = routes[h],
         Misses(h, TunnelCalls) => Misses(h, TunnelCalls)',
         Switched(h)' = Switched(h), Live(h)' = Live(h),
         \A d \in Switched(h) :
           /\ deploys'[d].prev = deploys[d].prev
           /\ deploys[d].stage = "lost" => deploys'[d].stage = "lost"
  PROVE  Restored(h)'
<1>1. CASE Misses(h, TunnelCalls)
  BY <1>1 DEF Restored
<1>2. CASE \E d \in Switched(h) : deploys[d].stage = "lost"
  BY <1>2 DEF Restored
<1>3. CASE Switched(h) = {} /\ Last(h, routes[h])
  BY <1>3 DEF Restored, Last
<1>4. CASE \E d \in Switched(h) : /\ Switched(h) = {d} /\ routes[h] = d
                                  /\ Last(h, deploys[d].prev)
  <2>1. PICK d \in Switched(h) : /\ Switched(h) = {d} /\ routes[h] = d
                                 /\ Last(h, deploys[d].prev)
    BY <1>4
  <2>2. Last(h, deploys[d].prev)' /\ routes'[h] = d
    BY <2>1 DEF Last
  <2>. QED  BY <2>1, <2>2 DEF Restored
<1>. QED  BY <1>1, <1>2, <1>3, <1>4 DEF Restored

(* A step of d is about its hostname alone. *)
LEMMA RestoredElsewhere ==
  ASSUME Typed, AllRestored, NEW d \in DOMAIN deploys, NEW v, StepsTo(d, v),
         \A h \in Hosts : h # Host(d) => routes'[h] = routes[h],
         Restored(Host(d))'
  PROVE  AllRestored'
<1>1. /\ DOMAIN deploys' = DOMAIN deploys /\ Host(d)' = Host(d)
      /\ \A e \in DOMAIN deploys : e # d => deploys'[e] = deploys[e]
      /\ \A e \in DOMAIN deploys : deploys'[e].host = deploys[e].host
  BY StepEffect DEF StepsTo, Host
<1>2. ASSUME NEW h \in Hosts, h # Host(d) PROVE Restored(h)'
  <2>1. Switched(h)' = Switched(h) /\ Live(h)' = Live(h)
    BY <1>1, <1>2 DEF Switched, Live, Host
  <2>2. \A e \in Switched(h) : deploys'[e] = deploys[e]
    BY <1>1, <1>2 DEF Switched
  <2>. QED  BY <1>2, <2>1, <2>2, MissesGrow, RestoredKept DEF AllRestored
<1>3. ASSUME NEW h \in Hosts, h = Host(d) PROVE Restored(h)'
  BY <1>1, <1>3
<1>. QED  BY <1>2, <1>3 DEF AllRestored

(* A step of d that neither swaps, restores nor goes live. *)
Quiet(d, v) ==
  /\ StepsTo(d, v) /\ routes' = routes /\ v.prev = deploys[d].prev
  /\ "route" \in v.undo <=> "route" \in deploys[d].undo
  /\ v.stage # "live"

LEMMA QuietKeeps ==
  ASSUME Typed, AllRestored, NEW d \in DOMAIN deploys, NEW v, Quiet(d, v)
  PROVE  AllRestored'
<1>1. /\ DOMAIN deploys' = DOMAIN deploys /\ deploys'[d] = v /\ StepsTo(d, v)
      /\ \A e \in DOMAIN deploys : e # d => deploys'[e] = deploys[e]
      /\ \A e \in DOMAIN deploys : deploys'[e].host = deploys[e].host
      /\ Host(d) \in Hosts /\ Host(d)' = Host(d)
      /\ deploys[d].stage \notin Settled
  BY StepEffect, DeployTyped DEF Quiet, StepsTo, Host
<1>2. ASSUME NEW h \in Hosts, h = Host(d) PROVE Restored(h)'
  <2>1. deploys[d].stage # "live" /\ deploys[d].stage # "lost"
    BY <1>1 DEF Settled
  <2>2. Switched(h)' = Switched(h)
    BY <1>1, <2>1 DEF Switched, Host, Quiet
  <2>3. Live(h)' = Live(h)
    BY <1>1, <2>1 DEF Live, Host, Quiet
  <2>4. \A e \in Switched(h) :
           /\ deploys'[e].prev = deploys[e].prev
           /\ deploys[e].stage = "lost" => deploys'[e].stage = "lost"
    BY <1>1, <2>1 DEF Switched, Quiet
  <2>5. routes'[h] = routes[h] /\ Restored(h) /\ (Misses(h, TunnelCalls) => Misses(h, TunnelCalls)')
    BY <1>1, MissesGrow DEF Quiet, AllRestored
  <2>. QED  BY <2>2, <2>3, <2>4, <2>5, RestoredKept
<1>3. Restored(Host(d))'
  BY <1>1, <1>2
<1>. QED  BY <1>1, <1>3, RestoredElsewhere DEF Quiet

(* Nobody of the tenant is on its way beside d. *)
LEMMA OnlyRunner ==
  ASSUME Queue, NEW d \in DOMAIN deploys, deploys[d].stage \notin Settled \cup {"waiting"},
         NEW e \in DOMAIN deploys, e # d, Host(e) = Host(d),
         deploys[e].stage # "waiting"
  PROVE  e < d /\ deploys[e].stage \in Settled
<1>1. d \in Nat /\ e \in Nat /\ Tenant(d) = Tenant(e)
  BY DeployTyped DEF Queue, Tenant
<1>2. ~(d < e)
  BY <1>1 DEF Queue, FirstInFirstOut
<1>3. e < d
  BY <1>1, <1>2
<1>. QED  BY <1>1, <1>3 DEF Queue, FirstInFirstOut

(* The deployment that holds the route goes live. *)
LEMMA LiveKeeps ==
  ASSUME Queue, Registry, AllRestored, NEW d \in DOMAIN deploys, NEW v, StepsTo(d, v),
         deploys[d].stage \in {"health-checking", "swapping"}, v.stage = "live",
         routes' = routes
  PROVE  AllRestored'
<1>1. /\ DOMAIN deploys' = DOMAIN deploys /\ deploys'[d] = v
      /\ \A e \in DOMAIN deploys : e # d => deploys'[e] = deploys[e]
      /\ \A e \in DOMAIN deploys : deploys'[e].host = deploys[e].host
      /\ Host(d) \in Hosts /\ Host(d)' = Host(d) /\ d \in Nat \ {0}
  BY StepEffect, DeployTyped DEF Queue, StepsTo, Host
<1>2. ASSUME NEW h \in Hosts, h = Host(d) PROVE Restored(h)'
  <2>1. d \in Switched(h) /\ deploys[d].stage # "lost"
    BY <1>2 DEF Switched, Registry, Shaped, Shape, SideEffects
  <2>2. CASE Misses(h, TunnelCalls)
    BY <2>2, MissesGrow DEF Restored, Queue
  <2>3. CASE \E e \in Switched(h) : deploys[e].stage = "lost"
    <3>1. PICK e \in Switched(h) : deploys[e].stage = "lost"
      BY <2>3
    <3>2. deploys'[e] = deploys[e] /\ e \in Switched(h)'
      BY <1>1, <2>1, <3>1 DEF Switched, Host
    <3>. QED  BY <3>1, <3>2 DEF Restored
  <2>4. CASE Switched(h) = {d} /\ routes[h] = d
    <3>1. Switched(h)' = {}
      BY <1>1, <2>4 DEF Switched, Host
    <3>2. \A e \in Live(h)' : e \in DOMAIN deploys /\ (e = d \/ e \in Live(h))
      BY <1>1 DEF Live, Host
    <3>3. \A e \in Live(h) : e <= d
      <4>1. ASSUME NEW e \in Live(h), e # d PROVE e <= d
        <5>1. e \in DOMAIN deploys /\ Host(e) = Host(d) /\ deploys[e].stage = "live"
          BY <1>2 DEF Live
        <5>2. e < d /\ e \in Nat
          BY <4>1, <5>1, OnlyRunner, DeployTyped DEF Queue, Settled
        <5>. QED  BY <1>1, <5>2
      <4>. QED  BY <1>1, <4>1
    <3>4. d \in Live(h)'
      BY <1>1, <1>2 DEF Live, Host
    <3>5. Last(h, routes[h])'
      BY <1>1, <2>4, <3>2, <3>3, <3>4 DEF Last
    <3>. QED  BY <3>1, <3>5 DEF Restored
  <2>. QED  BY <2>1, <2>2, <2>3, <2>4 DEF AllRestored, Restored
<1>3. Restored(Host(d))'
  BY <1>1, <1>2
<1>. QED  BY <1>3, RestoredElsewhere DEF Queue

(* A swap that is answered: d remembers the route it found. *)
LEMMA SwapKeeps ==
  ASSUME Queue, Registry, AllRestored, NEW d \in DOMAIN deploys, NEW v, StepsTo(d, v),
         deploys[d].stage = "routing", v.stage = "health-checking",
         "route" \in v.undo, v.prev = routes[Host(d)],
         routes' = [routes EXCEPT ![Host(d)] = d]
  PROVE  AllRestored'
<1>1. /\ DOMAIN deploys' = DOMAIN deploys /\ deploys'[d] = v
      /\ \A e \in DOMAIN deploys : e # d => deploys'[e] = deploys[e]
      /\ \A e \in DOMAIN deploys : deploys'[e].host = deploys[e].host
      /\ Host(d) \in Hosts /\ Host(d)' = Host(d) /\ routes \in [Hosts -> Refs]
  BY StepEffect, DeployTyped DEF Queue, Typed, TypeOK, Refs, StepsTo, Host
<1>2. ASSUME NEW h \in Hosts, h = Host(d) PROVE Restored(h)'
  <2>1. d \notin Switched(h)
    BY DEF Switched, Registry, Shaped, Shape
  <2>2. CASE Misses(h, TunnelCalls)
    BY <2>2, MissesGrow DEF Restored, Queue
  <2>3. CASE \E e \in Switched(h) : deploys[e].stage = "lost"
    <3>1. PICK e \in Switched(h) : deploys[e].stage = "lost"
      BY <2>3
    <3>2. deploys'[e] = deploys[e] /\ e \in Switched(h)'
      BY <1>1, <2>1, <3>1 DEF Switched, Host
    <3>. QED  BY <3>1, <3>2 DEF Restored
  <2>4. CASE ~\E e \in Switched(h) : deploys[e].stage = "lost"
    <3>1. Switched(h) = {}
      <4>1. ASSUME NEW e \in Switched(h) PROVE FALSE
        <5>1. /\ e \in DOMAIN deploys /\ Host(e) = Host(d) /\ e # d
              /\ deploys[e].stage \notin {"live", "lost"} /\ "route" \in deploys[e].undo
          BY <1>2, <2>1, <2>4 DEF Switched
        <5>2. deploys[e].stage \notin {"waiting", "failed", "rejected"}
          BY <5>1 DEF Registry, Shaped, Shape
        <5>3. deploys[e].stage \in Settled
          BY <5>1, <5>2, OnlyRunner DEF Settled
        <5>. QED  BY <5>1, <5>2, <5>3 DEF Settled
      <4>. QED  BY <4>1
    <3>2. Switched(h)' = {d}
      BY <1>1, <1>2, <3>1 DEF Switched, Host
    <3>3. Live(h)' = Live(h)
      BY <1>1 DEF Live, Host
    <3>4. routes'[h] = d /\ deploys'[d].prev = routes[h]
      BY <1>1, <1>2
    <3>5. CASE Last(h, routes[h])
      <4>1. Last(h, deploys[d].prev)'
        BY <3>3, <3>4, <3>5 DEF Last
      <4>. QED  BY <3>2, <3>4, <4>1 DEF Restored
    <3>. QED  BY <2>2, <3>1, <3>5 DEF AllRestored, Restored
  <2>. QED  BY <2>3, <2>4
<1>3. Restored(Host(d))'
  BY <1>1, <1>2
<1>4. \A h \in Hosts : h # Host(d) => routes'[h] = routes[h]
  BY <1>1
<1>. QED  BY <1>3, <1>4, RestoredElsewhere DEF Queue

(* A rollback whose restore is answered: the route is the one d found. *)
LEMMA RestoreKeeps ==
  ASSUME Queue, Registry, AllRestored, NEW d \in DOMAIN deploys, NEW v, StepsTo(d, v),
         deploys[d].stage = "rolling-back", "route" \in deploys[d].undo,
         "route" \notin v.undo, v.stage # "live",
         routes' = [routes EXCEPT ![Host(d)] = deploys[d].prev]
  PROVE  AllRestored'
<1>1. /\ DOMAIN deploys' = DOMAIN deploys /\ deploys'[d] = v
      /\ \A e \in DOMAIN deploys : e # d => deploys'[e] = deploys[e]
      /\ \A e \in DOMAIN deploys : deploys'[e].host = deploys[e].host
      /\ Host(d) \in Hosts /\ Host(d)' = Host(d) /\ routes \in [Hosts -> Refs]
  BY StepEffect, DeployTyped DEF Queue, Typed, TypeOK, Refs, StepsTo, Host
<1>2. ASSUME NEW h \in Hosts, h = Host(d) PROVE Restored(h)'
  <2>1. d \in Switched(h) /\ deploys[d].stage # "lost"
    BY <1>2 DEF Switched
  <2>2. CASE Misses(h, TunnelCalls)
    BY <2>2, MissesGrow DEF Restored, Queue
  <2>3. CASE \E e \in Switched(h) : deploys[e].stage = "lost"
    <3>1. PICK e \in Switched(h) : deploys[e].stage = "lost"
      BY <2>3
    <3>2. deploys'[e] = deploys[e] /\ e \in Switched(h)'
      BY <1>1, <2>1, <3>1 DEF Switched, Host
    <3>. QED  BY <3>1, <3>2 DEF Restored
  <2>4. CASE Switched(h) = {d} /\ Last(h, deploys[d].prev)
    <3>1. Switched(h)' = {}
      BY <1>1, <2>4 DEF Switched, Host
    <3>2. Live(h)' = Live(h)
      BY <1>1, <2>1 DEF Live, Host
    <3>3. Last(h, routes[h])'
      BY <1>1, <1>2, <2>4, <3>2 DEF Last
    <3>. QED  BY <3>1, <3>3 DEF Restored
  <2>. QED  BY <2>1, <2>2, <2>3, <2>4 DEF AllRestored, Restored
<1>3. Restored(Host(d))'
  BY <1>1, <1>2
<1>4. \A h \in Hosts : h # Host(d) => routes'[h] = routes[h]
  BY <1>1
<1>. QED  BY <1>3, <1>4, RestoredElsewhere DEF Queue

(* A missed call to the tunnel voids what is claimed of the hostname. *)
LEMMA MissedKeeps ==
  ASSUME Typed, AllRestored, NEW d \in DOMAIN deploys, NEW v, StepsTo(d, v),
         v.missed \cap TunnelCalls # {},
         \A h \in Hosts : h # Host(d) => routes'[h] = routes[h]
  PROVE  AllRestored'
<1>1. DOMAIN deploys' = DOMAIN deploys /\ deploys'[d] = v
  BY StepEffect DEF StepsTo
<1>2. Misses(Host(d), TunnelCalls)'
  BY <1>1 DEF Misses, TunnelCalls
<1>. QED  BY <1>2, RestoredElsewhere DEF Restored

-------------------------------------------------------------------------------
(* The actions, each as one of these steps. *)
LEMMA FailIsQuiet ==
  ASSUME Typed, NEW d \in DOMAIN deploys, Step(d, Fail(deploys[d])),
         deploys[d].stage \notin Settled, routes' = routes
  PROVE  Quiet(d, Fail(deploys[d]))
<1> DEFINE v == deploys[d]
<1>1. /\ v \in DeployFields /\ Fail(v) \in DeployFields /\ SameArtefact(Fail(v), v)
      /\ Fail(v).undo = v.undo /\ Fail(v).missed = v.missed /\ Fail(v).prev = v.prev
      /\ Fail(v).stage # "live"
  BY DeployTyped, FailFields DEF SameArtefact
<1>. QED  BY <1>1 DEF Quiet, StepsTo

LEMMA StageStep ==
  ASSUME Typed, NEW d \in DOMAIN deploys, deploys[d].stage \notin Settled,
         NEW next \in Running \cup Settled, Step(d, [deploys[d] EXCEPT !.stage = next])
  PROVE  LET w == [deploys[d] EXCEPT !.stage = next] IN
         /\ StepsTo(d, w) /\ w.stage = next /\ w.undo = deploys[d].undo
         /\ w.prev = deploys[d].prev
<1>1. deploys[d] \in DeployFields
  BY DeployTyped
<1>. QED  BY <1>1 DEF StepsTo, DeployFields, SameArtefact

LEMMA LocalRestores ==
  ASSUME Queue, Registry, AllRestored, NEW d \in DOMAIN deploys,
         Begin(d) \/ Read(d) \/ Probe(d) \/ Warm(d)
  PROVE  AllRestored'
<1>1. Typed /\ routes' = routes
  BY DEF Begin, Read, Probe, Warm, Queue
<1>2. ASSUME NEW next \in (Running \cup Settled) \ {"live"},
             Step(d, [deploys[d] EXCEPT !.stage = next]), deploys[d].stage \notin Settled
      PROVE  AllRestored'
  <2>1. Quiet(d, [deploys[d] EXCEPT !.stage = next])
    BY <1>1, <1>2, StageStep DEF Quiet
  <2>. QED  BY <1>1, <2>1, QuietKeeps
<1>3. ASSUME Step(d, [deploys[d] EXCEPT !.stage = "live"]),
             deploys[d].stage \in {"health-checking", "swapping"}
      PROVE  AllRestored'
  <2> DEFINE w == [deploys[d] EXCEPT !.stage = "live"]
  <2>1. StepsTo(d, w) /\ w.stage = "live"
    BY <1>1, <1>3, StageStep DEF Settled
  <2>. HIDE DEF w
  <2>. QED  BY <1>1, <1>3, <2>1, LiveKeeps
<1>4. ASSUME Step(d, Fail(deploys[d])), deploys[d].stage \notin Settled PROVE AllRestored'
  BY <1>1, <1>4, FailIsQuiet, QuietKeeps
<1>5. CASE Begin(d)
  <2>1. PICK stage \in {"uploading", "rejected"} : Step(d, [deploys[d] EXCEPT !.stage = stage])
    BY <1>5 DEF Begin
  <2>2. deploys[d].stage \notin Settled /\ stage \in (Running \cup Settled) \ {"live"}
    BY <1>5 DEF Begin, MayRun, Running, Settled
  <2>. QED  BY <1>2, <2>1, <2>2
<1>6. CASE Read(d)
  <2>1. deploys[d].stage \notin Settled /\ "registering" \in (Running \cup Settled) \ {"live"}
    BY <1>6 DEF Read, Running, Settled
  <2>. QED  BY <1>2, <1>4, <1>6, <2>1 DEF Read
<1>7. CASE Probe(d)
  <2>1. deploys[d].stage = "health-checking" /\ deploys[d].stage \notin Settled
    BY <1>7 DEF Probe, Settled
  <2>2. "swapping" \in (Running \cup Settled) \ {"live"}
    BY DEF Running
  <2>3. \/ Step(d, [deploys[d] EXCEPT !.stage = "live"])
        \/ Step(d, [deploys[d] EXCEPT !.stage = "swapping"])
        \/ Step(d, Fail(deploys[d]))
    BY <1>7 DEF Probe
  <2>. QED  BY <1>2, <1>3, <1>4, <2>1, <2>2, <2>3
<1>8. CASE Warm(d)
  BY <1>3, <1>8 DEF Warm
<1>. QED  BY <1>5, <1>6, <1>7, <1>8

LEMMA ForwardRestores ==
  ASSUME Queue, Registry, AllRestored, NEW d \in DOMAIN deploys,
         Upload(d) \/ RegisterBundle(d)
  PROVE  AllRestored'
<1> DEFINE v == deploys[d]
<1>1. /\ Typed /\ routes' = routes /\ v \in DeployFields
      /\ v.stage \in Running /\ v.stage \notin Settled
  BY DeployTyped DEF Upload, RegisterBundle, Queue, Running, Settled
<1>2. PICK call \in Forward, next \in Running, effect \in SideEffects \ {"route"},
           applied \in BOOLEAN :
        Called(d, call, Succeed(v, next, effect), applied)
  BY DEF Upload, RegisterBundle, Forward, Running, SideEffects
<1> DEFINE ok == Succeed(v, next, effect)
<1>3. /\ ok \in DeployFields /\ SameArtefact(ok, v) /\ ok.missed = v.missed
      /\ ok.prev = v.prev /\ ok.stage = next /\ ok.undo = v.undo \cup {effect}
  BY <1>1, SucceedFields DEF SameArtefact
<1>. HIDE DEF ok
<1>4. Called(d, call, ok, applied)
  BY <1>2 DEF ok
<1>5. PICK w \in DeployFields :
        /\ StepsTo(d, w)
        /\ \/ w = ok
           \/ /\ w.undo = v.undo /\ w.prev = v.prev
              /\ w.stage = IF w.undo = {} THEN "failed" ELSE "rolling-back"
  BY <1>1, <1>3, <1>4, CalledCases
<1>6. Quiet(d, w)
  BY <1>1, <1>3, <1>5 DEF Quiet, Running
<1>. QED  BY <1>1, <1>6, QuietKeeps

LEMMA SwapRestores ==
  ASSUME Queue, Registry, AllRestored, NEW d \in DOMAIN deploys, Swap(d)
  PROVE  AllRestored'
<1> DEFINE v == deploys[d]
           s == Succeed(v, "health-checking", "route")
           ok == [s EXCEPT !.prev = routes[Host(d)]]
<1>1. /\ Typed /\ v \in DeployFields /\ Host(d) \in Hosts /\ routes \in [Hosts -> Refs]
      /\ v.stage = "routing" /\ v.stage \in Running /\ v.stage \notin Settled
  BY DeployTyped DEF Swap, Queue, Typed, TypeOK, Refs, Running, Settled
<1>2. /\ s \in DeployFields /\ SameArtefact(s, v) /\ s.stage = "health-checking"
      /\ s.missed = v.missed /\ s.undo = v.undo \cup {"route"}
  BY <1>1, SucceedFields DEF Running, SideEffects, SameArtefact
<1>3. PICK applied \in BOOLEAN :
        /\ Called(d, "swap", ok, applied)
        /\ routes' = IF applied THEN [routes EXCEPT ![Host(d)] = d] ELSE routes
  BY DEF Swap
<1>. HIDE DEF s
<1>4. routes[Host(d)] \in Nat
  BY <1>1 DEF Refs, Typed, TypeOK
<1>5. /\ ok \in DeployFields /\ SameArtefact(ok, v) /\ ok.stage = "health-checking"
      /\ ok.missed = v.missed /\ ok.undo = v.undo \cup {"route"}
      /\ ok.prev = routes[Host(d)]
  BY <1>2, <1>4 DEF DeployFields, SameArtefact
<1>. HIDE DEF ok
<1>6. PICK w \in DeployFields :
        /\ StepsTo(d, w)
        /\ \/ applied /\ w = ok
           \/ /\ w.undo = v.undo /\ w.prev = v.prev
              /\ w.stage = IF w.undo = {} THEN "failed" ELSE "rolling-back"
              /\ \/ ~applied /\ w.missed = v.missed
                 \/ applied /\ w.missed = v.missed \cup {"swap"}
  <2>1. "swap" \in Forward
    BY DEF Forward
  <2>2. Called(d, "swap", ok, applied)
    BY <1>3
  <2>3. SameArtefact(ok, v) /\ ok.missed = v.missed /\ ok \in DeployFields
    BY <1>5
  <2>. QED  BY <1>1, <2>1, <2>2, <2>3, CalledCases
<1>7. CASE applied /\ w = ok
  <2>1. routes' = [routes EXCEPT ![Host(d)] = d] /\ "route" \in w.undo
    BY <1>3, <1>5, <1>7
  <2>. QED  BY <1>1, <1>5, <1>6, <1>7, <2>1, SwapKeeps
<1>8. CASE ~applied /\ w.undo = v.undo /\ w.prev = v.prev
             /\ w.stage \in {"failed", "rolling-back"}
  BY <1>1, <1>3, <1>6, <1>8, QuietKeeps DEF Quiet
<1>9. CASE w.missed = v.missed \cup {"swap"}
  <2>1. w.missed \cap TunnelCalls # {} /\ \A h \in Hosts : h # Host(d) => routes'[h] = routes[h]
    BY <1>1, <1>3, <1>9 DEF TunnelCalls
  <2>. QED  BY <1>1, <1>6, <2>1, MissedKeeps
<1>. QED  BY <1>6, <1>7, <1>8, <1>9

LEMMA BackwardRestores ==
  ASSUME Queue, Registry, AllRestored, NEW d \in DOMAIN deploys,
         UndoRoute(d) \/ UndoBundle(d) \/ UndoObject(d)
  PROVE  AllRestored'
<1> DEFINE v == deploys[d]
<1>1. /\ Typed /\ v \in DeployFields /\ Host(d) \in Hosts /\ routes \in [Hosts -> Refs]
      /\ v.stage = "rolling-back" /\ v.stage \in Running /\ v.stage \notin Settled
  BY DeployTyped DEF UndoRoute, UndoBundle, UndoObject, Queue, Typed, TypeOK, Refs,
                     Running, Settled
<1>2. CASE UndoBundle(d) \/ UndoObject(d)
  <2>1. PICK call \in Backward, effect \in SideEffects \ {"route"}, applied \in BOOLEAN :
          Undone(d, call, effect, applied)
    BY <1>2 DEF UndoBundle, UndoObject, Backward, SideEffects
  <2>2. PICK w \in DeployFields :
          /\ StepsTo(d, w)
          /\ w.undo = v.undo \ {effect} /\ w.prev = v.prev
          /\ w.stage = IF w.undo = {} THEN "failed" ELSE "rolling-back"
    BY <1>1, <2>1, UndoneCases
  <2>3. routes' = routes
    BY <1>2 DEF UndoBundle, UndoObject
  <2>4. Quiet(d, w)
    BY <2>2, <2>3 DEF Quiet
  <2>. QED  BY <1>1, <2>4, QuietKeeps
<1>3. CASE UndoRoute(d)
  <2>1. PICK applied \in BOOLEAN :
          /\ Undone(d, "restore", "route", applied)
          /\ routes' = IF applied THEN [routes EXCEPT ![Host(d)] = v.prev] ELSE routes
    BY <1>3 DEF UndoRoute
  <2>2. "restore" \in Backward /\ "route" \in SideEffects /\ "route" \in v.undo
    BY <1>3 DEF UndoRoute, Backward, SideEffects
  <2>3. PICK w \in DeployFields :
          /\ StepsTo(d, w)
          /\ w.undo = v.undo \ {"route"} /\ w.prev = v.prev
          /\ w.stage = IF w.undo = {} THEN "failed" ELSE "rolling-back"
          /\ \/ applied /\ w.missed = v.missed
             \/ ~applied /\ w.missed = v.missed \cup {"restore"}
    BY <1>1, <2>1, <2>2, UndoneCases
  <2>4. CASE applied
    <3>1. routes' = [routes EXCEPT ![Host(d)] = v.prev]
      BY <2>1, <2>4
    <3>2. "route" \notin w.undo /\ w.stage # "live"
      BY <2>3
    <3>. QED  BY <1>1, <2>2, <2>3, <3>1, <3>2, RestoreKeeps
  <2>5. CASE ~applied
    <3>1. w.missed \cap TunnelCalls # {} /\ routes' = routes
      BY <2>1, <2>3, <2>5 DEF TunnelCalls
    <3>. QED  BY <1>1, <2>3, <3>1, MissedKeeps
  <2>. QED  BY <2>4, <2>5
<1>. QED  BY <1>2, <1>3

LEMMA EnqueueRestores ==
  ASSUME Queue, AllRestored, NEW h \in Hosts, NEW b \in Builds, Enqueue(h, b)
  PROVE  AllRestored'
<1>1. PICK n \in Nat \ {0} :
      /\ n \notin DOMAIN deploys
      /\ DOMAIN deploys' = DOMAIN deploys \cup {n}
      /\ deploys'[n] = NewDeploy(h, b, tails[Owner[h]])
      /\ \A d \in DOMAIN deploys : deploys'[d] = deploys[d]
  BY EnqueueEffect DEF Queue
<1>2. /\ deploys'[n].undo = {} /\ deploys'[n].stage = "waiting"
      /\ routes' = routes
  BY <1>1 DEF NewDeploy, Enqueue
<1>3. ASSUME NEW g \in Hosts PROVE Restored(g)'
  <2>1. Misses(g, TunnelCalls) => Misses(g, TunnelCalls)'
    BY <1>1 DEF Misses, Host, TunnelCalls
  <2>2. Switched(g)' = Switched(g)
    BY <1>1, <1>2 DEF Switched, Host
  <2>3. Live(g)' = Live(g)
    BY <1>1, <1>2 DEF Live, Host
  <2>4. \A d \in Switched(g) : deploys'[d] = deploys[d]
    BY <1>1 DEF Switched
  <2>. QED  BY <1>2, <2>1, <2>2, <2>3, <2>4, RestoredKept DEF AllRestored
<1>. QED  BY <1>3 DEF AllRestored

(* A restart changes no route, and who went live or holds one stays. *)
LEMMA CrashRestores ==
  ASSUME Queue, Registry, AllRestored, Crash
  PROVE  AllRestored'
<1>1. /\ DOMAIN deploys' = DOMAIN deploys
      /\ \A d \in DOMAIN deploys :
           /\ deploys'[d].stage \in Settled
           /\ deploys'[d].stage \in {deploys[d].stage, "lost"}
           /\ deploys[d].stage \in Settled => deploys'[d].stage = deploys[d].stage
           /\ deploys'[d].host = deploys[d].host
           /\ deploys'[d].undo = deploys[d].undo
           /\ deploys'[d].prev = deploys[d].prev
           /\ deploys'[d].missed = deploys[d].missed
      /\ routes' = routes
  <2>1. \A d \in DOMAIN deploys :
          deploys[d].stage \in Settled => deploys'[d].stage = deploys[d].stage
    BY DEF Crash
  <2>. QED  BY <2>1, CrashEffect DEF Queue, SameArtefact
<1>2. ASSUME NEW h \in Hosts PROVE Restored(h)'
  <2>1. Misses(h, TunnelCalls) => Misses(h, TunnelCalls)'
    BY <1>1 DEF Misses, Host, TunnelCalls
  <2>2. Switched(h)' = Switched(h)
    BY <1>1 DEF Switched, Host, Settled
  <2>3. Live(h)' = Live(h)
    BY <1>1 DEF Live, Host, Settled
  <2>4. \A d \in Switched(h) :
          /\ deploys'[d].prev = deploys[d].prev
          /\ deploys[d].stage = "lost" => deploys'[d].stage = "lost"
    BY <1>1 DEF Switched, Settled
  <2>. QED  BY <1>1, <2>1, <2>2, <2>3, <2>4, RestoredKept DEF AllRestored
<1>. QED  BY <1>2 DEF AllRestored

LEMMA RestoredInit == Init => AllRestored
<1> SUFFICES ASSUME Init, NEW h \in Hosts PROVE Restored(h)
  BY DEF AllRestored
<1>1. Switched(h) = {} /\ Live(h) = {} /\ routes[h] = 0
  BY DEF Init, Switched, Live
<1>. QED  BY <1>1 DEF Restored, Last

LEMMA RestoredNext == IInv /\ AllRestored /\ [Next]_vars => AllRestored'
<1> SUFFICES ASSUME IInv, AllRestored, [Next]_vars PROVE AllRestored'
  OBVIOUS
<1>1. Queue /\ Registry
  BY DEF IInv
<1>2. ASSUME NEW h \in Hosts, NEW b \in Builds, Enqueue(h, b) PROVE AllRestored'
  BY <1>1, <1>2, EnqueueRestores
<1>3. ASSUME NEW d \in DOMAIN deploys, Advance(d) PROVE AllRestored'
  BY <1>1, <1>3, LocalRestores, ForwardRestores, SwapRestores, BackwardRestores DEF Advance
<1>4. CASE Crash
  BY <1>1, <1>4, CrashRestores
<1>5. CASE UNCHANGED vars
  <2>1. ASSUME NEW h \in Hosts PROVE Restored(h)'
    <3>1. Restored(h)
      BY DEF AllRestored
    <3>2. Misses(h, TunnelCalls)' <=> Misses(h, TunnelCalls)
      BY <1>5 DEF vars, Misses, Host, TunnelCalls
    <3>3. Switched(h)' = Switched(h) /\ Live(h)' = Live(h)
      BY <1>5 DEF vars, Switched, Live, Host
    <3>. QED  BY <1>5, <3>1, <3>2, <3>3, RestoredKept DEF vars
  <2>. QED  BY <2>1 DEF AllRestored
<1>. QED  BY <1>2, <1>3, <1>4, <1>5 DEF Next

(* The largest of the live deployments is the one LatestLive chooses. *)
LEMMA LastIsLatest ==
  ASSUME Typed, NEW h, NEW r, Last(h, r)
  PROVE  LatestLive(h) = r
<1>1. \A d \in Live(h) : d \in Nat \ {0}
  BY DeployTyped DEF Live
<1>2. LatestLive(h) = CHOOSE d \in Live(h) \cup {0} : \A e \in Live(h) : e <= d
  BY DEF LatestLive, Live
<1>3. r \in Live(h) \cup {0} /\ \A e \in Live(h) : e <= r
  BY DEF Last
<1>4. \A d \in Live(h) \cup {0} : (\A e \in Live(h) : e <= d) => d = r
  BY <1>1, <1>3
<1>. QED  BY <1>2, <1>3, <1>4

(* Outside the window between a deployment's swap and its end a hostname   *)
(* serves the last deployment that went live, and inside it the deployment *)
(* that holds the route remembers that one, whatever fails and for any     *)
(* number of deployments, hostnames and restarts, unless a tunnel call was *)
(* missed or a restart fell into the window (pipeline.ts 176-193).         *)
THEOREM FailuresRestoreRoutes == Spec => []FailureRestoresRoute
<1>1. IInv /\ AllRestored => FailureRestoresRoute
  <2> SUFFICES ASSUME IInv, AllRestored, NEW h \in Hosts
               PROVE  \/ Misses(h, {"swap", "restore"})
                      \/ \E d \in Switched(h) : deploys[d].stage = "lost"
                      \/ Switched(h) = {} /\ routes[h] = LatestLive(h)
                      \/ \E d \in Switched(h) : /\ Switched(h) = {d}
                                                /\ routes[h] = d
                                                /\ deploys[d].prev = LatestLive(h)
    BY DEF FailureRestoresRoute
  <2>1. \A r : Last(h, r) => r = LatestLive(h)
    BY LastIsLatest DEF IInv, Queue
  <2>2. Restored(h)
    BY DEF AllRestored
  <2>. QED  BY <2>1, <2>2 DEF Restored, TunnelCalls
<1>. QED  BY <1>1, IInvInit, IInvNext, RestoredInit, RestoredNext, PTL DEF Spec


-------------------------------------------------------------------------------
(***************************************************************************)
(* The queue is never stuck.  What DeploysSettle needs of safety: a        *)
(* deployment that has not settled waits for one of its tenant, itself or  *)
(* an earlier one, whose next step nothing holds up.  It is the tenant's   *)
(* first that has not settled: the one it is chained to came before.  A    *)
(* rollback always has a step left to undo.                                *)
(***************************************************************************)
GoesOn(d) ==
  \/ MayRun(d)
  \/ deploys[d].stage \in Running \ {"rolling-back"}
  \/ deploys[d].stage = "rolling-back" /\ deploys[d].undo # {}

NeverStuck ==
  \A d \in DOMAIN deploys : deploys[d].stage \notin Settled =>
    \E e \in DOMAIN deploys : e <= d /\ Tenant(e) = Tenant(d) /\ GoesOn(e)

Undoable ==
  \A d \in DOMAIN deploys : deploys[d].stage = "rolling-back" => deploys[d].undo # {}

(* That a set of naturals has a least member is had from the               *)
(* well-foundedness of strict inclusion on finite sets, here intervals.    *)
LEMMA LeastNatural ==
  ASSUME NEW T \in SUBSET Nat, T # {}
  PROVE  \E m \in T : \A n \in T : m <= n
<1>1. PICK k \in T : TRUE
  OBVIOUS
<1> DEFINE Family == {1..n : n \in {j \in T : j <= k}}
<1>2. IsFiniteSet(1..k)
  BY FS_Interval
<1>3. Family \subseteq SUBSET (1..k)
  <2>1. \A n \in T : n <= k => 1..n \subseteq 1..k
    OBVIOUS
  <2>. QED  BY <2>1
<1>4. Family # {}
  OBVIOUS
<1>5. Family \subseteq FiniteSubsetsOf(1..k)
  BY <1>2, <1>3, FS_FiniteSubsetsOfFinite
<1>6. IsWellFoundedOn(StrictSubsetOrdering(1..k), FiniteSubsetsOf(1..k))
  BY <1>2, FS_StrictSubsetOrderingWellFounded
<1>7. PICK U \in Family : \A V \in Family : <<V, U>> \notin StrictSubsetOrdering(1..k)
  <2>. HIDE DEF Family
  <2>. QED  BY <1>4, <1>5, <1>6, WFMin
<1>8. PICK m \in T : m <= k /\ U = 1..m
  OBVIOUS
<1>9. ASSUME NEW n \in T, n < m
      PROVE  FALSE
  <2>1. 1..n \in Family
    BY <1>8, <1>9
  <2>2. 1..n \subseteq U /\ 1..n # U
    BY <1>8, <1>9
  <2>3. <<1..n, U>> \in StrictSubsetOrdering(1..k)
    <3>. HIDE DEF Family
    <3>. QED  BY <1>3, <2>1, <2>2 DEF StrictSubsetOrdering
  <2>. QED  BY <1>7, <2>1, <2>3
<1>. QED  BY <1>8, <1>9

LEMMA FailUndoes ==
  ASSUME NEW v \in DeployFields
  PROVE  Fail(v) \in DeployFields /\ (Fail(v).stage = "rolling-back" => Fail(v).undo # {})
BY FailFields

(* Whatever step a deployment takes, it rolls back only what there is. *)
LEMMA AdvanceUndoes ==
  ASSUME Typed, NEW d \in DOMAIN deploys, Advance(d)
  PROVE  \E w \in DeployFields :
           deploys' = [deploys EXCEPT ![d] = w] /\ (w.stage = "rolling-back" => w.undo # {})
<1> DEFINE v == deploys[d]
           Good(w) == w \in DeployFields /\ (w.stage = "rolling-back" => w.undo # {})
<1>1. v \in DeployFields /\ Host(d) \in Hosts
  BY DeployTyped
<1>2. Good(Fail(v))
  BY <1>1, FailUndoes
<1>3. ASSUME NEW next \in (Running \cup Settled) \ {"rolling-back"}
      PROVE  Good([v EXCEPT !.stage = next])
  BY <1>1 DEF DeployFields
<1>4. ASSUME NEW call \in Forward, NEW ok, Good(ok), NEW applied \in BOOLEAN,
             Called(d, call, ok, applied)
      PROVE  \E w : Good(w) /\ Step(d, w)
  <2>1. Miss(v, call) \in DeployFields
    BY <1>1, MissFields
  <2>2. Good(Fail(Miss(v, call)))
    BY <2>1, FailUndoes
  <2>. QED  BY <1>2, <1>4, <2>2 DEF Called
<1>5. ASSUME NEW call \in Backward, NEW effect \in SideEffects, NEW applied \in BOOLEAN,
             Undone(d, call, effect, applied)
      PROVE  \E w : Good(w) /\ Step(d, w)
  <2> DEFINE u == [v EXCEPT !.undo = @ \ {effect}]
  <2>1. u \in DeployFields
    BY <1>1 DEF DeployFields
  <2>2. (applied /\ Step(d, Fail(u))) \/ (~applied /\ Step(d, Fail(Miss(u, call))))
    BY <1>5 DEF Undone
  <2>. HIDE DEF u
  <2>3. Miss(u, call) \in DeployFields
    BY <2>1, MissFields
  <2>4. Good(Fail(u)) /\ Good(Fail(Miss(u, call)))
    BY <2>1, <2>3, FailUndoes
  <2>. QED  BY <2>2, <2>4
<1>6. ASSUME NEW next \in Running \ {"rolling-back"}, NEW effect \in SideEffects
      PROVE  Good(Succeed(v, next, effect))
  BY <1>1, <1>6, SucceedFields
<1>7. \E w : Good(w) /\ Step(d, w)
  <2>1. CASE Begin(d)
    <3>1. PICK stage \in {"uploading", "rejected"} : Step(d, [v EXCEPT !.stage = stage])
      BY <2>1 DEF Begin
    <3>2. Good([v EXCEPT !.stage = stage])
      BY <1>3, <3>1 DEF Running, Settled
    <3>. QED  BY <3>1, <3>2
  <2>2. CASE Upload(d)
    <3>1. PICK applied \in BOOLEAN : Called(d, "put", Succeed(v, "reading", "object"), applied)
      BY <2>2 DEF Upload
    <3>2. Good(Succeed(v, "reading", "object"))
      BY <1>6 DEF Running, SideEffects
    <3>. HIDE DEF Good
    <3>. QED  BY <1>4, <3>1, <3>2 DEF Forward
  <2>3. CASE Read(d)
    <3>1. Good([v EXCEPT !.stage = "registering"])
      BY <1>3 DEF Running
    <3>. QED  BY <1>2, <2>3, <3>1 DEF Read
  <2>4. CASE RegisterBundle(d)
    <3>1. PICK applied \in BOOLEAN :
            Called(d, "register", Succeed(v, "routing", "bundle"), applied)
      BY <2>4 DEF RegisterBundle
    <3>2. Good(Succeed(v, "routing", "bundle"))
      BY <1>6 DEF Running, SideEffects
    <3>. HIDE DEF Good
    <3>. QED  BY <1>4, <3>1, <3>2 DEF Forward
  <2>5. CASE Swap(d)
    <3> DEFINE s == Succeed(v, "health-checking", "route")
               ok == [s EXCEPT !.prev = routes[Host(d)]]
    <3>1. PICK applied \in BOOLEAN : Called(d, "swap", ok, applied)
      BY <2>5 DEF Swap
    <3>2. s \in DeployFields /\ s.stage = "health-checking"
      BY <1>1, SucceedFields DEF Running, SideEffects
    <3>3. routes[Host(d)] \in Nat
      BY <1>1 DEF Typed, TypeOK
    <3>. HIDE DEF s
    <3>4. Good(ok)
      BY <3>2, <3>3 DEF DeployFields
    <3>. HIDE DEF Good, ok
    <3>. QED  BY <1>4, <3>1, <3>4 DEF Forward
  <2>6. CASE Probe(d)
    <3> DEFINE next == IF v.prev = 0 THEN "live" ELSE "swapping"
    <3>1. Step(d, [v EXCEPT !.stage = next]) \/ Step(d, Fail(v))
      BY <2>6 DEF Probe
    <3>2. next \in (Running \cup Settled) \ {"rolling-back"}
      BY DEF Running, Settled
    <3>. HIDE DEF next
    <3>. QED  BY <1>2, <1>3, <3>1, <3>2
  <2>7. CASE Warm(d)
    <3>1. Good([v EXCEPT !.stage = "live"])
      BY <1>3 DEF Settled
    <3>. QED  BY <2>7, <3>1 DEF Warm
  <2>8. CASE UndoRoute(d) \/ UndoBundle(d) \/ UndoObject(d)
    <3>. HIDE DEF Good
    <3>. QED  BY <1>5, <2>8 DEF UndoRoute, UndoBundle, UndoObject, Backward, SideEffects
  <2>. QED  BY <2>1, <2>2, <2>3, <2>4, <2>5, <2>6, <2>7, <2>8, Zenon DEF Advance
<1>. QED  BY <1>7 DEF Step

LEMMA UndoableNext == Queue /\ Undoable /\ [Next]_vars => Undoable'
<1> SUFFICES ASSUME Queue, Undoable, [Next]_vars PROVE Undoable'
  OBVIOUS
<1>0. deploys \in Seq(DeployFields)
  BY DEF Queue, Typed, TypeOK
<1>1. ASSUME NEW h \in Hosts, NEW b \in Builds, Enqueue(h, b) PROVE Undoable'
  <2>1. deploys' = Append(deploys, NewDeploy(h, b, tails[Owner[h]]))
    BY <1>1 DEF Enqueue
  <2>2. NewDeploy(h, b, tails[Owner[h]]).stage = "waiting"
    BY DEF NewDeploy
  <2>. QED  BY <1>0, <2>1, <2>2 DEF Undoable
<1>2. ASSUME NEW d \in DOMAIN deploys, Advance(d) PROVE Undoable'
  <2>1. PICK w \in DeployFields :
          deploys' = [deploys EXCEPT ![d] = w] /\ (w.stage = "rolling-back" => w.undo # {})
    BY <1>2, AdvanceUndoes DEF Queue
  <2>2. /\ DOMAIN deploys' = DOMAIN deploys /\ deploys'[d] = w
        /\ \A e \in DOMAIN deploys : e # d => deploys'[e] = deploys[e]
    BY <1>0, <2>1, SeqUpdate
  <2>. QED  BY <2>1, <2>2 DEF Undoable
<1>3. CASE Crash
  <2>1. \A d \in DOMAIN deploys' : /\ d \in DOMAIN deploys
                                   /\ deploys'[d] = deploys[d] \/ deploys'[d].stage = "lost"
    <3>1. deploys' = [d \in DOMAIN deploys |->
                        IF deploys[d].stage \in Settled THEN deploys[d]
                        ELSE [deploys[d] EXCEPT !.stage = "lost"]]
      BY <1>3 DEF Crash
    <3>2. \A d \in DOMAIN deploys : [deploys[d] EXCEPT !.stage = "lost"].stage = "lost"
      BY <1>0 DEF DeployFields
    <3>. QED  BY <3>1, <3>2
  <2>. QED  BY <2>1 DEF Undoable
<1>4. CASE UNCHANGED vars
  BY <1>4 DEF vars, Undoable
<1>. QED  BY <1>1, <1>2, <1>3, <1>4 DEF Next

(* The first of a tenant's deployments that has not settled goes on. *)
LEMMA FirstGoesOn ==
  ASSUME Queue, Undoable, NEW d \in DOMAIN deploys, deploys[d].stage \notin Settled
  PROVE  \E e \in DOMAIN deploys : e <= d /\ Tenant(e) = Tenant(d) /\ GoesOn(e)
<1> DEFINE Open == {e \in DOMAIN deploys :
                      Tenant(e) = Tenant(d) /\ deploys[e].stage \notin Settled}
<1>1. PICK e \in Open : \A f \in Open : e <= f
  <2>1. d \in Open /\ Open \subseteq Nat
    BY DeployTyped DEF Queue
  <2>. HIDE DEF Open
  <2>. QED  BY <2>1, LeastNatural
<1>2. /\ e \in DOMAIN deploys /\ e \in Nat \ {0} /\ d \in Nat /\ deploys[e] \in DeployFields
      /\ Tenant(e) = Tenant(d) /\ deploys[e].stage \notin Settled /\ e <= d
  BY <1>1, DeployTyped DEF Queue
<1>3. deploys[e].stage \in Running \cup {"waiting"}
  BY <1>2 DEF DeployFields
<1>4. CASE deploys[e].stage = "waiting"
  <2> DEFINE a == deploys[e].after
  <2>1. a \in Nat /\ a < e
    BY <1>2 DEF Queue, Typed, Placed, DeployFields
  <2>2. ASSUME a # 0 PROVE deploys[a].stage \in Settled
    <3>1. a \in DOMAIN deploys
      BY <1>2, <2>1, <2>2 DEF Queue, Typed, TypeOK
    <3>2. Tenant(a) = Tenant(d)
      BY <1>2, <2>2 DEF Queue, Chained
    <3>. QED  BY <1>1, <1>2, <2>1, <3>1, <3>2
  <2>. QED  BY <1>2, <1>4, <2>2 DEF GoesOn, MayRun
<1>5. CASE deploys[e].stage \in Running
  BY <1>2, <1>5 DEF GoesOn, Undoable
<1>. QED  BY <1>3, <1>4, <1>5

(* No deployment waits for one that cannot move, whatever failed, was      *)
(* refused or was lost before it (queue.ts 20-37, pipeline.ts 98-120).     *)
THEOREM QueueNeverStuck == Spec => []NeverStuck
<1>1. Init => Undoable
  BY DEF Init, Undoable
<1>2. Queue /\ Undoable => NeverStuck
  BY FirstGoesOn DEF NeverStuck
<1>. QED  BY <1>1, <1>2, QueueInit, QueueNext, UndoableNext, PTL DEF Spec
===============================================================================
