---------------------------- MODULE ApiBuildsProofs ----------------------------
(***************************************************************************)
(* What holds of ApiBuilds and of the AppDeployer it contains for every    *)
(* set of deployments, whichever of them are plain sites, and every number *)
(* of faults, rollbacks and undeploys.                                     *)
(***************************************************************************)
EXTENDS ApiBuilds, SequenceTheorems, TLAPS

-------------------------------------------------------------------------------
RowFields ==
  [status: {"unborn", "queued", "building", "deploying", "live", "active"} \cup Terminal,
   cancel: BOOLEAN, current: BOOLEAN]

Places == Steps \cup {"idle", "handoff", "deploy", "flip", "golive", "record",
                      "failing", "cancelling"}

InQueue(d) == \E i \in DOMAIN queue : queue[i] = d

(* Before the hand-off, and before the row is marked. *)
Early == Steps \cup {"cancelling"}

Unmarked == Early \cup {"handoff", "deploy", "flip", "golive"}

(***************************************************************************)
(* The strengthening.  One drain runs one build: the queue holds rows that *)
(* nobody works on, each once, and a row is marked only by the build that  *)
(* cleared the others.  Whoever else writes a row's status finds a row     *)
(* that is not current, or overwrites one that was live.                   *)
(***************************************************************************)
Serial ==
  /\ \A d, e \in Deployments : runner[d] # "idle" /\ runner[e] # "idle" => d = e
  /\ \A i, j \in DOMAIN queue : queue[i] = queue[j] => i = j
  /\ ~draining => queue = <<>> /\ \A d \in Deployments : runner[d] = "idle"

Marking ==
  \A d \in Deployments : runner[d] = "golive" =>
     \A e \in Deployments : ~rows[e].current

Row(d) ==
  /\ rows[d].status = "unborn" =>
       /\ ~rows[d].current /\ runner[d] = "idle" /\ ~InQueue(d)
       /\ d \notin direct /\ d \notin inTime
  /\ InQueue(d) =>
       /\ ~rows[d].current /\ runner[d] = "idle" /\ d \notin direct
       /\ rows[d].status \notin {"deploying", "live"}
  /\ d \in direct => ~rows[d].current /\ runner[d] = "idle"
  /\ runner[d] \in Early => rows[d].status \notin {"deploying", "live"}
  /\ runner[d] \in Unmarked => ~rows[d].current
  /\ rows[d].current /\ d \notin late => rows[d].status = "live"
  /\ d \in inTime =>
       /\ rows[d].cancel /\ rows[d].status \notin {"deploying", "live"}
       /\ runner[d] \notin {"handoff", "deploy", "flip", "golive"}

Builds == Serial /\ Marking /\ OneCurrent /\ \A d \in Deployments : Row(d)

IInv == TypeOK /\ RunsFromDisk /\ SandboxIsClean /\ Builds

-------------------------------------------------------------------------------
(* The deployer by itself. *)
DeployerInv == DeployerTypeOK /\ RunsFromDisk /\ SandboxIsClean

ReqFields ==
  [stage: {"none", "clone", "install", "build", "health", "ok", "failed"},
   plain: BOOLEAN, prev: BOOLEAN]

LEMMA EntryType ==
  ASSUME NEW plain \in BOOLEAN, NEW prev \in BOOLEAN
  PROVE  [there |-> TRUE, plain |-> plain, prev |-> prev] \in
           [there: BOOLEAN, plain: BOOLEAN, prev: BOOLEAN]
OBVIOUS

(* A step that moves one request, with the object it works on. *)
LEMMA RequestStep ==
  ASSUME DeployerInv, NEW r \in Deployments, NEW q \in ReqFields,
         req' = [req EXCEPT ![r] = q],
         entry' \in [there: BOOLEAN, plain: BOOLEAN, prev: BOOLEAN],
         tree' \in Contents, disk' \in Contents, beside' \in Contents,
         proc' \in Contents,
         rolling' = rolling, undeploying' = undeploying, calls' = calls,
         razed' \in BOOLEAN,
         proc' # "missing" => proc' = disk' \/ razed',
         tree' # "missing" => q.stage \in {"clone", "install", "build", "health"}
  PROVE  DeployerInv'
<1>1. req' \in [Deployments -> ReqFields] /\ req'[r] = q
  BY DEF DeployerInv, DeployerTypeOK, ReqFields
<1>2. DeployerTypeOK'
  BY <1>1 DEF DeployerInv, DeployerTypeOK, ReqFields, Contents
<1>3. RunsFromDisk' /\ SandboxIsClean'
  BY <1>1 DEF RunsFromDisk, SandboxIsClean, InFlight
<1> QED BY <1>2, <1>3 DEF DeployerInv

LEMMA RequestType ==
  ASSUME DeployerInv, NEW r \in Deployments
  PROVE  /\ req \in [Deployments -> ReqFields] /\ req[r] \in ReqFields
         /\ req[r].plain \in BOOLEAN /\ req[r].prev \in BOOLEAN
         /\ entry.plain \in BOOLEAN /\ entry.prev \in BOOLEAN
         /\ tree \in Contents /\ disk \in Contents /\ beside \in Contents
         /\ proc \in Contents /\ razed \in BOOLEAN
         /\ Entry(Own(r)) \in [there: BOOLEAN, plain: BOOLEAN, prev: BOOLEAN]
         /\ proc # "missing" => proc = disk \/ razed
BY DEF DeployerInv, DeployerTypeOK, ReqFields, Entry, Own, RunsFromDisk

LEMMA BeginKeeps ==
  ASSUME DeployerInv, NEW r \in Deployments, Begin(r)
  PROVE  DeployerInv'
<1> DEFINE q == [stage |-> "clone", plain |-> entry.plain, prev |-> entry.prev]
<1>1. q \in ReqFields /\ q.stage = "clone"
  BY RequestType DEF ReqFields
<1>2. req' = [req EXCEPT ![r] = q]
  BY DEF Begin
<1> HIDE DEF q
<1>3. entry' \in [there: BOOLEAN, plain: BOOLEAN, prev: BOOLEAN]
  BY RequestType DEF Begin, Entry
<1>4. "empty" \in Contents
  BY DEF Contents
<1> QED BY <1>1, <1>2, <1>3, <1>4, RequestType, RequestStep DEF Begin

LEMMA DeployStepKeeps ==
  ASSUME DeployerInv, NEW r \in Deployments, DeployStep(r)
  PROVE  DeployerInv'
<1>1. CASE Cloned(r)
  <2>0. \E plain \in BOOLEAN : plain = (r \in Plain)
    <3> WITNESS (r \in Plain) \in BOOLEAN
    <3> QED OBVIOUS
  <2> PICK plain \in BOOLEAN : plain = (r \in Plain)
    BY <2>0
  <2> DEFINE q == [req[r] EXCEPT !.stage = "install", !.plain = plain]
  <2>1. q \in ReqFields /\ q.stage = "install"
    BY RequestType DEF ReqFields
  <2>2. req' = [req EXCEPT ![r] = q]
    <3>1. req' = [req EXCEPT ![r].stage = "install", ![r].plain = plain]
      BY <1>1 DEF Cloned
    <3> QED BY <3>1, RequestType DEF ReqFields
  <2> HIDE DEF q
  <2>3. entry' \in [there: BOOLEAN, plain: BOOLEAN, prev: BOOLEAN]
    <3>1. entry' = Entry([Own(r) EXCEPT !.plain = plain])
      BY <1>1 DEF Cloned
    <3> QED BY <3>1, RequestType DEF Entry, Own
  <2>4. r \in Contents
    BY DEF Contents
  <2> QED BY <1>1, <2>1, <2>2, <2>3, <2>4, RequestType, RequestStep DEF Cloned
<1>2. CASE Installed(r)
  <2> DEFINE q == [req[r] EXCEPT !.stage = "build"]
  <2>1. q \in ReqFields /\ q.stage = "build"
    BY RequestType DEF ReqFields
  <2>2. req' = [req EXCEPT ![r] = q]
    BY <1>2 DEF Installed
  <2> HIDE DEF q
  <2> QED BY <1>2, <2>1, <2>2, RequestType, RequestStep DEF Installed
<1>3. CASE Promoted(r)
  <2> DEFINE Replaces(replaced) ==
         /\ req' = [req EXCEPT ![r].stage = "health", ![r].prev = replaced]
         /\ entry' = Entry([Own(r) EXCEPT !.prev = replaced])
         /\ beside' = IF req[r].plain /\ replaced THEN disk ELSE beside
  <2>1. \E replaced \in BOOLEAN : Replaces(replaced)
    <3>1. CASE req[r].plain
      <4>1. Replaces(disk # "missing")
        BY <1>3, <3>1 DEF Promoted
      <4> QED BY <4>1
    <3>2. CASE ~req[r].plain
      <4>1. Replaces(disk \in Deployments \ Plain)
        BY <1>3, <3>2 DEF Promoted
      <4> WITNESS (disk \in Deployments \ Plain) \in BOOLEAN
      <4> QED BY <4>1
    <3> QED BY <3>1, <3>2
  <2> PICK replaced \in BOOLEAN : Replaces(replaced)
    BY <2>1
  <2> DEFINE q == [req[r] EXCEPT !.stage = "health", !.prev = replaced]
  <2>2. q \in ReqFields /\ q.stage = "health"
    BY RequestType DEF ReqFields
  <2>3. req' = [req EXCEPT ![r] = q]
    BY RequestType DEF ReqFields
  <2>4. entry' \in [there: BOOLEAN, plain: BOOLEAN, prev: BOOLEAN]
    BY RequestType DEF Entry, Own
  <2>5. beside' \in Contents
    BY RequestType
  <2> HIDE DEF q, Replaces
  <2>6. /\ disk' = tree /\ proc' = tree /\ tree' = tree /\ razed' = FALSE
        /\ rolling' = rolling /\ undeploying' = undeploying /\ calls' = calls
    BY <1>3 DEF Promoted
  <2> QED BY <2>2, <2>3, <2>4, <2>5, <2>6, RequestType, RequestStep
<1>4. CASE Finished(r)
  <2>1. Without("ok") \in ReqFields /\ "missing" \in Contents
    BY DEF Without, ReqFields, Contents
  <2> QED BY <1>4, <2>1, RequestType, RequestStep DEF Finished
<1>5. CASE Failed(r) \/ PromotedNothing(r)
  <2>1. Without("failed") \in ReqFields /\ "missing" \in Contents
    BY DEF Without, ReqFields, Contents
  <2>2. /\ req' = [req EXCEPT ![r] = Without("failed")] /\ entry' = Entry(Own(r))
        /\ proc' = "missing" /\ tree' = "missing"
        /\ disk' \in {disk, "missing"} /\ beside' \in {disk, beside}
        /\ rolling' = rolling /\ undeploying' = undeploying /\ calls' = calls
        /\ razed' = razed
    BY <1>5 DEF Failed, PromotedNothing, GiveUp
  <2> QED BY <2>1, <2>2, RequestType, RequestStep
<1> QED BY <1>1, <1>2, <1>3, <1>4, <1>5 DEF DeployStep

LEMMA TenantStepKeeps == DeployerInv /\ TenantStep => DeployerInv'
<1> SUFFICES ASSUME DeployerInv, TenantStep PROVE DeployerInv'
  OBVIOUS
<1>1. "missing" \in Contents /\ MaxCalls \in Nat
      /\ entry \in [there: BOOLEAN, plain: BOOLEAN, prev: BOOLEAN]
      /\ rolling \in [on: BOOLEAN, plain: BOOLEAN]
      /\ calls \in 0..MaxCalls
  BY DeployerAssumption DEF Contents, DeployerInv, DeployerTypeOK
<1>2. CASE RollBack
  <2>1. Backup(entry.plain) \in Contents
    BY <1>1 DEF Backup, DeployerInv, DeployerTypeOK
  <2>2. Entry(entry) \in [there: BOOLEAN, plain: BOOLEAN, prev: BOOLEAN]
    BY <1>1 DEF Entry
  <2>3. [on |-> TRUE, plain |-> entry.plain] \in [on: BOOLEAN, plain: BOOLEAN]
    BY <1>1
  <2>4. calls' \in 0..MaxCalls
    BY <1>1, <1>2 DEF RollBack
  <2>5. DeployerTypeOK'
    BY <1>1, <1>2, <2>1, <2>2, <2>3, <2>4 DEF RollBack, DeployerInv, DeployerTypeOK
  <2>6. RunsFromDisk' /\ SandboxIsClean'
    BY <1>2 DEF RollBack, DeployerInv, RunsFromDisk, SandboxIsClean, InFlight
  <2> QED BY <2>5, <2>6 DEF DeployerInv
<1>3. CASE RolledBack
  <2>1. DeployerTypeOK'
    BY <1>1, <1>3 DEF RolledBack, DeployerInv, DeployerTypeOK, Entry
  <2>2. RunsFromDisk' /\ SandboxIsClean'
    BY <1>3 DEF RolledBack, DeployerInv, RunsFromDisk, SandboxIsClean, InFlight
  <2> QED BY <2>1, <2>2 DEF DeployerInv
<1>4. CASE Undeploy
  <2>1. calls' \in 0..MaxCalls /\ entry.there \in BOOLEAN
    BY <1>1, <1>4 DEF Undeploy
  <2>2. DeployerTypeOK'
    BY <1>1, <1>4, <2>1 DEF Undeploy, DeployerInv, DeployerTypeOK
  <2>3. RunsFromDisk' /\ SandboxIsClean'
    BY <1>4 DEF Undeploy, DeployerInv, RunsFromDisk, SandboxIsClean, InFlight
  <2> QED BY <2>2, <2>3 DEF DeployerInv
<1>5. CASE Undeployed
  <2>1. DeployerTypeOK'
    BY <1>1, <1>5 DEF Undeployed, DeployerInv, DeployerTypeOK, NoEntry
  <2>2. RunsFromDisk' /\ SandboxIsClean'
    BY <1>5 DEF Undeployed, DeployerInv, RunsFromDisk, SandboxIsClean, InFlight
  <2> QED BY <2>1, <2>2 DEF DeployerInv
<1> QED BY <1>2, <1>3, <1>4, <1>5 DEF TenantStep
-------------------------------------------------------------------------------
(* The API by itself: what TypeOK says of it, and Builds. *)
ApiType ==
  /\ rows \in [Deployments -> RowFields]
  /\ queue \in Seq(Deployments)
  /\ draining \in BOOLEAN
  /\ runner \in [Deployments -> Places]
  /\ direct \subseteq Deployments
  /\ cancels \in [Deployments -> {"none", "queued", "building", "deploying", "active"}]
  /\ faults \in 0..MaxFaults
  /\ inTime \subseteq Deployments /\ foreign \subseteq Deployments
  /\ lost \subseteq Deployments /\ late \subseteq Deployments

ApiInv == ApiType /\ Builds

LEMMA Parts == IInv <=> DeployerInv /\ ApiInv
BY DEF IInv, TypeOK, DeployerInv, ApiInv, ApiType, RowFields, Places

(* Builds is about these variables alone. *)
LEMMA BuildsUnchanged ==
  ASSUME Builds,
         UNCHANGED <<rows, queue, draining, runner, direct, inTime, late>>
  PROVE  Builds'
BY DEF Builds, Serial, Marking, OneCurrent, Row, InQueue

LEMMA RowType ==
  ASSUME ApiInv, NEW d \in Deployments
  PROVE  /\ rows \in [Deployments -> RowFields] /\ rows[d] \in RowFields
         /\ rows[d].cancel \in BOOLEAN /\ rows[d].current \in BOOLEAN
         /\ runner \in [Deployments -> Places] /\ runner[d] \in Places
         /\ queue \in Seq(Deployments)
         /\ Row(d) /\ Serial /\ Marking /\ OneCurrent
BY DEF ApiInv, ApiType, Builds, RowFields

(* A write of one row's status. *)
LEMMA SettleFacts ==
  ASSUME ApiInv, NEW d \in Deployments,
         NEW s \in {"unborn", "queued", "building", "deploying", "live", "active",
                    "failed", "cancelled"},
         rows' = [rows EXCEPT ![d].status = s]
  PROVE  /\ rows' \in [Deployments -> RowFields]
         /\ rows'[d].status = s /\ rows'[d].cancel = rows[d].cancel
         /\ rows'[d].current = rows[d].current
         /\ \A e \in Deployments \ {d} : rows'[e] = rows[e]
BY RowType DEF RowFields, Terminal

(***************************************************************************)
(* The runner goes from one place to another, and writes its own row or    *)
(* clears the mark of others.                                              *)
(***************************************************************************)
LEMMA RunnerMoves ==
  ASSUME ApiInv, NEW d \in Deployments, NEW p \in Places \ {"idle"},
         runner[d] # "idle", runner' = [runner EXCEPT ![d] = p],
         queue' = queue, draining' = draining, direct' = direct,
         inTime' = inTime, late' = late,
         \A e \in Deployments \ {d} :
           /\ rows'[e].status = rows[e].status /\ rows'[e].cancel = rows[e].cancel
           /\ (rows'[e].current => rows[e].current),
         Row(d)', Marking', OneCurrent'
  PROVE  Builds' /\ runner' \in [Deployments -> Places]
<1>1. /\ runner' \in [Deployments -> Places] /\ runner'[d] = p
      /\ \A e \in Deployments \ {d} : runner'[e] = runner[e] /\ runner[e] = "idle"
  BY RowType DEF Serial
<1>2. Serial'
  BY <1>1, RowType DEF Serial
<1>3. ASSUME NEW e \in Deployments PROVE Row(e)'
  <2>1. CASE e = d
    BY <2>1
  <2>2. CASE e # d
    <3>1. InQueue(e)' <=> InQueue(e)
      BY DEF InQueue
    <3>2. Row(e) /\ runner'[e] = runner[e] /\ runner[e] = "idle"
      BY <1>1, <2>2, RowType
    <3>3. "idle" \notin Unmarked /\ "idle" \notin Early
      BY DEF Unmarked, Early, Steps
    <3> QED BY <2>2, <3>1, <3>2, <3>3 DEF Row
  <2> QED BY <2>1, <2>2
<1> QED BY <1>1, <1>2, <1>3 DEF Builds

(* ... without a write. *)
LEMMA RunnerMovesOnly ==
  ASSUME ApiInv, NEW d \in Deployments, NEW p \in Places \ {"idle", "golive"},
         runner[d] # "idle", runner' = [runner EXCEPT ![d] = p],
         UNCHANGED <<rows, queue, draining, direct, inTime, late>>,
         p \in Early => runner[d] \in Early,
         p \in Unmarked => runner[d] \in Unmarked,
         d \in inTime => p \notin {"handoff", "deploy", "flip"}
  PROVE  Builds' /\ runner' \in [Deployments -> Places]
<1>1. runner'[d] = p /\ \A e \in Deployments \ {d} : runner'[e] = runner[e]
  BY RowType
<1>2. Row(d)'
  <2>1. InQueue(d)' <=> InQueue(d)
    BY DEF InQueue
  <2> QED BY <1>1, <2>1, RowType DEF Row
<1>3. Marking' /\ OneCurrent'
  BY <1>1, RowType DEF Marking, OneCurrent
<1> QED BY <1>2, <1>3, RunnerMoves

-------------------------------------------------------------------------------
(***************************************************************************)
(* The end of a build: its row is written or not, and the head of the      *)
(* queue is next.                                                          *)
(***************************************************************************)
LEMMA ReturnFacts ==
  ASSUME ApiInv, NEW d \in Deployments, runner[d] # "idle", Return(d)
  PROVE  /\ queue' \in Seq(Deployments) /\ draining' \in BOOLEAN
         /\ runner' \in [Deployments -> Places] /\ Serial' /\ runner'[d] = "idle"
         /\ \A e \in Deployments :
              /\ InQueue(e)' => InQueue(e) /\ runner'[e] = "idle"
              /\ runner'[e] # "idle" => runner'[e] = "load" /\ InQueue(e)
<1>1. /\ queue \in Seq(Deployments) /\ runner \in [Deployments -> Places]
      /\ \A e \in Deployments \ {d} : runner[e] = "idle"
      /\ \A i, j \in DOMAIN queue : queue[i] = queue[j] => i = j
      /\ draining = TRUE
      /\ ~InQueue(d)
  BY RowType DEF Serial, Row, ApiInv, ApiType
<1>2. "idle" \in Places /\ "load" \in Places
  BY DEF Places, Steps
<1>3. CASE queue = <<>>
  <2>1. runner' = [runner EXCEPT ![d] = "idle"] /\ queue' = queue /\ draining' = FALSE
    BY <1>3 DEF Return, At
  <2>2. /\ runner' \in [Deployments -> Places]
        /\ \A e \in Deployments : runner'[e] = "idle"
    BY <1>1, <1>2, <2>1
  <2>3. DOMAIN queue = {}
    BY <1>3
  <2> QED BY <1>1, <1>3, <2>1, <2>2, <2>3 DEF Serial, InQueue
<1>4. CASE queue # <<>>
  <2> DEFINE h == Head(queue)
  <2>1. /\ runner' = [runner EXCEPT ![d] = "idle", ![h] = "load"]
        /\ queue' = Tail(queue) /\ draining' = draining
    BY <1>4 DEF Return
  <2>2. /\ Len(queue) \in Nat /\ Len(queue) > 0 /\ DOMAIN queue = 1..Len(queue)
        /\ h \in Deployments /\ h = queue[1]
    BY <1>1, <1>4, HeadTailProperties, EmptySeq, LenProperties
  <2>3. /\ queue' \in Seq(Deployments) /\ DOMAIN queue' = 1..(Len(queue) - 1)
        /\ \A i \in 1..(Len(queue) - 1) : queue'[i] = queue[i + 1]
    BY <1>1, <1>4, <2>1, <2>2, HeadTailProperties, LenProperties
  <2>4. h # d
    BY <1>1, <2>2 DEF InQueue
  <2> HIDE DEF h
  <2>5. /\ runner' \in [Deployments -> Places]
        /\ runner'[d] = "idle" /\ runner'[h] = "load"
        /\ \A e \in Deployments \ {h} : runner'[e] = "idle"
    BY <1>1, <1>2, <2>1, <2>2, <2>4
  <2>6. ASSUME NEW i \in DOMAIN queue', NEW j \in DOMAIN queue', queue'[i] = queue'[j]
        PROVE  i = j
    <3>1. /\ i \in Nat /\ j \in Nat
          /\ i + 1 \in DOMAIN queue /\ j + 1 \in DOMAIN queue
          /\ queue[i + 1] = queue[j + 1]
      BY <2>2, <2>3, <2>6
    <3>2. i + 1 = j + 1
      BY <1>1, <3>1
    <3> QED BY <3>1, <3>2
  <2>7. \A e \in Deployments : InQueue(e)' => InQueue(e) /\ e # h
    <3> SUFFICES ASSUME NEW e \in Deployments, NEW i \in DOMAIN queue', queue'[i] = e
                 PROVE  InQueue(e) /\ e # h
      BY DEF InQueue
    <3>1. i \in Nat /\ i + 1 \in DOMAIN queue /\ 1 \in DOMAIN queue /\ i + 1 # 1
          /\ queue[i + 1] = e
      BY <2>2, <2>3
    <3> QED BY <1>1, <2>2, <3>1 DEF InQueue
  <2>8. InQueue(h)
    BY <2>2 DEF InQueue
  <2> QED BY <1>1, <2>1, <2>3, <2>5, <2>6, <2>7, <2>8 DEF Serial
<1> QED BY <1>3, <1>4

LEMMA EndKeeps ==
  ASSUME ApiInv, NEW d \in Deployments, runner[d] # "idle", Return(d),
         rows' \in [Deployments -> RowFields],
         rows'[d].status \in {rows[d].status, "failed", "cancelled"},
         rows'[d].cancel = rows[d].cancel, rows'[d].current = rows[d].current,
         \A e \in Deployments \ {d} : rows'[e] = rows[e],
         direct' = direct, inTime' = inTime,
         \A e \in Deployments \ {d} : e \in late => e \in late',
         \A e \in Deployments \ {d} : e \in late' => e \in late,
         rows'[d].current /\ d \notin late' => rows'[d].status = "live"
  PROVE  Builds'
<1>1. /\ Serial' /\ runner'[d] = "idle"
      /\ \A e \in Deployments :
           /\ InQueue(e)' => InQueue(e) /\ runner'[e] = "idle"
           /\ runner'[e] # "idle" => runner'[e] = "load" /\ InQueue(e)
  BY ReturnFacts
<1>2. ~InQueue(d) /\ rows[d].status # "unborn" /\ d \notin direct
  BY RowType DEF Row
<1>3. "load" \in Early /\ "load" \in Unmarked /\ "idle" \notin Unmarked /\ "idle" \notin Early
  BY DEF Early, Unmarked, Steps
<1>4. ASSUME NEW e \in Deployments PROVE Row(e)'
  <2>1. Row(e)
    BY RowType
  <2>2. CASE e = d
    BY <1>1, <1>2, <1>3, <2>1, <2>2 DEF Row
  <2>3. CASE e # d
    <3>1. runner[e] = "idle"
      BY <2>3, RowType DEF Serial
    <3> QED BY <1>1, <1>3, <2>1, <2>3, <3>1 DEF Row
  <2> QED BY <2>2, <2>3
<1>5. Marking'
  BY <1>1 DEF Marking
<1>6. OneCurrent'
  <2>1. \A e \in Deployments : rows'[e].current => rows[e].current
    OBVIOUS
  <2> QED BY <2>1, RowType DEF OneCurrent
<1> QED BY <1>1, <1>4, <1>5, <1>6 DEF Builds

-------------------------------------------------------------------------------
(* The actions of the runner. *)
LEMMA FaultType == ApiInv /\ Fault => faults' \in 0..MaxFaults
BY BuildsAssumption DEF ApiInv, ApiType, Fault

(* What the places are to each other. *)
LEMMA PlaceFacts ==
  /\ {"prepare", "cancelling", "clone", "install", "build", "handoff", "deploy",
      "flip", "golive", "record", "failing"} \subseteq Places \ {"idle"}
  /\ {"load", "prepare", "clone", "install", "build", "cancelling"} \subseteq Early
  /\ Steps \subseteq Early /\ Early \subseteq Unmarked
  /\ {"handoff", "deploy", "flip", "golive"} \subseteq Unmarked
  /\ {"handoff", "deploy", "flip", "golive", "record", "failing", "idle"} \cap Early = {}
  /\ {"record", "failing", "idle"} \cap Unmarked = {}
BY DEF Places, Early, Unmarked, Steps

LEMMA StartKeeps ==
  ASSUME ApiInv, NEW d \in Deployments, Start(d)
  PROVE  ApiInv'
<1>1. /\ rows' \in [Deployments -> RowFields]
      /\ rows'[d].status = "building" /\ rows'[d].cancel = rows[d].cancel
      /\ rows'[d].current = rows[d].current
      /\ \A e \in Deployments \ {d} : rows'[e] = rows[e]
  BY SettleFacts DEF Start, Settle
<1>2. /\ runner[d] = "load" /\ runner' = [runner EXCEPT ![d] = "prepare"]
      /\ UNCHANGED <<queue, draining, direct, cancels, faults, inTime, foreign, lost, late>>
  BY DEF Start, At, Calls, history
<1>3. runner'[d] = "prepare"
  BY <1>2, RowType
<1>4. Row(d)'
  BY <1>1, <1>2, <1>3, RowType, PlaceFacts DEF Row, InQueue
<1>5. Marking' /\ OneCurrent'
  BY <1>1, <1>2, RowType DEF Marking, OneCurrent
<1>6. Builds' /\ runner' \in [Deployments -> Places]
  BY <1>1, <1>2, <1>4, <1>5, PlaceFacts, RunnerMoves
<1> QED BY <1>1, <1>2, <1>6 DEF ApiInv, ApiType

LEMMA CheckKeeps ==
  ASSUME ApiInv, NEW d \in Deployments, Check(d)
  PROVE  ApiInv'
<1> DEFINE p == IF IsCancelled(d) THEN "cancelling" ELSE After[runner[d]]
<1>1. /\ runner[d] \in Checked /\ runner' = [runner EXCEPT ![d] = p]
      /\ UNCHANGED <<rows, queue, draining, direct, cancels, faults, inTime,
                     foreign, lost, late>>
  BY DEF Check, At, Calls, history
<1>2. /\ p \in {"cancelling", "clone", "install", "build", "handoff"}
      /\ runner[d] \in Early /\ runner[d] \in Unmarked /\ runner[d] # "idle"
  BY <1>1, PlaceFacts DEF Checked, After
<1>3. d \in inTime => p = "cancelling"
  BY RowType DEF Row, IsCancelled
<1> HIDE DEF p
<1>4. Builds' /\ runner' \in [Deployments -> Places]
  BY <1>1, <1>2, <1>3, PlaceFacts, RunnerMovesOnly
<1> QED BY <1>1, <1>4 DEF ApiInv, ApiType

LEMMA DeployKeeps ==
  ASSUME ApiInv, NEW d \in Deployments, Deploy(d)
  PROVE  ApiInv'
<1>1. /\ rows' \in [Deployments -> RowFields]
      /\ rows'[d].status = "deploying" /\ rows'[d].cancel = rows[d].cancel
      /\ rows'[d].current = rows[d].current
      /\ \A e \in Deployments \ {d} : rows'[e] = rows[e]
  BY SettleFacts DEF Deploy, Settle
<1>2. /\ runner[d] = "handoff" /\ runner' = [runner EXCEPT ![d] = "deploy"]
      /\ UNCHANGED <<queue, draining, direct, cancels, faults, inTime, foreign, lost, late>>
  BY DEF Deploy, At, Calls, history
<1>3. runner'[d] = "deploy"
  BY <1>2, RowType
<1>4. Row(d)'
  BY <1>1, <1>2, <1>3, RowType, PlaceFacts DEF Row, InQueue
<1>5. Marking' /\ OneCurrent'
  BY <1>1, <1>2, RowType DEF Marking, OneCurrent
<1>6. Builds' /\ runner' \in [Deployments -> Places]
  BY <1>1, <1>2, <1>4, <1>5, PlaceFacts, RunnerMoves
<1> QED BY <1>1, <1>2, <1>6 DEF ApiInv, ApiType

LEMMA FlipKeeps ==
  ASSUME ApiInv, NEW d \in Deployments, Flip(d)
  PROVE  ApiInv'
<1>1. /\ runner[d] = "flip" /\ runner' = [runner EXCEPT ![d] = "golive"]
      /\ rows' = [e \in Deployments |-> [rows[e] EXCEPT !.current = FALSE]]
      /\ UNCHANGED <<queue, draining, direct, cancels, faults, inTime, foreign, lost, late>>
  BY DEF Flip, At, Calls, history
<1>2. /\ rows' \in [Deployments -> RowFields]
      /\ \A e \in Deployments :
           /\ rows'[e].status = rows[e].status /\ rows'[e].cancel = rows[e].cancel
           /\ rows'[e].current = FALSE
  BY <1>1, RowType DEF RowFields
<1>3. runner'[d] = "golive"
  BY <1>1, RowType
<1>4. Row(d)'
  BY <1>1, <1>2, <1>3, RowType, PlaceFacts DEF Row, InQueue
<1>5. Marking' /\ OneCurrent'
  BY <1>2 DEF Marking, OneCurrent
<1>6. Builds' /\ runner' \in [Deployments -> Places]
  BY <1>1, <1>2, <1>4, <1>5, PlaceFacts, RunnerMoves
<1> QED BY <1>1, <1>2, <1>6 DEF ApiInv, ApiType

LEMMA GoLiveKeeps ==
  ASSUME ApiInv, NEW d \in Deployments, GoLive(d)
  PROVE  ApiInv'
<1>1. /\ runner[d] = "golive" /\ runner' = [runner EXCEPT ![d] = "record"]
      /\ rows' = [rows EXCEPT ![d].status = "live", ![d].current = TRUE]
      /\ UNCHANGED <<queue, draining, direct, cancels, faults, inTime, foreign, lost, late>>
  BY DEF GoLive, At, Calls, history
<1>2. /\ rows' \in [Deployments -> RowFields]
      /\ rows'[d].status = "live" /\ rows'[d].cancel = rows[d].cancel
      /\ \A e \in Deployments \ {d} : rows'[e] = rows[e]
  BY <1>1, RowType DEF RowFields, Terminal
<1>3. /\ runner'[d] = "record"
      /\ \A e \in Deployments : runner'[e] # "golive"
  BY <1>1, RowType DEF Serial
<1>4. Row(d)'
  BY <1>1, <1>2, <1>3, RowType, PlaceFacts DEF Row, InQueue
<1>5. Marking'
  BY <1>3 DEF Marking
<1>6. OneCurrent'
  BY <1>1, <1>2, RowType DEF Marking, OneCurrent
<1>7. Builds' /\ runner' \in [Deployments -> Places]
  BY <1>1, <1>2, <1>4, <1>5, <1>6, PlaceFacts, RunnerMoves
<1> QED BY <1>1, <1>2, <1>7 DEF ApiInv, ApiType

(* Those that only move on, or to the catch. *)
LEMMA MovesKeep ==
  ASSUME ApiInv, NEW d \in Deployments,
         \/ Deployed(d) \/ StepFails(d) \/ DeployFails(d) \/ DeployTimesOut(d)
         \/ DbError(d)
  PROVE  ApiInv'
<1>1. /\ UNCHANGED <<rows, queue, draining, direct, cancels, inTime, lost, late>>
      /\ foreign' \subseteq Deployments
      /\ faults' \in 0..MaxFaults
  BY FaultType DEF Deployed, StepFails, DeployFails, DeployTimesOut, DbError, Calls,
                   history, ApiInv, ApiType
<1>2. runner[d] # "idle"
  BY DEF Deployed, StepFails, DeployFails, DeployTimesOut, DbError, Steps
<1>3. CASE Deployed(d)
  <2>1. runner[d] = "deploy" /\ runner' = [runner EXCEPT ![d] = "flip"]
    BY <1>3 DEF Deployed, At
  <2>2. d \notin inTime
    BY <2>1, RowType DEF Row
  <2>3. Builds' /\ runner' \in [Deployments -> Places]
    BY <1>1, <1>2, <2>1, <2>2, PlaceFacts, RunnerMovesOnly
  <2> QED BY <1>1, <2>3 DEF ApiInv, ApiType
<1>4. CASE ~Deployed(d)
  <2>1. runner' = [runner EXCEPT ![d] = "failing"]
    BY <1>4 DEF StepFails, DeployFails, DeployTimesOut, DbError, At
  <2>2. Builds' /\ runner' \in [Deployments -> Places]
    BY <1>1, <1>2, <2>1, PlaceFacts, RunnerMovesOnly
  <2> QED BY <1>1, <2>2 DEF ApiInv, ApiType
<1> QED BY <1>3, <1>4

(* Those that end the build. *)
LEMMA EndsKeep ==
  ASSUME ApiInv, NEW d \in Deployments,
         Recorded(d) \/ FinaliseCancelled(d) \/ Fail(d) \/ FailUnwritten(d)
  PROVE  ApiInv'
<1>1. runner[d] # "idle" /\ Return(d)
  BY DEF Recorded, FinaliseCancelled, Fail, FailUnwritten
<1>2. /\ UNCHANGED <<direct, cancels, inTime, foreign>>
      /\ faults' \in 0..MaxFaults
      /\ lost' \subseteq Deployments /\ late' \subseteq Deployments
      /\ \A e \in Deployments \ {d} : e \in late' <=> e \in late
  BY FaultType DEF Recorded, FinaliseCancelled, Fail, FailUnwritten, Calls, history,
                   ApiInv, ApiType
<1>3. /\ rows' \in [Deployments -> RowFields]
      /\ rows'[d].status \in {rows[d].status, "failed", "cancelled"}
      /\ rows'[d].cancel = rows[d].cancel /\ rows'[d].current = rows[d].current
      /\ \A e \in Deployments \ {d} : rows'[e] = rows[e]
  <2>1. CASE rows' = rows
    BY <2>1, RowType
  <2>2. CASE rows' = [rows EXCEPT ![d].status = "failed"]
    BY <2>2, SettleFacts
  <2>3. CASE rows' = [rows EXCEPT ![d].status = "cancelled"]
    BY <2>3, SettleFacts
  <2> QED BY <2>1, <2>2, <2>3
          DEF Recorded, FinaliseCancelled, Fail, FailUnwritten, Settle
<1>4. rows'[d].current /\ d \notin late' => rows'[d].status = "live"
  <2>1. rows[d].current /\ d \notin late => rows[d].status = "live"
    BY RowType DEF Row
  <2>2. CASE Recorded(d) \/ FailUnwritten(d)
    BY <2>1, <2>2 DEF Recorded, FailUnwritten, history
  <2>3. CASE FinaliseCancelled(d)
    <3>1. ~rows[d].current
      BY <2>3, RowType, PlaceFacts DEF FinaliseCancelled, Row
    <3> QED BY <1>3, <3>1
  <2>4. CASE Fail(d)
    BY <1>3, <2>1, <2>4 DEF Fail
  <2> QED BY <2>2, <2>3, <2>4
<1>5. Builds'
  BY <1>1, <1>2, <1>3, <1>4, EndKeeps
<1>6. /\ queue' \in Seq(Deployments) /\ draining' \in BOOLEAN
      /\ runner' \in [Deployments -> Places]
  BY <1>1, ReturnFacts
<1> QED BY <1>2, <1>3, <1>5, <1>6 DEF ApiInv, ApiType

-------------------------------------------------------------------------------
(* The actions of the procedures, and the restart. *)
LEMMA CreateKeeps ==
  ASSUME ApiInv, NEW d \in Deployments, Create(d)
  PROVE  ApiInv'
<1>1. /\ rows' \in [Deployments -> RowFields]
      /\ rows'[d].status = "queued" /\ rows'[d].cancel = rows[d].cancel
      /\ rows'[d].current = rows[d].current
      /\ \A e \in Deployments \ {d} : rows'[e] = rows[e]
  BY SettleFacts DEF Create, Settle
<1>2. /\ rows[d].status = "unborn" /\ ~rows[d].current /\ runner[d] = "idle"
      /\ ~InQueue(d) /\ d \notin direct /\ d \notin inTime
  BY RowType DEF Create, Row
<1>3. UNCHANGED <<direct, cancels, faults, inTime, foreign, lost, late>>
  BY DEF Create, Calls, history
<1>4. OneCurrent'
  BY <1>1, RowType DEF OneCurrent
<1>5. CASE draining
  <2>1. /\ queue' = Append(queue, d) /\ draining' = draining /\ runner' = runner
    BY <1>5 DEF Create
  <2>2. /\ queue' \in Seq(Deployments)
        /\ Len(queue) \in Nat /\ DOMAIN queue = 1..Len(queue)
        /\ DOMAIN queue' = 1..(Len(queue) + 1)
        /\ \A i \in 1..Len(queue) : queue'[i] = queue[i]
        /\ queue'[Len(queue) + 1] = d
    BY <2>1, RowType, AppendProperties, LenProperties
  <2>3. /\ InQueue(d)'
        /\ \A e \in Deployments \ {d} : InQueue(e)' => InQueue(e)
    BY <2>2 DEF InQueue
  <2>4. ASSUME NEW i \in DOMAIN queue', NEW j \in DOMAIN queue', queue'[i] = queue'[j]
        PROVE  i = j
    <3>1. \A k \in 1..Len(queue) : queue[k] # d
      BY <1>2, <2>2 DEF InQueue
    <3>2. \A k, l \in 1..Len(queue) : queue[k] = queue[l] => k = l
      BY <2>2, RowType DEF Serial
    <3> QED BY <2>2, <2>4, <3>1, <3>2
  <2>5. Serial'
    BY <1>5, <2>1, <2>4, RowType DEF Serial
  <2>6. ASSUME NEW e \in Deployments PROVE Row(e)'
    <3>1. CASE e = d
      BY <1>1, <1>2, <1>3, <2>1, <2>3, <3>1, PlaceFacts DEF Row
    <3>2. CASE e # d
      BY <1>1, <1>3, <2>1, <2>3, <3>2, RowType DEF Row
    <3> QED BY <3>1, <3>2
  <2>7. Marking'
    BY <1>1, <2>1, RowType DEF Marking
  <2>8. Builds'
    BY <1>4, <2>5, <2>6, <2>7 DEF Builds
  <2> QED BY <1>1, <1>3, <2>1, <2>2, <2>8 DEF ApiInv, ApiType
<1>6. CASE ~draining
  <2>1. /\ queue' = queue /\ draining' = TRUE
        /\ runner' = [runner EXCEPT ![d] = "load"]
    BY <1>6 DEF Create, At
  <2>2. queue = <<>> /\ \A e \in Deployments : runner[e] = "idle"
    BY <1>6, RowType DEF Serial
  <2>3. /\ runner' \in [Deployments -> Places] /\ runner'[d] = "load"
        /\ \A e \in Deployments \ {d} : runner'[e] = "idle"
    BY <2>1, <2>2, RowType DEF Places, Steps
  <2>4. Serial'
    BY <2>1, <2>3, RowType DEF Serial
  <2>5. ASSUME NEW e \in Deployments PROVE Row(e)'
    <3>0. InQueue(e)' <=> InQueue(e)
      BY <2>1 DEF InQueue
    <3>1. CASE e = d
      BY <1>1, <1>2, <1>3, <2>1, <2>3, <3>0, <3>1 DEF Row
    <3>2. CASE e # d
      BY <1>1, <1>3, <2>2, <2>3, <3>0, <3>2, RowType DEF Row
    <3> QED BY <3>1, <3>2
  <2>6. Marking'
    BY <2>3 DEF Marking
  <2>7. Builds'
    BY <1>4, <2>4, <2>5, <2>6 DEF Builds
  <2> QED BY <1>1, <1>3, <2>1, <2>3, <2>7 DEF ApiInv, ApiType
<1> QED BY <1>5, <1>6

LEMMA CancelKeeps ==
  ASSUME ApiInv, NEW d \in Deployments, Cancel(d)
  PROVE  ApiInv'
<1>1. UNCHANGED <<rows, queue, draining, runner, direct, faults, inTime, foreign, lost, late>>
  BY DEF Cancel, history
<1>2. cancels' \in [Deployments -> {"none", "queued", "building", "deploying", "active"}]
  <2>1. rows[d].status \in {"queued", "building", "deploying", "active"}
    BY RowType DEF Cancel, RowFields, Terminal
  <2> QED BY <2>1 DEF Cancel, ApiInv, ApiType
<1>3. Builds'
  BY <1>1, BuildsUnchanged DEF ApiInv
<1> QED BY <1>1, <1>2, <1>3 DEF ApiInv, ApiType

LEMMA CancelReadKeeps ==
  ASSUME ApiInv, NEW d \in Deployments, CancelRead(d)
  PROVE  ApiInv'
<1>1. /\ UNCHANGED <<queue, draining, runner, direct, faults, foreign, lost>>
      /\ inTime' = IF Ahead(d) THEN inTime \cup {d} ELSE inTime
      /\ late' = IF cancels[d] = "queued" /\ rows[d].status = "live"
                   THEN late \cup {d} ELSE late
      /\ cancels' = [cancels EXCEPT ![d] = "none"]
  BY DEF CancelRead
<1>2. /\ rows' \in [Deployments -> RowFields]
      /\ rows'[d].cancel = TRUE /\ rows'[d].current = rows[d].current
      /\ rows'[d].status = IF cancels[d] = "queued" THEN "cancelled" ELSE rows[d].status
      /\ \A e \in Deployments \ {d} : rows'[e] = rows[e]
  <2>1. CASE cancels[d] = "queued"
    <3>1. rows' = [rows EXCEPT ![d].status = "cancelled", ![d].cancel = TRUE]
      BY <2>1 DEF CancelRead, RequestCancel
    <3> QED BY <2>1, <3>1, RowType DEF RowFields, Terminal
  <2>2. CASE cancels[d] # "queued"
    <3>1. rows' = [rows EXCEPT ![d].cancel = TRUE]
      BY <2>2 DEF CancelRead, RequestCancel
    <3> QED BY <2>2, <3>1, RowType DEF RowFields
  <2> QED BY <2>1, <2>2
<1>3. ASSUME NEW e \in Deployments PROVE Row(e)'
  <2>0. InQueue(e)' <=> InQueue(e)
    BY <1>1 DEF InQueue
  <2>1. CASE e # d
    <3>1. (e \in inTime' <=> e \in inTime) /\ (e \in late' <=> e \in late)
      BY <1>1, <2>1
    <3> QED BY <1>1, <1>2, <2>0, <2>1, <3>1, RowType DEF Row
  <2>2. CASE e = d
    <3>1. Row(d)
      BY RowType
    <3>2. d \in inTime' => d \in inTime \/ runner[d] \in Early \/ InQueue(d)
      BY <1>1, PlaceFacts DEF Ahead, InQueue
    <3>3. d \in inTime' =>
            /\ rows[d].status \notin {"unborn", "deploying", "live"}
            /\ runner[d] \notin {"handoff", "deploy", "flip", "golive"}
      BY <3>1, <3>2, PlaceFacts DEF Row
    <3>4. rows'[d].current /\ d \notin late' => rows'[d].status = "live"
      BY <1>1, <1>2, <3>1 DEF Row
    <3> QED BY <1>1, <1>2, <2>0, <2>2, <3>1, <3>3, <3>4 DEF Row
  <2> QED BY <2>1, <2>2
<1>4. Serial' /\ Marking' /\ OneCurrent'
  BY <1>1, <1>2, RowType DEF Serial, Marking, OneCurrent
<1>5. Builds'
  BY <1>3, <1>4 DEF Builds
<1> QED BY <1>1, <1>2, <1>5 DEF ApiInv, ApiType

LEMMA DirectKeeps ==
  ASSUME ApiInv, NEW d \in Deployments, DirectDeploy(d) \/ DirectDone(d)
  PROVE  ApiInv'
<1>1. /\ UNCHANGED <<queue, draining, runner, cancels, faults, inTime, lost, late>>
      /\ foreign' \subseteq Deployments
      /\ direct' \subseteq Deployments
      /\ \A e \in Deployments \ {d} : e \in direct' <=> e \in direct
  BY DEF DirectDeploy, DirectDone, history, ApiInv, ApiType
<1>2. /\ rows' \in [Deployments -> RowFields]
      /\ rows'[d].status \in {"building", "active", "failed"}
      /\ rows'[d].cancel = rows[d].cancel /\ rows'[d].current = rows[d].current
      /\ \A e \in Deployments \ {d} : rows'[e] = rows[e]
  <2>1. \E s \in {"building", "active", "failed"} :
           rows' = [rows EXCEPT ![d].status = s]
    BY DEF DirectDeploy, DirectDone, Settle
  <2> QED BY <2>1, SettleFacts
<1>3. /\ ~rows[d].current /\ runner[d] = "idle" /\ ~InQueue(d)
  BY RowType DEF Row, DirectDeploy, DirectDone
<1>4. ASSUME NEW e \in Deployments PROVE Row(e)'
  <2>0. InQueue(e)' <=> InQueue(e)
    BY <1>1 DEF InQueue
  <2>1. CASE e = d
    BY <1>1, <1>2, <1>3, <2>0, <2>1, RowType, PlaceFacts DEF Row
  <2>2. CASE e # d
    BY <1>1, <1>2, <2>0, <2>2, RowType DEF Row
  <2> QED BY <2>1, <2>2
<1>5. Serial' /\ Marking' /\ OneCurrent'
  BY <1>1, <1>2, RowType DEF Serial, Marking, OneCurrent
<1>6. Builds'
  BY <1>4, <1>5 DEF Builds
<1> QED BY <1>1, <1>2, <1>6 DEF ApiInv, ApiType

LEMMA RestartKeeps == ApiInv /\ Restart => ApiInv'
<1> SUFFICES ASSUME ApiInv, Restart PROVE ApiInv'
  OBVIOUS
<1>1. /\ queue' = <<>> /\ draining' = FALSE /\ direct' = {}
      /\ runner' = [d \in Deployments |-> "idle"]
      /\ cancels' = [d \in Deployments |-> "none"]
      /\ UNCHANGED <<rows, inTime, late>>
  BY DEF Restart
<1>2. /\ faults' \in 0..MaxFaults
      /\ lost' \subseteq Deployments /\ foreign' \subseteq Deployments
  BY FaultType DEF Restart, ApiInv, ApiType
<1>3. ApiType'
  <2>1. "idle" \in Places /\ <<>> \in Seq(Deployments)
    BY EmptySeq DEF Places
  <2> QED BY <1>1, <1>2, <2>1 DEF ApiInv, ApiType
<1>4. DOMAIN queue' = {}
  BY <1>1
<1>5. ASSUME NEW d \in Deployments PROVE Row(d)'
  BY <1>1, <1>4, RowType, PlaceFacts DEF Row, InQueue
<1>6. Serial' /\ Marking' /\ OneCurrent'
  BY <1>1, <1>4 DEF Serial, Marking, OneCurrent, ApiInv, Builds
<1> QED BY <1>3, <1>5, <1>6 DEF ApiInv, Builds

-------------------------------------------------------------------------------
LEMMA InitIInv == Init => IInv
<1> SUFFICES ASSUME Init PROVE IInv
  OBVIOUS
<1>1. DeployerInv
  <2>1. Without("none") \in ReqFields /\ "missing" \in Contents /\ 0 \in 0..MaxCalls
    BY DeployerAssumption DEF Without, ReqFields, Contents
  <2>2. req \in [Deployments -> ReqFields]
    BY <2>1 DEF Init, DeployerInit
  <2>3. DeployerTypeOK
    BY <2>1, <2>2 DEF Init, DeployerInit, DeployerTypeOK, ReqFields, NoEntry
  <2> QED BY <2>3 DEF Init, DeployerInit, DeployerInv, RunsFromDisk, SandboxIsClean
<1>2. ApiType
  <2>1. "idle" \in Places /\ <<>> \in Seq(Deployments) /\ 0 \in 0..MaxFaults
    BY EmptySeq, BuildsAssumption DEF Places
  <2>2. [status |-> "unborn", cancel |-> FALSE, current |-> FALSE] \in RowFields
    BY DEF RowFields
  <2>3. rows \in [Deployments -> RowFields]
    BY <2>2 DEF Init
  <2> QED BY <2>1, <2>3 DEF Init, ApiType
<1>3. Builds
  <2>1. DOMAIN queue = {}
    BY DEF Init
  <2> QED BY <2>1, PlaceFacts DEF Init, Builds, Serial, Marking, OneCurrent, Row, InQueue
<1> QED BY <1>1, <1>2, <1>3, Parts DEF ApiInv

LEMMA DeployerUnchanged == DeployerInv /\ UNCHANGED deployerVars => DeployerInv'
BY DEF DeployerInv, DeployerTypeOK, RunsFromDisk, SandboxIsClean, InFlight, deployerVars

LEMMA NextKeeps == IInv /\ [Next]_vars => IInv'
<1> SUFFICES ASSUME IInv, [Next]_vars PROVE DeployerInv' /\ ApiInv'
  BY Parts DEF IInv, TypeOK, DeployerInv, ApiInv, ApiType, RowFields, Places
<1>1. DeployerInv /\ ApiInv
  BY Parts
<1>2. ASSUME NEW d \in Deployments, RunnerStep(d) PROVE DeployerInv' /\ ApiInv'
  <2>1. ApiInv'
    BY <1>1, <1>2, StartKeeps, CheckKeeps, DeployKeeps, FlipKeeps, GoLiveKeeps,
       MovesKeep, EndsKeep DEF RunnerStep
  <2>2. CASE Deploy(d)
    BY <1>1, <2>1, <2>2, BeginKeeps DEF Deploy
  <2>3. CASE ~Deploy(d)
    <3>1. UNCHANGED deployerVars
      BY <1>2, <2>3 DEF RunnerStep, Start, Check, FinaliseCancelled, Deployed, Flip, GoLive,
           Recorded, StepFails, DeployFails, DeployTimesOut, Fail
    <3> QED BY <1>1, <2>1, <3>1, DeployerUnchanged
  <2> QED BY <2>2, <2>3
<1>3. ASSUME NEW d \in Deployments,
             \/ Create(d) \/ DbError(d) \/ FailUnwritten(d) \/ Cancel(d) \/ CancelRead(d)
             \/ DirectDone(d)
      PROVE  DeployerInv' /\ ApiInv'
  <2>1. UNCHANGED deployerVars
    BY <1>3 DEF Create, DbError, FailUnwritten, Cancel, CancelRead, DirectDone
  <2>2. ApiInv'
    BY <1>1, <1>3, CreateKeeps, MovesKeep, EndsKeep, CancelKeeps, CancelReadKeeps, DirectKeeps
  <2> QED BY <1>1, <2>1, <2>2, DeployerUnchanged
<1>4. ASSUME NEW d \in Deployments, DirectDeploy(d) PROVE DeployerInv' /\ ApiInv'
  BY <1>1, <1>4, DirectKeeps, BeginKeeps DEF DirectDeploy
<1>5. CASE Restart
  <2>1. UNCHANGED deployerVars
    BY <1>5 DEF Restart
  <2> QED BY <1>1, <1>5, <2>1, RestartKeeps, DeployerUnchanged
<1>6. CASE Tenant
  <2>1. DeployerInv'
    BY <1>1, <1>6, TenantStepKeeps DEF Tenant
  <2>2. foreign' \subseteq Deployments
    BY <1>1, <1>6 DEF Tenant, ApiInv, ApiType
  <2>3. UNCHANGED <<rows, queue, draining, runner, direct, cancels, faults, inTime, lost, late>>
    BY <1>6 DEF Tenant, apiVars
  <2>4. Builds'
    BY <1>1, <2>3, BuildsUnchanged DEF ApiInv
  <2> QED BY <1>1, <2>1, <2>2, <2>3, <2>4 DEF ApiInv, ApiType
<1>7. CASE Orchestrator
  <2>1. DeployerInv'
    BY <1>1, <1>7, DeployStepKeeps DEF Orchestrator
  <2>2. UNCHANGED <<apiVars, history>>
    BY <1>7 DEF Orchestrator
  <2>3. Builds'
    BY <1>1, <2>2, BuildsUnchanged DEF ApiInv, apiVars, history
  <2> QED BY <1>1, <2>1, <2>2, <2>3 DEF ApiInv, ApiType, apiVars, history
<1>8. CASE UNCHANGED vars
  <2>1. UNCHANGED deployerVars /\ UNCHANGED <<apiVars, history>>
    BY <1>8 DEF vars
  <2>2. Builds'
    BY <1>1, <2>1, BuildsUnchanged DEF ApiInv, apiVars, history
  <2>3. ApiInv'
    BY <1>1, <2>1, <2>2 DEF ApiInv, ApiType, apiVars, history
  <2> QED BY <1>1, <2>1, <2>3, DeployerUnchanged
<1> QED BY <1>2, <1>3, <1>4, <1>5, <1>6, <1>7, <1>8 DEF Next

(* The strengthening is inductive (build-runner.ts 458-843, deployer.ts     *)
(* 393-655).                                                                *)
THEOREM Strengthened == Spec => []IInv
BY InitIInv, NextKeeps, PTL DEF Spec

(* Every variable keeps its type. *)
THEOREM TypeCorrect == Spec => []TypeOK
<1>1. IInv => TypeOK
  BY DEF IInv
<1> QED BY <1>1, Strengthened, PTL

(* No process runs anything but its app's directory, however deploys,       *)
(* rollbacks and undeploys of the app overlap (deployer.ts 393-655).        *)
THEOREM ProcessRunsFromDisk == Spec => []RunsFromDisk
<1>1. IInv => RunsFromDisk
  BY DEF IInv
<1> QED BY <1>1, Strengthened, PTL

(* No customer's code stays in the sandbox (deployer.ts 435-439, 559-580).  *)
THEOREM SandboxIsCleaned == Spec => []SandboxIsClean
<1>1. IInv => SandboxIsClean
  BY DEF IInv
<1> QED BY <1>1, Strengthened, PTL

(* At most one row is current, though it is marked in an update of its own  *)
(* (build-runner.ts 698-715).                                               *)
THEOREM AtMostOneCurrent == Spec => []OneCurrent
<1>1. IInv => OneCurrent
  BY DEF IInv, Builds
<1> QED BY <1>1, Strengthened, PTL

(* The current row says live, unless a write came too late                  *)
(* (build-runner.ts 707-735, deployments.ts 254-290).                       *)
THEOREM CurrentRowIsLive == Spec => []CurrentIsLive
<1>1. IInv => CurrentIsLive
  BY DEF IInv, Builds, Row, CurrentIsLive
<1> QED BY <1>1, Strengthened, PTL

(* A cancel that is in time is honoured (build-runner.ts 257-270, 528-630). *)
THEOREM CancelHonoured == Spec => []CancelIsHonoured
<1>1. IInv => CancelIsHonoured
  <2>1. TypeOK => inTime \subseteq Deployments
    BY DEF TypeOK
  <2> QED BY <2>1 DEF IInv, Builds, Row, CancelIsHonoured
<1> QED BY <1>1, Strengthened, PTL

-------------------------------------------------------------------------------
(***************************************************************************)
(* What the app runs.  What lies in the sandbox is the code of a deploy in *)
(* flight, and a deploy in flight is the one the runner waits for or one   *)
(* that got past it.  Once the runner's deploy has been promoted, another  *)
(* current row has nothing to do with the process any more: the rows can   *)
(* be cleared.                                                             *)
(***************************************************************************)
Marks(d) == runner[d] \in {"flip", "golive"}

Promotes(d) == runner[d] = "deploy" /\ req[d].stage \in {"health", "ok"}

Shown(d) ==
  \/ rows[d].current \/ d \in foreign \/ Marks(d)
  \/ runner[d] = "deploy" /\ req[d].stage # "failed"

Serving ==
  /\ tree \in Deployments => InFlight(tree)
  /\ \A d \in Deployments : InFlight(d) => runner[d] = "deploy" \/ d \in foreign
  /\ proc \in Deployments => Shown(proc)
  /\ \A d \in Deployments : Marks(d) \/ Promotes(d) =>
       (proc \in Deployments => proc = d \/ proc \in foreign)

LEMMA InitServing == Init => Serving
BY DeployerAssumption DEF Init, DeployerInit, Without, Serving, InFlight, Marks, Promotes

(* A step of the API that neither starts a deploy nor clears a mark. *)
LEMMA ApiServes ==
  ASSUME Serving, UNCHANGED deployerVars, foreign \subseteq foreign',
         \A d \in Deployments :
           /\ rows[d].current => rows'[d].current \/ d \in foreign'
           /\ \/ runner'[d] = runner[d]
              \/ /\ runner'[d] \notin {"deploy", "flip", "golive"}
                 /\ \/ runner[d] \notin {"deploy", "flip", "golive"}
                    \/ d \in foreign'
                    \/ runner[d] = "deploy" /\ req[d].stage = "failed"
                    \/ runner[d] = "golive" /\ rows'[d].current
              \/ /\ runner[d] = "deploy" /\ req[d].stage = "ok"
                 /\ runner'[d] = "flip"
              \/ runner[d] = "flip" /\ runner'[d] = "golive"
  PROVE  Serving'
<1>1. /\ tree' = tree /\ proc' = proc /\ req' = req
      /\ \A d \in Deployments : InFlight(d)' <=> InFlight(d)
  BY DEF deployerVars, InFlight
<1>2. ASSUME NEW d \in Deployments, InFlight(d)
      PROVE  runner'[d] = "deploy" \/ d \in foreign'
  BY <1>2 DEF Serving, InFlight
<1>3. ASSUME NEW d \in Deployments, Shown(d) PROVE Shown(d)'
  BY <1>1, <1>3 DEF Shown, Marks
<1>4. ASSUME NEW d \in Deployments, (Marks(d) \/ Promotes(d))' PROVE Marks(d) \/ Promotes(d)
  BY <1>1, <1>4 DEF Marks, Promotes
<1> QED BY <1>1, <1>2, <1>3, <1>4 DEF Serving

(* Nobody else is handed off while a build is. *)
LEMMA OneHandsOff ==
  ASSUME IInv, NEW d \in Deployments, NEW e \in Deployments,
         runner[d] # "idle", runner[e] # "idle"
  PROVE  d = e
BY DEF IInv, Builds, Serial

LEMMA FlipServes ==
  ASSUME IInv, Serving, NEW d \in Deployments, Flip(d)
  PROVE  Serving'
<1>1. /\ UNCHANGED <<deployerVars, foreign>> /\ runner[d] = "flip"
      /\ runner' = [runner EXCEPT ![d] = "golive"] /\ d \in DOMAIN runner
  BY DEF Flip, At, history, IInv, TypeOK
<1>2. tree' = tree /\ proc' = proc /\ req' = req /\ foreign' = foreign
  BY <1>1 DEF deployerVars
<1>3. runner'[d] = "golive" /\ \A e \in Deployments \ {d} : runner'[e] = runner[e]
  BY <1>1 DEF IInv, TypeOK
<1>4. proc \in Deployments => proc = d \/ proc \in foreign
  BY <1>1 DEF Serving, Marks
<1>5. ASSUME NEW e \in Deployments, InFlight(e) PROVE runner'[e] = "deploy" \/ e \in foreign'
  BY <1>1, <1>2, <1>3, <1>5 DEF Serving
<1>6. ASSUME NEW e \in Deployments, (Marks(e) \/ Promotes(e))' PROVE e = d
  BY <1>1, <1>3, <1>6, OneHandsOff DEF Marks, Promotes
<1> QED BY <1>2, <1>3, <1>4, <1>5, <1>6 DEF Serving, Shown, Marks, InFlight

(* A deploy that begins empties the sandbox. *)
LEMMA BeginServes ==
  ASSUME IInv, Serving, NEW d \in Deployments, Begin(d), foreign \subseteq foreign',
         \A e \in Deployments : rows'[e].current = rows[e].current,
         runner[d] \notin {"deploy", "flip", "golive"},
         \A e \in Deployments \ {d} : runner'[e] = runner[e],
         \/ runner'[d] = "deploy"
         \/ d \in foreign' /\ runner'[d] = runner[d]
  PROVE  Serving'
<1>1. /\ tree' = "empty" /\ proc' = proc /\ req'[d].stage = "clone"
      /\ \A e \in Deployments \ {d} : req'[e] = req[e]
  BY DEF Begin, IInv, TypeOK, DeployerTypeOK
<1>2. ASSUME NEW e \in Deployments, InFlight(e)'
      PROVE  runner'[e] = "deploy" \/ e \in foreign'
  BY <1>1, <1>2 DEF Serving, InFlight
<1>3. ASSUME NEW e \in Deployments, Shown(e) PROVE Shown(e)'
  BY <1>1, <1>3 DEF Shown, Marks
<1>4. ASSUME NEW e \in Deployments, (Marks(e) \/ Promotes(e))' PROVE Marks(e) \/ Promotes(e)
  BY <1>1, <1>4 DEF Marks, Promotes
<1>5. tree' \notin Deployments
  BY <1>1, DeployerAssumption
<1> QED BY <1>1, <1>2, <1>3, <1>4, <1>5 DEF Serving

(* The end of a build, and the start of the next. *)
LEMMA ReturnServes ==
  ASSUME ApiInv, NEW d \in Deployments,
         runner[d] \notin {"idle", "deploy", "flip", "golive"}, Return(d)
  PROVE  \A e \in Deployments :
           \/ runner'[e] = runner[e]
           \/ /\ runner'[e] \in {"idle", "load"}
              /\ runner[e] \notin {"deploy", "flip", "golive"}
<1>1. runner \in [Deployments -> Places] /\ queue \in Seq(Deployments)
  BY RowType
<1>2. CASE queue = <<>>
  BY <1>1, <1>2 DEF Return, At
<1>3. CASE queue # <<>>
  <2>1. Head(queue) \in Deployments /\ InQueue(Head(queue))
    BY <1>1, <1>3 DEF InQueue
  <2>2. runner[Head(queue)] = "idle"
    BY <2>1, RowType DEF Row
  <2>3. runner' = [runner EXCEPT ![d] = "idle", ![Head(queue)] = "load"]
    BY <1>3 DEF Return
  <2> QED BY <1>1, <2>1, <2>2, <2>3
<1> QED BY <1>2, <1>3

LEMMA GoLiveMarks ==
  ASSUME ApiInv, NEW d \in Deployments, GoLive(d)
  PROVE  /\ rows'[d].current
         /\ \A e \in Deployments \ {d} : rows'[e] = rows[e]
<1>1. rows' = [rows EXCEPT ![d].status = "live", ![d].current = TRUE]
  BY DEF GoLive
<1>2. rows \in [Deployments -> RowFields]
  BY RowType
<1>3. rows'[d] = [rows[d] EXCEPT !.status = "live", !.current = TRUE]
  BY <1>1, <1>2
<1> QED BY <1>1, <1>2, <1>3 DEF RowFields

LEMMA RunnerServes ==
  ASSUME IInv, Serving, NEW d \in Deployments, RunnerStep(d)
  PROVE  Serving'
<1>0. ApiInv /\ runner \in [Deployments -> Places]
  BY Parts, RowType
<1>1. CASE Deploy(d)
  <2>1. /\ runner'[d] = "deploy" /\ runner[d] = "handoff" /\ foreign' = foreign
        /\ \A e \in Deployments \ {d} : runner'[e] = runner[e]
    BY <1>0, <1>1 DEF Deploy, At, history
  <2>2. \A e \in Deployments : rows'[e].current = rows[e].current
    BY <1>0, <1>1, SettleFacts DEF Deploy, Settle
  <2> QED BY <1>1, <2>1, <2>2, BeginServes DEF Deploy
<1>2. CASE Flip(d)
  BY <1>2, FlipServes
<1>3. CASE FinaliseCancelled(d) \/ Recorded(d) \/ Fail(d)
  <2>1. /\ runner[d] \in {"cancelling", "record", "failing"} /\ Return(d)
        /\ UNCHANGED deployerVars /\ foreign' = foreign
    BY <1>3 DEF FinaliseCancelled, Recorded, Fail, history
  <2>2. \A e \in Deployments : rows'[e].current = rows[e].current
    <3>1. CASE rows' = rows
      BY <3>1
    <3>2. CASE rows' = [rows EXCEPT ![d].status = "cancelled"]
      BY <1>0, <3>2, SettleFacts
    <3>3. CASE rows' = [rows EXCEPT ![d].status = "failed"]
      BY <1>0, <3>3, SettleFacts
    <3> QED BY <1>3, <3>1, <3>2, <3>3 DEF FinaliseCancelled, Recorded, Fail, Settle
  <2>3. \A e \in Deployments : \/ runner'[e] = runner[e]
                               \/ /\ runner'[e] \in {"idle", "load"}
                                  /\ runner[e] \notin {"deploy", "flip", "golive"}
    BY <1>0, <2>1, ReturnServes
  <2> QED BY <2>1, <2>2, <2>3, ApiServes
<1>4. CASE Start(d) \/ Check(d) \/ Deployed(d) \/ GoLive(d) \/ StepFails(d)
           \/ DeployFails(d) \/ DeployTimesOut(d)
  <2>1. UNCHANGED deployerVars /\ foreign \subseteq foreign'
    BY <1>4 DEF Start, Check, Deployed, GoLive, StepFails, DeployFails, DeployTimesOut,
         history
  <2>2. \A e \in Deployments : rows[e].current => rows'[e].current
    <3>1. CASE rows' = rows
      BY <3>1
    <3>2. CASE Start(d)
      BY <1>0, <3>2, SettleFacts DEF Start, Settle
    <3>3. CASE GoLive(d)
      BY <1>0, <3>3, GoLiveMarks
    <3> QED BY <1>4, <3>1, <3>2, <3>3
            DEF Check, Deployed, StepFails, DeployFails, DeployTimesOut
  <2>3. \A e \in Deployments \ {d} : runner'[e] = runner[e]
    BY <1>0, <1>4 DEF Start, Check, Deployed, GoLive, StepFails, DeployFails,
         DeployTimesOut, At
  <2>4. \/ /\ runner'[d] \notin {"deploy", "flip", "golive"}
           /\ \/ runner[d] \notin {"deploy", "flip", "golive"}
              \/ d \in foreign'
              \/ runner[d] = "deploy" /\ req[d].stage = "failed"
              \/ runner[d] = "golive" /\ rows'[d].current
        \/ runner[d] = "deploy" /\ req[d].stage = "ok" /\ runner'[d] = "flip"
    <3>1. CASE Start(d) \/ Check(d) \/ StepFails(d)
      BY <1>0, <3>1 DEF Start, Check, StepFails, At, After, Checked, Steps
    <3>2. CASE Deployed(d) \/ DeployFails(d) \/ DeployTimesOut(d)
      BY <1>0, <3>2 DEF Deployed, DeployFails, DeployTimesOut, At
    <3>3. CASE GoLive(d)
      BY <1>0, <3>3, GoLiveMarks DEF GoLive, At
    <3> QED BY <1>4, <3>1, <3>2, <3>3
  <2> QED BY <2>1, <2>2, <2>3, <2>4, ApiServes
<1> QED BY <1>1, <1>2, <1>3, <1>4 DEF RunnerStep

(* The catch whose write fails, and an error of the database. *)
LEMMA FaultsServe ==
  ASSUME IInv, Serving, NEW d \in Deployments, DbError(d) \/ FailUnwritten(d)
  PROVE  Serving'
<1>0. ApiInv /\ runner \in [Deployments -> Places]
  BY Parts, RowType
<1>1. CASE DbError(d)
  <2>1. /\ UNCHANGED deployerVars /\ rows' = rows /\ foreign \subseteq foreign'
        /\ runner[d] # "deploy" /\ runner'[d] = "failing"
        /\ runner[d] \in {"flip", "golive"} => d \in foreign'
        /\ \A e \in Deployments \ {d} : runner'[e] = runner[e]
    BY <1>0, <1>1 DEF DbError, At
  <2> QED BY <2>1, ApiServes
<1>2. CASE FailUnwritten(d)
  <2>1. /\ UNCHANGED deployerVars /\ rows' = rows /\ foreign' = foreign
        /\ runner[d] = "failing" /\ Return(d)
    BY <1>2 DEF FailUnwritten
  <2>2. \A e \in Deployments : \/ runner'[e] = runner[e]
                               \/ /\ runner'[e] \in {"idle", "load"}
                                  /\ runner[e] \notin {"deploy", "flip", "golive"}
    BY <1>0, <2>1, ReturnServes
  <2> QED BY <2>1, <2>2, ApiServes
<1> QED BY <1>1, <1>2

(* The procedures of the API, which leave the app to the orchestrator. *)
LEMMA RequestsServe ==
  ASSUME IInv, Serving, NEW d \in Deployments,
         Create(d) \/ Cancel(d) \/ CancelRead(d) \/ DirectDone(d)
  PROVE  Serving'
<1>0. ApiInv /\ rows \in [Deployments -> RowFields] /\ runner \in [Deployments -> Places]
      /\ (rows[d].status = "unborn" => runner[d] = "idle")
  BY Parts, RowType DEF Row
<1>1. UNCHANGED deployerVars /\ foreign' = foreign
  BY DEF Create, Cancel, CancelRead, DirectDone, history
<1>2. \A e \in Deployments : rows'[e].current = rows[e].current
  <2>1. CASE rows' = rows
    BY <2>1
  <2>2. CASE Create(d)
    BY <1>0, <2>2, SettleFacts DEF Create, Settle
  <2>3. CASE DirectDone(d)
    BY <1>0, <2>3, SettleFacts DEF DirectDone, Settle
  <2>4. CASE CancelRead(d)
    <3>1. rows' \in {[rows EXCEPT ![d].status = "cancelled", ![d].cancel = TRUE],
                     [rows EXCEPT ![d].cancel = TRUE]}
      BY <2>4 DEF CancelRead, RequestCancel
    <3> QED BY <1>0, <3>1 DEF RowFields
  <2> QED BY <2>1, <2>2, <2>3, <2>4 DEF Cancel
<1>3. \A e \in Deployments : \/ runner'[e] = runner[e]
                             \/ runner[e] = "idle" /\ runner'[e] = "load"
  BY <1>0 DEF Create, Cancel, CancelRead, DirectDone, At
<1> QED BY <1>1, <1>2, <1>3, ApiServes

LEMMA DirectServes ==
  ASSUME IInv, Serving, NEW d \in Deployments, DirectDeploy(d)
  PROVE  Serving'
<1>1. ApiInv
  BY Parts
<1>2. /\ Begin(d) /\ foreign \subseteq foreign' /\ d \in foreign' /\ runner' = runner
      /\ runner[d] = "idle"
  BY <1>1, RowType DEF DirectDeploy, Row
<1>3. \A e \in Deployments : rows'[e].current = rows[e].current
  BY <1>1, SettleFacts DEF DirectDeploy, Settle
<1> QED BY <1>2, <1>3, BeginServes

LEMMA RestartServes ==
  ASSUME IInv, Serving, Restart
  PROVE  Serving'
<1>1. /\ UNCHANGED deployerVars /\ rows' = rows /\ foreign \subseteq foreign'
      /\ \A e \in Deployments : /\ runner'[e] = "idle"
                                /\ runner[e] \in {"deploy", "flip", "golive"} =>
                                     e \in foreign'
  BY DEF Restart
<1> QED BY <1>1, ApiServes

(* A rollback brings back what is exempt; the rest stop the process. *)
LEMMA TenantServes ==
  ASSUME Serving, Tenant
  PROVE  Serving'
<1>1. /\ rows' = rows /\ runner' = runner /\ foreign \subseteq foreign'
      /\ proc' = proc \/ proc' \notin Deployments \/ proc' \in foreign'
  BY DEF Tenant, apiVars
<1>2. tree' = tree /\ req' = req
  BY DEF Tenant, TenantStep, RollBack, RolledBack, Undeploy, Undeployed
<1>3. \A d \in Deployments : /\ InFlight(d)' <=> InFlight(d)
                             /\ Marks(d)' <=> Marks(d)
                             /\ Promotes(d)' <=> Promotes(d)
  BY <1>1, <1>2 DEF InFlight, Marks, Promotes
<1>4. ASSUME NEW d \in Deployments, Shown(d) PROVE Shown(d)'
  BY <1>1, <1>2, <1>4 DEF Shown, Marks
<1> QED BY <1>1, <1>2, <1>3, <1>4 DEF Serving, Shown

(* A step of a deploy: it may promote what another left in the sandbox,    *)
(* which is a deploy in flight.                                            *)
LEMMA OrchestratorServes ==
  ASSUME IInv, Serving, NEW r \in Deployments, DeployStep(r),
         UNCHANGED <<apiVars, history>>
  PROVE  Serving'
<1>1. rows' = rows /\ runner' = runner /\ foreign' = foreign
  BY DEF apiVars, history
<1>2. DeployerInv /\ req \in [Deployments -> ReqFields]
  BY Parts, RequestType
<1>3. "missing" \notin Deployments
  BY DeployerAssumption
<1>4. /\ InFlight(r) /\ req'[r].stage \in {"install", "build", "health", "ok", "failed"}
      /\ \A e \in Deployments \ {r} : req'[e] = req[e]
  BY <1>2 DEF DeployStep, Cloned, Installed, Promoted, Finished, Failed, PromotedNothing,
       GiveUp, Without, InFlight, ReqFields
<1>5. \A e \in Deployments : InFlight(e)' => InFlight(e)
  BY <1>4 DEF InFlight
<1>6. (tree \in Deployments => InFlight(tree))'
  <2>1. CASE Cloned(r) \/ Installed(r) \/ Promoted(r)
    <3>1. InFlight(r)' /\ tree' \in {tree, r}
      BY <1>2, <2>1 DEF Cloned, Installed, Promoted, InFlight, ReqFields
    <3> QED BY <1>4, <3>1 DEF Serving, InFlight
  <2>2. CASE Finished(r) \/ Failed(r) \/ PromotedNothing(r)
    BY <1>3, <2>2 DEF Finished, Failed, PromotedNothing, GiveUp
  <2> QED BY <2>1, <2>2 DEF DeployStep
<1>7. ASSUME NEW d \in Deployments, Marks(d)' \/ Promotes(d)', d # r
      PROVE  Marks(d) \/ Promotes(d)
  BY <1>1, <1>4, <1>7 DEF Marks, Promotes
<1>8. CASE Promoted(r)
  <2>1. proc' = tree /\ req'[r].stage = "health"
    BY <1>2, <1>8 DEF Promoted, ReqFields
  <2>2. ASSUME tree \in Deployments
        PROVE  /\ tree \in foreign \/ runner[tree] = "deploy"
               /\ req'[tree].stage # "failed"
    BY <1>4, <2>1, <2>2 DEF Serving, InFlight
  <2>3. (proc \in Deployments => Shown(proc))'
    BY <1>1, <2>1, <2>2 DEF Shown
  <2>4. ASSUME NEW d \in Deployments, Marks(d)' \/ Promotes(d)', proc' \in Deployments
        PROVE  proc' = d \/ proc' \in foreign'
    BY <1>1, <2>1, <2>2, <2>4, OneHandsOff DEF Marks, Promotes
  <2> QED BY <1>1, <1>5, <1>6, <2>3, <2>4 DEF Serving
<1>9. CASE Cloned(r) \/ Installed(r) \/ Finished(r)
  <2>1. proc' = proc /\ req'[r].stage # "failed"
    BY <1>2, <1>9 DEF Cloned, Installed, Finished, Without, ReqFields
  <2>2. Promotes(r)' => Promotes(r)
    BY <1>1, <1>2, <1>9 DEF Cloned, Installed, Finished, Without, Promotes, ReqFields
  <2>3. Marks(r)' <=> Marks(r)
    BY <1>1 DEF Marks
  <2>4. ASSUME NEW d \in Deployments, Shown(d) PROVE Shown(d)'
    BY <1>1, <1>4, <2>1, <2>4 DEF Shown, Marks
  <2> QED BY <1>1, <1>5, <1>6, <1>7, <2>1, <2>2, <2>3, <2>4 DEF Serving
<1>10. CASE Failed(r) \/ PromotedNothing(r)
  <2>1. proc' \notin Deployments
    BY <1>3, <1>10 DEF Failed, PromotedNothing, GiveUp
  <2> QED BY <1>1, <1>5, <1>6, <2>1 DEF Serving
<1> QED BY <1>8, <1>9, <1>10 DEF DeployStep

LEMMA NextServing == IInv /\ Serving /\ [Next]_vars => Serving'
<1> SUFFICES ASSUME IInv, Serving, [Next]_vars PROVE Serving'
  OBVIOUS
<1>1. CASE UNCHANGED vars
  <2>1. UNCHANGED <<deployerVars, rows, runner, foreign>>
    BY <1>1 DEF vars, apiVars, history
  <2> QED BY <2>1, ApiServes
<1>2. CASE Orchestrator
  BY <1>2, OrchestratorServes DEF Orchestrator
<1> QED BY <1>1, <1>2, RunnerServes, FaultsServe, RequestsServe, DirectServes,
           RestartServes, TenantServes DEF Next

(* The app runs what the table calls current, or what the runner is about  *)
(* to mark, unless it came a way past the runner (build-runner.ts 632-715, *)
(* deployer.ts 393-655).                                                   *)
THEOREM CurrentIsServed == Spec => []ServedIsCurrent
<1>1. Serving => ServedIsCurrent
  BY DEF Serving, ServedIsCurrent, Shown, Marks
<1>2. Spec => []Serving
  BY InitServing, NextServing, Strengthened, PTL DEF Spec
<1> QED BY <1>1, <1>2, PTL

-------------------------------------------------------------------------------
(***************************************************************************)
(* Nobody is forgotten.  What BuildsSettle needs of safety: a row under    *)
(* way is some call's or the runner's to settle, or it waits in the queue  *)
(* behind a build that is not over.  A row at the last step of runBuild    *)
(* is settled already, which is why the runner may leave it.               *)
(***************************************************************************)
UnderWay == {"queued", "building", "deploying"}

Attended(d) ==
  d \in lost \/ d \in direct \/ InQueue(d) \/ runner[d] \notin {"idle", "record"}

NobodyForgotten ==
  /\ \A d \in Deployments : rows[d].status \in UnderWay => Attended(d)
  /\ queue # <<>> => \E d \in Deployments : runner[d] # "idle"

Worked ==
  /\ \A d \in Deployments : rows[d].status \in UnderWay => Attended(d)
  /\ draining => \E d \in Deployments : runner[d] # "idle"

(* A step about one deployment that leaves the queue alone. *)
LEMMA StepWorks ==
  ASSUME Worked, NEW d \in Deployments,
         queue' = queue, draining' = draining, lost \subseteq lost',
         \A e \in Deployments \ {d} :
           /\ rows'[e].status = rows[e].status /\ runner'[e] = runner[e]
           /\ e \in direct => e \in direct',
         rows'[d].status \in UnderWay => Attended(d)',
         runner'[d] = "idle" => runner[d] = "idle"
  PROVE  Worked'
<1>1. ASSUME NEW e \in Deployments, rows'[e].status \in UnderWay PROVE Attended(e)'
  <2>1. InQueue(e)' <=> InQueue(e)
    BY DEF InQueue
  <2>2. CASE e = d
    BY <1>1, <2>2
  <2>3. CASE e # d
    BY <1>1, <2>1, <2>3 DEF Worked, Attended
  <2> QED BY <2>2, <2>3
<1>2. ASSUME draining' PROVE \E e \in Deployments : runner'[e] # "idle"
  <2>1. PICK e \in Deployments : runner[e] # "idle"
    BY <1>2 DEF Worked
  <2>2. runner'[e] # "idle"
    BY <2>1
  <2> QED BY <2>2
<1> QED BY <1>1, <1>2 DEF Worked

(* A drain that goes on takes the head of the queue and nobody else. *)
LEMMA ReturnTakesHead ==
  ASSUME ApiInv, NEW d \in Deployments, runner[d] # "idle", Return(d)
  PROVE  /\ \A e \in Deployments : InQueue(e) => InQueue(e)' \/ runner'[e] = "load"
         /\ draining' => \E e \in Deployments : runner'[e] = "load"
<1>1. queue \in Seq(Deployments) /\ runner \in [Deployments -> Places]
  BY RowType
<1>2. CASE queue = <<>>
  <2>1. draining' = FALSE /\ queue' = queue
    BY <1>2 DEF Return
  <2> QED BY <2>1 DEF InQueue
<1>3. CASE queue # <<>>
  <2> DEFINE h == Head(queue)
  <2>1. /\ runner' = [runner EXCEPT ![d] = "idle", ![h] = "load"]
        /\ queue' = Tail(queue)
    BY <1>3 DEF Return
  <2>2. /\ Len(queue) \in Nat /\ Len(queue) > 0 /\ DOMAIN queue = 1..Len(queue)
        /\ h \in Deployments /\ h = queue[1]
    BY <1>1, <1>3, HeadTailProperties, EmptySeq, LenProperties
  <2>3. /\ DOMAIN queue' = 1..(Len(queue) - 1)
        /\ \A i \in 1..(Len(queue) - 1) : queue'[i] = queue[i + 1]
    BY <1>1, <1>3, <2>1, <2>2, HeadTailProperties, LenProperties
  <2> HIDE DEF h
  <2>4. runner'[h] = "load"
    BY <1>1, <2>1, <2>2
  <2>5. ASSUME NEW e \in Deployments, InQueue(e) PROVE InQueue(e)' \/ e = h
    <3>1. PICK i \in DOMAIN queue : queue[i] = e
      BY <2>5 DEF InQueue
    <3>2. CASE i = 1
      BY <2>2, <3>1, <3>2
    <3>3. CASE i # 1
      <4>1. i - 1 \in DOMAIN queue' /\ queue'[i - 1] = e
        BY <2>2, <2>3, <3>1, <3>3
      <4> QED BY <4>1 DEF InQueue
    <3> QED BY <3>2, <3>3
  <2> QED BY <2>2, <2>4, <2>5
<1> QED BY <1>2, <1>3

(* The end of a build whose row is settled, or given up. *)
LEMMA EndWorks ==
  ASSUME ApiInv, Worked, NEW d \in Deployments, runner[d] # "idle", Return(d),
         lost \subseteq lost', direct' = direct,
         \A e \in Deployments \ {d} : rows'[e].status = rows[e].status,
         rows'[d].status \in UnderWay => d \in lost'
  PROVE  Worked'
<1>1. ASSUME NEW e \in Deployments, rows'[e].status \in UnderWay PROVE Attended(e)'
  <2>1. CASE e = d
    BY <1>1, <2>1 DEF Attended
  <2>2. CASE e # d
    <3>1. runner[e] = "idle"
      BY <2>2, RowType DEF Serial
    <3>2. e \in lost \/ e \in direct \/ InQueue(e)
      BY <1>1, <2>2, <3>1 DEF Worked, Attended
    <3>3. InQueue(e) => InQueue(e)' \/ runner'[e] = "load"
      BY ReturnTakesHead
    <3> QED BY <3>2, <3>3 DEF Attended
  <2> QED BY <2>1, <2>2
<1>2. ASSUME draining' PROVE \E e \in Deployments : runner'[e] # "idle"
  <2>1. PICK e \in Deployments : runner'[e] = "load"
    BY <1>2, ReturnTakesHead
  <2>2. runner'[e] # "idle"
    BY <2>1
  <2> QED BY <2>2
<1> QED BY <1>1, <1>2 DEF Worked

LEMMA RunnerWorks ==
  ASSUME ApiInv, Worked, NEW d \in Deployments,
         RunnerStep(d) \/ DbError(d) \/ FailUnwritten(d)
  PROVE  Worked'
<1>0. runner \in [Deployments -> Places] /\ rows \in [Deployments -> RowFields]
  BY RowType
<1>1. CASE Start(d) \/ Deploy(d)
  <2>1. /\ UNCHANGED <<queue, draining, direct, lost>>
        /\ runner' = [runner EXCEPT ![d] = IF Start(d) THEN "prepare" ELSE "deploy"]
    BY <1>1 DEF Start, Deploy, At, Calls, history
  <2>2. \A e \in Deployments \ {d} : rows'[e].status = rows[e].status
    BY <1>1, SettleFacts DEF Start, Deploy, Settle
  <2>3. runner'[d] \in {"prepare", "deploy"}
    BY <1>0, <2>1
  <2> QED BY <1>0, <2>1, <2>2, <2>3, StepWorks DEF Attended
<1>2. CASE Check(d) \/ Deployed(d) \/ StepFails(d) \/ DeployFails(d)
           \/ DeployTimesOut(d) \/ DbError(d)
  <2>1. /\ UNCHANGED <<rows, queue, draining, direct, lost>>
    BY <1>2 DEF Check, Deployed, StepFails, DeployFails, DeployTimesOut, DbError,
         Calls, history
  <2>2. /\ runner'[d] \notin {"idle", "record"}
        /\ \A e \in Deployments \ {d} : runner'[e] = runner[e]
    <3>1. CASE Check(d)
      BY <1>0, <3>1 DEF Check, At, After, Checked
    <3>2. CASE ~Check(d)
      BY <1>0, <1>2, <3>2 DEF Deployed, StepFails, DeployFails, DeployTimesOut, DbError, At
    <3> QED BY <3>1, <3>2
  <2> QED BY <2>1, <2>2, StepWorks DEF Attended
<1>3. CASE Flip(d)
  <2>1. /\ UNCHANGED <<queue, draining, direct, lost>>
        /\ runner' = [runner EXCEPT ![d] = "golive"]
    BY <1>3 DEF Flip, At, Calls, history
  <2>2. \A e \in Deployments : rows'[e].status = rows[e].status
    BY <1>0, <1>3 DEF Flip, RowFields
  <2>3. runner'[d] = "golive" /\ \A e \in Deployments \ {d} : runner'[e] = runner[e]
    BY <1>0, <2>1
  <2> QED BY <2>1, <2>2, <2>3, StepWorks DEF Attended
<1>4. CASE GoLive(d)
  <2>1. /\ UNCHANGED <<queue, draining, direct, lost>>
        /\ runner' = [runner EXCEPT ![d] = "record"]
    BY <1>4 DEF GoLive, At, Calls, history
  <2>2. rows'[d].status = "live" /\ \A e \in Deployments \ {d} : rows'[e] = rows[e]
    <3>1. rows' = [rows EXCEPT ![d].status = "live", ![d].current = TRUE]
      BY <1>4 DEF GoLive
    <3>2. rows'[d] = [rows[d] EXCEPT !.status = "live", !.current = TRUE]
      BY <1>0, <3>1
    <3> QED BY <1>0, <3>1, <3>2 DEF RowFields
  <2>3. runner'[d] = "record" /\ \A e \in Deployments \ {d} : runner'[e] = runner[e]
    BY <1>0, <2>1
  <2> QED BY <2>1, <2>2, <2>3, StepWorks DEF UnderWay
<1>5. CASE Recorded(d)
  <2>1. /\ runner[d] = "record" /\ Return(d) /\ UNCHANGED <<rows, direct, lost>>
    BY <1>5 DEF Recorded, Calls, history
  <2>2. rows[d].status \in UnderWay => d \in lost
    <3>1. ~InQueue(d) /\ d \notin direct
      BY <2>1, RowType DEF Row
    <3> QED BY <2>1, <3>1 DEF Worked, Attended
  <2> QED BY <2>1, <2>2, EndWorks
<1>6. CASE FinaliseCancelled(d) \/ Fail(d)
  <2>1. /\ runner[d] # "idle" /\ Return(d) /\ UNCHANGED <<direct, lost>>
    BY <1>6 DEF FinaliseCancelled, Fail, Calls, history
  <2>2. /\ rows'[d].status \in {"cancelled", "failed"}
        /\ \A e \in Deployments \ {d} : rows'[e] = rows[e]
    BY <1>6, SettleFacts DEF FinaliseCancelled, Fail, Settle
  <2> QED BY <2>1, <2>2, EndWorks DEF UnderWay
<1>7. CASE FailUnwritten(d)
  <2>1. /\ runner[d] # "idle" /\ Return(d) /\ UNCHANGED <<rows, direct>>
        /\ lost' = lost \cup {d}
    BY <1>7 DEF FailUnwritten, Calls
  <2> QED BY <2>1, EndWorks
<1> QED BY <1>1, <1>2, <1>3, <1>4, <1>5, <1>6, <1>7 DEF RunnerStep

LEMMA CreateWorks ==
  ASSUME ApiInv, Worked, NEW d \in Deployments, Create(d)
  PROVE  Worked'
<1>0. runner \in [Deployments -> Places] /\ queue \in Seq(Deployments)
  BY RowType
<1>1. /\ UNCHANGED <<direct, lost>>
      /\ \A e \in Deployments \ {d} : rows'[e] = rows[e]
  BY SettleFacts DEF Create, Settle, Calls, history
<1>2. CASE draining
  <2>1. queue' = Append(queue, d) /\ draining' = draining /\ runner' = runner
    BY <1>2 DEF Create
  <2>2. /\ Len(queue) \in Nat /\ DOMAIN queue = 1..Len(queue)
        /\ DOMAIN queue' = 1..(Len(queue) + 1)
        /\ \A i \in 1..Len(queue) : queue'[i] = queue[i]
        /\ queue'[Len(queue) + 1] = d
    BY <1>0, <2>1, AppendProperties, LenProperties
  <2>3. InQueue(d)'
    BY <2>2 DEF InQueue
  <2>4. ASSUME NEW e \in Deployments, InQueue(e) PROVE InQueue(e)'
    <3>1. PICK i \in DOMAIN queue : queue[i] = e
      BY <2>4 DEF InQueue
    <3>2. i \in DOMAIN queue' /\ queue'[i] = e
      BY <2>2, <3>1
    <3> QED BY <3>2 DEF InQueue
  <2>5. ASSUME NEW e \in Deployments, rows'[e].status \in UnderWay PROVE Attended(e)'
    BY <1>1, <2>1, <2>3, <2>4, <2>5 DEF Worked, Attended
  <2> QED BY <2>1, <2>5 DEF Worked
<1>3. CASE ~draining
  <2>1. queue' = queue /\ runner' = [runner EXCEPT ![d] = "load"]
    BY <1>3 DEF Create, At
  <2>2. /\ runner'[d] = "load"
        /\ \A e \in Deployments \ {d} : runner'[e] = runner[e]
        /\ \A e \in Deployments : InQueue(e)' <=> InQueue(e)
    BY <1>0, <2>1 DEF InQueue
  <2>3. ASSUME NEW e \in Deployments, rows'[e].status \in UnderWay PROVE Attended(e)'
    BY <1>1, <2>2, <2>3 DEF Worked, Attended
  <2>4. \E e \in Deployments : runner'[e] # "idle"
    BY <2>2
  <2> QED BY <2>3, <2>4 DEF Worked
<1> QED BY <1>2, <1>3

LEMMA RequestsWork ==
  ASSUME ApiInv, Worked, NEW d \in Deployments,
         Cancel(d) \/ CancelRead(d) \/ DirectDeploy(d) \/ DirectDone(d)
  PROVE  Worked'
<1>1. UNCHANGED <<queue, draining, runner, lost>>
  BY DEF Cancel, CancelRead, DirectDeploy, DirectDone, history
<1>2. InQueue(d)' <=> InQueue(d)
  BY <1>1 DEF InQueue
<1>3. CASE Cancel(d)
  BY <1>1, <1>2, <1>3, StepWorks DEF Cancel, Worked, Attended
<1>4. CASE CancelRead(d)
  <2>1. /\ direct' = direct
        /\ rows' \in {[rows EXCEPT ![d].status = "cancelled", ![d].cancel = TRUE],
                      [rows EXCEPT ![d].cancel = TRUE]}
    BY <1>4 DEF CancelRead, RequestCancel
  <2>2. /\ rows'[d].status \in {"cancelled", rows[d].status}
        /\ \A e \in Deployments \ {d} : rows'[e] = rows[e]
    BY <2>1, RowType DEF RowFields
  <2> QED BY <1>1, <1>2, <2>1, <2>2, StepWorks DEF Worked, Attended, UnderWay
<1>5. CASE DirectDeploy(d)
  <2>1. direct' = direct \cup {d} /\ \A e \in Deployments \ {d} : rows'[e] = rows[e]
    BY <1>5, SettleFacts DEF DirectDeploy, Settle
  <2> QED BY <1>1, <2>1, StepWorks DEF Attended
<1>6. CASE DirectDone(d)
  <2>1. /\ direct' = direct \ {d} /\ rows'[d].status \in {"active", "failed"}
        /\ \A e \in Deployments \ {d} : rows'[e] = rows[e]
    BY <1>6, SettleFacts DEF DirectDone, Settle
  <2> QED BY <1>1, <2>1, StepWorks DEF UnderWay
<1> QED BY <1>3, <1>4, <1>5, <1>6

LEMMA RestartWorks ==
  ASSUME ApiInv, Restart
  PROVE  Worked'
<1>1. /\ rows' = rows /\ draining' = FALSE
      /\ \A d \in Deployments : rows[d].status \in UnderWay => d \in lost'
  BY DEF Restart, UnderWay, Terminal
<1> QED BY <1>1 DEF Worked, Attended

LEMMA WorkedNext == IInv /\ Worked /\ [Next]_vars => Worked'
<1> SUFFICES ASSUME IInv, Worked, [Next]_vars PROVE Worked'
  OBVIOUS
<1>1. ApiInv
  BY Parts
<1>2. CASE UNCHANGED vars \/ Tenant \/ Orchestrator
  <2>1. UNCHANGED <<rows, queue, draining, runner, direct, lost>>
    BY <1>2 DEF vars, apiVars, history, Tenant, Orchestrator
  <2> QED BY <2>1 DEF Worked, Attended, InQueue
<1> QED BY <1>1, <1>2, RunnerWorks, CreateWorks, RequestsWork, RestartWorks DEF Next

(* A row that is queued or under way is never abandoned: unless a restart   *)
(* or a refused write lost it, it is in the queue, in the runner's hands or *)
(* in a direct deploy's, and while the queue holds anything a build is      *)
(* going on whose end takes the next (build-runner.ts 769-806, 821-843).    *)
THEOREM NobodyIsForgotten == Spec => []NobodyForgotten
<1>1. Init => Worked
  BY DEF Init, Worked, UnderWay
<1>2. IInv /\ Worked => NobodyForgotten
  BY DEF IInv, Builds, Serial, Worked, NobodyForgotten
<1> QED BY <1>1, <1>2, WorkedNext, Strengthened, PTL DEF Spec
===============================================================================
