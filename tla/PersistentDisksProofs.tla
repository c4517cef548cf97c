------------------------- MODULE PersistentDisksProofs -------------------------
(***************************************************************************)
(* What holds of PersistentDisks for every set of volumes, tenants,        *)
(* workers and sizes, every quota and every number of operations in        *)
(* flight.                                                                 *)
(***************************************************************************)
EXTENDS PersistentDisks, FiniteSetTheorems, WellFoundedInduction, TLAPS

-------------------------------------------------------------------------------
Kinds == {"create", "resize", "delete", "snapshot", "restore", "restore-new"}

Creates(o) == o.kind \in {"create", "restore-new"}

WritesBack(o) == o.kind \in {"resize", "restore"}

(* The driver has not failed the operation. *)
Ready(o) == o.state \in {"called", "ok"}

(* An operation in flight that will write v. *)
Writes(o, v) == o.vol = v /\ o.kind # "snapshot"

(* What an operation carries to the code after its driver call. *)
Sound(o) ==
  /\ o.state = "idle" => o = Idle
  /\ o.state # "idle" => o.vol \in Vols /\ o.kind \in Kinds
  /\ Ready(o) /\ o.kind # "delete" => o.size > 0
  /\ Ready(o) /\ (Creates(o) \/ WritesBack(o)) => o.read.size > 0
  /\ Ready(o) /\ o.kind = "resize" => o.size > o.read.size
  /\ Ready(o) /\ o.kind = "restore" => o.size = o.read.size

Sized == \A v \in Vols : Registered(v) => vols[v].size > 0

(***************************************************************************)
(* The strengthening.  A volume that was not written to while an operation *)
(* on it was in flight has at most one such operation, whose code finds it *)
(* as it left it; a volume in creation has one.                            *)
(***************************************************************************)
Alone(v) ==
  \A c, d \in Callers : Writes(ops[c], v) /\ Writes(ops[d], v) => c = d

Kept(v) ==
  \A c \in Callers : Writes(ops[c], v) =>
    LET o == ops[c] IN
    /\ Creates(o) => vols[v].status = "creating"
    /\ o.kind = "delete" => vols[v].status = "deleting"
    /\ WritesBack(o) => vols[v].status \in {"available", "attached"}
    /\ Ready(o) /\ (Creates(o) \/ WritesBack(o)) => o.read = vols[v]

Created(v) ==
  vols[v].status = "creating" => \E c \in Callers : Writes(ops[c], v)

Holds(v) ==
  held[v] # None => vols[v].status = "attached" /\ vols[v].at = held[v]

Undisturbed(v) == v \notin raced => Alone(v) /\ Kept(v) /\ Created(v) /\ Holds(v)

Global ==
  /\ TypeOK
  /\ \A c \in Callers : Sound(ops[c])
  /\ \A s \in snaps : s.size > 0
  /\ Sized

IInv == Global /\ \A v \in Vols : Undisturbed(v)

-------------------------------------------------------------------------------
LEMMA Bounds ==
  /\ None \notin Workers /\ None \notin Vols
  /\ Owner \in [Vols -> Tenants]
  /\ \A n \in Sizes \cup NewSizes : n \in Nat /\ n > 0
BY DiskAssumption

LEMMA IdleFacts ==
  /\ Idle \in OpFields /\ Idle.state = "idle" /\ Idle.vol = None /\ Sound(Idle)
  /\ Nothing \in VolFields
  /\ \A v \in Vols : ~Writes(Idle, v)
  /\ \A s \in {"unborn", "removed"} : Nowhere(s) \in VolFields /\ Nowhere(s).status = s
                                      /\ Nowhere(s).size = 0
<1>1. Nothing \in VolFields
  BY DEF Nothing, Nowhere, VolFields
<1>2. Idle \in OpFields /\ Idle.state = "idle" /\ Idle.vol = None
  BY <1>1 DEF Idle, OpFields
<1>3. Sound(Idle)
  BY <1>2 DEF Sound, Ready
<1>4. \A v \in Vols : ~Writes(Idle, v)
  BY <1>2, Bounds DEF Writes
<1>5. \A s \in {"unborn", "removed"} : Nowhere(s) \in VolFields /\ Nowhere(s).status = s
                                      /\ Nowhere(s).size = 0
  BY DEF Nowhere, VolFields
<1> QED BY <1>1, <1>2, <1>3, <1>4, <1>5

LEMMA VolumeType ==
  ASSUME IInv, NEW v \in Vols
  PROVE  /\ vols \in [Vols -> VolFields] /\ vols[v] \in VolFields
         /\ vols[v].size \in Nat
         /\ held \in [Vols -> Workers \cup {None}]
         /\ raced \subseteq Vols
BY DEF IInv, Global, TypeOK, VolFields

LEMMA OpType ==
  ASSUME IInv, NEW c \in Callers
  PROVE  /\ ops \in [Callers -> OpFields] /\ ops[c] \in OpFields /\ Sound(ops[c])
         /\ ops[c].read \in VolFields /\ ops[c].size \in Nat
         /\ ops[c].state # "idle" => ops[c].vol \in Vols
BY DEF IInv, Global, TypeOK, OpFields

(* Who lets an operation in when nothing races for the volume. *)
LEMMA AdmitFacts ==
  ASSUME IInv, NEW v \in Vols, NEW growth \in BOOLEAN,
         NEW w \in Workers \cup {None}, Admit(v, growth, w)
  PROVE  /\ raced' \subseteq Vols /\ raced \subseteq raced'
         /\ held' \in [Vols -> Workers \cup {None}]
         /\ crowded' \subseteq Tenants /\ faulted' \subseteq Vols
         /\ v \notin raced' =>
              /\ v \notin raced /\ held'[v] = w
              /\ \A c \in Callers : ~Writes(ops[c], v)
         /\ \A u \in Vols \ {v} : held'[u] = held[u] /\ (u \in raced' <=> u \in raced)
<1>1. raced \subseteq Vols /\ held \in [Vols -> Workers \cup {None}]
      /\ crowded \subseteq Tenants /\ faulted \subseteq Vols /\ Owner[v] \in Tenants
  BY Bounds DEF IInv, Global, TypeOK
<1>2. raced' = IF InFlight(v) THEN raced \cup {v} ELSE raced
  BY DEF Admit
<1>3. held' = [held EXCEPT ![v] = IF v \in raced' THEN None ELSE w]
  BY DEF Admit
<1>4. raced' \subseteq Vols /\ raced \subseteq raced'
      /\ \A u \in Vols \ {v} : u \in raced' <=> u \in raced
  BY <1>1, <1>2
<1>5. /\ held' \in [Vols -> Workers \cup {None}]
      /\ v \notin raced' => held'[v] = w
      /\ \A u \in Vols \ {v} : held'[u] = held[u]
  BY <1>1, <1>3
<1>6. v \notin raced' => v \notin raced /\ \A c \in Callers : ~Writes(ops[c], v)
  BY <1>2 DEF InFlight, Writes
<1>7. crowded' \subseteq Tenants /\ faulted' \subseteq Vols
  BY <1>1 DEF Admit
<1> QED BY <1>4, <1>5, <1>6, <1>7

(***************************************************************************)
(* A step about one volume leaves what is known of the others.             *)
(***************************************************************************)
LEMMA OtherVolumes ==
  ASSUME IInv, NEW v \in Vols,
         \A u \in Vols \ {v} : vols'[u] = vols[u],
         \A u \in Vols \ {v} : held'[u] = held[u] /\ (u \in raced' <=> u \in raced),
         \A c \in Callers : \/ ops'[c] = ops[c]
                            \/ ops[c].vol \in {v, None} /\ ops'[c].vol \in {v, None},
         Undisturbed(v)'
  PROVE  \A u \in Vols : Undisturbed(u)'
<1> SUFFICES ASSUME NEW u \in Vols \ {v}, u \notin raced'
             PROVE  Alone(u)' /\ Kept(u)' /\ Created(u)' /\ Holds(u)'
  BY DEF Undisturbed
<1>1. Alone(u) /\ Kept(u) /\ Created(u) /\ Holds(u)
  BY DEF IInv, Undisturbed
<1>2. \A c \in Callers :
        /\ Writes(ops'[c], u) => ops'[c] = ops[c]
        /\ Writes(ops[c], u) => ops'[c] = ops[c]
  BY Bounds DEF Writes
<1>3. vols'[u] = vols[u] /\ held'[u] = held[u]
  OBVIOUS
<1>4. Alone(u)'
  BY <1>1, <1>2 DEF Alone
<1>5. Kept(u)'
  BY <1>1, <1>2, <1>3 DEF Kept
<1>6. Created(u)'
  BY <1>1, <1>2, <1>3 DEF Created
<1>7. Holds(u)'
  BY <1>1, <1>3 DEF Holds
<1> QED BY <1>4, <1>5, <1>6, <1>7

-------------------------------------------------------------------------------
LEMMA InitIInv == Init => IInv
<1> SUFFICES ASSUME Init PROVE IInv
  OBVIOUS
<1>1. /\ \A v \in Vols : vols[v] = Nowhere("unborn") /\ held[v] = None
      /\ \A c \in Callers : ops[c] = Idle
  BY DEF Init
<1>2. TypeOK
  BY <1>1, IdleFacts DEF Init, TypeOK
<1>3. Global
  BY <1>1, <1>2, IdleFacts DEF Init, Global, Sized, Registered
<1>4. ASSUME NEW v \in Vols PROVE Alone(v) /\ Kept(v) /\ Created(v) /\ Holds(v)
  BY <1>1, IdleFacts DEF Alone, Kept, Created, Holds
<1> QED BY <1>3, <1>4 DEF IInv, Undisturbed

(***************************************************************************)
(* An operation whose driver call begins: the caller's record, and the     *)
(* volume as its guards leave it.                                          *)
(***************************************************************************)
LEMMA CallFacts ==
  ASSUME IInv, NEW c \in Callers, NEW kind \in Kinds, NEW v \in Vols,
         NEW read \in VolFields, NEW size \in Nat, Call(c, kind, v, read, size)
  PROVE  /\ ops' \in [Callers -> OpFields]
         /\ ops[c].state = "idle" /\ ops[c].vol = None
         /\ ops'[c].kind = kind /\ ops'[c].state = "called" /\ ops'[c].vol = v
         /\ ops'[c].read = read /\ ops'[c].size = size
         /\ \A d \in Callers \ {c} : ops'[d] = ops[d]
<1> DEFINE o == [kind |-> kind, state |-> "called", vol |-> v, read |-> read,
                 size |-> size]
<1>1. o \in OpFields
  BY DEF OpFields, Kinds
<1>2. ops' = [ops EXCEPT ![c] = o] /\ ops[c].state = "idle"
  BY DEF Call
<1>3. ops[c].vol = None
  BY <1>2, OpType, IdleFacts DEF Sound
<1> QED BY <1>1, <1>2, <1>3, OpType

(* The new operation is sound, and its volume - if nothing raced for it -   *)
(* is written by it alone.                                                  *)
LEMMA BegunSound ==
  ASSUME IInv, NEW c \in Callers, NEW kind \in Kinds, NEW v \in Vols,
         NEW read \in VolFields, NEW size \in Nat, Call(c, kind, v, read, size),
         kind # "delete" => size > 0,
         kind \notin {"delete", "snapshot"} => read.size > 0,
         kind = "resize" => size > read.size,
         kind = "restore" => size = read.size
  PROVE  /\ \A d \in Callers : Sound(ops'[d])
         /\ \A d \in Callers : ops'[d].state # "idle" => ops'[d].vol \in Vols
         /\ (\A d \in Callers : ~Writes(ops[d], v)) =>
              \A d \in Callers : Writes(ops'[d], v) => d = c
<1>1. Sound(ops'[c])
  BY CallFacts DEF Sound, Ready, Creates, WritesBack
<1>2. \A d \in Callers : Sound(ops[d]) /\ (ops[d].state # "idle" => ops[d].vol \in Vols)
  BY OpType
<1> QED BY <1>1, <1>2, CallFacts

(***************************************************************************)
(* An operation that will write v is let in: the volume's entry is kept or *)
(* replaced, and - but for a deletion - kept in mind by the operation.     *)
(***************************************************************************)
LEMMA BeginKeeps ==
  ASSUME IInv, NEW c \in Callers, NEW kind \in Kinds \ {"snapshot"}, NEW v \in Vols,
         NEW read \in VolFields, NEW size \in Nat, NEW entry \in VolFields,
         NEW growth \in BOOLEAN,
         vols' = [vols EXCEPT ![v] = entry],
         Call(c, kind, v, read, size), Admit(v, growth, held[v]),
         snaps' = snaps, store' = store,
         entry.status \notin {"unborn", "removed"}, entry.size > 0,
         kind # "delete" => size > 0 /\ read = entry,
         kind = "resize" => size > read.size,
         kind = "restore" => size = read.size,
         kind \in {"create", "restore-new"} => entry.status = "creating",
         kind = "delete" => entry.status = "deleting",
         kind \in {"resize", "restore"} => entry.status \in {"available", "attached"},
         v \notin raced' /\ held[v] # None =>
           entry.status = "attached" /\ entry.at = held[v]
  PROVE  IInv'
<1>1. /\ vols' \in [Vols -> VolFields] /\ vols'[v] = entry
      /\ \A u \in Vols \ {v} : vols'[u] = vols[u]
  BY VolumeType
<1>2. held[v] \in Workers \cup {None}
  BY VolumeType
<1>3. kind \notin {"delete", "snapshot"} => read.size > 0
  OBVIOUS
<1>4. /\ \A d \in Callers : Sound(ops'[d])
      /\ \A d \in Callers : ops'[d].state # "idle" => ops'[d].vol \in Vols
      /\ (\A d \in Callers : ~Writes(ops[d], v)) =>
           \A d \in Callers : Writes(ops'[d], v) => d = c
  BY <1>3, BegunSound
<1>5. /\ ops' \in [Callers -> OpFields] /\ ops[c].vol = None
      /\ ops'[c].kind = kind /\ ops'[c].vol = v /\ ops'[c].read = read
      /\ \A d \in Callers \ {c} : ops'[d] = ops[d]
  BY CallFacts
<1>6. /\ raced' \subseteq Vols /\ held' \in [Vols -> Workers \cup {None}]
      /\ crowded' \subseteq Tenants /\ faulted' \subseteq Vols
      /\ v \notin raced' => held'[v] = held[v] /\ \A d \in Callers : ~Writes(ops[d], v)
      /\ \A u \in Vols \ {v} : held'[u] = held[u] /\ (u \in raced' <=> u \in raced)
  BY <1>2, AdmitFacts
<1>7. TypeOK'
  BY <1>1, <1>4, <1>5, <1>6 DEF IInv, Global, TypeOK
<1>8. Sized'
  BY <1>1 DEF IInv, Global, Sized, Registered
<1>9. Global'
  BY <1>4, <1>7, <1>8 DEF IInv, Global
<1>10. Undisturbed(v)'
  <2> SUFFICES ASSUME v \notin raced' PROVE Alone(v)' /\ Kept(v)' /\ Created(v)' /\ Holds(v)'
    BY DEF Undisturbed
  <2>1. \A d \in Callers : Writes(ops'[d], v) => d = c
    BY <1>4, <1>6
  <2>2. Alone(v)' /\ Holds(v)'
    BY <1>1, <1>6, <2>1 DEF Alone, Holds
  <2>3. Kept(v)'
    BY <1>1, <1>5, <2>1 DEF Kept, Creates, WritesBack
  <2>4. Created(v)'
    BY <1>5 DEF Created, Writes
  <2> QED BY <2>2, <2>3, <2>4
<1>11. \A d \in Callers : \/ ops'[d] = ops[d]
                          \/ ops[d].vol \in {v, None} /\ ops'[d].vol \in {v, None}
  BY <1>5
<1>12. \A u \in Vols : Undisturbed(u)'
  BY <1>1, <1>6, <1>10, <1>11, OtherVolumes
<1> QED BY <1>9, <1>12 DEF IInv

LEMMA PlaceKeeps ==
  ASSUME IInv, NEW c \in Callers, NEW kind \in {"create", "restore-new"},
         NEW v \in Vols, NEW size \in Nat, size > 0, Place(c, kind, v, size)
  PROVE  IInv'
<1> DEFINE entry == [status |-> "creating", size |-> size, at |-> None]
<1>1. entry \in VolFields /\ entry.status = "creating" /\ entry.size = size
  BY DEF VolFields
<1>2. vols' = [vols EXCEPT ![v] = entry]
  BY DEF Place, Put
<1> HIDE DEF entry
<1>3. vols'[v] = entry
  BY <1>2, VolumeType
<1>4. Call(c, kind, v, entry, size) /\ Admit(v, TRUE, held[v])
      /\ snaps' = snaps /\ store' = store /\ vols[v].status = "unborn"
  BY <1>3 DEF Place
<1>5. kind \in Kinds \ {"snapshot"} /\ kind \notin {"delete", "resize", "restore"}
  BY DEF Kinds
<1>6. v \notin raced' => held[v] = None
  <2>1. held[v] \in Workers \cup {None}
    BY VolumeType
  <2>2. v \notin raced' => v \notin raced
    BY <1>4, <2>1, AdmitFacts
  <2> QED BY <1>4, <2>2 DEF IInv, Undisturbed, Holds
<1> QED BY <1>1, <1>2, <1>4, <1>5, <1>6, BeginKeeps

(* The entry stays, and what the caller was told with it. *)
LEMMA StaysHeld ==
  ASSUME IInv, NEW v \in Vols, NEW growth \in BOOLEAN, Admit(v, growth, held[v]),
         v \notin raced', held[v] # None
  PROVE  vols[v].status = "attached" /\ vols[v].at = held[v]
<1>1. held[v] \in Workers \cup {None}
  BY VolumeType
<1>2. v \notin raced
  BY <1>1, AdmitFacts
<1> QED BY <1>2 DEF IInv, Undisturbed, Holds

LEMMA RestoreKeeps ==
  ASSUME IInv, NEW c \in Callers, NEW snap \in snaps, NEW v \in Vols,
         RestoreSnapshot(c, snap, v)
  PROVE  IInv'
<1>1. /\ vols[v] \in VolFields /\ vols[v].size \in Nat /\ vols[v].status = "available"
      /\ vols' = [vols EXCEPT ![v] = vols[v]]
  BY VolumeType DEF RestoreSnapshot
<1>2. vols[v].size > 0
  BY <1>1 DEF IInv, Global, Sized, Registered
<1>3. /\ Call(c, "restore", v, vols[v], vols[v].size) /\ Admit(v, FALSE, held[v])
      /\ snaps' = snaps /\ store' = store
  BY DEF RestoreSnapshot
<1>4. v \notin raced' /\ held[v] # None => vols[v].status = "attached" /\ vols[v].at = held[v]
  BY <1>3, StaysHeld
<1>5. "restore" \in Kinds \ {"snapshot"}
  BY DEF Kinds
<1> QED BY <1>1, <1>2, <1>3, <1>4, <1>5, BeginKeeps

LEMMA ResizeKeeps ==
  ASSUME IInv, NEW c \in Callers, NEW v \in Vols, NEW size \in Sizes,
         ResizeVolume(c, v, size)
  PROVE  IInv'
<1>1. /\ vols[v] \in VolFields /\ vols[v].size \in Nat
      /\ vols[v].status \in {"available", "attached"}
      /\ vols' = [vols EXCEPT ![v] = vols[v]]
  BY VolumeType DEF ResizeVolume
<1>2. vols[v].size > 0 /\ size \in Nat /\ size > vols[v].size /\ size > 0
  BY <1>1, Bounds DEF ResizeVolume, IInv, Global, Sized, Registered
<1>3. /\ Call(c, "resize", v, vols[v], size) /\ Admit(v, TRUE, held[v])
      /\ snaps' = snaps /\ store' = store
  BY DEF ResizeVolume
<1>4. v \notin raced' /\ held[v] # None => vols[v].status = "attached" /\ vols[v].at = held[v]
  BY <1>3, StaysHeld
<1>5. "resize" \in Kinds \ {"snapshot"}
  BY DEF Kinds
<1> QED BY <1>1, <1>2, <1>3, <1>4, <1>5, BeginKeeps

LEMMA DeleteKeeps ==
  ASSUME IInv, NEW c \in Callers, NEW v \in Vols, DeleteVolume(c, v)
  PROVE  IInv'
<1> DEFINE entry == [vols[v] EXCEPT !.status = "deleting"]
<1>1. /\ vols[v] \in VolFields /\ vols[v].size \in Nat
      /\ vols[v].status \in {"creating", "available"}
  BY VolumeType DEF DeleteVolume
<1>2. entry \in VolFields /\ entry.status = "deleting" /\ entry.size = vols[v].size
  BY <1>1 DEF VolFields
<1>3. vols' = [vols EXCEPT ![v] = entry]
  BY DEF DeleteVolume, Put
<1> HIDE DEF entry
<1>4. vols[v].size > 0
  BY <1>1 DEF IInv, Global, Sized, Registered
<1>5. /\ Call(c, "delete", v, Nothing, 0) /\ Admit(v, FALSE, held[v])
      /\ snaps' = snaps /\ store' = store
  BY DEF DeleteVolume
<1>6. v \notin raced' => held[v] = None
  BY <1>1, <1>5, StaysHeld
<1>7. "delete" \in Kinds \ {"snapshot"}
  BY DEF Kinds
<1>8. Nothing \in VolFields
  BY IdleFacts
<1> QED BY <1>2, <1>3, <1>4, <1>5, <1>6, <1>7, <1>8, BeginKeeps

(***************************************************************************)
(* An attach or a detach, which call no driver.                            *)
(***************************************************************************)
LEMMA MoveKeeps ==
  ASSUME IInv, NEW v \in Vols, NEW w \in Workers \cup {None}, NEW entry \in VolFields,
         vols' = [vols EXCEPT ![v] = entry], Admit(v, FALSE, w),
         snaps' = snaps, store' = store, ops' = ops,
         entry.status \in {"available", "attached"}, entry.size > 0,
         w # None => entry.status = "attached" /\ entry.at = w
  PROVE  IInv'
<1>1. /\ vols' \in [Vols -> VolFields] /\ vols'[v] = entry
      /\ \A u \in Vols \ {v} : vols'[u] = vols[u]
  BY VolumeType
<1>2. /\ raced' \subseteq Vols /\ held' \in [Vols -> Workers \cup {None}]
      /\ crowded' \subseteq Tenants /\ faulted' \subseteq Vols
      /\ v \notin raced' => held'[v] = w /\ \A d \in Callers : ~Writes(ops[d], v)
      /\ \A u \in Vols \ {v} : held'[u] = held[u] /\ (u \in raced' <=> u \in raced)
  BY AdmitFacts
<1>3. TypeOK'
  BY <1>1, <1>2 DEF IInv, Global, TypeOK
<1>4. Sized'
  BY <1>1 DEF IInv, Global, Sized, Registered
<1>5. Global'
  BY <1>3, <1>4 DEF IInv, Global
<1>6. Undisturbed(v)'
  BY <1>1, <1>2 DEF Undisturbed, Alone, Kept, Created, Holds
<1>7. \A u \in Vols : Undisturbed(u)'
  BY <1>1, <1>2, <1>6, OtherVolumes
<1> QED BY <1>5, <1>7 DEF IInv

LEMMA AttachKeeps ==
  ASSUME IInv, NEW v \in Vols, NEW w \in Workers, AttachVolume(v, w)
  PROVE  IInv'
<1> DEFINE entry == [vols[v] EXCEPT !.status = "attached", !.at = w]
<1>1. vols[v] \in VolFields /\ vols[v].size \in Nat /\ vols[v].status = "available"
  BY VolumeType DEF AttachVolume
<1>2. /\ entry \in VolFields /\ entry.status = "attached" /\ entry.at = w
      /\ entry.size = vols[v].size
  BY <1>1 DEF VolFields
<1>3. /\ vols' = [vols EXCEPT ![v] = entry] /\ Admit(v, FALSE, w)
      /\ snaps' = snaps /\ store' = store /\ ops' = ops
  BY DEF AttachVolume, Put
<1> HIDE DEF entry
<1>4. vols[v].size > 0
  BY <1>1 DEF IInv, Global, Sized, Registered
<1> QED BY <1>2, <1>3, <1>4, MoveKeeps

LEMMA DetachKeeps ==
  ASSUME IInv, NEW v \in Vols, DetachVolume(v)
  PROVE  IInv'
<1> DEFINE entry == [vols[v] EXCEPT !.status = "available", !.at = None]
<1>1. vols[v] \in VolFields /\ vols[v].size \in Nat /\ vols[v].status = "attached"
  BY VolumeType DEF DetachVolume
<1>2. entry \in VolFields /\ entry.status = "available" /\ entry.size = vols[v].size
  BY <1>1 DEF VolFields
<1>3. /\ vols' = [vols EXCEPT ![v] = entry] /\ Admit(v, FALSE, None)
      /\ snaps' = snaps /\ store' = store /\ ops' = ops
  BY DEF DetachVolume, Put
<1> HIDE DEF entry
<1>4. vols[v].size > 0
  BY <1>1 DEF IInv, Global, Sized, Registered
<1> QED BY <1>2, <1>3, <1>4, MoveKeeps

LEMMA SnapshotKeeps ==
  ASSUME IInv, NEW c \in Callers, NEW v \in Vols, CreateSnapshot(c, v)
  PROVE  IInv'
<1>1. /\ Call(c, "snapshot", v, Nothing, vols[v].size)
      /\ vols' = vols /\ snaps' = snaps /\ store' = store /\ held' = held
      /\ raced' = raced /\ crowded' = crowded /\ faulted' = faulted
      /\ vols[v].status \in {"available", "attached"}
  BY DEF CreateSnapshot
<1>2. vols[v].size \in Nat /\ vols[v].size > 0 /\ Nothing \in VolFields
      /\ "snapshot" \in Kinds
  BY <1>1, VolumeType, IdleFacts DEF IInv, Global, Sized, Registered, Kinds
<1>3. /\ \A d \in Callers : Sound(ops'[d])
      /\ \A d \in Callers : ops'[d].state # "idle" => ops'[d].vol \in Vols
  BY <1>1, <1>2, BegunSound
<1>4. /\ ops' \in [Callers -> OpFields] /\ ops[c].vol = None
      /\ ops'[c].kind = "snapshot" /\ \A d \in Callers \ {c} : ops'[d] = ops[d]
  BY <1>1, <1>2, CallFacts
<1>5. TypeOK' /\ Sized'
  BY <1>1, <1>3, <1>4 DEF IInv, Global, TypeOK, Sized, Registered
<1>6. Global'
  BY <1>1, <1>3, <1>5 DEF IInv, Global
<1>7. ASSUME NEW u \in Vols PROVE Undisturbed(u)'
  <2>1. ~Writes(ops'[c], u) /\ ~Writes(ops[c], u)
    BY <1>4, Bounds DEF Writes
  <2>2. \A d \in Callers :
          /\ Writes(ops'[d], u) <=> Writes(ops[d], u)
          /\ Writes(ops'[d], u) => ops'[d] = ops[d]
    BY <1>4, <2>1
  <2>3. Undisturbed(u)
    BY DEF IInv
  <2> QED BY <1>1, <2>2, <2>3 DEF Undisturbed, Alone, Kept, Created, Holds
<1> QED BY <1>6, <1>7 DEF IInv
-------------------------------------------------------------------------------
(* The driver has answered: the operation is as it was, or has failed and   *)
(* forgets what it read.                                                    *)
LEMMA DriverKeeps ==
  ASSUME IInv, NEW c \in Callers, Driver(c)
  PROVE  IInv'
<1> DEFINE o == ops[c]
           p == ops'[c]
<1>1. /\ o.state = "called" /\ o \in OpFields /\ Sound(o) /\ o.vol \in Vols
      /\ vols' = vols /\ snaps' = snaps /\ held' = held
      /\ raced' = raced /\ crowded' = crowded
  BY OpType DEF Driver
<1>2. /\ ops' \in [Callers -> OpFields]
      /\ \A d \in Callers \ {c} : ops'[d] = ops[d]
      /\ p.kind = o.kind /\ p.vol = o.vol
      /\ \/ p.state = "ok" /\ p.read = o.read /\ p.size = o.size
         \/ p.state = "failed"
  <2>1. CASE ops' = [ops EXCEPT ![c].state = "ok"]
    BY <1>1, <2>1, OpType DEF OpFields
  <2>2. CASE ops' = [ops EXCEPT ![c].state = "failed", ![c].read = Nothing, ![c].size = 0]
    BY <1>1, <2>2, OpType, IdleFacts DEF OpFields
  <2> QED BY <2>1, <2>2 DEF Driver
<1>3. store' \subseteq Vols
  BY <1>1 DEF Driver, DriverOk, DriverFails, IInv, Global, TypeOK
<1>4. faulted' \subseteq Vols
  BY <1>1 DEF Driver, DriverOk, DriverFails, IInv, Global, TypeOK
<1>5. Sound(p)
  BY <1>1, <1>2 DEF Sound, Ready, Creates, WritesBack
<1>6. TypeOK'
  BY <1>1, <1>2, <1>3, <1>4 DEF IInv, Global, TypeOK
<1>7. Global'
  BY <1>1, <1>2, <1>5, <1>6 DEF IInv, Global, Sized, Registered
<1>8. ASSUME NEW u \in Vols PROVE Undisturbed(u)'
  <2> SUFFICES ASSUME u \notin raced
               PROVE  Alone(u)' /\ Kept(u)' /\ Created(u)' /\ Holds(u)'
    BY <1>1 DEF Undisturbed
  <2>1. \A d \in Callers : Writes(ops'[d], u) <=> Writes(ops[d], u)
    BY <1>2 DEF Writes
  <2>2. Alone(u) /\ Kept(u) /\ Created(u) /\ Holds(u)
    BY DEF IInv, Undisturbed
  <2>3. Alone(u)' /\ Created(u)' /\ Holds(u)'
    BY <1>1, <2>1, <2>2 DEF Alone, Created, Holds
  <2>4. Kept(u)'
    <3> SUFFICES ASSUME NEW d \in Callers, Writes(ops'[d], u)
                 PROVE  LET q == ops'[d] IN
                        /\ Creates(q) => vols[u].status = "creating"
                        /\ q.kind = "delete" => vols[u].status = "deleting"
                        /\ WritesBack(q) => vols[u].status \in {"available", "attached"}
                        /\ Ready(q) /\ (Creates(q) \/ WritesBack(q)) => q.read = vols[u]
      BY <1>1 DEF Kept
    <3>1. CASE d = c
      BY <1>1, <1>2, <2>1, <2>2, <3>1 DEF Kept, Creates, WritesBack, Ready
    <3>2. CASE d # c
      BY <1>2, <2>1, <2>2, <3>2 DEF Kept
    <3> QED BY <3>1, <3>2
  <2> QED BY <2>3, <2>4
<1> QED BY <1>7, <1>8 DEF IInv

(* What the code after a driver call makes of the volume's entry. *)
LEMMA AfterCallFacts ==
  ASSUME IInv, NEW c \in Callers, ops[c].state \in {"ok", "failed"}
  PROVE  LET o == ops[c]  e == AfterCall(o) IN
         /\ e \in VolFields
         /\ e.status \notin {"unborn", "removed"} => e.size > 0
         /\ o.kind = "snapshot" => e = vols[o.vol]
         /\ WritesBack(o) /\ o.state = "failed" => e = vols[o.vol]
         /\ WritesBack(o) /\ o.state = "ok" =>
              e.status = o.read.status /\ e.at = o.read.at /\ e.size = o.size
         /\ Creates(o) /\ o.state = "failed" => e.status = "removed" /\ e.size = 0
         /\ Creates(o) /\ o.state = "ok" =>
              e.status = "available" /\ e.size = o.read.size
         /\ o.kind = "delete" => e.status = "removed" /\ e.size = 0
<1> DEFINE o == ops[c]
           e == AfterCall(o)
<1>1. /\ o.vol \in Vols /\ o.kind \in Kinds /\ Sound(o) /\ o.read \in VolFields
      /\ o.size \in Nat /\ vols[o.vol] \in VolFields
      /\ vols[o.vol].status \notin {"unborn", "removed"} => vols[o.vol].size > 0
  BY OpType, VolumeType DEF Sound, IInv, Global, Sized, Registered
<1>2. CASE o.kind = "snapshot" \/ (WritesBack(o) /\ o.state = "failed")
  <2>1. e = vols[o.vol]
    BY <1>2 DEF AfterCall, WritesBack
  <2>2. ~Creates(o) /\ o.kind # "delete"
    BY <1>2 DEF Creates, WritesBack
  <2>3. ~(WritesBack(o) /\ o.state = "ok")
    BY <1>2 DEF WritesBack
  <2> QED BY <1>1, <2>1, <2>2, <2>3
<1>3. CASE WritesBack(o) /\ o.state = "ok"
  <2>1. e = [o.read EXCEPT !.size = o.size] /\ o.size > 0
    BY <1>1, <1>3 DEF AfterCall, WritesBack, Sound, Ready
  <2>2. e \in VolFields /\ e.status = o.read.status /\ e.at = o.read.at /\ e.size = o.size
    BY <1>1, <2>1 DEF VolFields
  <2> QED BY <1>3, <2>1, <2>2 DEF WritesBack, Creates
<1>4. CASE Creates(o) /\ o.state = "ok"
  <2>1. e = [o.read EXCEPT !.status = "available"] /\ o.read.size > 0
    BY <1>1, <1>4 DEF AfterCall, Creates, Sound, Ready
  <2>2. e \in VolFields /\ e.status = "available" /\ e.size = o.read.size
    BY <1>1, <2>1 DEF VolFields
  <2> QED BY <1>4, <2>1, <2>2 DEF WritesBack, Creates
<1>5. CASE o.kind = "delete" \/ (Creates(o) /\ o.state = "failed")
  <2>1. e = Nowhere("removed")
    BY <1>5 DEF AfterCall, Creates
  <2> QED BY <1>5, <2>1, IdleFacts DEF WritesBack, Creates
<1>6. o.kind = "snapshot" \/ o.kind = "delete" \/ WritesBack(o) \/ Creates(o)
  BY <1>1 DEF Kinds, WritesBack, Creates
<1> QED BY <1>2, <1>3, <1>4, <1>5, <1>6

LEMMA ReturnKeeps ==
  ASSUME IInv, NEW c \in Callers, Return(c)
  PROVE  IInv'
<1> DEFINE o == ops[c]
           e == AfterCall(o)
<1>1. /\ o.state \in {"ok", "failed"} /\ o.vol \in Vols /\ Sound(o) /\ o.kind \in Kinds
      /\ o.size \in Nat
      /\ vols' = [vols EXCEPT ![o.vol] = e] /\ ops' = [ops EXCEPT ![c] = Idle]
      /\ store' = store /\ held' = held /\ raced' = raced
      /\ crowded' = crowded /\ faulted' = faulted
  BY OpType DEF Return, Put, history, Sound
<1>2. /\ e \in VolFields
      /\ e.status \notin {"unborn", "removed"} => e.size > 0
  BY <1>1, AfterCallFacts
<1>3. /\ vols' \in [Vols -> VolFields] /\ vols'[o.vol] = e
      /\ \A u \in Vols \ {o.vol} : vols'[u] = vols[u]
  BY <1>1, <1>2, VolumeType
<1>4. /\ ops' \in [Callers -> OpFields] /\ ops'[c] = Idle
      /\ \A d \in Callers \ {c} : ops'[d] = ops[d]
  BY <1>1, OpType, IdleFacts
<1>5. /\ snaps' \subseteq [vol: Vols, size: Nat]
      /\ \A s \in snaps' : s.size > 0
  <2>1. snaps \subseteq [vol: Vols, size: Nat] /\ \A s \in snaps : s.size > 0
    BY DEF IInv, Global, TypeOK
  <2>2. CASE o.kind = "snapshot" /\ o.state = "ok"
    <3>1. o.size > 0 /\ snaps' = snaps \cup {[vol |-> o.vol, size |-> o.size]}
      BY <1>1, <2>2 DEF Return, Sound, Ready
    <3> QED BY <1>1, <2>1, <3>1
  <2>3. CASE ~(o.kind = "snapshot" /\ o.state = "ok")
    BY <2>1, <2>3 DEF Return
  <2> QED BY <2>2, <2>3
<1>6. TypeOK'
  BY <1>1, <1>3, <1>4, <1>5, IdleFacts DEF IInv, Global, TypeOK
<1>7. Global'
  BY <1>2, <1>3, <1>4, <1>5, <1>6, IdleFacts DEF IInv, Global, Sized, Registered
<1> PICK v \in Vols : v = o.vol
  BY <1>1
<1>8. Undisturbed(v)'
  <2> SUFFICES ASSUME v \notin raced
               PROVE  Alone(v)' /\ Kept(v)' /\ Created(v)' /\ Holds(v)'
    BY <1>1 DEF Undisturbed
  <2>1. Alone(v) /\ Kept(v) /\ Created(v) /\ Holds(v)
    BY <1>1 DEF IInv, Undisturbed
  <2>2. CASE o.kind = "snapshot"
    <3>1. vols' = vols
      BY <1>1, <1>3, <2>2, AfterCallFacts, VolumeType
    <3>2. \A d \in Callers :
            /\ Writes(ops'[d], v) <=> Writes(ops[d], v)
            /\ Writes(ops'[d], v) => ops'[d] = ops[d]
      BY <1>1, <1>4, <2>2, IdleFacts DEF Writes
    <3> QED BY <1>1, <2>1, <3>1, <3>2 DEF Alone, Kept, Created, Holds
  <2>3. CASE o.kind # "snapshot"
    <3>1. Writes(o, v)
      BY <2>3 DEF Writes
    <3>2. \A d \in Callers : ~Writes(ops'[d], v)
      BY <1>1, <1>4, <2>1, <3>1, IdleFacts DEF Alone
    <3>3. /\ Creates(o) => vols[v].status = "creating"
          /\ o.kind = "delete" => vols[v].status = "deleting"
          /\ WritesBack(o) => vols[v].status \in {"available", "attached"}
          /\ o.state = "ok" /\ WritesBack(o) => o.read = vols[v]
      BY <2>1, <3>1 DEF Kept, Ready
    <3>4. o.kind = "delete" \/ WritesBack(o) \/ Creates(o)
      BY <1>1, <2>3 DEF Kinds, WritesBack, Creates
    <3>5. e.status # "creating"
      BY <1>1, <3>3, <3>4, AfterCallFacts
    <3>6. held[v] # None => e.status = "attached" /\ e.at = held[v]
      BY <1>1, <2>1, <3>3, <3>4, AfterCallFacts DEF Holds
    <3> QED BY <1>1, <1>3, <3>2, <3>5, <3>6 DEF Alone, Kept, Created, Holds
  <2> QED BY <2>2, <2>3
<1>9. \A d \in Callers : \/ ops'[d] = ops[d]
                         \/ ops[d].vol \in {v, None} /\ ops'[d].vol \in {v, None}
  BY <1>4, IdleFacts
<1>10. \A u \in Vols : Undisturbed(u)'
  BY <1>1, <1>3, <1>8, <1>9, OtherVolumes
<1> QED BY <1>7, <1>10 DEF IInv

-------------------------------------------------------------------------------
LEMMA RequestsKeep ==
  ASSUME IInv, NEW c \in Callers, Requests(c)
  PROVE  IInv'
<1>1. ASSUME NEW v \in Vols, NEW size \in NewSizes, CreateVolume(c, v, size)
      PROVE  IInv'
  BY <1>1, Bounds, PlaceKeeps DEF CreateVolume
<1>2. ASSUME NEW snap \in snaps, NEW v \in Vols, RestoreNew(c, snap, v)
      PROVE  IInv'
  <2>1. snap.size \in Nat /\ snap.size > 0
    BY DEF IInv, Global, TypeOK
  <2> QED BY <1>2, <2>1, PlaceKeeps DEF RestoreNew
<1> QED BY <1>1, <1>2, ResizeKeeps, DeleteKeeps, SnapshotKeeps, RestoreKeeps DEF Requests

LEMMA NextKeeps == IInv /\ [Next]_vars => IInv'
<1> SUFFICES ASSUME IInv, [Next]_vars PROVE IInv'
  OBVIOUS
<1>1. CASE UNCHANGED vars
  BY <1>1 DEF vars, IInv, Global, TypeOK, Sized, Registered, Undisturbed, Alone,
     Kept, Created, Holds
<1>2. CASE Next
  BY <1>2, RequestsKeep, AttachKeeps, DetachKeeps, DriverKeeps, ReturnKeeps DEF Next
<1> QED BY <1>1, <1>2

(* Every reachable state satisfies the strengthened invariant. *)
THEOREM Strengthened == Spec => []IInv
BY InitIInv, NextKeeps, PTL DEF Spec

(* The variables keep their types (registry.ts 29-60). *)
THEOREM TypeCorrect == Spec => []TypeOK
<1>1. IInv => TypeOK
  BY DEF IInv, Global
<1> QED BY <1>1, Strengthened, PTL

(* A worker keeps the volume it was told it has attached, unless operations *)
(* on the volume overlapped (registry.ts 161-194).                          *)
THEOREM HolderKeeps == Spec => []HolderKeepsVolume
<1>1. IInv => HolderKeepsVolume
  BY DEF IInv, Global, TypeOK, Undisturbed, Holds, HolderKeepsVolume
<1> QED BY <1>1, Strengthened, PTL
-------------------------------------------------------------------------------
(***************************************************************************)
(* Each step against the diagram of the volume.  A step that is about v    *)
(* changes no other volume; one that v is in no race for finds it as the   *)
(* diagram needs it.                                                       *)
(***************************************************************************)
Follows(v) == vols'[v] = vols[v] \/ Life(v)!Next

LEMMA PlaceFollows ==
  ASSUME IInv, NEW c \in Callers, NEW kind \in {"create", "restore-new"},
         NEW v \in Vols, NEW size \in Nat, size > 0, Place(c, kind, v, size)
  PROVE  \A u \in Vols : Follows(u)
<1>1. /\ vols' = [vols EXCEPT ![v] = [status |-> "creating", size |-> size, at |-> None]]
      /\ vols[v].status = "unborn"
  BY DEF Place, Put
<1>2. /\ vols'[v].status = "creating" /\ vols'[v].size > 0
      /\ \A u \in Vols \ {v} : vols'[u] = vols[u]
  BY <1>1, VolumeType
<1>3. Life(v)!Next
  BY <1>1, <1>2 DEF Life!Next, Life!Create
<1> QED BY <1>2, <1>3 DEF Follows

LEMMA DeleteFollows ==
  ASSUME IInv, NEW c \in Callers, NEW v \in Vols, DeleteVolume(c, v)
  PROVE  \A u \in Vols \ raced' : Follows(u)
<1>1. /\ vols' = [vols EXCEPT ![v] = [vols[v] EXCEPT !.status = "deleting"]]
      /\ vols[v].status \in {"creating", "available"}
      /\ Admit(v, FALSE, held[v]) /\ held[v] \in Workers \cup {None}
  BY VolumeType DEF DeleteVolume, Put
<1>2. /\ vols'[v].status = "deleting" /\ vols'[v].size = vols[v].size
      /\ \A u \in Vols \ {v} : vols'[u] = vols[u]
  BY <1>1, VolumeType DEF VolFields
<1>3. ASSUME v \notin raced' PROVE Life(v)!Next
  <2>1. v \notin raced /\ \A d \in Callers : ~Writes(ops[d], v)
    BY <1>1, <1>3, AdmitFacts
  <2>2. vols[v].status = "available"
    BY <1>1, <2>1 DEF IInv, Undisturbed, Created
  <2> QED BY <1>2, <2>2 DEF Life!Next, Life!Delete
<1> QED BY <1>2, <1>3 DEF Follows

LEMMA MoveFollows ==
  ASSUME IInv, NEW v \in Vols,
         (\E w \in Workers : AttachVolume(v, w)) \/ DetachVolume(v)
  PROVE  \A u \in Vols : Follows(u)
<1>1. CASE \E w \in Workers : AttachVolume(v, w)
  <2>1. PICK w \in Workers : AttachVolume(v, w)
    BY <1>1
  <2>2. /\ vols' = [vols EXCEPT ![v] = [vols[v] EXCEPT !.status = "attached", !.at = w]]
        /\ vols[v].status = "available"
    BY <2>1 DEF AttachVolume, Put
  <2>3. /\ vols'[v].status = "attached" /\ vols'[v].size = vols[v].size
        /\ \A u \in Vols \ {v} : vols'[u] = vols[u]
    BY <2>2, VolumeType DEF VolFields
  <2>4. Life(v)!Next
    BY <2>2, <2>3 DEF Life!Next, Life!Attach
  <2> QED BY <2>3, <2>4 DEF Follows
<1>2. CASE DetachVolume(v)
  <2>1. /\ vols' = [vols EXCEPT ![v] = [vols[v] EXCEPT !.status = "available", !.at = None]]
        /\ vols[v].status = "attached"
    BY <1>2 DEF DetachVolume, Put
  <2>2. /\ vols'[v].status = "available" /\ vols'[v].size = vols[v].size
        /\ \A u \in Vols \ {v} : vols'[u] = vols[u]
    BY <2>1, VolumeType DEF VolFields
  <2>3. Life(v)!Next
    BY <2>1, <2>2 DEF Life!Next, Life!Detach
  <2> QED BY <2>2, <2>3 DEF Follows
<1> QED BY <1>1, <1>2

LEMMA ReturnFollows ==
  ASSUME IInv, NEW c \in Callers, Return(c)
  PROVE  \A u \in Vols \ raced' : Follows(u)
<1> DEFINE o == ops[c]
           e == AfterCall(o)
<1>1. /\ o.state \in {"ok", "failed"} /\ o.vol \in Vols /\ o.kind \in Kinds /\ Sound(o)
      /\ vols' = [vols EXCEPT ![o.vol] = e] /\ raced' = raced
  BY OpType DEF Return, Put, history, Sound
<1> PICK v \in Vols : v = o.vol
  BY <1>1
<1>2. /\ vols'[v] = e /\ vols[v] \in VolFields
      /\ \A u \in Vols \ {v} : vols'[u] = vols[u]
  BY <1>1, VolumeType
<1>3. CASE o.kind = "snapshot" \/ (WritesBack(o) /\ o.state = "failed")
  <2>1. e = vols[v]
    BY <1>1, <1>3, AfterCallFacts
  <2> QED BY <1>2, <2>1 DEF Follows
<1>4. CASE o.kind # "snapshot" /\ ~(WritesBack(o) /\ o.state = "failed")
  <2> SUFFICES ASSUME v \notin raced PROVE Follows(v)
    BY <1>1, <1>2 DEF Follows
  <2>1. Writes(o, v) /\ Kept(v)
    BY <1>4 DEF Writes, IInv, Undisturbed
  <2>2. /\ Creates(o) => vols[v].status = "creating"
        /\ o.kind = "delete" => vols[v].status = "deleting"
        /\ WritesBack(o) => vols[v].status \in {"available", "attached"}
        /\ o.state = "ok" /\ (Creates(o) \/ WritesBack(o)) => o.read = vols[v]
    BY <2>1 DEF Kept, Ready
  <2>3. CASE o.kind = "delete"
    <3>1. e.status = "removed" /\ e.size = 0
      BY <1>1, <2>3, AfterCallFacts
    <3>2. Life(v)!Next
      BY <1>2, <2>2, <2>3, <3>1 DEF Life!Next, Life!Remove
    <3> QED BY <3>2 DEF Follows
  <2>4. CASE Creates(o) /\ o.state = "failed"
    <3>1. e.status = "removed" /\ e.size = 0
      BY <1>1, <2>4, AfterCallFacts
    <3>2. Life(v)!Next
      BY <1>2, <2>2, <2>4, <3>1 DEF Life!Next, Life!RollBack
    <3> QED BY <3>2 DEF Follows
  <2>5. CASE Creates(o) /\ o.state = "ok"
    <3>1. e.status = "available" /\ e.size = vols[v].size /\ vols[v].size \in Nat
      BY <1>1, <1>2, <2>2, <2>5, AfterCallFacts DEF VolFields
    <3>2. Life(v)!Next
      BY <1>2, <2>2, <2>5, <3>1 DEF Life!Next, Life!Ready
    <3> QED BY <3>2 DEF Follows
  <2>6. CASE o.kind = "resize" /\ o.state = "ok"
    <3>1. e.status = vols[v].status /\ e.size > vols[v].size
      BY <1>1, <2>2, <2>6, AfterCallFacts DEF WritesBack, Sound, Ready
    <3>2. Life(v)!Next
      BY <1>2, <2>2, <2>6, <3>1 DEF Life!Next, Life!Grow, WritesBack
    <3> QED BY <3>2 DEF Follows
  <2>7. CASE o.kind = "restore" /\ o.state = "ok"
    <3>1. /\ e \in VolFields
          /\ e.status = vols[v].status /\ e.size = vols[v].size /\ e.at = vols[v].at
      BY <1>1, <2>2, <2>7, AfterCallFacts DEF WritesBack, Sound, Ready
    <3>2. e = vols[v]
      BY <1>2, <3>1 DEF VolFields
    <3> QED BY <1>2, <3>2 DEF Follows
  <2> QED BY <1>1, <1>4, <2>3, <2>4, <2>5, <2>6, <2>7 DEF Kinds, WritesBack, Creates
<1> QED BY <1>3, <1>4

LEMMA NextFollows == IInv /\ [Next]_vars => \A v \in Vols \ raced' : Follows(v)
<1> SUFFICES ASSUME IInv, [Next]_vars PROVE \A v \in Vols \ raced' : Follows(v)
  OBVIOUS
<1>1. ASSUME vols' = vols PROVE \A v \in Vols \ raced' : Follows(v)
  BY <1>1 DEF Follows
<1>2. ASSUME NEW c \in Callers, Requests(c)
      PROVE  \A v \in Vols \ raced' : Follows(v)
  <2>1. ASSUME NEW v \in Vols, NEW size \in NewSizes, CreateVolume(c, v, size)
        PROVE  \A u \in Vols : Follows(u)
    BY <2>1, Bounds, PlaceFollows DEF CreateVolume
  <2>2. ASSUME NEW snap \in snaps, NEW v \in Vols, RestoreNew(c, snap, v)
        PROVE  \A u \in Vols : Follows(u)
    <3>1. snap.size \in Nat /\ snap.size > 0
      BY DEF IInv, Global, TypeOK
    <3> QED BY <2>2, <3>1, PlaceFollows DEF RestoreNew
  <2> QED BY <1>1, <1>2, <2>1, <2>2, DeleteFollows DEF Requests, ResizeVolume,
             CreateSnapshot, RestoreSnapshot
<1> QED BY <1>1, <1>2, MoveFollows, ReturnFollows DEF Next, Driver, vars

(* Every volume follows the diagram of registry.ts:5-26, and only grows,    *)
(* unless operations on it overlapped: the registry implements              *)
(* VolumeLifecycle, for each volume by itself.                              *)
THEOREM ImplementsLifecycle == Spec => FollowsLifecycle
<1>1. IInv /\ [Next]_vars => [\A v \in Vols \ raced' : vols'[v] = vols[v] \/ Life(v)!Next]_vars
  BY NextFollows DEF Follows
<1> QED BY <1>1, Strengthened, PTL DEF Spec, FollowsLifecycle

-------------------------------------------------------------------------------
(***************************************************************************)
(* The storage behind a volume that is in no race.  Between the driver's   *)
(* answer and the code after it, the operation knows what the driver did.  *)
(***************************************************************************)
Answered(o, v) ==
  /\ o.state = "ok" /\ Creates(o) => v \in store
  /\ o.state = "ok" /\ o.kind = "delete" => v \notin store
  /\ o.state = "failed" => v \in faulted

Behind(v) ==
  /\ vols[v].status \in {"available", "attached"} => v \in store
  /\ vols[v].status = "removed" /\ v \in store => v \in faulted
  /\ \A c \in Callers : Writes(ops[c], v) => Answered(ops[c], v)

AllBehind == \A v \in Vols \ raced : Behind(v)

LEMMA InitBehind == Init => AllBehind
<1> SUFFICES ASSUME Init, NEW v \in Vols PROVE Behind(v)
  BY DEF AllBehind
<1>1. vols[v].status = "unborn" /\ \A c \in Callers : ~Writes(ops[c], v)
  BY IdleFacts DEF Init
<1> QED BY <1>1 DEF Behind

(* A step that is not about u. *)
LEMMA UntouchedBehind ==
  ASSUME IInv, NEW u \in Vols, Behind(u), vols'[u] = vols[u],
         u \in store' <=> u \in store, u \in faulted => u \in faulted',
         \A c \in Callers : Writes(ops'[c], u) => ops'[c] = ops[c]
  PROVE  Behind(u)'
<1>1. ASSUME NEW c \in Callers, Writes(ops'[c], u) PROVE Answered(ops[c], u)'
  <2>1. Answered(ops[c], u) /\ ops'[c] = ops[c]
    BY <1>1 DEF Behind
  <2> QED BY <2>1 DEF Answered, Creates
<1> QED BY <1>1 DEF Behind

(* What is let in leaves the marks of volumes that are in no race. *)
LEMMA AdmitKeepsMarks ==
  ASSUME IInv, NEW v \in Vols, NEW growth \in BOOLEAN,
         NEW w \in Workers \cup {None}, Admit(v, growth, w), NEW u \in Vols \ raced'
  PROVE  u \notin raced /\ (u \in faulted => u \in faulted')
BY AdmitFacts DEF Admit

(***************************************************************************)
(* An operation is let in, with or without a driver call to come: v was    *)
(* ready and is, or is in creation or deletion.                            *)
(***************************************************************************)
LEMMA AdmittedBehind ==
  ASSUME IInv, AllBehind, NEW v \in Vols, NEW growth \in BOOLEAN,
         NEW w \in Workers \cup {None}, Admit(v, growth, w), store' = store,
         \A u \in Vols \ {v} : vols'[u] = vols[u],
         \/ vols'[v].status \in {"creating", "deleting"}
         \/ /\ vols'[v].status \in {"available", "attached"}
            /\ vols[v].status \in {"available", "attached"},
         \A c \in Callers : \/ ops'[c] = ops[c]
                            \/ ops'[c].state = "called" /\ ops'[c].vol = v
  PROVE  AllBehind'
<1> SUFFICES ASSUME NEW u \in Vols \ raced' PROVE Behind(u)'
  BY DEF AllBehind
<1>1. Behind(u) /\ (u \in faulted => u \in faulted')
  BY AdmitKeepsMarks DEF AllBehind
<1>2. CASE u # v
  <2>1. \A c \in Callers : Writes(ops'[c], u) => ops'[c] = ops[c]
    BY <1>2 DEF Writes
  <2> QED BY <1>1, <1>2, <2>1, UntouchedBehind
<1>3. CASE u = v
  <2>1. \A c \in Callers : ~Writes(ops[c], v)
    BY <1>3, AdmitFacts
  <2>2. ASSUME NEW c \in Callers, Writes(ops'[c], v) PROVE Answered(ops[c], v)'
    BY <2>1, <2>2 DEF Answered, Creates
  <2> QED BY <1>1, <1>3, <2>2 DEF Behind
<1> QED BY <1>2, <1>3

LEMMA CalledByOne ==
  ASSUME NEW c \in Callers, NEW kind, NEW v, NEW read, NEW size, IInv,
         Call(c, kind, v, read, size)
  PROVE  /\ ops'[c].kind = kind /\ ops'[c].vol = v
         /\ \A d \in Callers : \/ ops'[d] = ops[d]
                               \/ ops'[d].state = "called" /\ ops'[d].vol = v
BY OpType DEF Call

LEMMA PlaceBehind ==
  ASSUME IInv, AllBehind, NEW c \in Callers, NEW kind, NEW v \in Vols, NEW size,
         Place(c, kind, v, size)
  PROVE  AllBehind'
<1>1. /\ vols'[v].status = "creating" /\ \A u \in Vols \ {v} : vols'[u] = vols[u]
      /\ Admit(v, TRUE, held[v]) /\ held[v] \in Workers \cup {None} /\ store' = store
  BY VolumeType DEF Place, Put
<1>2. \A d \in Callers : \/ ops'[d] = ops[d]
                         \/ ops'[d].state = "called" /\ ops'[d].vol = v
  BY CalledByOne DEF Place
<1> QED BY <1>1, <1>2, AdmittedBehind

LEMMA RequestsBehind ==
  ASSUME IInv, AllBehind, NEW c \in Callers, Requests(c)
  PROVE  AllBehind'
<1>1. ASSUME NEW v \in Vols, NEW size \in Sizes, ResizeVolume(c, v, size)
      PROVE  AllBehind'
  <2>1. /\ vols' = vols /\ vols[v].status \in {"available", "attached"} /\ store' = store
        /\ Admit(v, TRUE, held[v]) /\ held[v] \in Workers \cup {None}
    BY <1>1, VolumeType DEF ResizeVolume
  <2>2. \A d \in Callers : \/ ops'[d] = ops[d]
                           \/ ops'[d].state = "called" /\ ops'[d].vol = v
    BY <1>1, CalledByOne DEF ResizeVolume
  <2> QED BY <2>1, <2>2, AdmittedBehind
<1>2. ASSUME NEW v \in Vols, DeleteVolume(c, v) PROVE AllBehind'
  <2>1. /\ vols'[v].status = "deleting" /\ \A u \in Vols \ {v} : vols'[u] = vols[u]
        /\ Admit(v, FALSE, held[v]) /\ held[v] \in Workers \cup {None} /\ store' = store
    BY <1>2, VolumeType DEF DeleteVolume, Put, VolFields
  <2>2. \A d \in Callers : \/ ops'[d] = ops[d]
                           \/ ops'[d].state = "called" /\ ops'[d].vol = v
    BY <1>2, CalledByOne DEF DeleteVolume
  <2> QED BY <2>1, <2>2, AdmittedBehind
<1>3. ASSUME NEW v \in Vols, CreateSnapshot(c, v) PROVE AllBehind'
  <2>1. /\ vols' = vols /\ store' = store /\ faulted' = faulted /\ raced' = raced
        /\ Call(c, "snapshot", v, Nothing, vols[v].size)
    BY <1>3 DEF CreateSnapshot
  <2>2. ops'[c].kind = "snapshot" /\ \A d \in Callers \ {c} : ops'[d] = ops[d]
    BY <2>1, OpType DEF Call
  <2>3. \A u \in Vols, d \in Callers : Writes(ops'[d], u) => ops'[d] = ops[d]
    BY <2>2 DEF Writes
  <2> QED BY <2>1, <2>3, UntouchedBehind DEF AllBehind
<1>4. ASSUME NEW snap \in snaps, NEW v \in Vols, RestoreSnapshot(c, snap, v)
      PROVE  AllBehind'
  <2>1. /\ vols' = vols /\ vols[v].status \in {"available", "attached"} /\ store' = store
        /\ Admit(v, FALSE, held[v]) /\ held[v] \in Workers \cup {None}
    BY <1>4, VolumeType DEF RestoreSnapshot
  <2>2. \A d \in Callers : \/ ops'[d] = ops[d]
                           \/ ops'[d].state = "called" /\ ops'[d].vol = v
    BY <1>4, CalledByOne DEF RestoreSnapshot
  <2> QED BY <2>1, <2>2, AdmittedBehind
<1> QED BY <1>1, <1>2, <1>3, <1>4, PlaceBehind DEF Requests, CreateVolume, RestoreNew

LEMMA MoveBehind ==
  ASSUME IInv, AllBehind, NEW v \in Vols,
         (\E w \in Workers : AttachVolume(v, w)) \/ DetachVolume(v)
  PROVE  AllBehind'
<1>1. PICK w \in Workers \cup {None} : Admit(v, FALSE, w)
  BY DEF AttachVolume, DetachVolume
<1>2. /\ vols[v].status \in {"available", "attached"}
      /\ vols'[v].status \in {"available", "attached"}
      /\ \A u \in Vols \ {v} : vols'[u] = vols[u]
      /\ ops' = ops /\ store' = store
  BY VolumeType DEF AttachVolume, DetachVolume, Put, VolFields
<1> QED BY <1>1, <1>2, AdmittedBehind

(* The driver's commands. *)
LEMMA DriverBehind ==
  ASSUME IInv, AllBehind, NEW c \in Callers, Driver(c)
  PROVE  AllBehind'
<1> DEFINE o == ops[c]
<1>1. /\ o.state = "called" /\ o.vol \in Vols /\ o.kind \in Kinds
      /\ vols' = vols /\ raced' = raced /\ held' = held
      /\ DriverOk(c) \/ DriverFails(c)
  BY OpType DEF Driver, Sound
<1>2. /\ ops'[c].vol = o.vol /\ ops'[c].kind = o.kind
      /\ \A d \in Callers \ {c} : ops'[d] = ops[d]
      /\ \/ DriverOk(c) /\ ops'[c].state = "ok"
         \/ DriverFails(c) /\ ops'[c].state = "failed"
  BY OpType DEF Driver, OpFields
<1>3. \A u \in Vols \ raced : u \in faulted => u \in faulted'
  BY <1>1 DEF DriverOk, DriverFails
<1>4. \A u \in Vols : u # o.vol \/ o.kind = "snapshot" => (u \in store' <=> u \in store)
  BY <1>1 DEF DriverOk, DriverFails
<1> SUFFICES ASSUME NEW u \in Vols \ raced PROVE Behind(u)'
  BY <1>1 DEF AllBehind
<1>5. Behind(u)
  BY DEF AllBehind
<1>6. CASE u # o.vol \/ o.kind = "snapshot"
  <2>1. \A d \in Callers : Writes(ops'[d], u) => ops'[d] = ops[d]
    BY <1>2, <1>6 DEF Writes
  <2> QED BY <1>1, <1>3, <1>4, <1>5, <1>6, <2>1, UntouchedBehind
<1>7. CASE u = o.vol /\ o.kind # "snapshot"
  <2>1. Writes(o, u) /\ Kept(u) /\ \A d \in Callers \ {c} : ~Writes(ops[d], u)
    BY <1>7 DEF Writes, IInv, Undisturbed, Alone
  <2>2. \A d \in Callers : Writes(ops'[d], u) => d = c
    BY <1>2, <2>1
  <2>3. /\ Creates(o) => vols[u].status = "creating"
        /\ o.kind = "delete" => vols[u].status = "deleting"
        /\ WritesBack(o) => vols[u].status \in {"available", "attached"}
    BY <2>1 DEF Kept
  <2>4. WritesBack(o) => u \in store'
    BY <1>1, <1>5, <1>7, <2>3 DEF Behind, WritesBack, DriverOk, DriverFails
  <2>5. vols[u].status \in {"available", "attached"} => u \in store'
    BY <1>1, <1>7, <2>3, <2>4 DEF Kinds, WritesBack, Creates
  <2>6. vols[u].status # "removed"
    BY <1>1, <1>7, <2>3 DEF Kinds, WritesBack, Creates
  <2>7. CASE DriverOk(c) /\ ops'[c].state = "ok"
    <3>1. Creates(o) => u \in store'
      BY <1>7, <2>7 DEF DriverOk, Creates
    <3>2. o.kind = "delete" => u \notin store'
      BY <1>7, <2>7 DEF DriverOk
    <3>3. Answered(ops[c], u)'
      BY <1>2, <2>7, <3>1, <3>2 DEF Answered, Creates
    <3> QED BY <1>1, <2>2, <2>5, <2>6, <3>3 DEF Behind
  <2>8. CASE DriverFails(c) /\ ops'[c].state = "failed"
    <3>1. u \in faulted'
      BY <1>7, <2>8 DEF DriverFails
    <3>2. Answered(ops[c], u)'
      BY <2>8, <3>1 DEF Answered
    <3> QED BY <1>1, <2>2, <2>5, <2>6, <3>2 DEF Behind
  <2> QED BY <1>2, <2>7, <2>8
<1> QED BY <1>6, <1>7

LEMMA ReturnBehind ==
  ASSUME IInv, AllBehind, NEW c \in Callers, Return(c)
  PROVE  AllBehind'
<1> DEFINE o == ops[c]
           e == AfterCall(o)
<1>1. /\ o.state \in {"ok", "failed"} /\ o.vol \in Vols /\ o.kind \in Kinds
      /\ store' = store /\ raced' = raced /\ faulted' = faulted
      /\ vols' = [vols EXCEPT ![o.vol] = e] /\ ops' = [ops EXCEPT ![c] = Idle]
  BY OpType DEF Return, Put, history, Sound
<1>2. /\ vols'[o.vol] = e /\ \A u \in Vols \ {o.vol} : vols'[u] = vols[u]
      /\ ops'[c] = Idle /\ \A d \in Callers \ {c} : ops'[d] = ops[d]
  BY <1>1, VolumeType, OpType
<1> SUFFICES ASSUME NEW u \in Vols \ raced PROVE Behind(u)'
  BY <1>1 DEF AllBehind
<1>3. Behind(u)
  BY DEF AllBehind
<1>4. \A d \in Callers : Writes(ops'[d], u) => ops'[d] = ops[d]
  BY <1>2, IdleFacts
<1>5. CASE vols'[u] = vols[u]
  BY <1>1, <1>3, <1>4, <1>5, UntouchedBehind
<1>6. CASE u = o.vol /\ o.kind # "snapshot"
  <2>1. Writes(o, u) /\ Kept(u) /\ Answered(o, u)
    BY <1>3, <1>6 DEF Writes, IInv, Undisturbed, Behind
  <2>2. WritesBack(o) => vols[u].status \in {"available", "attached"}
    BY <2>1 DEF Kept
  <2>3. e.status = "removed" /\ u \in store => u \in faulted
    <3>1. CASE o.state = "failed"
      BY <2>1, <3>1 DEF Answered
    <3>2. CASE o.state = "ok" /\ o.kind = "delete"
      BY <2>1, <3>2 DEF Answered
    <3>3. CASE o.state = "ok" /\ Creates(o)
      BY <3>3, AfterCallFacts
    <3>4. CASE o.state = "ok" /\ WritesBack(o)
      <4>1. o.read = vols[u]
        BY <2>1, <3>4 DEF Kept, Ready
      <4> QED BY <2>2, <3>4, <4>1, AfterCallFacts
    <3> QED BY <1>1, <1>6, <3>1, <3>2, <3>3, <3>4 DEF Kinds, Creates, WritesBack
  <2>4. e.status \in {"available", "attached"} => u \in store
    <3>1. CASE o.kind = "delete" \/ (Creates(o) /\ o.state = "failed")
      BY <1>1, <3>1, AfterCallFacts
    <3>2. CASE Creates(o) /\ o.state = "ok"
      BY <2>1, <3>2 DEF Answered
    <3>3. CASE WritesBack(o)
      BY <1>3, <2>2, <3>3 DEF Behind
    <3> QED BY <1>1, <1>6, <3>1, <3>2, <3>3 DEF Kinds, Creates, WritesBack
  <2>5. ASSUME NEW d \in Callers, Writes(ops'[d], u) PROVE Answered(ops[d], u)'
    <3>1. Answered(ops[d], u) /\ ops'[d] = ops[d]
      BY <1>3, <1>4, <2>5 DEF Behind
    <3> QED BY <1>1, <3>1 DEF Answered, Creates
  <2> QED BY <1>1, <1>2, <1>6, <2>3, <2>4, <2>5 DEF Behind
<1>7. CASE u = o.vol /\ o.kind = "snapshot"
  BY <1>1, <1>2, <1>5, <1>7, AfterCallFacts
<1> QED BY <1>2, <1>5, <1>6, <1>7

LEMMA NextBehind == IInv /\ AllBehind /\ [Next]_vars => AllBehind'
<1> SUFFICES ASSUME IInv, AllBehind, [Next]_vars PROVE AllBehind'
  OBVIOUS
<1>1. CASE UNCHANGED vars
  BY <1>1, UntouchedBehind DEF vars, AllBehind
<1>2. CASE Next
  BY <1>2, RequestsBehind, MoveBehind, DriverBehind, ReturnBehind DEF Next
<1> QED BY <1>1, <1>2

(* What is ready has storage and what is removed has none, but for failed   *)
(* driver calls and overlapping operations, for every number of volumes and *)
(* requests (registry.ts 130-148, 241-247).                                 *)
THEOREM StorageIsAccounted == Spec => []StorageAccounted
<1>1. AllBehind => StorageAccounted
  BY DEF AllBehind, Behind, StorageAccounted
<1> QED BY <1>1, Strengthened, InitBehind, NextBehind, PTL DEF Spec
-------------------------------------------------------------------------------
(***************************************************************************)
(* The sum Used(t).  A sum over a finite set is a fold, and what a fold    *)
(* returns is shown by least counterexample: finite sets are well founded  *)
(* under strict inclusion, so were the sum wrong for some set, it would be *)
(* wrong for a smallest one.  What it is compared with is the number of    *)
(* bytes, written as a set.                                                *)
(***************************************************************************)
Bytes(S, g) == {b \in S \X Nat : b[2] \in 1 .. g[b[1]].size}

LEMMA MinimalSet ==
  ASSUME NEW S, IsFiniteSet(S), NEW T \in SUBSET SUBSET S, T # {}
  PROVE  \E U \in T : \A V \in T : V \subseteq U => V = U
<1>1. T \subseteq FiniteSubsetsOf(S)
  BY FS_FiniteSubsetsOfFinite
<1>2. \E U \in T : \A V \in T : <<V, U>> \notin StrictSubsetOrdering(S)
  BY <1>1, FS_StrictSubsetOrderingWellFounded, WFMin
<1> QED BY <1>2 DEF StrictSubsetOrdering

LEMMA BytesOfOne ==
  ASSUME NEW g \in [Vols -> VolFields], NEW x \in Vols
  PROVE  /\ g[x].size \in Nat
         /\ IsFiniteSet(Bytes({x}, g))
         /\ Cardinality(Bytes({x}, g)) = g[x].size
<1> DEFINE n == g[x].size
           X == {x}
           J == 1 .. n
           C == X \X J
<1>1. n \in Nat
  BY DEF VolFields
<1>2. Bytes({x}, g) = C
  BY <1>1 DEF Bytes
<1> HIDE DEF n
<1>3. IsFiniteSet(X) /\ Cardinality(X) = 1
  BY FS_Singleton
<1>4. IsFiniteSet(J) /\ Cardinality(J) = n
  BY <1>1, FS_Interval
<1> HIDE DEF X, J
<1>5. IsFiniteSet(C) /\ Cardinality(C) = 1 * n
  <2>1. IsFiniteSet(X \X J) /\ Cardinality(X \X J) = Cardinality(X) * Cardinality(J)
    BY <1>3, <1>4, FS_Product
  <2> QED BY <1>3, <1>4, <2>1
<1>6. Cardinality(C) = n
  BY <1>1, <1>5
<1> HIDE DEF C
<1>7. IsFiniteSet(Bytes({x}, g)) /\ Cardinality(Bytes({x}, g)) = n
  BY <1>2, <1>5, <1>6
<1> QED BY <1>1, <1>7 DEF n

LEMMA BytesAdd ==
  ASSUME NEW g \in [Vols -> VolFields], NEW U \in SUBSET Vols, NEW x \in U,
         IsFiniteSet(Bytes(U \ {x}, g))
  PROVE  /\ IsFiniteSet(Bytes(U, g))
         /\ Cardinality(Bytes(U, g)) = g[x].size + Cardinality(Bytes(U \ {x}, g))
<1> DEFINE A == Bytes({x}, g)
           B == Bytes(U \ {x}, g)
           n == g[x].size
<1>1. Bytes(U, g) = A \cup B
  BY DEF Bytes
<1>2. A \cap B = {}
  BY DEF Bytes
<1>3. IsFiniteSet(A) /\ Cardinality(A) = n /\ n \in Nat
  BY BytesOfOne
<1>4. IsFiniteSet(B) /\ Cardinality(B) \in Nat
  BY FS_CardinalityType
<1> HIDE DEF A, B, n
<1>5. Cardinality(A \cap B) = 0
  BY <1>2, FS_EmptySet
<1>6. IsFiniteSet(A \cup B)
      /\ Cardinality(A \cup B) = Cardinality(A) + Cardinality(B) - Cardinality(A \cap B)
  BY <1>3, <1>4, FS_Union
<1>7. IsFiniteSet(Bytes(U, g)) /\ Cardinality(Bytes(U, g)) = n + Cardinality(B)
  BY <1>1, <1>3, <1>4, <1>5, <1>6
<1> QED BY <1>7 DEF B, n

LEMMA BytesFinite ==
  ASSUME NEW g \in [Vols -> VolFields], NEW S \in SUBSET Vols, IsFiniteSet(S)
  PROVE  \A U \in SUBSET S : IsFiniteSet(Bytes(U, g))
<1> DEFINE Bad == {U \in SUBSET S : ~IsFiniteSet(Bytes(U, g))}
<1> SUFFICES ASSUME Bad # {} PROVE FALSE
  OBVIOUS
<1>1. PICK U \in Bad : \A V \in Bad : V \subseteq U => V = U
  <2>1. Bad \in SUBSET SUBSET S /\ Bad # {} /\ IsFiniteSet(S)
    OBVIOUS
  <2> HIDE DEF Bad
  <2> QED BY <2>1, MinimalSet
<1>2. CASE U = {}
  <2>1. Bytes(U, g) = {}
    BY <1>2 DEF Bytes
  <2> QED BY <2>1, FS_EmptySet
<1>3. CASE U # {}
  <2>1. PICK x \in U : TRUE
    BY <1>3
  <2>2. U \ {x} \notin Bad /\ U \in SUBSET Vols
    BY <1>1
  <2>3. IsFiniteSet(Bytes(U \ {x}, g))
    BY <2>2
  <2> QED BY <2>2, <2>3, BytesAdd
<1> QED BY <1>2, <1>3

LEMMA SumIsCount ==
  ASSUME NEW g \in [Vols -> VolFields], NEW S \in SUBSET Vols, IsFiniteSet(S)
  PROVE  MapThenSumSet(LAMBDA v : g[v].size, S) = Cardinality(Bytes(S, g))
<1> DEFINE Chosen(U) == CHOOSE x \in U : TRUE
           count == [U \in SUBSET S |-> Cardinality(Bytes(U, g))]
           Sums(s) == s = [U \in SUBSET S |->
                             IF U = {} THEN 0 ELSE g[Chosen(U)].size + s[U \ {Chosen(U)}]]
<1>1. Sums(count)
  <2>1. ASSUME NEW U \in SUBSET S
        PROVE  Cardinality(Bytes(U, g)) =
                 IF U = {} THEN 0 ELSE g[Chosen(U)].size + count[U \ {Chosen(U)}]
    <3>1. CASE U = {}
      <4>1. Bytes(U, g) = {}
        BY <3>1 DEF Bytes
      <4> QED BY <3>1, <4>1, FS_EmptySet
    <3>2. CASE U # {}
      <4>1. Chosen(U) \in U /\ U \in SUBSET Vols
        BY <3>2
      <4> HIDE DEF Chosen
      <4>2. IsFiniteSet(Bytes(U \ {Chosen(U)}, g))
        BY BytesFinite
      <4>3. Cardinality(Bytes(U, g)) =
              g[Chosen(U)].size + Cardinality(Bytes(U \ {Chosen(U)}, g))
        BY <4>1, <4>2, BytesAdd
      <4> QED BY <3>2, <4>3
    <3> QED BY <3>1, <3>2
  <2> HIDE DEF Chosen
  <2> QED BY <2>1
<1> DEFINE sum == CHOOSE s : Sums(s)
<1>2. Sums(sum)
  <2> HIDE DEF Sums, count
  <2> QED BY <1>1
<1>3. \A U \in SUBSET S : sum[U] = count[U]
  <2> DEFINE Bad == {U \in SUBSET S : sum[U] # count[U]}
  <2> SUFFICES ASSUME Bad # {} PROVE FALSE
    OBVIOUS
  <2>1. PICK U \in Bad : \A V \in Bad : V \subseteq U => V = U
    <3>1. Bad \in SUBSET SUBSET S /\ Bad # {} /\ IsFiniteSet(S)
      OBVIOUS
    <3> HIDE DEF Bad
    <3> QED BY <3>1, MinimalSet
  <2>2. sum[U] = IF U = {} THEN 0 ELSE g[Chosen(U)].size + sum[U \ {Chosen(U)}]
    <3> HIDE DEF sum, Chosen
    <3> QED BY <1>2
  <2>3. count[U] = IF U = {} THEN 0 ELSE g[Chosen(U)].size + count[U \ {Chosen(U)}]
    <3> HIDE DEF count, Chosen
    <3> QED BY <1>1
  <2>4. CASE U # {}
    <3>1. Chosen(U) \in U
      BY <2>4
    <3> HIDE DEF Chosen, sum, count
    <3>2. sum[U \ {Chosen(U)}] = count[U \ {Chosen(U)}]
      BY <2>1, <3>1
    <3> QED BY <2>1, <2>2, <2>3, <3>2
  <2> HIDE DEF sum, count, Chosen
  <2> QED BY <2>1, <2>2, <2>3, <2>4
<1>4. MapThenSumSet(LAMBDA v : g[v].size, S) = sum[S]
  BY DEF MapThenSumSet, MapThenFoldSet
<1> QED BY <1>3, <1>4

(* What an entry adds to the sum of its tenant. *)
Load(entry) ==
  IF entry.status \in {"unborn", "removed", "deleting"} THEN 0 ELSE entry.size

Counted(g, t) ==
  {v \in Vols : Owner[v] = t /\ g[v].status \notin {"unborn", "removed", "deleting"}}

Sum(g, t) == Cardinality(Bytes(Counted(g, t), g))

(* The entry of one volume is replaced. *)
LEMMA OneReplaced ==
  ASSUME NEW g \in [Vols -> VolFields], NEW h \in [Vols -> VolFields], NEW t,
         NEW v \in Vols, \A u \in Vols \ {v} : h[u] = g[u],
         IsFiniteSet(Counted(g, t))
  PROVE  /\ IsFiniteSet(Counted(h, t))
         /\ Sum(g, t) \in Nat /\ Sum(h, t) \in Nat
         /\ Owner[v] # t => Sum(h, t) = Sum(g, t)
         /\ Owner[v] = t => Sum(h, t) + Load(g[v]) = Sum(g, t) + Load(h[v])
<1> DEFINE G == Counted(g, t)
           H == Counted(h, t)
           rest == Bytes(G \ {v}, g)
<1>1. G \in SUBSET Vols /\ H \in SUBSET Vols /\ H \ {v} = G \ {v}
  BY DEF Counted
<1>2. rest = Bytes(H \ {v}, h)
  BY <1>1 DEF Bytes
<1>3. IsFiniteSet(G \ {v}) /\ IsFiniteSet(H)
  <2>1. IsFiniteSet(G \ {v})
    BY FS_RemoveElement
  <2>2. IsFiniteSet((G \ {v}) \cup {v})
    BY <2>1, FS_AddElement
  <2>3. H \subseteq (G \ {v}) \cup {v}
    BY <1>1
  <2> QED BY <2>1, <2>2, <2>3, FS_Subset
<1>4. IsFiniteSet(rest) /\ Cardinality(rest) \in Nat
  <2>1. IsFiniteSet(rest)
    BY <1>1, <1>3, BytesFinite
  <2> QED BY <2>1, FS_CardinalityType
<1>5. /\ v \in G => Cardinality(Bytes(G, g)) = g[v].size + Cardinality(rest)
      /\ v \notin G => Bytes(G, g) = rest
  <2> HIDE DEF G
  <2>1. v \notin G => G \ {v} = G
    OBVIOUS
  <2> QED BY <1>1, <1>4, <2>1, BytesAdd
<1>6. /\ v \in H => Cardinality(Bytes(H, h)) = h[v].size + Cardinality(rest)
      /\ v \notin H => Bytes(H, h) = rest
  <2> HIDE DEF H, G
  <2>1. v \notin H => H \ {v} = H
    OBVIOUS
  <2>2. IsFiniteSet(Bytes(H \ {v}, h))
    BY <1>2, <1>4
  <2> QED BY <1>1, <1>2, <2>1, <2>2, BytesAdd
<1>7. g[v].size \in Nat /\ h[v].size \in Nat
  BY DEF VolFields
<1>8. /\ Owner[v] # t => v \notin G /\ v \notin H
      /\ Owner[v] = t => Load(g[v]) = IF v \in G THEN g[v].size ELSE 0
      /\ Owner[v] = t => Load(h[v]) = IF v \in H THEN h[v].size ELSE 0
  BY DEF Counted, Load
<1>9. Sum(g, t) = Cardinality(Bytes(G, g)) /\ Sum(h, t) = Cardinality(Bytes(H, h))
  BY DEF Sum
<1> HIDE DEF G, H, rest
<1>10. /\ Sum(g, t) = (IF v \in G THEN g[v].size ELSE 0) + Cardinality(rest)
       /\ Sum(h, t) = (IF v \in H THEN h[v].size ELSE 0) + Cardinality(rest)
  BY <1>4, <1>5, <1>6, <1>7, <1>9
<1>11. Sum(g, t) \in Nat /\ Sum(h, t) \in Nat
  BY <1>4, <1>7, <1>10
<1>12. Owner[v] # t => Sum(h, t) = Sum(g, t)
  BY <1>8, <1>10
<1>13. Owner[v] = t => Sum(h, t) + Load(g[v]) = Sum(g, t) + Load(h[v])
  BY <1>4, <1>7, <1>8, <1>10
<1> QED BY <1>3, <1>11, <1>12, <1>13 DEF H

(* Used and Used' are the sums of the volumes before and after. *)
LEMMA SumOfVolumes ==
  ASSUME NEW g \in [Vols -> VolFields], NEW t, IsFiniteSet(Counted(g, t))
  PROVE  MapThenSumSet(LAMBDA v : g[v].size, Counted(g, t)) = Sum(g, t)
<1>1. Counted(g, t) \in SUBSET Vols
  BY DEF Counted
<1> HIDE DEF Counted
<1> QED BY <1>1, SumIsCount DEF Sum, MapThenSumSet, MapThenFoldSet

LEMMA UsedIsSum ==
  ASSUME NEW t, vols \in [Vols -> VolFields], IsFiniteSet(Counted(vols, t))
  PROVE  Used(t) = Sum(vols, t)
<1>1. {v \in Vols : Owner[v] = t /\ Registered(v) /\ vols[v].status # "deleting"}
        = Counted(vols, t)
  BY DEF Counted, Registered
<1> QED BY <1>1, SumOfVolumes DEF Used, MapThenSumSet, MapThenFoldSet

LEMMA UsedIsSumAfter ==
  ASSUME NEW t, vols' \in [Vols -> VolFields], IsFiniteSet(Counted(vols', t))
  PROVE  Used(t)' = Sum(vols', t)
<1>1. {v \in Vols : Owner[v] = t /\ Registered(v)' /\ vols'[v].status # "deleting"}
        = Counted(vols', t)
  BY DEF Counted, Registered
<1> QED BY <1>1, SumOfVolumes DEF Used, MapThenSumSet, MapThenFoldSet

-------------------------------------------------------------------------------
(***************************************************************************)
(* The quota.  A resize in flight has been counted against the quota and   *)
(* has not grown its volume yet: a tenant for which nothing raced has one  *)
(* at most, and room for what it will add.  Only finitely many volumes     *)
(* have been asked for in any state, whatever the number of ids.           *)
(***************************************************************************)
Clean(t) == t \notin crowded /\ \A v \in raced : Owner[v] # t

Grows(c, t) == ops[c].kind = "resize" /\ Owner[ops[c].vol] = t

RoomFor(t) ==
  /\ Used(t) <= Quota
  /\ \A c \in Callers : Grows(c, t) /\ Ready(ops[c]) =>
       Used(t) + ops[c].size <= Quota + vols[ops[c].vol].size
  /\ \A c, d \in Callers : Grows(c, t) /\ Grows(d, t) => c = d

Few == \A t \in Tenants : IsFiniteSet(Counted(vols, t))

Room == Few /\ \A t \in Tenants : Clean(t) => RoomFor(t)

(* A step that replaces the entry of v, as a sum. *)
LEMMA UsedChanges ==
  ASSUME IInv, IInv', Few, NEW v \in Vols, \A u \in Vols \ {v} : vols'[u] = vols[u]
  PROVE  /\ Few'
         /\ Load(vols[v]) \in Nat /\ Load(vols'[v]) \in Nat
         /\ \A t \in Tenants :
              /\ Used(t) \in Nat /\ Used(t)' \in Nat
              /\ Owner[v] # t => Used(t)' = Used(t)
              /\ Owner[v] = t => Used(t)' + Load(vols[v]) = Used(t) + Load(vols'[v])
<1>1. vols \in [Vols -> VolFields] /\ vols' \in [Vols -> VolFields]
  BY DEF IInv, Global, TypeOK
<1>2. ASSUME NEW t \in Tenants
      PROVE  /\ IsFiniteSet(Counted(vols', t))
             /\ Used(t) \in Nat /\ Used(t)' \in Nat
             /\ Owner[v] # t => Used(t)' = Used(t)
             /\ Owner[v] = t => Used(t)' + Load(vols[v]) = Used(t) + Load(vols'[v])
  <2>1. IsFiniteSet(Counted(vols, t))
    BY DEF Few
  <2>2. /\ IsFiniteSet(Counted(vols', t))
        /\ Sum(vols, t) \in Nat /\ Sum(vols', t) \in Nat
        /\ Owner[v] # t => Sum(vols', t) = Sum(vols, t)
        /\ Owner[v] = t => Sum(vols', t) + Load(vols[v]) = Sum(vols, t) + Load(vols'[v])
    BY <1>1, <2>1, OneReplaced
  <2>3. Used(t) = Sum(vols, t)
    BY <1>1, <2>1, UsedIsSum
  <2>4. Used(t)' = Sum(vols', t)
    BY <1>1, <2>2, UsedIsSumAfter
  <2> QED BY <2>2, <2>3, <2>4
<1>3. Few'
  BY <1>2 DEF Few, Counted
<1>4. Load(vols[v]) \in Nat /\ Load(vols'[v]) \in Nat
  BY <1>1 DEF Load, VolFields
<1> QED BY <1>2, <1>3, <1>4

(* A tenant for which nothing grows: less is used, and a resize that goes   *)
(* on was in flight before, for as much.                                    *)
LEMMA NothingGrows ==
  ASSUME IInv, NEW t \in Tenants, Quota \in Nat, Clean(t) => RoomFor(t), Clean(t)',
         raced \subseteq raced', crowded \subseteq crowded',
         Used(t) \in Nat, Used(t)' \in Nat, Used(t)' <= Used(t),
         \A c \in Callers : Grows(c, t)' =>
           /\ Grows(c, t)
           /\ Ready(ops'[c]) =>
                /\ Ready(ops[c]) /\ ops'[c].size = ops[c].size
                /\ vols'[ops'[c].vol].size = vols[ops[c].vol].size
                /\ vols[ops[c].vol].size \in Nat
  PROVE  RoomFor(t)'
<1>1. RoomFor(t)
  BY DEF Clean
<1>2. (Used(t) <= Quota)'
  BY <1>1 DEF RoomFor
<1>3. ASSUME NEW c \in Callers, Grows(c, t)', Ready(ops'[c])
      PROVE  Used(t)' + ops'[c].size <= Quota + vols'[ops'[c].vol].size
  <2>1. Used(t) + ops[c].size <= Quota + vols[ops[c].vol].size
    BY <1>1, <1>3 DEF RoomFor
  <2>2. ops[c].size \in Nat
    BY OpType
  <2> QED BY <1>3, <2>1, <2>2
<1>4. \A c, d \in Callers : Grows(c, t)' /\ Grows(d, t)' => c = d
  BY <1>1 DEF RoomFor
<1> QED BY <1>2, <1>3, <1>4 DEF RoomFor

(* A step about a volume that does not grow, or that raced, and that begins *)
(* no resize.                                                               *)
LEMMA NoneGrows ==
  ASSUME IInv, IInv', Room, NEW v \in Vols,
         \A u \in Vols \ {v} : vols'[u] = vols[u],
         raced \subseteq raced', crowded \subseteq crowded',
         v \notin raced' => Load(vols'[v]) <= Load(vols[v]),
         \A c \in Callers : ops'[c].kind = "resize" =>
           /\ ops[c].kind = "resize" /\ ops'[c].vol = ops[c].vol /\ ops[c].vol \in Vols
           /\ Ready(ops'[c]) => Ready(ops[c]) /\ ops'[c].size = ops[c].size
           /\ ops[c].vol = v /\ v \notin raced' => vols'[v].size = vols[v].size
  PROVE  Room'
<1>1. /\ Few' /\ Load(vols[v]) \in Nat /\ Load(vols'[v]) \in Nat
      /\ \A t \in Tenants :
              /\ Used(t) \in Nat /\ Used(t)' \in Nat
              /\ Owner[v] # t => Used(t)' = Used(t)
              /\ Owner[v] = t => Used(t)' + Load(vols[v]) = Used(t) + Load(vols'[v])
  BY UsedChanges DEF Room
<1>2. ASSUME NEW t \in Tenants, Clean(t)' PROVE RoomFor(t)'
  <2>1. Used(t) \in Nat /\ Used(t)' \in Nat /\ Used(t)' <= Used(t)
    BY <1>1, <1>2 DEF Clean
  <2>2. ASSUME NEW c \in Callers, Grows(c, t)'
        PROVE  /\ Grows(c, t)
               /\ Ready(ops'[c]) =>
                    /\ Ready(ops[c]) /\ ops'[c].size = ops[c].size
                    /\ vols'[ops'[c].vol].size = vols[ops[c].vol].size
                    /\ vols[ops[c].vol].size \in Nat
    <3>1. /\ ops'[c].kind = "resize" /\ ops[c].kind = "resize"
          /\ ops'[c].vol = ops[c].vol /\ ops[c].vol \in Vols /\ Owner[ops'[c].vol] = t
      BY <2>2 DEF Grows
    <3>2. Grows(c, t) /\ vols[ops[c].vol].size \in Nat
      BY <3>1, VolumeType DEF Grows
    <3>3. vols'[ops'[c].vol].size = vols[ops[c].vol].size
      BY <1>2, <3>1 DEF Clean
    <3> QED BY <3>1, <3>2, <3>3
  <2>3. (Clean(t) => RoomFor(t)) /\ Quota \in Nat
    BY DiskAssumption DEF Room
  <2> QED BY <1>2, <2>1, <2>2, <2>3, NothingGrows
<1> QED BY <1>1, <1>2 DEF Room

LEMMA InitRoom == Init => Room
<1> SUFFICES ASSUME Init PROVE Room
  OBVIOUS
<1>1. IInv
  BY InitIInv
<1>2. ASSUME NEW t \in Tenants PROVE IsFiniteSet(Counted(vols, t)) /\ RoomFor(t)
  <2>1. Counted(vols, t) = {}
    BY DEF Counted, Init, Nowhere
  <2>2. IsFiniteSet(Counted(vols, t)) /\ Bytes({}, vols) = {}
    BY <2>1, FS_EmptySet DEF Bytes
  <2>3. Sum(vols, t) = 0
    BY <2>1, <2>2, FS_EmptySet DEF Sum
  <2>4. Used(t) = 0
    BY <1>1, <2>2, <2>3, UsedIsSum DEF IInv, Global, TypeOK
  <2>5. \A c \in Callers : ~Grows(c, t)
    BY DEF Init, Grows, Idle
  <2> QED BY <2>2, <2>4, <2>5, DiskAssumption DEF RoomFor
<1> QED BY <1>2 DEF Room, Few

(* What is let in, as far as the quota goes. *)
LEMMA AdmitGrowth ==
  ASSUME IInv, NEW v \in Vols, NEW growth \in BOOLEAN,
         NEW w \in Workers \cup {None}, Admit(v, growth, w)
  PROVE  /\ raced \subseteq raced' /\ crowded \subseteq crowded'
         /\ v \notin raced' => \A c \in Callers : ~Writes(ops[c], v)
         /\ growth /\ Clean(Owner[v])' => \A c \in Callers : ~Grows(c, Owner[v])
BY AdmitFacts DEF Admit, Resizing, Grows, Clean

LEMMA PlaceRoom ==
  ASSUME IInv, IInv', Room, NEW c \in Callers, NEW kind \in {"create", "restore-new"},
         NEW v \in Vols, NEW size \in Nat, Place(c, kind, v, size)
  PROVE  Room'
<1>1. /\ vols[v].status = "unborn" /\ Used(Owner[v]) + size <= Quota
      /\ vols'[v].status = "creating" /\ vols'[v].size = size
      /\ \A u \in Vols \ {v} : vols'[u] = vols[u]
      /\ Admit(v, TRUE, held[v]) /\ held[v] \in Workers \cup {None}
  BY VolumeType DEF Place, Put
<1>2. Load(vols[v]) = 0 /\ Load(vols'[v]) = size
  BY <1>1 DEF Load
<1>3. ops'[c].kind = kind /\ \A d \in Callers \ {c} : ops'[d] = ops[d]
  BY OpType DEF Place, Call
<1>4. /\ raced \subseteq raced' /\ crowded \subseteq crowded'
      /\ Clean(Owner[v])' => \A d \in Callers : ~Grows(d, Owner[v])
  BY <1>1, AdmitGrowth
<1>5. Few'
      /\ \A t \in Tenants :
              /\ Used(t) \in Nat /\ Used(t)' \in Nat
              /\ Owner[v] # t => Used(t)' = Used(t)
              /\ Owner[v] = t => Used(t)' + Load(vols[v]) = Used(t) + Load(vols'[v])
  BY <1>1, UsedChanges DEF Room
<1>6. ASSUME NEW t \in Tenants, Clean(t)', t = Owner[v] PROVE RoomFor(t)'
  <2>1. \A d \in Callers : ~Grows(d, t)'
    BY <1>3, <1>4, <1>6 DEF Grows
  <2>2. Used(t)' <= Quota
    BY <1>1, <1>2, <1>5, <1>6
  <2> QED BY <2>1, <2>2 DEF RoomFor
<1>7. ASSUME NEW t \in Tenants, Clean(t)', t # Owner[v] PROVE RoomFor(t)'
  <2>1. Used(t) \in Nat /\ Used(t)' = Used(t) /\ Quota \in Nat /\ (Clean(t) => RoomFor(t))
    BY <1>5, <1>7, DiskAssumption DEF Room
  <2>2. \A d \in Callers : Grows(d, t)' => Grows(d, t) /\ ops'[d] = ops[d]
    BY <1>3 DEF Grows
  <2>3. ASSUME NEW d \in Callers, Grows(d, t), ops'[d] = ops[d]
        PROVE  vols'[ops'[d].vol].size = vols[ops[d].vol].size
               /\ vols[ops[d].vol].size \in Nat
    <3>1. ops[d].vol \in Vols /\ ops[d].vol # v
      BY <1>7, <2>3, OpType DEF Grows, Sound, Idle
    <3> QED BY <1>1, <2>3, <3>1, VolumeType
  <2> QED BY <1>4, <1>7, <2>1, <2>2, <2>3, NothingGrows
<1> QED BY <1>5, <1>6, <1>7 DEF Room

LEMMA ResizeRoom ==
  ASSUME IInv, IInv', Room, NEW c \in Callers, NEW v \in Vols, NEW size \in Sizes,
         ResizeVolume(c, v, size)
  PROVE  Room'
<1>1. /\ size > vols[v].size /\ Used(Owner[v]) + (size - vols[v].size) <= Quota
      /\ vols' = vols /\ vols[v].size \in Nat /\ size \in Nat
      /\ Admit(v, TRUE, held[v]) /\ held[v] \in Workers \cup {None}
  BY VolumeType, Bounds DEF ResizeVolume
<1>2. /\ ops'[c].kind = "resize" /\ ops'[c].vol = v /\ ops'[c].size = size
      /\ \A d \in Callers \ {c} : ops'[d] = ops[d]
  BY OpType DEF ResizeVolume, Call
<1>3. /\ raced \subseteq raced' /\ crowded \subseteq crowded'
      /\ Clean(Owner[v])' => \A d \in Callers : ~Grows(d, Owner[v])
  BY <1>1, AdmitGrowth
<1>4. Few' /\ \A t \in Tenants : Used(t) \in Nat /\ Used(t)' = Used(t)
  <2>1. Few' /\ Load(vols[v]) \in Nat
        /\ \A t \in Tenants :
              /\ Used(t) \in Nat /\ Used(t)' \in Nat
              /\ Owner[v] # t => Used(t)' = Used(t)
              /\ Owner[v] = t => Used(t)' + Load(vols[v]) = Used(t) + Load(vols'[v])
    BY <1>1, UsedChanges DEF Room
  <2> QED BY <1>1, <2>1
<1>5. ASSUME NEW t \in Tenants, Clean(t)', t = Owner[v] PROVE RoomFor(t)'
  <2>1. \A d \in Callers : Grows(d, t)' => d = c
    BY <1>2, <1>3, <1>5 DEF Grows
  <2>2. Used(t)' <= Quota /\ Used(t)' + size <= Quota + vols'[v].size
    BY <1>1, <1>4, <1>5, DiskAssumption
  <2> QED BY <1>2, <2>1, <2>2 DEF RoomFor
<1>6. ASSUME NEW t \in Tenants, Clean(t)', t # Owner[v] PROVE RoomFor(t)'
  <2>1. Used(t) \in Nat /\ Used(t)' = Used(t) /\ Quota \in Nat /\ (Clean(t) => RoomFor(t))
    BY <1>4, DiskAssumption DEF Room
  <2>2. \A d \in Callers : Grows(d, t)' => Grows(d, t) /\ ops'[d] = ops[d]
    BY <1>2, <1>6 DEF Grows
  <2>3. ASSUME NEW d \in Callers, Grows(d, t) PROVE vols[ops[d].vol].size \in Nat
    <3>1. ops[d].vol \in Vols
      BY <2>3, OpType DEF Grows, Sound, Idle
    <3> QED BY <3>1, VolumeType
  <2> QED BY <1>1, <1>3, <1>6, <2>1, <2>2, <2>3, NothingGrows
<1> QED BY <1>4, <1>5, <1>6 DEF Room

(* The other requests: nothing begins to grow. *)
LEMMA RequestsRoom ==
  ASSUME IInv, IInv', Room, NEW c \in Callers, Requests(c)
  PROVE  Room'
<1>1. ASSUME NEW v \in Vols, DeleteVolume(c, v) PROVE Room'
  <2>1. /\ vols'[v].status = "deleting" /\ vols'[v].size = vols[v].size
        /\ \A u \in Vols \ {v} : vols'[u] = vols[u]
        /\ vols[v].size \in Nat /\ vols[v].status \in {"creating", "available"}
        /\ Admit(v, FALSE, held[v]) /\ held[v] \in Workers \cup {None}
    BY <1>1, VolumeType DEF DeleteVolume, Put, VolFields
  <2>2. ops'[c].kind = "delete" /\ \A d \in Callers \ {c} : ops'[d] = ops[d]
    BY <1>1, OpType DEF DeleteVolume, Call
  <2>3. Load(vols'[v]) <= Load(vols[v])
    BY <2>1 DEF Load
  <2>4. raced \subseteq raced' /\ crowded \subseteq crowded'
    BY <2>1, AdmitGrowth
  <2>5. \A d \in Callers : ops'[d].kind = "resize" => ops'[d] = ops[d] /\ ops[d].vol \in Vols
    BY <2>2, OpType DEF Sound, Idle
  <2> QED BY <2>1, <2>3, <2>4, <2>5, NoneGrows
<1>2. ASSUME NEW v \in Vols, vols' = vols, raced \subseteq raced', crowded \subseteq crowded',
             NEW kind \in {"snapshot", "restore"}, NEW read, NEW size, Call(c, kind, v, read, size)
      PROVE  Room'
  <2>1. ops'[c].kind = kind /\ \A d \in Callers \ {c} : ops'[d] = ops[d]
    BY <1>2, OpType DEF Call
  <2>2. \A d \in Callers : ops'[d].kind = "resize" => ops'[d] = ops[d] /\ ops[d].vol \in Vols
    BY <2>1, OpType DEF Sound, Idle
  <2>3. Load(vols'[v]) <= Load(vols[v])
    BY <1>2, VolumeType DEF Load
  <2> QED BY <1>2, <2>2, <2>3, NoneGrows
<1>3. ASSUME NEW v \in Vols, CreateSnapshot(c, v) PROVE Room'
  BY <1>2, <1>3 DEF CreateSnapshot
<1>4. ASSUME NEW snap \in snaps, NEW v \in Vols, RestoreSnapshot(c, snap, v) PROVE Room'
  <2>1. raced \subseteq raced' /\ crowded \subseteq crowded'
    BY <1>4, VolumeType, AdmitGrowth DEF RestoreSnapshot
  <2> QED BY <1>2, <1>4, <2>1 DEF RestoreSnapshot
<1>5. ASSUME NEW v \in Vols, NEW size \in NewSizes, CreateVolume(c, v, size) PROVE Room'
  BY <1>5, Bounds, PlaceRoom DEF CreateVolume
<1>6. ASSUME NEW snap \in snaps, NEW v \in Vols, RestoreNew(c, snap, v) PROVE Room'
  <2>1. snap.size \in Nat
    BY DEF IInv, Global, TypeOK
  <2> QED BY <1>6, <2>1, PlaceRoom DEF RestoreNew
<1> QED BY <1>1, <1>3, <1>4, <1>5, <1>6, ResizeRoom DEF Requests

LEMMA MoveRoom ==
  ASSUME IInv, IInv', Room, NEW v \in Vols,
         (\E w \in Workers : AttachVolume(v, w)) \/ DetachVolume(v)
  PROVE  Room'
<1>1. PICK w \in Workers \cup {None} : Admit(v, FALSE, w)
  BY DEF AttachVolume, DetachVolume
<1>2. /\ vols[v].status \in {"available", "attached"}
      /\ vols'[v].status \in {"available", "attached"}
      /\ vols'[v].size = vols[v].size /\ vols[v].size \in Nat
      /\ \A u \in Vols \ {v} : vols'[u] = vols[u]
      /\ ops' = ops
  <2>1. CASE \E x \in Workers : AttachVolume(v, x)
    <3>1. PICK x \in Workers : AttachVolume(v, x)
      BY <2>1
    <3>2. /\ vols' = [vols EXCEPT ![v] = [vols[v] EXCEPT !.status = "attached", !.at = x]]
          /\ vols[v].status = "available" /\ ops' = ops
      BY <3>1 DEF AttachVolume, Put
    <3> QED BY <3>2, VolumeType DEF VolFields
  <2>2. CASE DetachVolume(v)
    BY <2>2, VolumeType DEF DetachVolume, Put, VolFields
  <2> QED BY <2>1, <2>2
<1>3. Load(vols'[v]) <= Load(vols[v])
  BY <1>2 DEF Load
<1>4. raced \subseteq raced' /\ crowded \subseteq crowded'
  BY <1>1, AdmitGrowth
<1>5. \A d \in Callers : ops'[d].kind = "resize" => ops'[d] = ops[d] /\ ops[d].vol \in Vols
  BY <1>2, OpType DEF Sound, Idle
<1> QED BY <1>2, <1>3, <1>4, <1>5, NoneGrows

(* A driver call that fails gives back the room its resize had. *)
LEMMA DriverRoom ==
  ASSUME IInv, IInv', Room, NEW c \in Callers, Driver(c)
  PROVE  Room'
<1>1. /\ ops[c].state = "called" /\ ops[c].vol \in Vols
      /\ vols' = vols /\ raced' = raced /\ crowded' = crowded
  BY OpType DEF Driver, Sound
<1>2. /\ ops'[c].vol = ops[c].vol /\ ops'[c].kind = ops[c].kind
      /\ \A d \in Callers \ {c} : ops'[d] = ops[d]
      /\ Ready(ops'[c]) => ops'[c].size = ops[c].size
  BY OpType DEF Driver, OpFields, Ready
<1>3. \A d \in Callers : ops'[d].kind = "resize" =>
           /\ ops[d].kind = "resize" /\ ops'[d].vol = ops[d].vol /\ ops[d].vol \in Vols
           /\ Ready(ops'[d]) => Ready(ops[d]) /\ ops'[d].size = ops[d].size
  BY <1>1, <1>2, OpType DEF Ready, Sound, Idle
<1>4. PICK v \in Vols : v = ops[c].vol
  BY <1>1
<1>5. Load(vols'[v]) <= Load(vols[v])
  BY <1>1, VolumeType DEF Load
<1> QED BY <1>1, <1>3, <1>5, NoneGrows

(* What the code after a driver call does to the sum. *)
LEMMA ReturnLoads ==
  ASSUME IInv, NEW c \in Callers, Return(c)
  PROVE  LET o == ops[c]  v == o.vol IN
         /\ v \in Vols /\ vols[v].size \in Nat /\ o.size \in Nat
         /\ \A u \in Vols \ {v} : vols'[u] = vols[u]
         /\ ops'[c] = Idle /\ \A d \in Callers \ {c} : ops'[d] = ops[d]
         /\ raced' = raced /\ crowded' = crowded
         /\ v \notin raced =>
              \/ vols'[v] = vols[v]
              \/ /\ \A d \in Callers \ {c} : ~Writes(ops[d], v)
                 /\ \/ Load(vols'[v]) <= Load(vols[v])
                    \/ /\ o.kind = "resize" /\ Ready(o)
                       /\ Load(vols[v]) = vols[v].size
                       /\ Load(vols'[v]) = o.size
<1> DEFINE o == ops[c]
           e == AfterCall(o)
<1>1. /\ o.state \in {"ok", "failed"} /\ o.vol \in Vols /\ o.kind \in Kinds /\ Sound(o)
      /\ vols' = [vols EXCEPT ![o.vol] = e] /\ raced' = raced /\ crowded' = crowded
      /\ ops' = [ops EXCEPT ![c] = Idle] /\ o.size \in Nat
  BY OpType DEF Return, Put, history, Sound
<1> PICK v \in Vols : v = o.vol
  BY <1>1
<1>2. /\ vols'[v] = e /\ vols[v] \in VolFields /\ vols[v].size \in Nat
      /\ \A u \in Vols \ {v} : vols'[u] = vols[u]
      /\ ops'[c] = Idle /\ \A d \in Callers \ {c} : ops'[d] = ops[d]
  BY <1>1, VolumeType, OpType
<1>3. ASSUME v \notin raced, vols'[v] # vols[v]
      PROVE  /\ \A d \in Callers \ {c} : ~Writes(ops[d], v)
             /\ \/ Load(vols'[v]) <= Load(vols[v])
                \/ /\ o.kind = "resize" /\ Ready(o)
                   /\ Load(vols[v]) = vols[v].size
                   /\ Load(vols'[v]) = o.size
  <2>1. o.kind # "snapshot" /\ ~(WritesBack(o) /\ o.state = "failed")
    BY <1>1, <1>2, <1>3, AfterCallFacts
  <2>2. Writes(o, v) /\ Kept(v) /\ \A d \in Callers \ {c} : ~Writes(ops[d], v)
    BY <1>3, <2>1 DEF Writes, IInv, Undisturbed, Alone
  <2>3. /\ Creates(o) => vols[v].status = "creating"
        /\ WritesBack(o) => vols[v].status \in {"available", "attached"}
        /\ o.state = "ok" /\ (Creates(o) \/ WritesBack(o)) => o.read = vols[v]
    BY <2>2 DEF Kept, Ready
  <2>4. CASE o.kind = "delete" \/ (Creates(o) /\ o.state = "failed")
    <3>1. e.status = "removed"
      BY <1>1, <2>4, AfterCallFacts
    <3>2. Load(vols'[v]) <= Load(vols[v])
      BY <1>2, <3>1 DEF Load
    <3> QED BY <2>2, <3>2
  <2>5. CASE Creates(o) /\ o.state = "ok"
    <3>1. e.status = "available" /\ e.size = vols[v].size
      BY <1>1, <2>3, <2>5, AfterCallFacts
    <3>2. Load(vols'[v]) <= Load(vols[v])
      BY <1>2, <2>3, <2>5, <3>1 DEF Load
    <3> QED BY <2>2, <3>2
  <2>6. CASE WritesBack(o) /\ o.state = "ok"
    <3>1. e.status = vols[v].status /\ e.size = o.size
      BY <1>1, <2>3, <2>6, AfterCallFacts
    <3>2. Load(vols[v]) = vols[v].size /\ Load(vols'[v]) = o.size
      BY <1>2, <2>3, <2>6, <3>1 DEF Load
    <3>3. o.kind = "restore" => o.size = vols[v].size
      BY <1>1, <2>3, <2>6 DEF Sound, Ready
    <3> QED BY <1>2, <2>2, <2>6, <3>2, <3>3 DEF WritesBack, Ready
  <2> QED BY <1>1, <2>1, <2>4, <2>5, <2>6 DEF Kinds, WritesBack, Creates
<1> QED BY <1>1, <1>2, <1>3

(* The code after a resize takes the room it had; after another operation   *)
(* no more is used than before.                                             *)
LEMMA ReturnRoom ==
  ASSUME IInv, IInv', Room, NEW c \in Callers, Return(c)
  PROVE  Room'
<1> PICK v \in Vols : v = ops[c].vol
  BY ReturnLoads
<1>1. /\ \A u \in Vols \ {v} : vols'[u] = vols[u]
      /\ vols[v].size \in Nat /\ ops[c].size \in Nat
      /\ ops'[c] = Idle /\ \A d \in Callers \ {c} : ops'[d] = ops[d]
      /\ raced' = raced /\ crowded' = crowded
      /\ v \notin raced =>
           \/ vols'[v] = vols[v]
           \/ /\ \A d \in Callers \ {c} : ~Writes(ops[d], v)
              /\ \/ Load(vols'[v]) <= Load(vols[v])
                 \/ /\ ops[c].kind = "resize" /\ Ready(ops[c])
                    /\ Load(vols[v]) = vols[v].size
                    /\ Load(vols'[v]) = ops[c].size
  BY ReturnLoads
<1>2. /\ Few' /\ Load(vols[v]) \in Nat /\ Load(vols'[v]) \in Nat
      /\ \A t \in Tenants :
              /\ Used(t) \in Nat /\ Used(t)' \in Nat
              /\ Owner[v] # t => Used(t)' = Used(t)
              /\ Owner[v] = t => Used(t)' + Load(vols[v]) = Used(t) + Load(vols'[v])
  BY <1>1, UsedChanges DEF Room
<1>3. \A d \in Callers : ops'[d].kind = "resize" =>
         d # c /\ ops'[d] = ops[d] /\ ops[d].vol \in Vols
  BY <1>1, OpType DEF Sound, Idle
<1>4. CASE v \notin raced => Load(vols'[v]) <= Load(vols[v])
  <2>1. \A d \in Callers : ops'[d].kind = "resize" /\ ops[d].vol = v /\ v \notin raced =>
           vols'[v].size = vols[v].size
    BY <1>1, <1>3 DEF Writes
  <2> QED BY <1>1, <1>3, <1>4, <2>1, NoneGrows
<1>5. CASE /\ v \notin raced /\ ops[c].kind = "resize" /\ Ready(ops[c])
           /\ \A d \in Callers \ {c} : ~Writes(ops[d], v)
           /\ Load(vols[v]) = vols[v].size
           /\ Load(vols'[v]) = ops[c].size
  <2>1. ASSUME NEW t \in Tenants, Clean(t)', t = Owner[v] PROVE RoomFor(t)'
    <3>1. RoomFor(t) /\ Grows(c, t)
      BY <1>1, <1>5, <2>1 DEF Room, Clean, Grows
    <3>2. Used(t) + ops[c].size <= Quota + vols[v].size
      BY <1>5, <3>1 DEF RoomFor
    <3>3. Used(t)' <= Quota
      BY <1>1, <1>2, <1>5, <2>1, <3>2, DiskAssumption
    <3>4. \A d \in Callers : ~Grows(d, t)'
      <4>1. ASSUME NEW d \in Callers, Grows(d, t)' PROVE FALSE
        <5>1. d # c /\ Grows(d, t)
          BY <1>3, <4>1 DEF Grows
        <5> QED BY <3>1, <5>1 DEF RoomFor
      <4> QED BY <4>1
    <3> QED BY <3>3, <3>4 DEF RoomFor
  <2>2. ASSUME NEW t \in Tenants, Clean(t)', t # Owner[v] PROVE RoomFor(t)'
    <3>1. Used(t) \in Nat /\ Used(t)' = Used(t) /\ Quota \in Nat /\ (Clean(t) => RoomFor(t))
      BY <1>2, <2>2, DiskAssumption DEF Room
    <3>2. \A d \in Callers : Grows(d, t)' => Grows(d, t) /\ ops'[d] = ops[d]
      BY <1>3 DEF Grows
    <3>3. ASSUME NEW d \in Callers, Grows(d, t)
          PROVE  /\ vols'[ops[d].vol].size = vols[ops[d].vol].size
                 /\ vols[ops[d].vol].size \in Nat
      <4>1. ops[d].vol \in Vols /\ ops[d].vol # v
        BY <2>2, <3>3, OpType DEF Grows, Sound, Idle
      <4> QED BY <1>1, <4>1, VolumeType
    <3> QED BY <1>1, <2>2, <3>1, <3>2, <3>3, NothingGrows
  <2> QED BY <1>2, <2>1, <2>2 DEF Room
<1> QED BY <1>1, <1>2, <1>4, <1>5

LEMMA NextRoom == IInv /\ IInv' /\ Room /\ [Next]_vars => Room'
<1> SUFFICES ASSUME IInv, IInv', Room, [Next]_vars PROVE Room'
  OBVIOUS
<1>1. CASE UNCHANGED vars
  <2>1. ASSUME NEW t PROVE Used(t)' = Used(t)
    BY <1>1 DEF vars, Used, Registered, MapThenSumSet, MapThenFoldSet
  <2>2. vols' = vols /\ ops' = ops /\ raced' = raced /\ crowded' = crowded
    BY <1>1 DEF vars
  <2>3. Few'
    BY <2>2 DEF Room, Few, Counted
  <2>4. \A t : (Clean(t)' <=> Clean(t)) /\ (RoomFor(t)' <=> RoomFor(t))
    BY <2>1, <2>2 DEF Clean, RoomFor, Grows, Ready
  <2> QED BY <2>3, <2>4 DEF Room
<1>2. CASE Next
  BY <1>2, RequestsRoom, MoveRoom, DriverRoom, ReturnRoom DEF Next
<1> QED BY <1>1, <1>2

(* The volumes of a tenant stay within its quota unless it was let grow     *)
(* while a resize of its own was in flight, or one of its volumes raced,    *)
(* for every quota, every size and every number of volumes and requests     *)
(* (registry.ts 97-104, 215-224, 373-383).                                  *)
THEOREM QuotaHolds == Spec => []WithinQuota
<1>1. TypeOK /\ Room => WithinQuota
  BY DEF TypeOK, Room, Clean, RoomFor, WithinQuota
<1>2. IInv => TypeOK
  BY DEF IInv, Global
<1> QED BY <1>1, <1>2, Strengthened, InitRoom, NextRoom, PTL DEF Spec

-------------------------------------------------------------------------------
(***************************************************************************)
(* Nobody stays in creation or in deletion by himself.  What TransientsEnd *)
(* needs of safety: the operation that ends the status is in flight, also  *)
(* on a volume that operations overlap on.  What a resize or restore       *)
(* writes back was ready when it was read, so it never brings a transient  *)
(* status back.                                                            *)
(***************************************************************************)
Transient == {"creating", "deleting"}

Ending(status) ==
  IF status = "creating" THEN {"create", "restore-new"} ELSE {"delete"}

Attended(v) ==
  vols[v].status \in Transient =>
    \E c \in Callers : ops[c].vol = v /\ ops[c].kind \in Ending(vols[v].status)

TransientsHeld == \A v \in Vols : Attended(v)

ReadWhenReady ==
  \A c \in Callers : Ready(ops[c]) /\ WritesBack(ops[c]) =>
    ops[c].read.status \in {"available", "attached"}

Ended == TransientsHeld /\ ReadWhenReady

(* A step about one volume whose operations on others go on. *)
LEMMA OneAttended ==
  ASSUME TransientsHeld, NEW v \in Vols, Attended(v)',
         \A u \in Vols \ {v} : vols'[u] = vols[u],
         \A c \in Callers : \/ ops[c].vol \notin Vols \ {v}
                            \/ ops'[c].vol = ops[c].vol /\ ops'[c].kind = ops[c].kind
  PROVE  TransientsHeld'
<1> SUFFICES ASSUME NEW u \in Vols \ {v}, vols[u].status \in Transient
             PROVE  \E c \in Callers :
                      ops'[c].vol = u /\ ops'[c].kind \in Ending(vols[u].status)
  BY DEF TransientsHeld, Attended
<1>1. PICK c \in Callers : ops[c].vol = u /\ ops[c].kind \in Ending(vols[u].status)
  BY DEF TransientsHeld, Attended
<1>2. ops'[c].vol = u /\ ops'[c].kind \in Ending(vols[u].status)
  BY <1>1
<1> QED BY <1>2

(* An operation that is let in, and the status it gives the volume. *)
LEMMA BegunEnded ==
  ASSUME IInv, Ended, NEW c \in Callers, NEW kind \in Kinds, NEW v \in Vols,
         NEW read \in VolFields, NEW size \in Nat, Call(c, kind, v, read, size),
         \A u \in Vols \ {v} : vols'[u] = vols[u],
         vols'[v].status \in Transient => kind \in Ending(vols'[v].status),
         kind \in {"resize", "restore"} => read.status \in {"available", "attached"}
  PROVE  Ended'
<1>1. /\ ops[c].vol = None /\ ops'[c].kind = kind /\ ops'[c].vol = v
      /\ ops'[c].read = read /\ \A d \in Callers \ {c} : ops'[d] = ops[d]
  BY CallFacts
<1>2. Attended(v)'
  BY <1>1 DEF Attended
<1>3. \A d \in Callers : \/ ops[d].vol \notin Vols \ {v}
                         \/ ops'[d].vol = ops[d].vol /\ ops'[d].kind = ops[d].kind
  BY <1>1, Bounds
<1>4. TransientsHeld'
  BY <1>2, <1>3, OneAttended DEF Ended
<1>5. ReadWhenReady'
  BY <1>1 DEF Ended, ReadWhenReady, WritesBack
<1> QED BY <1>4, <1>5 DEF Ended

LEMMA PlaceEnded ==
  ASSUME IInv, Ended, NEW c \in Callers, NEW kind \in {"create", "restore-new"},
         NEW v \in Vols, NEW size \in Nat, Place(c, kind, v, size)
  PROVE  Ended'
<1> DEFINE entry == [status |-> "creating", size |-> size, at |-> None]
<1>1. entry \in VolFields /\ entry.status = "creating" /\ kind \in Kinds
  BY DEF VolFields, Kinds
<1>2. vols' = [vols EXCEPT ![v] = entry] /\ Call(c, kind, v, vols'[v], size)
  BY DEF Place, Put
<1> HIDE DEF entry
<1>3. vols'[v] = entry /\ \A u \in Vols \ {v} : vols'[u] = vols[u]
  BY <1>2, VolumeType
<1> QED BY <1>1, <1>2, <1>3, BegunEnded DEF Ending

LEMMA RequestsEnded ==
  ASSUME IInv, Ended, NEW c \in Callers, Requests(c)
  PROVE  Ended'
<1>1. ASSUME NEW v \in Vols, DeleteVolume(c, v) PROVE Ended'
  <2>1. /\ vols'[v].status = "deleting"
        /\ \A u \in Vols \ {v} : vols'[u] = vols[u]
    BY <1>1, VolumeType DEF DeleteVolume, Put, VolFields
  <2>2. Call(c, "delete", v, Nothing, 0) /\ "delete" \in Kinds /\ Nothing \in VolFields
    BY <1>1, IdleFacts DEF DeleteVolume, Kinds
  <2> QED BY <2>1, <2>2, BegunEnded DEF Ending
<1>2. ASSUME NEW v \in Vols, NEW size \in Sizes, ResizeVolume(c, v, size) PROVE Ended'
  <2>1. /\ vols' = vols /\ vols[v].status \in {"available", "attached"}
        /\ Call(c, "resize", v, vols[v], size) /\ "resize" \in Kinds
        /\ vols[v] \in VolFields /\ size \in Nat
    BY <1>2, VolumeType, Bounds DEF ResizeVolume, Kinds
  <2> QED BY <2>1, BegunEnded DEF Transient
<1>3. ASSUME NEW v \in Vols, CreateSnapshot(c, v) PROVE Ended'
  <2>1. /\ vols' = vols /\ vols[v].status \in {"available", "attached"}
        /\ Call(c, "snapshot", v, Nothing, vols[v].size) /\ "snapshot" \in Kinds
        /\ Nothing \in VolFields /\ vols[v].size \in Nat
    BY <1>3, VolumeType, IdleFacts DEF CreateSnapshot, Kinds
  <2> QED BY <2>1, BegunEnded DEF Transient
<1>4. ASSUME NEW snap \in snaps, NEW v \in Vols, RestoreSnapshot(c, snap, v) PROVE Ended'
  <2>1. /\ vols' = vols /\ vols[v].status = "available"
        /\ Call(c, "restore", v, vols[v], vols[v].size) /\ "restore" \in Kinds
        /\ vols[v] \in VolFields /\ vols[v].size \in Nat
    BY <1>4, VolumeType DEF RestoreSnapshot, Kinds
  <2> QED BY <2>1, BegunEnded DEF Transient
<1>5. ASSUME NEW v \in Vols, NEW size \in NewSizes, CreateVolume(c, v, size) PROVE Ended'
  BY <1>5, Bounds, PlaceEnded DEF CreateVolume
<1>6. ASSUME NEW snap \in snaps, NEW v \in Vols, RestoreNew(c, snap, v) PROVE Ended'
  <2>1. snap.size \in Nat
    BY DEF IInv, Global, TypeOK
  <2> QED BY <1>6, <2>1, PlaceEnded DEF RestoreNew
<1> QED BY <1>1, <1>2, <1>3, <1>4, <1>5, <1>6 DEF Requests

LEMMA MoveEnded ==
  ASSUME IInv, Ended, NEW v \in Vols,
         (\E w \in Workers : AttachVolume(v, w)) \/ DetachVolume(v)
  PROVE  Ended'
<1>1. /\ vols'[v].status \in {"available", "attached"}
      /\ \A u \in Vols \ {v} : vols'[u] = vols[u]
      /\ ops' = ops
  <2>1. CASE \E w \in Workers : AttachVolume(v, w)
    <3>1. PICK w \in Workers : AttachVolume(v, w)
      BY <2>1
    <3>2. /\ vols' = [vols EXCEPT ![v] = [vols[v] EXCEPT !.status = "attached", !.at = w]]
          /\ ops' = ops
      BY <3>1 DEF AttachVolume, Put
    <3> QED BY <3>2, VolumeType DEF VolFields
  <2>2. CASE DetachVolume(v)
    BY <2>2, VolumeType DEF DetachVolume, Put, VolFields
  <2> QED BY <2>1, <2>2
<1>2. Attended(v)'
  BY <1>1 DEF Attended, Transient
<1> QED BY <1>1, <1>2, OneAttended DEF Ended, ReadWhenReady

LEMMA DriverEnded ==
  ASSUME IInv, Ended, NEW c \in Callers, Driver(c)
  PROVE  Ended'
<1>1. vols' = vols /\ ops[c].state = "called"
  BY DEF Driver
<1>2. /\ ops'[c].vol = ops[c].vol /\ ops'[c].kind = ops[c].kind
      /\ Ready(ops'[c]) => ops'[c].read = ops[c].read
      /\ \A d \in Callers \ {c} : ops'[d] = ops[d]
  BY OpType DEF Driver, OpFields, Ready
<1>3. \A v \in Vols : Attended(v)'
  BY <1>1, <1>2 DEF Ended, TransientsHeld, Attended
<1>4. ReadWhenReady'
  BY <1>1, <1>2 DEF Ended, ReadWhenReady, Ready, WritesBack
<1> QED BY <1>3, <1>4 DEF Ended, TransientsHeld

(* The end of an operation leaves the status as it found it, or settles it. *)
LEMMA ReturnEnded ==
  ASSUME IInv, Ended, NEW c \in Callers, Return(c)
  PROVE  Ended'
<1> DEFINE o == ops[c]
<1>1. /\ o.state \in {"ok", "failed"} /\ o.vol \in Vols /\ o.kind \in Kinds
      /\ vols' = [vols EXCEPT ![o.vol] = AfterCall(o)] /\ ops' = [ops EXCEPT ![c] = Idle]
  BY OpType DEF Return, Put, Sound
<1> PICK v \in Vols : v = o.vol
  BY <1>1
<1>2. /\ ops'[c] = Idle /\ \A d \in Callers \ {c} : ops'[d] = ops[d]
      /\ vols'[v] = AfterCall(o) /\ \A u \in Vols \ {v} : vols'[u] = vols[u]
  BY <1>1, OpType, VolumeType
<1>3. Attended(v)'
  <2>1. CASE o.kind = "snapshot" \/ (WritesBack(o) /\ o.state = "failed")
    <3>1. vols'[v] = vols[v]
      BY <1>1, <1>2, <2>1, AfterCallFacts
    <3>2. o.kind \in {"snapshot", "resize", "restore"}
      BY <2>1 DEF WritesBack
    <3>3. ASSUME vols[v].status \in Transient
          PROVE  \E d \in Callers : ops'[d].vol = v /\ ops'[d].kind \in Ending(vols[v].status)
      <4>1. PICK d \in Callers : ops[d].vol = v /\ ops[d].kind \in Ending(vols[v].status)
        BY <3>3 DEF Ended, TransientsHeld, Attended
      <4>2. ops'[d] = ops[d]
        BY <1>2, <3>2, <4>1 DEF Ending
      <4>3. ops'[d].vol = v /\ ops'[d].kind \in Ending(vols[v].status)
        BY <4>1, <4>2
      <4> QED BY <4>3
    <3> QED BY <3>1, <3>3 DEF Attended
  <2>2. CASE WritesBack(o) /\ o.state = "ok"
    <3>1. o.read.status \in {"available", "attached"}
      BY <2>2 DEF Ended, ReadWhenReady, Ready
    <3> QED BY <1>1, <1>2, <2>2, <3>1, AfterCallFacts DEF Attended, Transient
  <2>3. CASE Creates(o) \/ o.kind = "delete"
    BY <1>1, <1>2, <2>3, AfterCallFacts DEF Attended, Transient
  <2> QED BY <1>1, <2>1, <2>2, <2>3 DEF Kinds, WritesBack, Creates
<1>4. \A d \in Callers : \/ ops[d].vol \notin Vols \ {v}
                         \/ ops'[d].vol = ops[d].vol /\ ops'[d].kind = ops[d].kind
  BY <1>2
<1>5. TransientsHeld'
  BY <1>2, <1>3, <1>4, OneAttended DEF Ended
<1>6. ReadWhenReady'
  BY <1>2 DEF Ended, ReadWhenReady, WritesBack, Idle
<1> QED BY <1>5, <1>6 DEF Ended

LEMMA NextEnded == IInv /\ Ended /\ [Next]_vars => Ended'
<1> SUFFICES ASSUME IInv, Ended, [Next]_vars PROVE Ended'
  OBVIOUS
<1>1. CASE UNCHANGED vars
  BY <1>1 DEF vars, Ended, TransientsHeld, Attended, ReadWhenReady
<1> QED BY <1>1, RequestsEnded, MoveEnded, DriverEnded, ReturnEnded DEF Next

(* A volume in creation or in deletion has an operation in flight that ends *)
(* it, overlapping operations and driver failures included, for every       *)
(* number of volumes and requests (registry.ts 127-148, 241-247).           *)
THEOREM TransientsAreAttended == Spec => []TransientsHeld
<1>1. Init => Ended
  BY DEF Init, Ended, TransientsHeld, Attended, Transient, ReadWhenReady, WritesBack,
         Nowhere, Idle
<1>2. Ended => TransientsHeld
  BY DEF Ended
<1> QED BY <1>1, <1>2, Strengthened, NextEnded, PTL DEF Spec
===============================================================================
