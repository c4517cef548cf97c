---------------------------- MODULE PersistentDisks ----------------------------
(***************************************************************************)
(* services/persistent-disks: the registry of volumes and snapshots, and   *)
(* the driver it delegates the storage to.                                 *)
(*                                                                         *)
(* The service is one event loop and nothing orders two requests for one   *)
(* volume.  An operation with a driver call is three steps: its guards and *)
(* the call, the driver's commands, the code after the await.  It keeps    *)
(* the volume as it read it at the start, and writes that back at the end. *)
(*                                                                         *)
(* The driver is seen through the DiskDriver interface: a call succeeds or *)
(* fails, and one that fails may have done part of its work.  A volume id  *)
(* is fresh, so Vols are the ids in the order nobody cares about and Owner *)
(* says who asks for each.                                                 *)
(***************************************************************************)
EXTENDS Naturals, FiniteSets, FiniteSetsExt

CONSTANTS Vols, Tenants,
          Owner,    \* the tenant of each volume
          Workers,  \* those a volume is attached to
          None,     \* no worker
          Callers,  \* operations that may be in flight
          Quota,    \* bytes a tenant may use
          Sizes,    \* bound: the sizes asked for
          NewSizes, \* bound: those asked for at creation
          MaxSnapshots \* bound: snapshots kept

ASSUME DiskAssumption ==
  /\ Owner \in [Vols -> Tenants]
  /\ None \notin Workers \cup Vols
  /\ Quota \in Nat
  /\ MaxSnapshots \in Nat
  /\ Sizes \subseteq Nat \ {0} /\ NewSizes \subseteq Nat \ {0}

VARIABLES
  vols,     \* registry.volumes
  snaps,    \* registry.snapshots
  store,    \* driver: the volumes with a backing image
  ops,      \* the operation each caller waits for
  raced,    \* history: volumes written to while an operation on them was
            \* in flight
  crowded,  \* history: tenants that grew while a resize of theirs was
            \* in flight
  held,     \* history: the worker told that it has the volume attached
  faulted   \* history: volumes a driver call failed for, neither of these
            \* two kept for a raced volume

history == <<held, raced, crowded, faulted>>
vars == <<vols, snaps, store, ops, held, raced, crowded, faulted>>

-------------------------------------------------------------------------------
VolFields == [status: {"unborn", "creating", "available", "attached",
                       "deleting", "removed"},
              size: Nat, at: Workers \cup {None}]

Nowhere(status) == [status |-> status, size |-> 0, at |-> None]

Nothing == Nowhere("unborn")

Registered(v) == vols[v].status \notin {"unborn", "removed"}

OpFields == [kind: {"none", "create", "resize", "delete", "snapshot", "restore",
                    "restore-new"},
             state: {"idle", "called", "ok", "failed"},
             vol: Vols \cup {None}, read: VolFields, size: Nat]

Idle == [kind |-> "none", state |-> "idle", vol |-> None,
         read |-> Nothing, size |-> 0]

(* usedBytes: the sizes of the tenant's volumes that are not deleting. *)
Used(t) ==
  MapThenSumSet(LAMBDA v : vols[v].size,
    {v \in Vols : Owner[v] = t /\ Registered(v) /\ vols[v].status # "deleting"})

Init ==
  /\ vols = [v \in Vols |-> Nowhere("unborn")]
  /\ snaps = {}
  /\ store = {}
  /\ ops = [c \in Callers |-> Idle]
  /\ held = [v \in Vols |-> None]
  /\ raced = {} /\ crowded = {} /\ faulted = {}

-------------------------------------------------------------------------------
InFlight(v) ==
  \E c \in Callers : ops[c].vol = v /\ ops[c].kind # "snapshot"

Resizing(t) ==
  \E c \in Callers : ops[c].kind = "resize" /\ Owner[ops[c].vol] = t

(* An operation that will write v, or writes it now, is let in; w is the    *)
(* worker its caller now takes v to be attached to.                         *)
Admit(v, growth, w) ==
  /\ raced' = IF InFlight(v) THEN raced \cup {v} ELSE raced
  /\ crowded' = IF growth /\ Resizing(Owner[v])
                  THEN crowded \cup {Owner[v]} ELSE crowded
  /\ held' = [held EXCEPT ![v] = IF v \in raced' THEN None ELSE w]
  /\ faulted' = faulted \ raced'

(* read: the volume the continuation will write back. *)
Call(c, kind, v, read, size) ==
  /\ ops[c].state = "idle"
  /\ ops' = [ops EXCEPT ![c] = [kind |-> kind, state |-> "called", vol |-> v,
                                read |-> read, size |-> size]]

Put(v, entry) == vols' = [vols EXCEPT ![v] = entry]

(* assertQuota, and the placeholder that holds the place of volume v. *)
Place(c, kind, v, size) ==
  /\ vols[v].status = "unborn"
  /\ Used(Owner[v]) + size <= Quota
  /\ Put(v, [status |-> "creating", size |-> size, at |-> None])
  /\ Call(c, kind, v, vols'[v], size)
  /\ Admit(v, TRUE, held[v])
  /\ UNCHANGED <<snaps, store>>

CreateVolume(c, v, size) == Place(c, "create", v, size)

(* Without a target: a new volume of the snapshot's tenant and size. *)
RestoreNew(c, snap, v) ==
  /\ Owner[v] = Owner[snap.vol]
  /\ Place(c, "restore-new", v, snap.size)

(* Into an available volume of the same tenant that is large enough. *)
RestoreSnapshot(c, snap, v) ==
  /\ Owner[v] = Owner[snap.vol]
  /\ vols[v].status = "available"
  /\ vols[v].size >= snap.size
  /\ UNCHANGED vols
  /\ Call(c, "restore", v, vols[v], vols[v].size)
  /\ Admit(v, FALSE, held[v])
  /\ UNCHANGED <<snaps, store>>

AttachVolume(v, w) ==
  /\ vols[v].status = "available"
  /\ Put(v, [vols[v] EXCEPT !.status = "attached", !.at = w])
  /\ Admit(v, FALSE, w)
  /\ UNCHANGED <<snaps, store, ops>>

DetachVolume(v) ==
  /\ vols[v].status = "attached"
  /\ Put(v, [vols[v] EXCEPT !.status = "available", !.at = None])
  /\ Admit(v, FALSE, None)
  /\ UNCHANGED <<snaps, store, ops>>

(* Mutant: the new size alone is compared with the quota. *)
ResizeIgnoresOthers(c, v, size) ==
  /\ vols[v].status \in {"available", "attached"}
  /\ size > vols[v].size
  /\ size <= Quota
  /\ UNCHANGED vols
  /\ Call(c, "resize", v, vols[v], size)
  /\ Admit(v, TRUE, held[v])
  /\ UNCHANGED <<snaps, store>>

(* Grow-only; the quota is checked for the difference, and not reserved. *)
ResizeVolume(c, v, size) ==
  /\ vols[v].status \in {"available", "attached"}
  /\ size > vols[v].size
  /\ Used(Owner[v]) + (size - vols[v].size) <= Quota
  /\ UNCHANGED vols
  /\ Call(c, "resize", v, vols[v], size)
  /\ Admit(v, TRUE, held[v])
  /\ UNCHANGED <<snaps, store>>

(* Mutant: an attached volume can be deleted too. *)
DeleteAttachedToo(c, v) ==
  /\ vols[v].status \in {"creating", "available", "attached"}
  /\ Put(v, [vols[v] EXCEPT !.status = "deleting"])
  /\ Call(c, "delete", v, Nothing, 0)
  /\ Admit(v, FALSE, held[v])
  /\ UNCHANGED <<snaps, store>>

(* Anything but an attached volume, one that is being created included. *)
DeleteVolume(c, v) ==
  /\ vols[v].status \in {"creating", "available"}
  /\ Put(v, [vols[v] EXCEPT !.status = "deleting"])
  /\ Call(c, "delete", v, Nothing, 0)
  /\ Admit(v, FALSE, held[v])
  /\ UNCHANGED <<snaps, store>>

CreateSnapshot(c, v) ==
  /\ vols[v].status \in {"available", "attached"}
  /\ Cardinality(snaps) < MaxSnapshots
  /\ UNCHANGED vols
  /\ Call(c, "snapshot", v, Nothing, vols[v].size)
  /\ UNCHANGED <<snaps, store, held, raced, crowded, faulted>>

-------------------------------------------------------------------------------
(* The commands of a driver call.  A failed create or restore may leave an  *)
(* image, resize creates one that is missing and then fails, destroy and    *)
(* snapshot fail without effect.                                            *)
DriverOk(c) ==
  LET o == ops[c] IN
  /\ o.kind \in {"resize", "snapshot"} => o.vol \in store
  /\ store' = CASE o.kind \in {"create", "restore", "restore-new"} -> store \cup {o.vol}
                [] o.kind = "delete" -> store \ {o.vol}
                [] OTHER -> store
  /\ UNCHANGED faulted

DriverFails(c) ==
  LET o == ops[c] IN
  /\ store' \in IF o.kind \in {"create", "restore", "restore-new", "resize"}
                  THEN {store, store \cup {o.vol}} ELSE {store}
  /\ faulted' = (faulted \cup {o.vol}) \ raced

Driver(c) ==
  /\ ops[c].state = "called"
  /\ \/ DriverOk(c)    /\ ops' = [ops EXCEPT ![c].state = "ok"]
     \/ DriverFails(c) /\ ops' = [ops EXCEPT ![c].state = "failed",
                                             ![c].read = Nothing, ![c].size = 0]
  /\ UNCHANGED <<vols, snaps, held, raced, crowded>>

-------------------------------------------------------------------------------
(* Mutant: a creation is completed whatever the driver said. *)
AfterCallIgnoresFailure(o) ==
  CASE o.kind \in {"create", "restore-new"} -> [vols[o.vol] EXCEPT !.status = "available"]
    [] o.kind = "delete" -> Nowhere("removed")
    [] o.kind \in {"resize", "restore"} /\ o.state = "ok" ->
         [o.read EXCEPT !.size = o.size]
    [] OTHER -> vols[o.vol]

(* Mutant: a resize leaves the volume available, as a creation does. *)
AfterCallFreesVolume(o) ==
  CASE o.kind \in {"create", "restore-new"} ->
         IF o.state = "ok" THEN [o.read EXCEPT !.status = "available"]
                           ELSE Nowhere("removed")
    [] o.kind = "delete" -> Nowhere("removed")
    [] o.kind \in {"resize", "restore"} /\ o.state = "ok" ->
         [o.read EXCEPT !.size = o.size, !.status = "available"]
    [] OTHER -> vols[o.vol]

(* Mutant: a volume is removed only if its storage was destroyed. *)
AfterCallKeepUndestroyed(o) ==
  CASE o.kind \in {"create", "restore-new"} ->
         IF o.state = "ok" THEN [o.read EXCEPT !.status = "available"]
                           ELSE Nowhere("removed")
    [] o.kind = "delete" /\ o.state = "ok" -> Nowhere("removed")
    [] o.kind \in {"resize", "restore"} /\ o.state = "ok" ->
         [o.read EXCEPT !.size = o.size]
    [] OTHER -> vols[o.vol]

(* The entry of the volume after the await: a creation is completed or      *)
(* rolled back, a deletion removes it whatever the driver said, and a       *)
(* resize or restore writes back what it read, with the size.               *)
AfterCall(o) ==
  CASE o.kind \in {"create", "restore-new"} ->
         IF o.state = "ok" THEN [o.read EXCEPT !.status = "available"]
                           ELSE Nowhere("removed")
    [] o.kind = "delete" -> Nowhere("removed")
    [] o.kind \in {"resize", "restore"} /\ o.state = "ok" ->
         [o.read EXCEPT !.size = o.size]
    [] OTHER -> vols[o.vol]

(* The code after the await of a driver call. *)
Return(c) ==
  LET o == ops[c] IN
  /\ o.state \in {"ok", "failed"}
  /\ Put(o.vol, AfterCall(o))
  /\ snaps' = IF o.kind = "snapshot" /\ o.state = "ok"
                THEN snaps \cup {[vol |-> o.vol, size |-> o.size]} ELSE snaps
  /\ ops' = [ops EXCEPT ![c] = Idle]
  /\ UNCHANGED <<store, history>>

Requests(c) ==
  \/ \E v \in Vols, size \in NewSizes : CreateVolume(c, v, size)
  \/ \E v \in Vols, size \in Sizes : ResizeVolume(c, v, size)
  \/ \E v \in Vols : DeleteVolume(c, v)
  \/ \E v \in Vols : CreateSnapshot(c, v)
  \/ \E snap \in snaps, v \in Vols : RestoreSnapshot(c, snap, v)
  \/ \E snap \in snaps, v \in Vols : RestoreNew(c, snap, v)

Next ==
  \/ \E c \in Callers : Requests(c)
  \/ \E v \in Vols, w \in Workers : AttachVolume(v, w)
  \/ \E v \in Vols : DetachVolume(v)
  \/ \E c \in Callers : Driver(c)
  \/ \E c \in Callers : Return(c)

Spec == Init /\ [][Next]_vars

(* The driver's commands end, and their continuations run. *)
FairSpec ==
  /\ Spec
  /\ \A c \in Callers : WF_vars(Driver(c)) /\ WF_vars(Return(c))

-------------------------------------------------------------------------------
TypeOK ==
  /\ vols \in [Vols -> VolFields]
  /\ snaps \subseteq [vol: Vols, size: Nat]
  /\ store \subseteq Vols
  /\ ops \in [Callers -> OpFields]
  /\ \A c \in Callers : ops[c].state # "idle" => ops[c].vol \in Vols
  /\ held \in [Vols -> Workers \cup {None}]
  /\ raced \subseteq Vols /\ faulted \subseteq Vols
  /\ crowded \subseteq Tenants

(* The status of a volume follows the diagram of registry.ts:5-26 and its   *)
(* size only grows, through every driver failure and whatever happens to    *)
(* other volumes: only a volume that was written to while an operation on   *)
(* it was in flight (225-229, 297-332) can leave the diagram.               *)
Life(v) == INSTANCE VolumeLifecycle WITH
  status <- vols[v].status, size <- vols[v].size

FollowsLifecycle ==
  [][\A v \in Vols \ raced' : vols'[v] = vols[v] \/ Life(v)!Next]_vars

(* A worker that was told it has a volume attached, and has not detached    *)
(* it, finds it attached to itself (registry.ts:161-194): nobody else can   *)
(* attach or delete it, unless operations on the volume overlapped.         *)
HolderKeepsVolume ==
  \A v \in Vols \ raced : held[v] # None =>
     vols[v].status = "attached" /\ vols[v].at = held[v]

(* The volumes of a tenant stay within its quota (registry.ts:97-104,       *)
(* 215-224, 373-383): only a tenant that was let grow while a resize of its *)
(* own was in flight, or whose volume was raced, can exceed it.             *)
WithinQuota ==
  \A t \in Tenants \ crowded :
     (\A v \in raced : Owner[v] # t) => Used(t) <= Quota

(* A volume that is ready has storage behind it, and storage is left behind *)
(* by a removed volume only after a driver call failed (registry.ts:130-148,*)
(* 241-247), unless operations on the volume overlapped.                    *)
StorageAccounted ==
  \A v \in Vols \ raced :
     /\ vols[v].status \in {"available", "attached"} => v \in store
     /\ vols[v].status = "removed" /\ v \in store => v \in faulted

(* No volume stays in creation or in deletion (registry.ts:127-148,         *)
(* 241-247), overlapping operations and driver failures included.           *)
TransientsEnd ==
  \A v \in Vols : vols[v].status \in {"creating", "deleting"} ~>
                  vols[v].status \notin {"creating", "deleting"}

===============================================================================
