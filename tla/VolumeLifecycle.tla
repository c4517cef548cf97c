---------------------------- MODULE VolumeLifecycle ----------------------------
(***************************************************************************)
(* What services/persistent-disks promises of one volume: the status       *)
(* diagram at the head of registry.ts, and a size that only grows.  A      *)
(* volume that is removed stays removed, since ids are never reused.       *)
(***************************************************************************)
EXTENDS Naturals

VARIABLES
  status,  \* the volume's status, "unborn" before it is created
  size     \* its logical size, 0 while it is in no registry

Statuses == {"unborn", "creating", "available", "attached", "deleting", "removed"}

Create  == status = "unborn" /\ status' = "creating" /\ size' > 0

(* The driver answers; it may round the capacity up. *)
Ready   == status = "creating" /\ status' = "available" /\ size' >= size

RollBack == status = "creating" /\ status' = "removed" /\ size' = 0

Attach  == status = "available" /\ status' = "attached" /\ size' = size

Detach  == status = "attached" /\ status' = "available" /\ size' = size

Grow    == status \in {"available", "attached"} /\ status' = status /\ size' > size

Delete  == status = "available" /\ status' = "deleting" /\ size' = size

Remove  == status = "deleting" /\ status' = "removed" /\ size' = 0

Next == Create \/ Ready \/ RollBack \/ Attach \/ Detach \/ Grow \/ Delete \/ Remove

===============================================================================
