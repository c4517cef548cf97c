------------------------------ MODULE MCApiBuilds ------------------------------
(* TLC instance of ApiBuilds: two deployments of a project, the second of   *)
(* which is detected as a plain static site, or neither.                    *)
EXTENDS ApiBuilds

(* Deployments one after the other: none begins while another is in flight. *)
SequentialSpec ==
  /\ Init
  /\ [][Next /\ \A r, s \in Deployments : InFlight(r)' /\ InFlight(s)' => r = s]_vars
===============================================================================
