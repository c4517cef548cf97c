----------------------------- MODULE TunnelClaims -----------------------------
(***************************************************************************)
(* What the documentation of the tunnel says and the code does not do.     *)
(***************************************************************************)
EXTENDS MCTunnel

(* "Drain in-flight requests for drainMs" (README.md, Graceful shutdown):   *)
(* while a daemon drains, no request it still serves gets an error.  The    *)
(* runs of this claim have no faults, so no answer is late.                 *)
DrainLosesNothing ==
  [][\A o \in Origins, r \in Requests :
       (daemons[o].draining /\ r \in daemons[o].inFlight)
         => asked'[r].answer # "error"]_vars
===============================================================================
