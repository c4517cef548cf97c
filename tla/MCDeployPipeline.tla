--------------------------- MODULE MCDeployPipeline ---------------------------
(* TLC instance of DeployPipeline: two tenants with a hostname each. *)
EXTENDS DeployPipeline, TLC

CONSTANTS t1, t2, h1, h2

OneEach == (h1 :> t1) @@ (h2 :> t2)
===============================================================================
