--------------------------- MODULE MCPersistentDisks ---------------------------
(* TLC instance of PersistentDisks: one tenant with two volumes, the sizes  *)
(* of which can grow past its quota together.                               *)
EXTENDS PersistentDisks, TLC

CONSTANTS v1, v2, t1

OneOwner == (v1 :> t1) @@ (v2 :> t1)
===============================================================================
