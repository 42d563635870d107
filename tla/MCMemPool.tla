----------------------------- MODULE MCMemPool ------------------------------
(* The primary ES, one that comes and goes, and an external thread.        *)
EXTENDS MemPool

CONSTANTS x1, x2, e1

MCXSTREAM == {x1, x2}
MCEXT == {e1}
MCOPS == (x1 :> 3) @@ (x2 :> 3) @@ (e1 :> 1)
=============================================================================
