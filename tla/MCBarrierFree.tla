---------------------------- MODULE MCBarrierFree ----------------------------
(* Two ULTs on two ESs and an external thread meet once at a barrier; a ULT *)
(* frees the barrier as soon as its own wait has returned.                  *)
EXTENDS Barrier

CONSTANTS u1, u2, x1, e1, e2

MCULT == {u1, u2}
MCEXT == {x1}
MCXSTREAM == {e1, e2}
MCFREER == {u1}
MCROUND == [t \in Thread |-> 1]
=============================================================================
