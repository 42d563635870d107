------------------------------ MODULE MCMutex -------------------------------
(* Two ULTs on two ESs and an external thread take, twice each, a recursive *)
(* or a non-recursive mutex; the external thread may spin.                  *)
EXTENDS Mutex

CONSTANTS u1, u2, x1, e1, e2

MCULT == {u1, u2}
MCEXT == {x1}
MCXSTREAM == {e1, e2}
MCSPINNER == {x1}
MCROUND == [t \in Thread |-> 2]
=============================================================================
