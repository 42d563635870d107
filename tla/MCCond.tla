------------------------------- MODULE MCCond --------------------------------
(* Two ULTs on two ESs and two external threads.  Plain and timed consumers *)
(* of either kind meet producers that signal or broadcast; or a timed wait  *)
(* with another mutex.                                                      *)
EXTENDS Cond

CONSTANTS u1, u2, x1, x2, d1, d2, e1, e2, m1, m2

MCULT == {u1, u2}
MCEXT == {x1, x2, d1, d2}
MCXSTREAM == {e1, e2}
MCMUTEX == {m1, m2}
MCDUMMY == [u \in ULT |-> IF u = u1 THEN d1 ELSE d2]

Do(op) == <<op, m1>>

Programs(p1, p2, px1, px2) == [t \in {u1, u2, x1, x2} |->
    CASE t = u1 -> p1 [] t = u2 -> p2 [] t = x1 -> px1 [] t = x2 -> px2]

MCPROGRAMS ==
    {Programs(<<Do("wait")>>, <<Do("timedwait")>>, <<Do("wait")>>,
              <<Do("signal"), Do("broadcast"), Do("signal")>>),
     Programs(<<Do("wait")>>, <<Do("signal"), Do("signal")>>, <<Do("timedwait")>>, <<>>),
     Programs(<<Do("timedwait")>>, <<Do("signal")>>, <<<<"timedwait", m2>>>>, <<>>)}
=============================================================================
