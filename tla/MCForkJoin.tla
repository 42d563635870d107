----------------------------- MODULE MCForkJoin ------------------------------
(* A small instance of every component of ForkJoin.  The barrier of ESs is  *)
(* used three times, by which its tag wraps around.                        *)
EXTENDS ForkJoin

CONSTANTS u1, u2, k1, x1, e1, e2, pool1, pool2

(* Two ULTs on two ESs and an external thread, which frees the barrier,    *)
(* meet twice at a barrier.                                                *)
MCULT == {u1, u2}
MCEXT == {x1}
MCXSTREAM == {e1, e2}
MCROUND == [t \in Thread |-> 2]

(* A tasklet with them.  The external thread joins u2, which joins u1 and  *)
(* the tasklet; it may cancel either ULT first, and revives and joins u2   *)
(* again; the tasklet may be the joiner of u1.                             *)
MCUNIT == {u1, u2, k1}
MCTASKLET == {k1}

yield == <<"yield", NULL>>

Programs(p1, p2, pk, px) == [t \in Joinable |->
    CASE t = u1 -> p1 [] t = u2 -> p2 [] t = k1 -> pk [] t = x1 -> px]

MCPROGRAMS ==
    {Programs(<<yield>>, <<<<"join", u1>>, <<"join", k1>>>>, <<>>, px) :
        px \in {<<<<"cancel", u>>, <<"join", u2>>>> : u \in {u1, u2}}
               \cup {<<<<"join", u2>>, <<"revive", u2>>, <<"join", u2>>>>}}
    \cup {Programs(<<yield>>, <<yield>>, <<<<"join", u1>>>>, <<<<"join", u2>>, <<"join", k1>>>>)}

(* Three threads on two ESs, slices of different lengths.  conj_grad runs  *)
(* only where every pool has one ES, which takes its ULTs in order.  The   *)
(* five threads of the reduction make three levels of it, with a thread    *)
(* without a partner in the first two, and a last slice longer than the    *)
(* others.                                                                 *)
MCJOBS ==
    {"default"} \X {"makea", "conj_grad", "norms", "jac3d"}
    \cup {"ws", "cost_aware"} \X {"makea", "norms", "jac3d"}

(* Two ESs create, move and free two threads.  The first two of the three  *)
(* units that two user-defined pools can create have the same index.       *)
MCUSERPOOL == {pool1, pool2}
MCUNITID == 1 .. 3
MCHash == <<0, 0, 1>>
MCMOVES == [e \in XSTREAM |-> 2]
=============================================================================
