----------------------------- MODULE MCOneStream ------------------------------
(* One ES, a ULT and an external thread.                                     *)
EXTENDS Scheduler

CONSTANTS u1, x1, e1, p1, p2, s1

MCKIND == [s \in SCHED |-> "basic"]
MCPOOLS == [s \in SCHED |-> <<p1, p2>>]

Setup(pu, px) ==
    {[main |-> (e1 :> s1), home |-> (u1 :> p1), program |-> (u1 :> pu) @@ (x1 :> px)]}

(* u1 asks for its own migration to the other pool and suspends; the       *)
(* external thread resumes it and joins the ES.                            *)
MCMIGRATION == Setup(<<<<"migrate", <<u1, p2>>>>, <<"suspend", NULL>>>>,
                     <<<<"resume", u1>>, <<"join", e1>>>>)
=============================================================================
