----------------------------- MODULE MCScheduler -----------------------------
(***************************************************************************)
(* Two ESs with a pool of their own and a shared one, or with two pools    *)
(* that both take from.                                                    *)
(***************************************************************************)
EXTENDS Scheduler

CONSTANTS u1, u2, u3, x1, e1, e2, p1, p2, q1,
          s1, s2, s3, s4, a1, a2, r1, r2, w1, w2

MCULT == {u1, u2, u3}
MCEXT == {x1}
MCXSTREAM == {e1, e2}
MCPOOL == {p1, p2, q1}
MCPRIV == {p2}
MCSCHED == {s1, s2, s3, s4, a1, a2, r1, r2, w1, w2}

MCKIND == [s \in SCHED |-> CASE s \in {a1, a2} -> "basic_wait"
                             [] s \in {r1, r2} -> "randws"
                             [] s \in {w1, w2} -> "ws"
                             [] OTHER -> "basic"]

MCPOOLS == [s \in SCHED |-> CASE s \in {s1, a1, r1, w1} -> <<p1, q1>>
                              [] s = s2 -> <<p2, q1>>
                              [] s \in {s3, a2} -> <<q1>>
                              [] s = s4 -> <<p1>>
                              [] s \in {r2, w2} -> <<q1, p1>>]

Op(op) == <<op, NULL>>

Programs(pu1, pu2, pu3, px) ==
    (u1 :> pu1) @@ (u2 :> pu2) @@ (u3 :> pu3) @@ (x1 :> px)

Setup(m1, m2, programs) ==
    [main : {(e1 :> m1) @@ (e2 :> m2)},
     home : {(u1 :> p1) @@ (u2 :> q1) @@ (u3 :> p1)},
     program : programs]

Joins == <<<<"join", e1>>, <<"join", e2>>>>

Resumes(o) == Programs(<<Op("suspend")>>, <<<<"resume", u1>>>>, <<o>>, Joins)

(* u1 suspends in the pool of e1 and is resumed by u2, of the shared pool, *)
(* while u3 yields or replaces the scheduler of e1; or u1 and u3 both      *)
(* replace it; or e2 is cancelled; or u2 migrates u3; or u1 joins e2.  The *)
(* external thread joins both ESs.  Other schedulers: u1 is resumed, or is *)
(* the primary ULT that joins e2 and finalizes.                            *)
MCSETUPS ==
    Setup(s1, s2,
        {Resumes(o) : o \in {Op("yield"), <<"replace", s3>>, <<"replace", s4>>}}
        \cup
        {Programs(<<<<"replace", s4>>>>, <<>>, <<<<"replace", s3>>>>, Joins),
         Programs(<<Op("suspend")>>, <<<<"resume", u1>>>>, <<>>, <<<<"cancel", e2>>>> \o Joins),
         Programs(<<>>, <<<<"migrate", <<u3, q1>>>>>>, <<Op("yield")>>, Joins),
         Programs(<<<<"join", e2>>>>, <<Op("yield")>>, <<>>, <<<<"join", e1>>>>)})
    \cup Setup(a1, a2, {Resumes(Op("yield"))})
    \cup Setup(r1, r2, {Resumes(Op("yield"))})
    \cup Setup(w1, w2,
        {Resumes(Op("yield")),
         Programs(<<Op("suspend"), <<"join", e2>>, <<"finalize", e1>>>>, <<<<"resume", u1>>>>,
                  <<Op("yield")>>, <<>>)})

(* Two ULTs of the pool of a basic_wait scheduler are suspended, and       *)
(* resumed while its ES is joined.                                         *)
MCBASICWAIT ==
    Setup(a1, a2, {Programs(<<Op("suspend")>>, <<<<"resume", u1>>, <<"resume", u3>>>>,
                            <<Op("suspend")>>, Joins)})
=============================================================================
