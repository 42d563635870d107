--------------------------- MODULE AbstractBarrier ---------------------------
(***************************************************************************)
(* What a barrier of NUM_WAITERS promises: threads stay inside until as    *)
(* many have entered, then exactly these may leave, while the next ones    *)
(* enter already.                                                          *)
(***************************************************************************)
EXTENDS Integers, FiniteSets

CONSTANTS Thread, NUM_WAITERS

VARIABLES
    inside,    \* the threads that wait for others to enter
    released   \* the threads that may leave

barrierVars == <<inside, released>>

Init == inside = {} /\ released = {}

Enter(t) ==
    /\ t \notin inside \cup released
    /\ IF Cardinality(inside) + 1 < NUM_WAITERS
       THEN inside' = inside \cup {t} /\ UNCHANGED released
       ELSE inside' = {} /\ released' = released \cup inside \cup {t}

Leave(t) ==
    /\ t \in released
    /\ released' = released \ {t}
    /\ UNCHANGED inside

Next == \E t \in Thread : Enter(t) \/ Leave(t)

Spec == Init /\ [][Next]_barrierVars
=============================================================================
