--------------------------- MODULE AbstractMutex ----------------------------
(***************************************************************************)
(* What a mutex promises: one owner at a time, who may own it more than    *)
(* once when the mutex is recursive, and only the owner gives it back.     *)
(***************************************************************************)
EXTENDS Integers

CONSTANTS Thread, NULL

VARIABLES
    owner,  \* the thread that owns the mutex, or NULL
    depth   \* how many times its owner has to unlock it

mutexVars == <<owner, depth>>

Init == owner = NULL /\ depth = 0

Acquire(t) == owner = NULL /\ owner' = t /\ depth' = 1

Reacquire(t) == owner = t /\ depth' = depth + 1 /\ UNCHANGED owner

Release(t) ==
    /\ owner = t
    /\ depth' = depth - 1
    /\ owner' = IF depth = 1 THEN NULL ELSE t

Next == \E t \in Thread : Acquire(t) \/ Reacquire(t) \/ Release(t)

Spec == Init /\ [][Next]_mutexVars
=============================================================================
