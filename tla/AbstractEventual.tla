-------------------------- MODULE AbstractEventual ---------------------------
(***************************************************************************)
(* What an eventual or a future promises: it is ready once it was set size *)
(* times, a wait returns and a test succeeds only then, the callback of a  *)
(* future has been called by then, once, and it is reset and freed only    *)
(* while nobody waits.                                                     *)
(***************************************************************************)
EXTENDS Naturals

CONSTANT Thread

VARIABLES
    size,      \* how often it must be set
    callback,  \* it has a callback
    count,     \* how often it was set
    called,    \* the callback was called
    waiting,   \* threads that wait
    released,  \* threads whose wait is over
    result,    \* what the last test of each thread said
    using,     \* threads that access the structure
    freed      \* the structure was freed

eventualVars == <<size, callback, count, called, waiting, released, result, using, freed>>

Ready == count = size

Init ==
    /\ size \in Nat \ {0}
    /\ callback \in BOOLEAN
    /\ count = 0
    /\ called = FALSE
    /\ waiting = {} /\ released = {}
    /\ result = [t \in Thread |-> FALSE]
    /\ using = {}
    /\ freed = FALSE

Use == UNCHANGED <<size, callback, count, called, waiting, released, result, freed>>

Wait(t) ==
    /\ t \notin waiting \cup released
    /\ IF Ready THEN released' = released \cup {t} /\ UNCHANGED waiting
                ELSE waiting' = waiting \cup {t} /\ UNCHANGED released
    /\ UNCHANGED <<size, callback, count, called, result, freed>>

Test(t) ==
    /\ result' = [result EXCEPT ![t] = Ready]
    /\ UNCHANGED <<size, callback, count, called, waiting, released, freed>>

Callback ==
    /\ count = size - 1
    /\ callback /\ ~called
    /\ called' = TRUE
    /\ UNCHANGED <<size, callback, count, waiting, released, result, freed>>

(* The last set releases all the threads that wait.                        *)
Set ==
    /\ count < size
    /\ count' = count + 1
    /\ \/ /\ count' < size
          /\ UNCHANGED <<waiting, released>>
       \/ /\ count' = size
          /\ callback => called
          /\ waiting' = {}
          /\ released' = released \cup waiting
    /\ UNCHANGED <<size, callback, called, result, freed>>

Reset ==
    /\ waiting = {}
    /\ count' = 0
    /\ called' = FALSE
    /\ UNCHANGED <<size, callback, waiting, released, result, freed>>

Free ==
    /\ waiting = {}
    /\ freed' = TRUE
    /\ using' = {}
    /\ UNCHANGED <<size, callback, count, called, waiting, released, result>>

(* A wait that was released returns, now or when there is nothing left.    *)
Return(t) ==
    /\ t \in released
    /\ released' = released \ {t}
    /\ freed => using' = {}
    /\ UNCHANGED <<size, callback, count, called, waiting, result, freed>>

Next ==
    \/ \E t \in Thread : Return(t)
    \/ /\ ~freed
       /\ \/ Use \/ Callback \/ Set \/ Reset \/ Free
          \/ \E t \in Thread : Wait(t) \/ Test(t)

Spec == Init /\ [][Next]_eventualVars
=============================================================================
