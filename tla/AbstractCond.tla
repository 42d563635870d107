---------------------------- MODULE AbstractCond -----------------------------
(***************************************************************************)
(* What a condition variable promises to threads that hold a mutex: giving *)
(* the mutex up and starting to wait is one step, a wait ends because of a *)
(* signal or a broadcast made since, or of its timeout, never of nothing,  *)
(* a signal is never spent on a thread that reports a timeout, and the     *)
(* mutex is owned again when the wait returns.                             *)
(***************************************************************************)
CONSTANTS Thread, MUTEX, NULL

VARIABLES
    owner,    \* the thread that owns each mutex, or NULL
    waiting,  \* pairs of a thread that waits and the mutex it gave up
    woken,    \* pairs of waiters that were signaled and want the mutex back
    expired   \* pairs of waiters that timed out and want the mutex back

condVars == <<owner, waiting, woken, expired>>

Init ==
    /\ owner = [m \in MUTEX |-> NULL]
    /\ waiting = {} /\ woken = {} /\ expired = {}

Take(t, m) == owner[m] = NULL /\ owner' = [owner EXCEPT ![m] = t]

Give(t, m) == owner[m] = t /\ owner' = [owner EXCEPT ![m] = NULL]

Lock(t, m) == Take(t, m) /\ UNCHANGED <<waiting, woken, expired>>

Unlock(t, m) == Give(t, m) /\ UNCHANGED <<waiting, woken, expired>>

Wait(t, m) ==
    /\ Give(t, m)
    /\ waiting' = waiting \cup {<<t, m>>}
    /\ UNCHANGED <<woken, expired>>

Signal ==
    \E w \in waiting :
        /\ waiting' = waiting \ {w}
        /\ woken' = woken \cup {w}
        /\ UNCHANGED <<owner, expired>>

Broadcast ==
    /\ waiting' = {}
    /\ woken' = woken \cup waiting
    /\ UNCHANGED <<owner, expired>>

Expire(w) ==
    /\ w \in waiting
    /\ waiting' = waiting \ {w}
    /\ expired' = expired \cup {w}
    /\ UNCHANGED <<owner, woken>>

Return(t, m) ==
    /\ <<t, m>> \in woken \cup expired
    /\ Take(t, m)
    /\ woken' = woken \ {<<t, m>>}
    /\ expired' = expired \ {<<t, m>>}
    /\ UNCHANGED waiting

Next ==
    \/ \E t \in Thread, m \in MUTEX :
          Lock(t, m) \/ Unlock(t, m) \/ Wait(t, m) \/ Return(t, m) \/ Expire(<<t, m>>)
    \/ Signal \/ Broadcast

Spec == Init /\ [][Next]_condVars
=============================================================================
