------------------------------- MODULE Barrier -------------------------------
(***************************************************************************)
(* ABTI_barrier: a counter of arrivals and a waiting list, both under one  *)
(* spinlock (lock, here p_lock).  The last of num_waiters arrivals wakes   *)
(* the list and resets the counter before it releases the lock, so that    *)
(* the barrier can be used again at once, or freed.                        *)
(***************************************************************************)
EXTENDS Waitlist

CONSTANTS
    NUM_WAITERS,  \* ABTI_barrier.num_waiters
    ROUND,        \* how many times each thread waits on the barrier
    FREER         \* the threads that free the barrier after their last wait

(* What this module relies on, for who uses it to assume.                  *)
BarrierConstants ==
    /\ NUM_WAITERS \in Nat \ {0}
    /\ ROUND \in [Thread -> Nat]
    /\ FREER \subseteq Thread

(* When the barrier may be freed after one's last wait: each wait is one   *)
(* of all the threads, so that nobody is to come any more, and there is no *)
(* other external thread, which could still be reading the futex.          *)
BarrierFreeUse ==
    /\ IsFiniteSet(Thread) /\ NUM_WAITERS = Cardinality(Thread)
    /\ \A t, u \in Thread : ROUND[t] = ROUND[u]
    /\ \A t \in FREER : EXT \subseteq {t}

VARIABLES
    counter,  \* ABTI_barrier.counter
    freed,    \* the structure was freed
    todo      \* waits each thread has left

barrierVars == <<counter, freed, todo>>

allVars == <<ythreadVars, waitlistVars, barrierVars>>

BarrierInit ==
    /\ YthreadInit("idle")
    /\ WaitlistInit
    /\ counter = 0
    /\ freed = FALSE
    /\ todo = ROUND

-----------------------------------------------------------------------------
(* ABT_barrier_wait.                                                       *)

BarrierWait(t) ==
    /\ todo[t] > 0
    /\ todo' = [todo EXCEPT ![t] = @ - 1]
    /\ SpinAcquire(t, "idle", "arrive")
    /\ UNCHANGED <<counter, freed>>

(* Not all the waiters yet: t waits, and its wait gives up the lock.       *)
ArriveWait(t) ==
    /\ At(t, "arrive")
    /\ counter + 1 < NUM_WAITERS
    /\ counter' = counter + 1
    /\ WaitAppend(t)
    /\ UNCHANGED <<freed, todo>>

(* Mutant of ArriveLast: the wait is over for one thread less.             *)
ArriveLastEarly(t) ==
    /\ At(t, "arrive")
    /\ counter + 2 >= NUM_WAITERS
    /\ counter' = counter + 1
    /\ GoTo(t, "broadcast")
    /\ UNCHANGED <<state, p_thread, pool, num_blocked, waitlistVars, freed, todo>>

(* The last one wakes the others...                                        *)
ArriveLast(t) ==
    /\ At(t, "arrive")
    /\ counter + 1 >= NUM_WAITERS
    /\ counter' = counter + 1
    /\ GoTo(t, "broadcast")
    /\ UNCHANGED <<state, p_thread, pool, num_blocked, waitlistVars, freed, todo>>

WakeWaiters(t) ==
    /\ Broadcast(t, "broadcast", "broadcast_dec", "reset")
    /\ UNCHANGED barrierVars

(* Mutant of ResetCounter: the lock is released before the reset.          *)
ResetCounterUnlocked(t) ==
    /\ At(t, "reset")
    /\ IF p_lock THEN p_lock' = FALSE /\ UNCHANGED <<pc, counter>>
                 ELSE counter' = 0 /\ GoTo(t, "unlock") /\ UNCHANGED p_lock
    /\ UNCHANGED <<state, p_thread, pool, num_blocked, waitlist, futex, freed, todo>>

(* Mutant of ResetCounter: the next group starts from the old count.       *)
ResetCounterForgotten(t) ==
    /\ At(t, "reset")
    /\ GoTo(t, "unlock")
    /\ UNCHANGED <<state, p_thread, pool, num_blocked, waitlistVars, barrierVars>>

(* ...resets the counter and releases the lock.                            *)
ResetCounter(t) ==
    /\ At(t, "reset")
    /\ counter' = 0
    /\ GoTo(t, "unlock")
    /\ UNCHANGED <<state, p_thread, pool, num_blocked, waitlistVars, freed, todo>>

LastUnlock(t) ==
    /\ SpinRelease(t, "unlock", "idle")
    /\ UNCHANGED barrierVars

(* Waiters return to their callers.                                        *)
Wait(t) ==
    /\ WaitStep(t, "idle")
    /\ UNCHANGED barrierVars

-----------------------------------------------------------------------------

(* Mutant of BarrierFree: the lock is not taken.                           *)
BarrierFreeUnlocked(t) ==
    /\ t \in FREER
    /\ todo[t] = 0
    /\ ~freed
    /\ At(t, "idle")
    /\ freed' = TRUE
    /\ UNCHANGED <<ythreadVars, waitlistVars, counter, todo>>

(* ABT_barrier_free, by a thread that has no wait left: the lock is taken, *)
(* and never released, to be sure that the last arrival has released it.   *)
BarrierFree(t) ==
    /\ t \in FREER
    /\ todo[t] = 0
    /\ ~freed
    /\ SpinAcquire(t, "idle", "idle")
    /\ freed' = TRUE
    /\ UNCHANGED <<counter, todo>>

ThreadExit(t) ==
    /\ At(t, "idle")
    /\ todo[t] = 0
    /\ t \in FREER => freed
    /\ Exit(t, "done")
    /\ UNCHANGED <<waitlistVars, barrierVars>>

BarrierStep(t) ==
    \/ BarrierWait(t) \/ ArriveWait(t) \/ ArriveLast(t) \/ WakeWaiters(t)
    \/ ResetCounter(t) \/ LastUnlock(t) \/ Wait(t)
    \/ BarrierFree(t) \/ ThreadExit(t)

BarrierSchedule(e) == Schedule(e) /\ UNCHANGED <<waitlistVars, barrierVars>>

BarrierDone ==
    /\ \A t \in Thread : pc[t] = "done"
    /\ UNCHANGED allVars

BarrierNext ==
    \/ \E t \in Thread : BarrierStep(t)
    \/ \E e \in XSTREAM : BarrierSchedule(e)
    \/ BarrierDone

BarrierSpec == BarrierInit /\ [][BarrierNext]_allVars

(* Every processor goes on executing the code it is in, and every          *)
(* scheduler that finds a unit pops it.                                    *)
BarrierFairness ==
    /\ \A t \in Thread : WF_allVars(BarrierStep(t))
    /\ \A e \in XSTREAM : WF_allVars(BarrierSchedule(e))

BarrierFairSpec == BarrierSpec /\ BarrierFairness

-----------------------------------------------------------------------------
(* Properties.                                                             *)

(* Points at which a thread holds the lock.                                *)
PLockPoint == WaitLockPoint \cup {"arrive", "broadcast", "broadcast_dec",
                                  "reset", "unlock"}

BarrierPoint == WaitPoint \cup PLockPoint \cup {"idle", "done"}

BarrierTypeOK ==
    /\ YthreadTypeOK(BarrierPoint)
    /\ WaitlistTypeOK
    /\ counter \in 0 .. NUM_WAITERS
    /\ freed \in BOOLEAN
    /\ todo \in [Thread -> Nat]

(* Whenever the lock is free the counter is the number of waiters on the   *)
(* list, fewer than num_waiters; the assertion at the entry of             *)
(* ABT_barrier_wait is its second half.                                    *)
ArrivalsCounted ==
    /\ BarrierTypeOK
    /\ ~p_lock \/ (\E t \in Thread : pc[t] = "arrive")
          => counter = Len(waitlist) /\ counter < NUM_WAITERS

(* Points at which a thread has yet to read or write the structure.  A ULT *)
(* that was resumed has not, an external thread still reads the futex.     *)
UsePoint == BarrierPoint \ {"idle", "waiting", "done"}

(* "The lock needs to be acquired to safely free the barrier structure"    *)
(* (barrier.c:153): once it was, nobody is about to use the structure.     *)
FreedBarrierUnused == freed => \A t \in Thread : pc[t] \notin UsePoint

(* The barrier implements AbstractBarrier: a thread is inside from its     *)
(* arrival to the arrival of the last of its group, and can leave only     *)
(* from then on, although the waiters are woken one by one and a woken one *)
(* may have arrived again meanwhile.                                       *)
Arrived == {t \in Thread : pc[t] \in WaitPoint}

Inside == IF counter = NUM_WAITERS THEN {} ELSE Waiters

Abstract == INSTANCE AbstractBarrier
                WITH inside <- Inside,
                     released <- (Arrived \ Inside)
                                 \cup {t \in Thread : pc[t] \in {"broadcast", "broadcast_dec",
                                                                 "reset", "unlock"}}

ImplementsAbstractBarrier == Abstract!Spec

(* Every thread returns from all its waits.                                *)
EveryWaiterFinishes == <>(\A t \in Thread : pc[t] = "done")
=============================================================================
