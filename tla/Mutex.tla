-------------------------------- MODULE Mutex --------------------------------
(***************************************************************************)
(* ABTI_mutex: a spinlock "lock" that is the mutex, and a waiting list     *)
(* with a spinlock of its own (waiter_lock, here p_lock).  A thread that   *)
(* fails to take lock joins the list; unlock wakes the whole list, and     *)
(* everybody tries again.  A recursive mutex adds owner_id, which threads  *)
(* read without any lock, and nesting_cnt.                                 *)
(*                                                                         *)
(* The clients take the mutex a bounded number of times with any of lock,  *)
(* trylock and spinlock, may lock it again while they own it, and may      *)
(* yield in the critical section.                                          *)
(***************************************************************************)
EXTENDS Waitlist

CONSTANTS
    SPINNER,    \* threads that may call ABT_mutex_spinlock
    ROUND,      \* how many times each thread takes the mutex
    MAXNEST     \* bound on nesting_cnt

(* A ULT that spins keeps its ES: one ES must be left for the owner.       *)
ASSUME MutexAssumption ==
    /\ ROUND \in [Thread -> Nat]
    /\ MAXNEST \in Nat
    /\ SPINNER \subseteq Thread

VARIABLES
    recursive,   \* attrs has ABTI_MUTEX_ATTR_RECURSIVE
    lock,        \* the spinlock that is the mutex
    owner_id,    \* owner of a recursive mutex; NULL for 0
    nesting_cnt,
    todo         \* rounds each thread has left

mutexVars == <<recursive, lock, owner_id, nesting_cnt, todo>>

vars == <<ythreadVars, waitlistVars, mutexVars>>

MutexInit ==
    /\ YthreadInit("idle")
    /\ WaitlistInit
    /\ recursive \in BOOLEAN
    /\ lock = FALSE
    /\ owner_id = NULL
    /\ nesting_cnt = 0
    /\ todo = ROUND

-----------------------------------------------------------------------------

(* t starts one of its rounds.                                             *)
TakeRound(t) == todo[t] > 0 /\ todo' = [todo EXCEPT ![t] = @ - 1]

(* ABTD_spinlock_try_acquire(lock) succeeds.                               *)
TryAcquire(t, from, next) ==
    /\ At(t, from)
    /\ ~lock
    /\ lock' = TRUE
    /\ GoTo(t, next)
    /\ UNCHANGED <<state, p_thread, pool, num_blocked, waitlistVars,
                   recursive, owner_id, nesting_cnt>>

(* ABTI_mutex_lock, by a thread that owner_id does not name.               *)
LockCall(t) ==
    /\ At(t, "idle")
    /\ ~(recursive /\ owner_id = t)
    /\ GoTo(t, "lock_try")
    /\ TakeRound(t)
    /\ UNCHANGED <<state, p_thread, pool, num_blocked, waitlistVars,
                   recursive, lock, owner_id, nesting_cnt>>

(* Mutant of LockTry: the load and the store of lock are not one atomic    *)
(* operation: a thread that saw it free takes it later.                    *)
LockTryNotAtomic(t) ==
    \/ /\ At(t, "lock_try")
       /\ GoTo(t, IF lock THEN "lock_wait" ELSE "own")
       /\ UNCHANGED <<state, p_thread, pool, num_blocked, waitlistVars, mutexVars>>
    \/ /\ At(t, "own")
       /\ ~lock
       /\ lock' = TRUE
       /\ UNCHANGED <<ythreadVars, waitlistVars, recursive, owner_id, nesting_cnt, todo>>

(* The first test-and-set of ABTI_mutex_lock_no_recursion.                 *)
LockTry(t) ==
    \/ TryAcquire(t, "lock_try", "own") /\ UNCHANGED todo
    \/ /\ At(t, "lock_try")
       /\ lock
       /\ GoTo(t, "lock_wait")
       /\ UNCHANGED <<state, p_thread, pool, num_blocked, waitlistVars, mutexVars>>

LockWaiterLock(t) ==
    /\ SpinAcquire(t, "lock_wait", "lock_retry")
    /\ UNCHANGED mutexVars

(* Mutant of LockRetry: the thread waits without a second test-and-set.    *)
LockRetryBlind(t) ==
    /\ At(t, "lock_retry")
    /\ WaitAppend(t)
    /\ UNCHANGED mutexVars

(* The second test-and-set, with waiter_lock held: success leaves the loop *)
(* after releasing waiter_lock, failure waits.                             *)
LockRetry(t) ==
    \/ TryAcquire(t, "lock_retry", "lock_got") /\ UNCHANGED todo
    \/ /\ At(t, "lock_retry")
       /\ lock
       /\ WaitAppend(t)
       /\ UNCHANGED mutexVars

LockGot(t) ==
    /\ SpinRelease(t, "lock_got", "own")
    /\ UNCHANGED mutexVars

(* The wait is over: the loop tries again.                                 *)
LockWait(t) ==
    /\ WaitStep(t, "lock_try")
    /\ UNCHANGED mutexVars

(* lock has been taken: a recursive mutex records its owner.               *)
Own(t) ==
    /\ At(t, "own")
    /\ owner_id' = IF recursive THEN t ELSE owner_id
    /\ GoTo(t, "critical")
    /\ UNCHANGED <<state, p_thread, pool, num_blocked, waitlistVars,
                   recursive, lock, nesting_cnt, todo>>

(* lock, trylock or spinlock of a recursive mutex by a thread that         *)
(* owner_id names: it is taken for the owner and enters.                   *)
LockNested(t) ==
    /\ Running(t) /\ pc[t] \in {"idle", "critical"}
    /\ recursive /\ owner_id = t
    /\ nesting_cnt < MAXNEST
    /\ nesting_cnt' = nesting_cnt + 1
    /\ GoTo(t, "critical")
    /\ UNCHANGED <<state, p_thread, pool, num_blocked, waitlistVars,
                   recursive, lock, owner_id, todo>>

(* ABTI_mutex_trylock: one test-and-set; ABT_ERR_MUTEX_LOCKED uses up a    *)
(* round.                                                                  *)
TryLock(t) ==
    /\ ~(recursive /\ owner_id = t)
    /\ TakeRound(t)
    /\ \/ TryAcquire(t, "idle", "own")
       \/ /\ At(t, "idle")
          /\ lock
          /\ UNCHANGED <<ythreadVars, waitlistVars, recursive, lock, owner_id,
                         nesting_cnt>>

(* ABTI_mutex_spinlock: the caller spins on its processor until it has it. *)
SpinLockCall(t) ==
    /\ t \in SPINNER
    /\ At(t, "idle")
    /\ ~(recursive /\ owner_id = t)
    /\ GoTo(t, "spin")
    /\ TakeRound(t)
    /\ UNCHANGED <<state, p_thread, pool, num_blocked, waitlistVars,
                   recursive, lock, owner_id, nesting_cnt>>

SpinLock(t) == TryAcquire(t, "spin", "own") /\ UNCHANGED todo

(* The owner yields in its critical section, once.                         *)
CriticalYield(t) ==
    /\ At(t, "critical")
    /\ Yield(t, "leaving")
    /\ UNCHANGED <<waitlistVars, mutexVars>>

(* ABTI_mutex_unlock: a nested lock is undone...                           *)
UnlockNested(t) ==
    /\ Running(t) /\ pc[t] \in {"critical", "leaving"}
    /\ recursive /\ nesting_cnt > 0
    /\ nesting_cnt' = nesting_cnt - 1
    /\ GoTo(t, "leaving")
    /\ UNCHANGED <<state, p_thread, pool, num_blocked, waitlistVars,
                   recursive, lock, owner_id, todo>>

(* Mutant of UnlockCall: owner_id goes on naming the thread.               *)
UnlockCallKeepsOwner(t) ==
    /\ Running(t) /\ pc[t] \in {"critical", "leaving"}
    /\ ~(recursive /\ nesting_cnt > 0)
    /\ GoTo(t, "unlock")
    /\ UNCHANGED <<state, p_thread, pool, num_blocked, waitlistVars, mutexVars>>

(* ...or the owner is forgotten before the mutex is released.              *)
UnlockCall(t) ==
    /\ Running(t) /\ pc[t] \in {"critical", "leaving"}
    /\ ~(recursive /\ nesting_cnt > 0)
    /\ owner_id' = IF recursive THEN NULL ELSE owner_id
    /\ GoTo(t, "unlock")
    /\ UNCHANGED <<state, p_thread, pool, num_blocked, waitlistVars,
                   recursive, lock, nesting_cnt, todo>>

(* ABTI_mutex_unlock_no_recursion: waiter_lock first, then lock is         *)
(* released and the list woken under it.                                   *)
UnlockWaiterLock(t) ==
    /\ SpinAcquire(t, "unlock", "unlock_release")
    /\ UNCHANGED mutexVars

UnlockRelease(t) ==
    /\ At(t, "unlock_release")
    /\ lock' = FALSE
    /\ GoTo(t, "broadcast")
    /\ UNCHANGED <<state, p_thread, pool, num_blocked, waitlistVars,
                   recursive, owner_id, nesting_cnt, todo>>

UnlockBroadcast(t) ==
    /\ Broadcast(t, "broadcast", "broadcast_dec", "unlock_end")
    /\ UNCHANGED mutexVars

UnlockEnd(t) ==
    /\ SpinRelease(t, "unlock_end", "idle")
    /\ UNCHANGED mutexVars

ThreadExit(t) ==
    /\ At(t, "idle")
    /\ todo[t] = 0
    /\ Exit(t, "done")
    /\ UNCHANGED <<waitlistVars, mutexVars>>

-----------------------------------------------------------------------------

MutexStep(t) ==
    \/ LockCall(t) \/ LockTry(t) \/ LockWaiterLock(t) \/ LockRetry(t)
    \/ LockGot(t) \/ LockWait(t) \/ Own(t) \/ LockNested(t)
    \/ TryLock(t) \/ SpinLockCall(t) \/ SpinLock(t)
    \/ CriticalYield(t) \/ UnlockNested(t) \/ UnlockCall(t)
    \/ UnlockWaiterLock(t) \/ UnlockRelease(t) \/ UnlockBroadcast(t)
    \/ UnlockEnd(t) \/ ThreadExit(t)

MutexSchedule(e) == Schedule(e) /\ UNCHANGED <<waitlistVars, mutexVars>>

(* All clients have finished; the schedulers go on polling the pool.       *)
AllDone ==
    /\ \A t \in Thread : pc[t] = "done"
    /\ UNCHANGED vars

MutexNext ==
    \/ \E t \in Thread : MutexStep(t)
    \/ \E e \in XSTREAM : MutexSchedule(e)
    \/ AllDone

MutexSpec == MutexInit /\ [][MutexNext]_vars

(* Every processor goes on executing the code it is in, and every          *)
(* scheduler that finds a unit pops it.                                    *)
MutexFairness ==
    /\ \A t \in Thread : WF_vars(MutexStep(t))
    /\ \A e \in XSTREAM : WF_vars(MutexSchedule(e))

MutexFairSpec == MutexSpec /\ MutexFairness

-----------------------------------------------------------------------------
(* Properties.                                                             *)

(* Points at which a thread has lock, resp. p_lock.                        *)
OwnPoint == {"lock_got", "own", "critical", "leaving", "unlock", "unlock_release"}

PLockPoint == WaitLockPoint \cup {"lock_retry", "lock_got", "unlock_release",
                                  "broadcast", "broadcast_dec", "unlock_end"}

Point == OwnPoint \cup PLockPoint \cup WaitPoint
            \cup {"idle", "lock_try", "lock_wait", "spin", "done"}

(* Types of all variables.                                                 *)
TypeOK ==
    /\ YthreadTypeOK(Point)
    /\ WaitlistTypeOK
    /\ recursive \in BOOLEAN
    /\ lock \in BOOLEAN
    /\ owner_id \in Thread \cup {NULL}
    /\ nesting_cnt \in 0 .. MAXNEST
    /\ todo \in [Thread -> Nat]

(* At most one thread owns the mutex, and lock says so: no interleaving of *)
(* the two test-and-sets of lock, of trylock and of spinlock lets a second *)
(* thread in, nor leaves lock set when nobody owns it.                     *)
MutualExclusion ==
    /\ \A t, u \in Thread : pc[t] \in OwnPoint /\ pc[u] \in OwnPoint => t = u
    /\ lock <=> \E t \in Thread : pc[t] \in OwnPoint

(* A thread waits only while somebody owns the mutex, or while the         *)
(* unlocking thread still holds waiter_lock to wake the list: the second   *)
(* test-and-set closes the window in which an unlock would miss a waiter.  *)
NoLostWakeup == waitlist # <<>> /\ ~p_lock => lock

(* The waiters of the list are BLOCKED when unlock resumes them.           *)
ResumesBlockedWaiters == ResumesBlocked("broadcast")

(* num_blocked is exact up to the wakers that have yet to decrease it.     *)
BlockedUltsCounted == TypeOK /\ BlockedCounted("broadcast_dec")

(* The mutex implements AbstractMutex: nesting_cnt and owner_id, read and  *)
(* written outside every spinlock, agree with who owns the mutex, and only *)
(* its owner releases it.                                                  *)
Owner ==
    IF \E t \in Thread : pc[t] \in OwnPoint
    THEN CHOOSE t \in Thread : pc[t] \in OwnPoint
    ELSE NULL

Abstract == INSTANCE AbstractMutex
                WITH owner <- Owner,
                     depth <- IF Owner = NULL THEN 0 ELSE nesting_cnt + 1

ImplementsAbstractMutex == Abstract!Spec

(* Every client gets the mutex as often as it wants: no waiter sleeps for  *)
(* ever, on its ES or on the futex, while the others go on.                *)
EveryThreadFinishes == <>(\A t \in Thread : pc[t] = "done")
=============================================================================
