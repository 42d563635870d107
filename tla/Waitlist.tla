------------------------------ MODULE Waitlist -------------------------------
(***************************************************************************)
(* ABTI_waitlist: the threads that wait on a synchronisation object, with  *)
(* the futex its external threads sleep on.  Whoever touches the list      *)
(* holds p_lock, the spinlock of the object.  A waiting ULT suspends, and  *)
(* its ES gives p_lock up only after the ULT was marked BLOCKED; a waiting *)
(* external thread spins on the state of a dummy thread, asleep in between.*)
(*                                                                         *)
(* The points of a waiting thread are "suspend", "suspend_unlock" and      *)
(* "waiting" (ULT), "ext_check", "ext_futex" and "ext_relock" (EXT).       *)
(***************************************************************************)
EXTENDS Ythread

VARIABLES
    p_lock,    \* the spinlock of the object is taken
    waitlist,  \* p_head ... p_tail
    futex      \* the external threads that read the current value of futex

waitlistVars == <<p_lock, waitlist, futex>>

WaitPoint == {"suspend", "suspend_unlock", "waiting",
              "ext_check", "ext_futex", "ext_relock"}

(* Points of a waiting thread that holds p_lock.                           *)
WaitLockPoint == {"suspend", "suspend_unlock", "ext_check"}

Waiters == Range(waitlist)

WaitlistTypeOK ==
    /\ p_lock \in BOOLEAN
    /\ waitlist \in Seq(Thread)
    /\ futex \in SUBSET Thread

WaitlistInit == p_lock = FALSE /\ waitlist = <<>> /\ futex = {}

-----------------------------------------------------------------------------
(* ABTD_spinlock_acquire(p_lock) and ABTD_spinlock_release(p_lock).        *)

SpinAcquire(t, from, next) ==
    /\ At(t, from)
    /\ ~p_lock
    /\ p_lock' = TRUE
    /\ GoTo(t, next)
    /\ UNCHANGED <<state, p_thread, pool, num_blocked, waitlist, futex>>

SpinRelease(t, from, next) ==
    /\ At(t, from)
    /\ p_lock' = FALSE
    /\ GoTo(t, next)
    /\ UNCHANGED <<state, p_thread, pool, num_blocked, waitlist, futex>>

-----------------------------------------------------------------------------
(* ABTI_waitlist_wait_and_unlock.                                          *)

(* t, which holds p_lock, appends itself; an external thread appends a     *)
(* dummy whose state it sets to BLOCKED.                                   *)
WaitAppend(t) ==
    /\ waitlist' = Append(waitlist, t)
    /\ \/ /\ t \in ULT
          /\ GoTo(t, "suspend")
          /\ UNCHANGED state
       \/ /\ t \in EXT
          /\ GoTo(t, "ext_check")
          /\ state' = [state EXCEPT ![t] = "BLOCKED"]
    /\ UNCHANGED <<p_thread, pool, num_blocked, p_lock, futex>>

(* Mutant of SuspendBlock: p_lock is given up before the BLOCKED state.    *)
SuspendBlockUnlocked(t) ==
    /\ At(t, "suspend")
    /\ IF p_lock THEN p_lock' = FALSE /\ UNCHANGED ythreadVars
                  ELSE CallbackBlock(t, "suspend_unlock") /\ UNCHANGED p_lock
    /\ UNCHANGED <<waitlist, futex>>

(* ABTI_ythread_callback_suspend_unlock, up to the BLOCKED state.          *)
SuspendBlock(t) ==
    /\ At(t, "suspend")
    /\ CallbackBlock(t, "suspend_unlock")
    /\ UNCHANGED waitlistVars

(* The rest of it: p_lock is released, the ES is back in its scheduler.    *)
SuspendUnlock(t) ==
    /\ At(t, "suspend_unlock")
    /\ p_lock' = FALSE
    /\ GoTo(t, "waiting")
    /\ SwitchToParent(t)
    /\ UNCHANGED <<state, pool, num_blocked, waitlist, futex>>

(* ULT t was resumed and runs again: the wait returns.                     *)
WaitResumed(t, next) ==
    /\ At(t, "waiting")
    /\ GoTo(t, next)
    /\ UNCHANGED <<state, p_thread, pool, num_blocked, waitlistVars>>

(* The loop of an external thread, entered with p_lock: it returns when    *)
(* its dummy is READY...                                                   *)
ExtReady(t, next) ==
    /\ At(t, "ext_check")
    /\ state[t] = "READY"
    /\ SpinRelease(t, "ext_check", next)

(* ...or reads the value of the futex, releases p_lock and sleeps...       *)
ExtFutexWait(t) ==
    /\ At(t, "ext_check")
    /\ state[t] # "READY"
    /\ futex' = futex \cup {t}
    /\ p_lock' = FALSE
    /\ GoTo(t, "ext_futex")
    /\ UNCHANGED <<state, p_thread, pool, num_blocked, waitlist>>

(* ...until the value of the futex has changed, and checks its dummy...    *)
ExtFutexWake(t, next) ==
    /\ At(t, "ext_futex")
    /\ t \notin futex
    /\ GoTo(t, IF state[t] = "READY" THEN next ELSE "ext_relock")
    /\ UNCHANGED <<state, p_thread, pool, num_blocked, waitlistVars>>

(* ...and takes p_lock to loop when another waiter was meant.              *)
ExtRelock(t) == SpinAcquire(t, "ext_relock", "ext_check")

(* Everything a thread that waits does; next is where the wait returns to. *)
WaitStep(t, next) ==
    \/ SuspendBlock(t)
    \/ SuspendUnlock(t)
    \/ WaitResumed(t, next)
    \/ ExtReady(t, next)
    \/ ExtFutexWait(t)
    \/ ExtFutexWake(t, next)
    \/ ExtRelock(t)

-----------------------------------------------------------------------------
(* Wake-ups, by a thread that holds p_lock.  The assertion of              *)
(* ABTI_ythread_resume_and_push that the ULT is BLOCKED is the invariant   *)
(* WaitersBlocked below, not a guard.                                      *)

(* Mutant of BroadcastOne: p_head is not advanced past a ULT that has a    *)
(* successor.                                                              *)
BroadcastOneKeepsHead(t, from, dec) ==
    /\ At(t, from)
    /\ waitlist # <<>>
    /\ waitlist' = IF Len(waitlist) > 1 THEN waitlist ELSE <<>>
    /\ LET u == Head(waitlist) IN
         \/ u \in ULT /\ ResumePush(t, u, dec)
         \/ /\ u \in EXT
            /\ state' = [state EXCEPT ![u] = "READY"]
            /\ UNCHANGED <<pc, p_thread, pool, num_blocked>>
    /\ UNCHANGED <<p_lock, futex>>

(* One turn of the loop of ABTI_waitlist_broadcast: a ULT is pushed to the *)
(* pool (the pool's count follows at point dec), a dummy is made READY.    *)
BroadcastOne(t, from, dec) ==
    /\ At(t, from)
    /\ waitlist # <<>>
    /\ waitlist' = Tail(waitlist)
    /\ LET u == Head(waitlist) IN
         \/ u \in ULT /\ ResumePush(t, u, dec)
         \/ /\ u \in EXT
            /\ state' = [state EXCEPT ![u] = "READY"]
            /\ UNCHANGED <<pc, p_thread, pool, num_blocked>>
    /\ UNCHANGED <<p_lock, futex>>

BroadcastDec(t, dec, from) ==
    /\ At(t, dec)
    /\ ResumeDecNumBlocked(t, from)
    /\ UNCHANGED waitlistVars

(* Mutant of BroadcastEnd: the sleeping external threads are not woken.    *)
BroadcastEndNoFutex(t, from, next) ==
    /\ At(t, from)
    /\ waitlist = <<>>
    /\ GoTo(t, next)
    /\ UNCHANGED <<state, p_thread, pool, num_blocked, waitlistVars>>

(* The end of the loop.  futex is empty already when no dummy was woken.   *)
BroadcastEnd(t, from, next) ==
    /\ At(t, from)
    /\ waitlist = <<>>
    /\ futex' = {}
    /\ GoTo(t, next)
    /\ UNCHANGED <<state, p_thread, pool, num_blocked, p_lock, waitlist>>

Broadcast(t, from, dec, next) ==
    \/ BroadcastOne(t, from, dec)
    \/ BroadcastDec(t, dec, from)
    \/ BroadcastEnd(t, from, next)

(* ABTI_waitlist_signal.  The futex cannot wake one external thread, so    *)
(* all wake up and the ones that are not READY wait again.                 *)
SignalNone(t, from, next) ==
    /\ At(t, from)
    /\ waitlist = <<>>
    /\ GoTo(t, next)
    /\ UNCHANGED <<state, p_thread, pool, num_blocked, waitlistVars>>

(* Mutant of SignalOne: the sleeping external threads are not woken.       *)
SignalOneNoFutex(t, from, dec, next) ==
    /\ At(t, from)
    /\ waitlist # <<>>
    /\ waitlist' = Tail(waitlist)
    /\ LET u == Head(waitlist) IN
         \/ u \in ULT /\ ResumePush(t, u, dec) /\ UNCHANGED futex
         \/ /\ u \in EXT
            /\ state' = [state EXCEPT ![u] = "READY"]
            /\ GoTo(t, next)
            /\ UNCHANGED <<futex, p_thread, pool, num_blocked>>
    /\ UNCHANGED p_lock

(* The head of the list is woken.                                          *)
SignalOne(t, from, dec, next) ==
    /\ At(t, from)
    /\ waitlist # <<>>
    /\ waitlist' = Tail(waitlist)
    /\ LET u == Head(waitlist) IN
         \/ u \in ULT /\ ResumePush(t, u, dec) /\ UNCHANGED futex
         \/ /\ u \in EXT
            /\ state' = [state EXCEPT ![u] = "READY"]
            /\ futex' = {}
            /\ GoTo(t, next)
            /\ UNCHANGED <<p_thread, pool, num_blocked>>
    /\ UNCHANGED p_lock

Signal(t, from, dec, next) ==
    \/ SignalNone(t, from, next)
    \/ SignalOne(t, from, dec, next)
    \/ BroadcastDec(t, dec, next)

-----------------------------------------------------------------------------
(* Properties shared by the objects built on a waiting list.               *)

(* The assertion of ABTI_ythread_resume_and_push, for every thread at the  *)
(* point where it wakes the head of the list: the waiter is BLOCKED, so    *)
(* its context was saved before it is pushed.                              *)
ResumesBlocked(from) ==
    \A t \in Thread : pc[t] = from /\ waitlist # <<>>
                         => state[Head(waitlist)] = "BLOCKED"

(* A ULT is in one place only: once in the pool, or on one ES, or BLOCKED  *)
(* on the waiting list, or TERMINATED.  A waiter pushed twice, or one that *)
(* left the list without being pushed, violates it.                        *)
UltInOnePlace ==
    /\ IsInjective(pool)
    /\ \A d, e \in XSTREAM : p_thread[d] = p_thread[e] /\ p_thread[d] # NULL => d = e
    /\ \A u \in Range(pool) : state[u] = "READY" /\ u \notin OnXstream \cup Waiters
    /\ \A u \in OnXstream : state[u] \in {"RUNNING", "BLOCKED"}
    /\ \A u \in (Waiters \cap ULT) \ OnXstream : state[u] = "BLOCKED" /\ pc[u] = "waiting"
    /\ \A u \in ULT \ (Range(pool) \cup OnXstream \cup Waiters) : state[u] = "TERMINATED"

(* num_blocked counts the BLOCKED ULTs and the ones that were pushed back  *)
(* before their waker got to decrease it (point dec): a pool with a ULT to *)
(* come back never looks empty, even between the push and the decrement.   *)
BlockedCounted(dec) ==
    num_blocked = Cardinality({u \in ULT : state[u] = "BLOCKED"})
                + Cardinality({t \in Thread : pc[t] = dec})

=============================================================================
