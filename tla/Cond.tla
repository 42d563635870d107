-------------------------------- MODULE Cond ---------------------------------
(***************************************************************************)
(* ABTI_cond: a waiting list under a spinlock (lock, here p_lock), and the *)
(* mutex its waiters use.  A waiter takes p_lock, gives its mutex up,      *)
(* joins the list and releases p_lock; a signal or broadcast takes p_lock. *)
(* A timed wait puts a dummy external thread on the list, also for a ULT,  *)
(* and takes it out when time is up and nobody made the dummy READY.       *)
(*                                                                         *)
(* The mutexes are the ones AbstractMutex promises.  The clients exchange  *)
(* items: a consumer waits, in the usual loop, until there is one, and     *)
(* gives up when its wait times out; a producer adds one and notifies.     *)
(***************************************************************************)
EXTENDS Waitlist, SequencesExt

CONSTANTS
    MUTEX,
    DUMMY,     \* the dummy external thread a timed wait of each ULT enlists
    PROGRAMS   \* what the threads may be about to do: functions that give
               \* each thread a sequence of operations on mutexes

Operation == {"wait", "timedwait", "signal", "broadcast"} \X MUTEX

Dummies == Range(DUMMY)

(* The threads that execute.                                               *)
Client == Thread \ Dummies

ASSUME CondAssumption ==
    /\ DUMMY \in [ULT -> EXT] /\ IsInjective(DUMMY)
    /\ PROGRAMS \subseteq [Thread \ Range(DUMMY) -> Seq(Operation)]

VARIABLES
    p_waiter_mutex,  \* ABTI_cond.p_waiter_mutex
    owner,           \* the thread that owns each mutex
    time_over,       \* the target time of the timed wait of a thread is past
    is_timedout,     \* what its wait returns
    items,           \* what the clients exchange
    program          \* the operations each thread has left

condVars == <<p_waiter_mutex, owner, time_over, is_timedout, items, program>>

vars == <<ythreadVars, waitlistVars, condVars>>

CondInit ==
    /\ YthreadInit("idle")
    /\ WaitlistInit
    /\ p_waiter_mutex = NULL
    /\ owner = [m \in MUTEX |-> NULL]
    /\ time_over = [t \in Client |-> FALSE]
    /\ is_timedout = [t \in Client |-> FALSE]
    /\ items = 0
    /\ program \in PROGRAMS

-----------------------------------------------------------------------------

Wants(t, ops) == program[t] # <<>> /\ Head(program[t])[1] \in ops

Mutex(t) == Head(program[t])[2]

(* The entry of t on the list.                                             *)
Entry(t) == IF t \in ULT /\ Wants(t, {"timedwait"}) THEN DUMMY[t] ELSE t

Take(t) == owner[Mutex(t)] = NULL /\ owner' = [owner EXCEPT ![Mutex(t)] = t]

Give(t) == owner' = [owner EXCEPT ![Mutex(t)] = NULL]

(* The operation of t is over.                                             *)
OperationDone(t) ==
    /\ program' = [program EXCEPT ![t] = Tail(@)]
    /\ GoTo(t, "idle")

-----------------------------------------------------------------------------
(* The clients.                                                            *)

(* Every operation begins with the mutex.                                  *)
LockMutex(t) ==
    /\ At(t, "idle")
    /\ program[t] # <<>>
    /\ Take(t)
    /\ time_over' = [time_over EXCEPT ![t] = FALSE]
    /\ is_timedout' = [is_timedout EXCEPT ![t] = FALSE]
    /\ GoTo(t, "locked")
    /\ UNCHANGED <<state, p_thread, pool, num_blocked, waitlistVars,
                   p_waiter_mutex, items, program>>

(* A consumer that finds an item, whose wait timed out or was refused, and *)
(* a producer that has notified, unlock the mutex if they own it.          *)
Leave(t) ==
    /\ \/ /\ At(t, "locked") /\ Wants(t, {"wait", "timedwait"})
          /\ ~is_timedout[t] /\ items > 0
          /\ items' = items - 1
       \/ /\ At(t, "locked") /\ is_timedout[t]
          /\ UNCHANGED items
       \/ /\ Running(t) /\ pc[t] \in {"refused", "notified"}
          /\ UNCHANGED items
    /\ IF owner[Mutex(t)] = t THEN Give(t) ELSE UNCHANGED owner
    /\ OperationDone(t)
    /\ UNCHANGED <<state, p_thread, pool, num_blocked, waitlistVars,
                   p_waiter_mutex, time_over, is_timedout>>

(* A producer may notify before or after it unlocks the mutex.             *)
Produce(t) ==
    /\ At(t, "locked")
    /\ Wants(t, {"signal", "broadcast"})
    /\ items' = items + 1
    /\ GoTo(t, "notify")
    /\ \/ Give(t)
       \/ UNCHANGED owner
    /\ UNCHANGED <<state, p_thread, pool, num_blocked, waitlistVars,
                   p_waiter_mutex, time_over, is_timedout, program>>

-----------------------------------------------------------------------------
(* ABT_cond_signal and ABT_cond_broadcast.                                 *)

NotifyLock(t) ==
    /\ SpinAcquire(t, "notify", Head(program[t])[1])
    /\ UNCHANGED condVars

Notify(t) ==
    /\ \/ Signal(t, "signal", "signal_dec", "notify_unlock")
       \/ Broadcast(t, "broadcast", "broadcast_dec", "notify_unlock")
    /\ UNCHANGED condVars

NotifyUnlock(t) ==
    /\ SpinRelease(t, "notify_unlock", "notified")
    /\ UNCHANGED condVars

-----------------------------------------------------------------------------
(* ABT_cond_wait and ABT_cond_timedwait.                                   *)

CondLock(t) ==
    /\ Wants(t, {"wait", "timedwait"})
    /\ ~is_timedout[t] /\ items = 0
    /\ SpinAcquire(t, "locked", "cond_check")
    /\ UNCHANGED condVars

(* The first waiter associates its mutex; another mutex is refused.        *)
CondCheck(t) ==
    /\ At(t, "cond_check")
    /\ \/ /\ p_waiter_mutex \in {NULL, Mutex(t)}
          /\ p_waiter_mutex' = Mutex(t)
          /\ GoTo(t, "cond_unlock")
          /\ UNCHANGED p_lock
       \/ /\ p_waiter_mutex \notin {NULL, Mutex(t)}
          /\ p_lock' = FALSE
          /\ GoTo(t, "refused")
          /\ UNCHANGED p_waiter_mutex
    /\ UNCHANGED <<state, p_thread, pool, num_blocked, waitlist, futex, owner,
                   time_over, is_timedout, items, program>>

(* The mutex is given up, p_lock still held...                             *)
CondUnlock(t) ==
    /\ At(t, "cond_unlock")
    /\ Give(t)
    /\ GoTo(t, "cond_wait")
    /\ UNCHANGED <<state, p_thread, pool, num_blocked, waitlistVars,
                   p_waiter_mutex, time_over, is_timedout, items, program>>

(* ...and the list joined.                                                 *)
CondWait(t) ==
    /\ At(t, "cond_wait")
    /\ Wants(t, {"wait"})
    /\ WaitAppend(t)
    /\ UNCHANGED condVars

(* The wait without a timeout.                                             *)
CondWaitStep(t) ==
    /\ WaitStep(t, "relock")
    /\ UNCHANGED condVars

-----------------------------------------------------------------------------
(* ABTI_waitlist_wait_timedout_and_unlock.                                 *)

TimedPoint == {"timed_poll", "timed_lock", "timed_check", "timed_futex",
               "timed_relock", "timed_out"}

(* The dummy joins the list.  A ULT releases p_lock at once.               *)
TimedAppend(t) ==
    /\ At(t, "cond_wait")
    /\ Wants(t, {"timedwait"})
    /\ waitlist' = Append(waitlist, Entry(t))
    /\ state' = [state EXCEPT ![Entry(t)] = "BLOCKED"]
    /\ \/ t \in ULT /\ GoTo(t, "timed_poll") /\ p_lock' = FALSE
       \/ t \in EXT /\ GoTo(t, "timed_check") /\ UNCHANGED p_lock
    /\ UNCHANGED <<p_thread, pool, num_blocked, futex, condVars>>

(* The target time passes, at some point of the wait.                      *)
TimePasses(t) ==
    /\ pc[t] \in TimedPoint
    /\ ~time_over[t]
    /\ time_over' = [time_over EXCEPT ![t] = TRUE]
    /\ UNCHANGED <<ythreadVars, waitlistVars, p_waiter_mutex, owner, is_timedout,
                   items, program>>

(* A ULT looks at its dummy and at the time, and yields.                   *)
TimedPoll(t) ==
    /\ At(t, "timed_poll")
    /\ \/ /\ state[Entry(t)] = "READY"
          /\ GoTo(t, "relock")
          /\ UNCHANGED <<state, p_thread, pool, num_blocked>>
       \/ /\ state[Entry(t)] # "READY" /\ time_over[t]
          /\ GoTo(t, "timed_lock")
          /\ UNCHANGED <<state, p_thread, pool, num_blocked>>
       \/ /\ state[Entry(t)] # "READY" /\ ~time_over[t]
          /\ Yield(t, "timed_poll")
    /\ UNCHANGED <<waitlistVars, condVars>>

TimedLock(t) ==
    /\ SpinAcquire(t, "timed_lock", "timed_out")
    /\ UNCHANGED condVars

(* An external thread looks at both with p_lock, and sleeps on the futex   *)
(* for the time that is left.                                              *)
TimedCheck(t) ==
    /\ At(t, "timed_check")
    /\ \/ /\ time_over[t]
          /\ GoTo(t, "timed_out")
          /\ UNCHANGED <<p_lock, futex>>
       \/ /\ ~time_over[t] /\ state[t] = "READY"
          /\ GoTo(t, "relock")
          /\ p_lock' = FALSE
          /\ UNCHANGED futex
       \/ /\ ~time_over[t] /\ state[t] # "READY"
          /\ GoTo(t, "timed_futex")
          /\ p_lock' = FALSE
          /\ futex' = futex \cup {t}
    /\ UNCHANGED <<state, p_thread, pool, num_blocked, waitlist, condVars>>

(* It may also wake up early.                                              *)
TimedFutexWake(t) ==
    /\ At(t, "timed_futex")
    /\ futex' = futex \ {t}
    /\ GoTo(t, IF state[t] = "READY" THEN "relock" ELSE "timed_relock")
    /\ UNCHANGED <<state, p_thread, pool, num_blocked, p_lock, waitlist, condVars>>

TimedRelock(t) ==
    /\ SpinAcquire(t, "timed_relock", "timed_check")
    /\ UNCHANGED condVars

(* Mutant of TimedOut: a waiter that was signaled meanwhile times out.     *)
TimedOutAnyway(t) ==
    /\ At(t, "timed_out")
    /\ waitlist' = Remove(waitlist, Entry(t))
    /\ is_timedout' = [is_timedout EXCEPT ![t] = TRUE]
    /\ p_lock' = FALSE
    /\ GoTo(t, "relock")
    /\ UNCHANGED <<state, p_thread, pool, num_blocked, futex, p_waiter_mutex,
                   owner, time_over, items, program>>

(* Mutant of TimedOut: the dummy stays on the list.                        *)
TimedOutListed(t) ==
    /\ At(t, "timed_out")
    /\ is_timedout' = [is_timedout EXCEPT ![t] = state[Entry(t)] # "READY"]
    /\ p_lock' = FALSE
    /\ GoTo(t, "relock")
    /\ UNCHANGED <<state, p_thread, pool, num_blocked, waitlist, futex, p_waiter_mutex,
                   owner, time_over, items, program>>

(* Time is up: with p_lock held, a dummy that is still not READY leaves    *)
(* the list, from wherever it is in it.                                    *)
TimedOut(t) ==
    /\ At(t, "timed_out")
    /\ \/ /\ state[Entry(t)] = "READY"
          /\ is_timedout' = [is_timedout EXCEPT ![t] = FALSE]
          /\ UNCHANGED waitlist
       \/ /\ state[Entry(t)] # "READY"
          /\ is_timedout' = [is_timedout EXCEPT ![t] = TRUE]
          /\ \E k \in DOMAIN waitlist :
                waitlist[k] = Entry(t) /\ waitlist' = RemoveAt(waitlist, k)
    /\ p_lock' = FALSE
    /\ GoTo(t, "relock")
    /\ UNCHANGED <<state, p_thread, pool, num_blocked, futex, p_waiter_mutex,
                   owner, time_over, items, program>>

(* The mutex is locked again before the wait returns.                      *)
Relock(t) ==
    /\ At(t, "relock")
    /\ Take(t)
    /\ GoTo(t, "locked")
    /\ UNCHANGED <<state, p_thread, pool, num_blocked, waitlistVars,
                   p_waiter_mutex, time_over, is_timedout, items, program>>

-----------------------------------------------------------------------------

ThreadExit(t) ==
    /\ At(t, "idle")
    /\ program[t] = <<>>
    /\ Exit(t, "done")
    /\ UNCHANGED <<waitlistVars, condVars>>

CondStep(t) ==
    \/ LockMutex(t) \/ Leave(t) \/ Produce(t)
    \/ NotifyLock(t) \/ Notify(t) \/ NotifyUnlock(t)
    \/ CondLock(t) \/ CondCheck(t) \/ CondUnlock(t) \/ CondWait(t) \/ CondWaitStep(t)
    \/ TimedAppend(t) \/ TimedPoll(t) \/ TimedLock(t) \/ TimedCheck(t)
    \/ TimedFutexWake(t) \/ TimedRelock(t) \/ TimedOut(t) \/ Relock(t)
    \/ ThreadExit(t)

CondSchedule(e) == Schedule(e) /\ UNCHANGED <<waitlistVars, condVars>>

AllDone ==
    /\ \A t \in Client : pc[t] = "done"
    /\ UNCHANGED vars

CondNext ==
    \/ \E t \in Client : CondStep(t) \/ TimePasses(t)
    \/ \E e \in XSTREAM : CondSchedule(e)
    \/ AllDone

CondSpec == CondInit /\ [][CondNext]_vars

(* Every processor goes on executing the code it is in, every scheduler    *)
(* that finds a unit pops it, and time passes.                             *)
CondFairSpec ==
    /\ CondSpec
    /\ \A t \in Client : WF_vars(CondStep(t)) /\ WF_vars(TimePasses(t))
    /\ \A e \in XSTREAM : WF_vars(CondSchedule(e))

-----------------------------------------------------------------------------
(* Properties.                                                             *)

(* Points at which a thread has given its mutex up.                        *)
InWait == WaitPoint \cup TimedPoint \cup {"cond_wait", "relock"}

Point == InWait \cup {"idle", "locked", "refused", "notify", "signal", "signal_dec",
                     "broadcast", "broadcast_dec", "notify_unlock", "notified",
                     "cond_check", "cond_unlock", "done"}

TypeOK ==
    /\ YthreadTypeOK(Point)
    /\ WaitlistTypeOK
    /\ num_blocked \in Nat
    /\ p_waiter_mutex \in MUTEX \cup {NULL}
    /\ owner \in [MUTEX -> Client \cup {NULL}]
    /\ time_over \in [Client -> BOOLEAN]
    /\ is_timedout \in [Client -> BOOLEAN]
    /\ items \in Nat
    /\ program \in [Client -> Seq(Operation)]

(* The list holds exactly the threads that wait and were not resumed, each *)
(* once: no dummy stays behind on it when its wait, whose stack it lives   *)
(* on, is over, and none is forgotten while it waits.                      *)
ListedWhileWaiting ==
    /\ TypeOK
    /\ IsInjective(waitlist)
    /\ Waiters = {Entry(t) : t \in {t \in Client :
                    /\ pc[t] \in InWait \ {"cond_wait", "relock"}
                    /\ state[Entry(t)] = "BLOCKED" \/ pc[t] = "suspend"}}

(* The condition variable implements AbstractCond: nobody signals between  *)
(* the unlock of the mutex and the wait, there are no spurious wake-ups,   *)
(* and a signal is not lost on a waiter whose time is up.  A broadcast     *)
(* counts from its beginning for all the waiters.                          *)
Pairs(S) == {<<t, Mutex(t)>> : t \in S}

Waiting ==
    {t \in Client :
        /\ pc[t] = "cond_wait" \/ (pc[t] \in InWait \ {"relock"} /\ Entry(t) \in Waiters)
        /\ \A b \in Client : pc[b] \notin {"broadcast", "broadcast_dec"}}

Expired == {t \in Client : pc[t] = "relock" /\ is_timedout[t]}

Woken == {t \in Client : pc[t] \in InWait} \ (Waiting \cup Expired)

Abstract == INSTANCE AbstractCond
                WITH Thread <- Client, waiting <- Pairs(Waiting),
                     woken <- Pairs(Woken), expired <- Pairs(Expired)

ImplementsAbstractCond == Abstract!Spec

(* No consumer sleeps for ever when enough items are produced.             *)
EveryThreadFinishes == <>(\A t \in Client : pc[t] = "done")
=============================================================================
