------------------------------ MODULE Eventual -------------------------------
(***************************************************************************)
(* ABTI_eventual and ABTI_future: a waiting list under a spinlock (lock,   *)
(* here p_lock), and what makes the object ready: the flag of an eventual, *)
(* the counter of a future with num_compartments.  The set that completes  *)
(* a future calls its callback, under the lock, before it stores the       *)
(* counter; ABT_future_test reads the counter without the lock.            *)
(*                                                                         *)
(* Each behaviour is about one object, an eventual or a future.  "poll" is *)
(* a loop that tests a future until it is ready.                           *)
(***************************************************************************)
EXTENDS Waitlist

CONSTANTS
    NUM_COMPARTMENTS,  \* ABTI_future.num_compartments
    USES               \* pairs of a kind of object and what its users do: a
                       \* function that gives each a sequence of operations

EventualOperation == {"wait", "test", "poll", "set", "reset", "free"}

(* How often an object has to be set.                                      *)
Size(k) == IF k = "eventual" THEN 1 ELSE NUM_COMPARTMENTS

(* Before operation i of its program p, a thread waited or polled, or made *)
(* all the sets itself.                                                    *)
ReadyBefore(p, i, size) ==
    \/ i > 1 /\ p[i - 1] \in {"wait", "poll"}
    \/ i > size /\ \A j \in i - size .. i - 1 : p[j] = "set"

(* The results are undefined when an object is reset or freed while a      *)
(* thread waits on it, or accessed after it was freed.  So one thread, o,  *)
(* does that; it resets an object it knows to be ready, and frees it as    *)
(* the last operation, where the others only set it.                       *)
UsedLegally(k, p) ==
    \E o \in Thread :
        /\ \A t \in Thread \ {o} : \A i \in DOMAIN p[t] : p[t][i] \notin {"reset", "free"}
        /\ \A i \in DOMAIN p[o] : p[o][i] = "reset" => ReadyBefore(p[o], i, Size(k))
        /\ \A i \in DOMAIN p[o] :
              p[o][i] = "free" => /\ i = Len(p[o])
                                  /\ \A t \in Thread \ {o} :
                                        \A j \in DOMAIN p[t] : p[t][j] = "set"

ASSUME EventualAssumption ==
    /\ NUM_COMPARTMENTS \in Nat \ {0}
    /\ USES \subseteq {"eventual", "future"} \X [Thread -> Seq(EventualOperation)]
    /\ \A use \in USES : UsedLegally(use[1], use[2])

VARIABLES
    kind,      \* the object is an eventual or a future
    ready,     \* ABTI_eventual.ready
    counter,   \* ABTI_future.counter
    called,    \* p_callback was called since the last reset
    freed,     \* the structure was freed
    is_ready,  \* result of the last test of each thread
    program    \* operations each thread has left

objectVars == <<kind, ready, counter, called, freed, is_ready, program>>

eventualVars == <<ythreadVars, waitlistVars, objectVars>>

EventualInit ==
    /\ YthreadInit("idle")
    /\ WaitlistInit
    /\ ready = FALSE
    /\ counter = 0
    /\ called = FALSE
    /\ freed = FALSE
    /\ is_ready = [t \in Thread |-> FALSE]
    /\ \E use \in USES : kind = use[1] /\ program = use[2]

-----------------------------------------------------------------------------

Does(t, ops) == program[t] # <<>> /\ Head(program[t]) \in ops

(* The operation of t is over, the lock released.                          *)
EndOperation(t) ==
    /\ program' = [program EXCEPT ![t] = Tail(@)]
    /\ GoTo(t, "idle")

Eventual(t, op) == kind = "eventual" /\ At(t, "locked") /\ Does(t, {op})

Future(t, op) == kind = "future" /\ At(t, "locked") /\ Does(t, {op})

(* All operations but the test of a future begin with the lock.            *)
Acquire(t) ==
    /\ Does(t, IF kind = "eventual" THEN EventualOperation \ {"free"}
                                    ELSE {"wait", "set", "reset"})
    /\ SpinAcquire(t, "idle", "locked")
    /\ UNCHANGED objectVars

(* The lock is released at the end of an operation.                        *)
Release(t) ==
    /\ At(t, "release")
    /\ p_lock' = FALSE
    /\ EndOperation(t)
    /\ UNCHANGED <<state, p_thread, pool, num_blocked, waitlist, futex, kind, ready,
                   counter, called, freed, is_ready>>

(* ABT_eventual_free and ABT_future_free: the lock is taken to be sure     *)
(* that nobody else is about to release it.                                *)
FreeObject(t) ==
    /\ Does(t, {"free"})
    /\ At(t, "idle")
    /\ ~p_lock
    /\ p_lock' = TRUE
    /\ freed' = TRUE
    /\ EndOperation(t)
    /\ UNCHANGED <<state, p_thread, pool, num_blocked, waitlist, futex, kind, ready,
                   counter, called, is_ready>>

-----------------------------------------------------------------------------
(* A wait, of either kind.                                                 *)

IsReady == IF kind = "eventual" THEN ready ELSE counter >= NUM_COMPARTMENTS

WaitUnready(t) ==
    /\ Eventual(t, "wait") \/ Future(t, "wait")
    /\ ~IsReady
    /\ WaitAppend(t)
    /\ UNCHANGED objectVars

WaitReady(t) ==
    /\ Eventual(t, "wait") \/ Future(t, "wait")
    /\ IsReady
    /\ SpinRelease(t, "locked", "value")
    /\ UNCHANGED objectVars

EventualWaitStep(t) ==
    /\ WaitStep(t, "value")
    /\ UNCHANGED objectVars

(* The wait of an eventual reads p_eventual->value, without the lock.      *)
ReadValue(t) ==
    /\ At(t, "value")
    /\ EndOperation(t)
    /\ UNCHANGED <<state, p_thread, pool, num_blocked, waitlistVars, kind, ready,
                   counter, called, freed, is_ready>>

-----------------------------------------------------------------------------
(* The other operations of an eventual, with the lock.                     *)

EventualTest(t) ==
    /\ Eventual(t, "test")
    /\ is_ready' = [is_ready EXCEPT ![t] = ready]
    /\ GoTo(t, "release")
    /\ UNCHANGED <<state, p_thread, pool, num_blocked, waitlistVars, kind, ready,
                   counter, called, freed, program>>

EventualSet(t) ==
    /\ Eventual(t, "set")
    /\ ~ready
    /\ ready' = TRUE
    /\ GoTo(t, "broadcast")
    /\ UNCHANGED <<state, p_thread, pool, num_blocked, waitlistVars, kind, counter,
                   called, freed, is_ready, program>>

EventualReset(t) ==
    /\ Eventual(t, "reset")
    /\ ready' = FALSE
    /\ GoTo(t, "release")
    /\ UNCHANGED <<state, p_thread, pool, num_blocked, waitlistVars, kind, counter,
                   called, freed, is_ready, program>>

-----------------------------------------------------------------------------
(* The other operations of a future.                                       *)

(* ABT_future_test takes no lock.                                          *)
FutureTest(t) ==
    /\ kind = "future"
    /\ At(t, "idle")
    /\ Does(t, {"test", "poll"})
    /\ is_ready' = [is_ready EXCEPT ![t] = counter = NUM_COMPARTMENTS]
    /\ IF Does(t, {"test"}) \/ is_ready'[t] THEN EndOperation(t)
                                            ELSE UNCHANGED <<pc, program>>
    /\ UNCHANGED <<state, p_thread, pool, num_blocked, waitlistVars, kind, ready,
                   counter, called, freed>>

(* A compartment that is not the last one...                               *)
FutureSet(t) ==
    /\ Future(t, "set")
    /\ counter + 1 < NUM_COMPARTMENTS
    /\ counter' = counter + 1
    /\ GoTo(t, "release")
    /\ UNCHANGED <<state, p_thread, pool, num_blocked, waitlistVars, kind, ready,
                   called, freed, is_ready, program>>

(* Mutant of FutureCallback: the counter is stored before the call.        *)
FutureStoreFirst(t) ==
    /\ Future(t, "set")
    /\ counter + 1 = NUM_COMPARTMENTS
    /\ counter' = NUM_COMPARTMENTS
    /\ GoTo(t, "broadcast")
    /\ UNCHANGED <<state, p_thread, pool, num_blocked, waitlistVars, kind, ready,
                   called, freed, is_ready, program>>

(* ...and the last one: the callback is called...                          *)
FutureCallback(t) ==
    /\ Future(t, "set")
    /\ counter + 1 = NUM_COMPARTMENTS
    /\ called' = TRUE
    /\ GoTo(t, "store")
    /\ UNCHANGED <<state, p_thread, pool, num_blocked, waitlistVars, kind, ready,
                   counter, freed, is_ready, program>>

(* ...and then the future is ready.                                        *)
FutureStore(t) ==
    /\ At(t, "store")
    /\ counter' = NUM_COMPARTMENTS
    /\ GoTo(t, "broadcast")
    /\ UNCHANGED <<state, p_thread, pool, num_blocked, waitlistVars, kind, ready,
                   called, freed, is_ready, program>>

FutureReset(t) ==
    /\ Future(t, "reset")
    /\ counter' = 0
    /\ called' = FALSE
    /\ GoTo(t, "release")
    /\ UNCHANGED <<state, p_thread, pool, num_blocked, waitlistVars, kind, ready,
                   freed, is_ready, program>>

(* A set of either kind: all waiters are woken...                          *)
WakeAll(t) ==
    /\ Broadcast(t, "broadcast", "broadcast_dec", "release")
    /\ UNCHANGED objectVars

(* ...or an object that is ready already is an error.                      *)
SetError(t) ==
    /\ Eventual(t, "set") \/ Future(t, "set")
    /\ IsReady
    /\ p_lock' = FALSE
    /\ EndOperation(t)
    /\ UNCHANGED <<state, p_thread, pool, num_blocked, waitlist, futex, kind, ready,
                   counter, called, freed, is_ready>>

-----------------------------------------------------------------------------

UserExit(t) ==
    /\ At(t, "idle")
    /\ program[t] = <<>>
    /\ Exit(t, "done")
    /\ UNCHANGED <<waitlistVars, objectVars>>

EventualStep(t) ==
    \/ Acquire(t) \/ Release(t) \/ FreeObject(t)
    \/ WaitUnready(t) \/ WaitReady(t) \/ EventualWaitStep(t) \/ ReadValue(t)
    \/ EventualTest(t) \/ EventualSet(t) \/ EventualReset(t)
    \/ FutureTest(t) \/ FutureSet(t) \/ FutureCallback(t) \/ FutureStore(t)
    \/ FutureReset(t)
    \/ WakeAll(t) \/ SetError(t)
    \/ UserExit(t)

EventualSchedule(e) == Schedule(e) /\ UNCHANGED <<waitlistVars, objectVars>>

EventualDone == \A t \in Thread : pc[t] = "done"

EventualNext ==
    \/ \E t \in Thread : EventualStep(t)
    \/ \E e \in XSTREAM : EventualSchedule(e)

EventualSpec == EventualInit /\ [][EventualNext]_eventualVars

-----------------------------------------------------------------------------
(* Properties.                                                             *)

(* Points at which a thread has yet to read or write the structure.  A ULT *)
(* that was resumed by a future has not.                                   *)
EventualUsers ==
    {t \in Thread : \/ pc[t] \notin {"idle", "waiting", "value", "done"}
                    \/ kind = "eventual" /\ pc[t] = "value"}

(* The threads in a wait that was not, or was, made ready.                 *)
EventualWaiting == IF IsReady THEN {} ELSE Waiters

EventualReleased ==
    {t \in Thread : pc[t] \in WaitPoint \cup {"value"}} \ EventualWaiting

AbstractE == INSTANCE AbstractEventual
    WITH size <- Size(kind),
         callback <- kind = "future",
         count <- IF kind = "future" THEN counter ELSE IF ready THEN 1 ELSE 0,
         waiting <- EventualWaiting, released <- EventualReleased,
         result <- is_ready, using <- EventualUsers

(* Eventuals and futures of eventual.c and futures.c keep the promises of  *)
(* AbstractEventual: a wait returns only when all sets have been made, and *)
(* the callback of a future has been called by then.                       *)
ImplementsAbstractEventual == AbstractE!Spec
=============================================================================
