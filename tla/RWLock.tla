------------------------------- MODULE RWLock --------------------------------
(***************************************************************************)
(* ABTI_rwlock: a count of readers and a flag for a writer, protected by a *)
(* mutex, with one condition variable for all who must wait.  The mutex    *)
(* and the condition variable are the ones AbstractCond promises, which    *)
(* Mutex and Cond implement.  A wait on them fails only with another       *)
(* mutex, of which there is none, so abt_errno stays ABT_SUCCESS.          *)
(***************************************************************************)
EXTENDS Naturals, Sequences, FiniteSets

CONSTANTS
    LOCKER,     \* threads that use the lock
    NOBODY,     \* no thread
    RWPROGRAMS  \* what the threads may do: functions that give each of them
                \* a sequence of "rdlock" and "wrlock", each with its unlock

ASSUME RWLockAssumption ==
    /\ NOBODY \notin LOCKER
    /\ IsFiniteSet(LOCKER)
    /\ RWPROGRAMS \subseteq [LOCKER -> Seq({"rdlock", "wrlock"})]

VARIABLES
    owner,                   \* of the mutex (a function of one point)
    waiting, woken, expired, \* the condition variable
    reader_count, write_flag,
    at,                      \* the point each thread is at
    calls                    \* the calls each thread has left

condVars == <<owner, waiting, woken, expired>>

rwVars == <<condVars, reader_count, write_flag, at, calls>>

Cond == INSTANCE AbstractCond
    WITH Thread <- LOCKER, MUTEX <- {"mutex"}, NULL <- NOBODY

RWInit ==
    /\ Cond!Init
    /\ reader_count = 0
    /\ write_flag = 0
    /\ at = [t \in LOCKER |-> "out"]
    /\ calls \in RWPROGRAMS

-----------------------------------------------------------------------------

Calls(t, op) == calls[t] # <<>> /\ Head(calls[t]) = op

RWGo(t, from, next) == at[t] = from /\ at' = [at EXCEPT ![t] = next]

(* ABTI_mutex_lock, by a thread that wants the lock or has it.             *)
RWLockMutex(t) ==
    /\ calls[t] # <<>>
    /\ RWGo(t, "out", "check") \/ RWGo(t, "in", "unlock")
    /\ Cond!Lock(t, "mutex")
    /\ UNCHANGED <<reader_count, write_flag, calls>>

RWUnlockMutex(t) ==
    /\ \/ RWGo(t, "locked", "in") /\ UNCHANGED calls
       \/ RWGo(t, "unlocked", "out") /\ calls' = [calls EXCEPT ![t] = Tail(@)]
    /\ Cond!Unlock(t, "mutex")
    /\ UNCHANGED <<reader_count, write_flag>>

(* Mutant of MustWait: a writer does not look at the readers.              *)
MustWaitWriter(t) == write_flag # 0

(* A reader waits for a writer, a writer for readers too.                  *)
MustWait(t) == write_flag # 0 \/ (Calls(t, "wrlock") /\ reader_count # 0)

RWWait(t) ==
    /\ RWGo(t, "check", "waiting")
    /\ MustWait(t)
    /\ Cond!Wait(t, "mutex")
    /\ UNCHANGED <<reader_count, write_flag, calls>>

RWWoken(t) ==
    /\ RWGo(t, "waiting", "check")
    /\ Cond!Return(t, "mutex")
    /\ UNCHANGED <<reader_count, write_flag, calls>>

RdLock(t) ==
    /\ RWGo(t, "check", "locked")
    /\ Calls(t, "rdlock") /\ ~MustWait(t)
    /\ reader_count' = reader_count + 1
    /\ UNCHANGED <<condVars, write_flag, calls>>

WrLock(t) ==
    /\ RWGo(t, "check", "locked")
    /\ Calls(t, "wrlock") /\ ~MustWait(t)
    /\ write_flag' = 1
    /\ UNCHANGED <<condVars, reader_count, calls>>

(* ABT_rwlock_unlock does not know who calls: the flag tells.              *)
RWUnlock(t) ==
    /\ RWGo(t, "unlock", "broadcast")
    /\ IF write_flag # 0 THEN write_flag' = 0 /\ UNCHANGED reader_count
                         ELSE reader_count' = reader_count - 1 /\ UNCHANGED write_flag
    /\ UNCHANGED <<condVars, calls>>

(* All waiters are woken, readers and writers.                             *)
RWBroadcast(t) ==
    /\ RWGo(t, "broadcast", "unlocked")
    /\ Cond!Broadcast
    /\ UNCHANGED <<reader_count, write_flag, calls>>

RWStep(t) ==
    \/ RWLockMutex(t) \/ RWUnlockMutex(t)
    \/ RWWait(t) \/ RWWoken(t) \/ RdLock(t) \/ WrLock(t)
    \/ RWUnlock(t) \/ RWBroadcast(t)

RWNext == \E t \in LOCKER : RWStep(t)

RWSpec == RWInit /\ [][RWNext]_rwVars

RWDone == \A t \in LOCKER : calls[t] = <<>>

-----------------------------------------------------------------------------
(* Properties.                                                             *)

(* The threads that have the lock as op.                                   *)
Holders(op) == {t \in LOCKER : at[t] \in {"locked", "in", "unlock"} /\ Calls(t, op)}

(* A writer excludes everybody, readers only writers, and the count and    *)
(* the flag, all that ABT_rwlock_unlock goes by, say who has the lock.     *)
ReadersExcludeWriters ==
    /\ reader_count = Cardinality(Holders("rdlock"))
    /\ write_flag = Cardinality(Holders("wrlock"))
    /\ write_flag = 0 \/ reader_count = 0
=============================================================================
