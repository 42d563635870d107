---------------------------- MODULE ObjectProofs -----------------------------
(***************************************************************************)
(* Three objects that do not meet: a built-in pool, the life cycle of ESs, *)
(* the pages of the memory pools.                                          *)
(***************************************************************************)
EXTENDS BuiltinPool, Xstream, MemPool, FiniteSetTheorems, SequenceTheorems,
        WellFoundedInduction, TLAPS

-----------------------------------------------------------------------------
(* The built-in pools.                                                     *)

(* The steps of the calls that read and write the same.                    *)
PushSteps(t) == PushNothing(t) \/ PushLock(t) \/ PushLink(t) \/ PushNonempty(t) \/ PushInPool(t)

PopSteps(t) == PopBegin(t) \/ PopEmpty(t) \/ PopTest(t) \/ PopLock(t) \/ PopBusy(t)
               \/ PopRetry(t) \/ PopPrivate(t)

TakeSteps(t) == PopUnit(t) \/ PopNothing(t) \/ TakenEmpty(t) \/ TakenClear(t) \/ RemoveUnit(t)

WaitSteps(t) == WaitElapsed(t) \/ WaitLock(t) \/ WaitNonempty(t) \/ WaitSleep(t)
                \/ WaitRefused(t) \/ WaitRelock(t) \/ PoolClock(t) \/ WaitOver(t)

RemoveSteps(t) == RemoveBegin(t) \/ RemoveChecked(t) \/ RemoveRefused(t) \/ RemoveLock(t)
                  \/ RemoveFails(t)

USE DEF PushSteps, PopSteps, TakeSteps, WaitSteps, RemoveSteps

PoolHolder == {"link", "nonempty", "in_pool", "signal", "unlock", "wait", "pop", "empty",
               "clear", "remove"}

PoolPoint == PoolHolder \cup {"idle", "test", "spin", "try", "peek", "elapsed", "asleep",
                              "relock", "checked", "lock"}

(* Users that were woken, or whose time is over, and wait for the mutex.   *)
Relocking == {t \in USER : point[t] = "relock"}

PoolTypeInv ==
    /\ pool_kind \in PoolKind
    /\ num_threads \in Nat
    /\ is_empty \in BOOLEAN
    /\ mutex \in USER \cup {NIL}
    /\ sleeping \subseteq USER
    /\ point \in [USER -> PoolPoint]
    /\ jobs \in [USER -> Seq(PoolCall)]
    /\ DOMAIN left = USER
    /\ DOMAIN got = USER

MutexInv ==
    /\ \A t \in USER : point[t] \in PoolHolder <=> mutex = t
    /\ sleeping = {t \in USER : point[t] = "asleep"}

(* What is read without the mutex is out of date for a step of its holder. *)
EmptyInv ==
    /\ mutex = NIL => (is_empty <=> num_threads = 0)
    /\ \A t \in USER : point[t] \in PoolHolder \ {"nonempty", "empty"} =>
                          (is_empty <=> num_threads = 0)
    /\ \A t \in USER : point[t] = "nonempty" => num_threads > 0
    /\ \A t \in USER : point[t] = "empty" => num_threads = 0

(* Of a user at p with the calls job, l units of pushed still to push: it  *)
(* has a call, only the users of a FIFO_WAIT pool sleep and signal, and a  *)
(* push works on one of its units until it has pushed them all.            *)
Kind(kind, p, job, l, pushed) ==
    /\ p # "idle" => job # <<>>
    /\ p \in {"wait", "asleep", "relock", "signal"} => kind = "fifo_wait"
    /\ p \in {"link", "nonempty", "in_pool"} => l \in 1 .. Len(pushed)
    /\ p \in {"link", "nonempty", "in_pool", "signal"} => Len(pushed) \in Nat \ {0}
    /\ p = "signal" => l = 0

KindInv == \A t \in USER : Kind(pool_kind, point[t], jobs[t], left[t], Pushed(t))

(* The units that the holder of the mutex has pushed without a signal, or  *)
(* may take in place of somebody who still waits for the mutex.            *)
Lead(p, l, pushed) ==
    CASE p = "link" -> Len(pushed) - l
      [] p \in {"nonempty", "in_pool"} -> Len(pushed) - l + 1
      [] p = "signal" -> Len(pushed)
      [] p = "pop" -> 1
      [] OTHER -> 0

Ahead(t) == Lead(point[t], left[t], Pushed(t))

SleepInv ==
    sleeping # {} =>
        /\ mutex = NIL => num_threads <= Cardinality(Relocking)
        /\ \A t \in USER : mutex = t => num_threads <= Cardinality(Relocking) + Ahead(t)

PoolInv == PoolTypeInv /\ MutexInv /\ EmptyInv /\ KindInv /\ SleepInv

PoolStepOf(t) == PoolStep(t) \/ PoolTime(t)

LEMMA PushedLength ==
    ASSUME PoolTypeInv, NEW t \in USER, jobs[t] # <<>>, Pushed(t) # <<>>
    PROVE  Len(Pushed(t)) \in Nat \ {0}
<1>1. jobs[t] \in Seq(PoolCall)
  BY DEF PoolTypeInv
<1>2. Head(jobs[t]) \in PoolCall
  BY <1>1
<1>3. Units(t) \in Seq(WORK)
  BY <1>2 DEF Units, PoolCall
<1>4. CASE Job(t, "push")
  <2>1. Pushed(t) \in Seq(WORK)
    BY <1>3, <1>4 DEF Pushed
  <2> QED
    BY <2>1
<1>5. CASE ~Job(t, "push")
  BY <1>5 DEF Pushed
<1> QED
  BY <1>4, <1>5

(* A step changes what it changes of the user that takes it, except that   *)
(* a signal wakes sleepers.                                                *)
LEMMA PoolFrame ==
    ASSUME PoolTypeInv, MutexInv, NEW t \in USER, PoolStepOf(t), NEW s \in USER, s # t
    PROVE  /\ jobs'[s] = jobs[s] /\ left'[s] = left[s] /\ got'[s] = got[s]
           /\ \/ point'[s] = point[s]
              \/ SignalPool(t) /\ point[s] = "asleep" /\ point'[s] = "relock"
<1> USE DEF PoolTypeInv
<1>1. CASE SignalPool(t)
  BY <1>1 DEF SignalPool, Awake, MutexInv
<1>2. CASE \/ PushNothing(t) \/ PushLock(t) \/ PushLink(t) \/ PushNonempty(t) \/ PushInPool(t)
  <2>1. jobs'[s] = jobs[s] /\ left'[s] = left[s] /\ got'[s] = got[s]
    BY <1>2 DEF PushNothing, PushLock, PushLink, PushNonempty, PushInPool, BeginJob, EndJob
  <2>2. point'[s] = point[s]
    BY <1>2 DEF PushNothing, PushLock, PushLink, PushNonempty, PushInPool, BeginJob, EndJob, Reach
  <2> QED
    BY <2>1, <2>2
<1>3. CASE UnlockPool(t)
  BY <1>3 DEF UnlockPool, EndJob, Reach
<1>4. CASE PopSteps(t)
  <2>1. jobs'[s] = jobs[s] /\ left'[s] = left[s] /\ got'[s] = got[s]
    BY <1>4 DEF PopBegin, PopEmpty, FindsEmpty, PopTest, PopLock, PopBusy, PopRetry, PopPrivate,
                BeginJob, EndJob, Got
  <2>2. point'[s] = point[s]
    BY <1>4 DEF PopBegin, PopEmpty, FindsEmpty, PopTest, PopLock, PopBusy, PopRetry, PopPrivate,
                BeginJob, EndJob, Reach
  <2> QED
    BY <2>1, <2>2
<1>5. CASE TakeSteps(t)
  <2>1. jobs'[s] = jobs[s] /\ left'[s] = left[s] /\ got'[s] = got[s]
    BY <1>5 DEF PopUnit, PopNothing, TakenEmpty, TakenClear, RemoveUnit, Unlink, Got
  <2>2. point'[s] = point[s]
    BY <1>5 DEF PopUnit, PopNothing, TakenEmpty, TakenClear, RemoveUnit, Unlink, Reach
  <2> QED
    BY <2>1, <2>2
<1>6. CASE WaitSteps(t)
  BY <1>6 DEF WaitElapsed, WaitLock, WaitNonempty, WaitSleep, WaitRefused, WaitRelock, PoolClock,
              WaitOver, BeginJob, EndJob, Reach
<1>7. CASE RemoveSteps(t)
  BY <1>7 DEF RemoveBegin, RemoveChecked, RemoveRefused, RemoveLock, RemoveFails, BeginJob, EndJob,
              Reach
<1> QED
  BY <1>1, <1>2, <1>3, <1>4, <1>5, <1>6, <1>7 DEF PoolStepOf, PoolStep, PoolTime

LEMMA JobEnds ==
    ASSUME jobs \in [USER -> Seq(PoolCall)], NEW t \in USER, jobs[t] # <<>>, EndJob(t)
    PROVE  jobs' \in [USER -> Seq(PoolCall)]
<1>1. jobs[t] \in Seq(PoolCall)
  OBVIOUS
<1>2. Tail(jobs[t]) \in Seq(PoolCall)
  BY <1>1
<1> QED
  BY <1>2 DEF EndJob

LEMMA PoolTyped ==
    ASSUME PoolTypeInv, KindInv, EmptyInv, NEW t \in USER, PoolStepOf(t)
    PROVE  PoolTypeInv'
<1> USE DEF PoolTypeInv
<1>1. CASE PushSteps(t)
  <2>1. /\ pool_kind' \in PoolKind /\ num_threads' \in Nat /\ is_empty' \in BOOLEAN
        /\ mutex' \in USER \cup {NIL} /\ sleeping' \subseteq USER
    <3>1. pool_kind' \in PoolKind
      BY <1>1 DEF PushNothing, PushLock, PushLink, PushNonempty, PushInPool, queueVars, TakeMutex
    <3>2. num_threads' \in Nat
      BY <1>1 DEF PushNothing, PushLock, PushLink, PushNonempty, PushInPool, queueVars, TakeMutex
    <3>3. is_empty' \in BOOLEAN
      BY <1>1 DEF PushNothing, PushLock, PushLink, PushNonempty, PushInPool, queueVars, TakeMutex
    <3>4. mutex' \in USER \cup {NIL}
      BY <1>1 DEF PushNothing, PushLock, PushLink, PushNonempty, PushInPool, queueVars, TakeMutex
    <3>5. sleeping' \subseteq USER
      BY <1>1 DEF PushNothing, PushLock, PushLink, PushNonempty, PushInPool, queueVars, TakeMutex
    <3> QED
      BY <3>1, <3>2, <3>3, <3>4, <3>5
  <2>2. point' \in [USER -> PoolPoint]
    BY <1>1 DEF PushNothing, PushLock, PushLink, PushNonempty, PushInPool, BeginJob, EndJob, Reach,
                PoolPoint, PoolHolder
  <2>3. jobs' \in [USER -> Seq(PoolCall)]
    <3>1. CASE PushNothing(t)
      <4>1. jobs[t] # <<>>
        BY <1>1, <3>1 DEF PushNothing, Job
      <4> QED
        BY <3>1, <4>1, JobEnds DEF PushNothing
    <3>2. CASE ~PushNothing(t)
      BY <1>1, <3>2 DEF PushLock, PushLink, PushNonempty, PushInPool, BeginJob
    <3> QED
      BY <3>1, <3>2
  <2>4. DOMAIN left' = USER /\ DOMAIN got' = USER
    BY <1>1 DEF PushNothing, PushLock, PushLink, PushNonempty, PushInPool, BeginJob, EndJob
  <2> QED
    BY <2>1, <2>2, <2>3, <2>4
<1>2. CASE SignalPool(t)
  BY <1>2 DEF SignalPool, Awake, queueVars, PoolPoint, PoolHolder
<1>3. CASE UnlockPool(t)
  <2>1. jobs[t] # <<>>
    BY <1>3 DEF UnlockPool, KindInv, Kind
  <2>2. jobs' \in [USER -> Seq(PoolCall)]
    BY <1>3, <2>1, JobEnds DEF UnlockPool
  <2> QED
    BY <1>3, <2>2 DEF UnlockPool, EndJob, Reach, queueVars, PoolPoint, PoolHolder
<1>4. CASE PopSteps(t)
  <2>1. /\ pool_kind' \in PoolKind /\ num_threads' \in Nat /\ is_empty' \in BOOLEAN
        /\ mutex' \in USER \cup {NIL} /\ sleeping' \subseteq USER
    <3>1. pool_kind' \in PoolKind
      BY <1>4 DEF PopBegin, PopEmpty, FindsEmpty, PopTest, PopLock, PopBusy, PopRetry, PopPrivate,
                  queueVars, TakeMutex
    <3>2. num_threads' \in Nat
      BY <1>4 DEF PopBegin, PopEmpty, FindsEmpty, PopTest, PopLock, PopBusy, PopRetry, PopPrivate,
                  queueVars, TakeMutex
    <3>3. is_empty' \in BOOLEAN
      BY <1>4 DEF PopBegin, PopEmpty, FindsEmpty, PopTest, PopLock, PopBusy, PopRetry, PopPrivate,
                  queueVars, TakeMutex
    <3>4. mutex' \in USER \cup {NIL}
      BY <1>4 DEF PopBegin, PopEmpty, FindsEmpty, PopTest, PopLock, PopBusy, PopRetry, PopPrivate,
                  queueVars, TakeMutex
    <3>5. sleeping' \subseteq USER
      BY <1>4 DEF PopBegin, PopEmpty, FindsEmpty, PopTest, PopLock, PopBusy, PopRetry, PopPrivate,
                  queueVars, TakeMutex
    <3> QED
      BY <3>1, <3>2, <3>3, <3>4, <3>5
  <2>2. point' \in [USER -> PoolPoint]
    BY <1>4 DEF PopBegin, PopEmpty, FindsEmpty, PopTest, PopLock, PopBusy, PopRetry, PopPrivate,
                BeginJob, EndJob, Reach, PoolPoint, PoolHolder
  <2>3. jobs' \in [USER -> Seq(PoolCall)]
    <3>1. CASE PopEmpty(t)
      <4>1. jobs[t] # <<>>
        BY <3>1 DEF PopEmpty, KindInv, Kind
      <4> QED
        BY <3>1, <4>1, JobEnds DEF PopEmpty, FindsEmpty
    <3>2. CASE ~PopEmpty(t)
      BY <1>4, <3>2 DEF PopBegin, PopTest, PopLock, PopBusy, PopRetry, PopPrivate, BeginJob
    <3> QED
      BY <3>1, <3>2
  <2>4. DOMAIN left' = USER /\ DOMAIN got' = USER
    BY <1>4 DEF PopBegin, PopEmpty, FindsEmpty, PopTest, PopLock, PopBusy, PopRetry, PopPrivate,
                BeginJob, EndJob, Got
  <2> QED
    BY <2>1, <2>2, <2>3, <2>4
<1>5. CASE TakeSteps(t)
  <2>1. /\ pool_kind' \in PoolKind /\ num_threads' \in Nat /\ is_empty' \in BOOLEAN
        /\ mutex' \in USER \cup {NIL} /\ sleeping' \subseteq USER
    <3>1. pool_kind' \in PoolKind
      BY <1>5 DEF PopUnit, PopNothing, TakenEmpty, TakenClear, RemoveUnit, Unlink, queueVars
    <3>2. num_threads' \in Nat
      BY <1>5 DEF PopUnit, PopNothing, TakenEmpty, TakenClear, RemoveUnit, Unlink, queueVars
    <3>3. is_empty' \in BOOLEAN
      BY <1>5 DEF PopUnit, PopNothing, TakenEmpty, TakenClear, RemoveUnit, Unlink, queueVars
    <3>4. mutex' \in USER \cup {NIL}
      BY <1>5 DEF PopUnit, PopNothing, TakenEmpty, TakenClear, RemoveUnit, Unlink, queueVars
    <3>5. sleeping' \subseteq USER
      BY <1>5 DEF PopUnit, PopNothing, TakenEmpty, TakenClear, RemoveUnit, Unlink, queueVars
    <3> QED
      BY <3>1, <3>2, <3>3, <3>4, <3>5
  <2>2. point' \in [USER -> PoolPoint]
    BY <1>5 DEF PopUnit, PopNothing, TakenEmpty, TakenClear, RemoveUnit, Unlink, Reach,
                PoolPoint, PoolHolder
  <2>3. jobs' \in [USER -> Seq(PoolCall)] /\ DOMAIN left' = USER /\ DOMAIN got' = USER
    BY <1>5 DEF PopUnit, PopNothing, TakenEmpty, TakenClear, RemoveUnit, Unlink, Got
  <2> QED
    BY <2>1, <2>2, <2>3
<1>6. CASE WaitSteps(t)
  <2>1. /\ pool_kind' \in PoolKind /\ num_threads' \in Nat /\ is_empty' \in BOOLEAN
        /\ mutex' \in USER \cup {NIL} /\ sleeping' \subseteq USER
    <3>1. pool_kind' \in PoolKind
      BY <1>6 DEF WaitElapsed, WaitLock, WaitNonempty, WaitSleep, WaitRefused, WaitRelock, PoolClock,
                  WaitOver, queueVars, TakeMutex
    <3>2. num_threads' \in Nat
      BY <1>6 DEF WaitElapsed, WaitLock, WaitNonempty, WaitSleep, WaitRefused, WaitRelock, PoolClock,
                  WaitOver, queueVars, TakeMutex
    <3>3. is_empty' \in BOOLEAN
      BY <1>6 DEF WaitElapsed, WaitLock, WaitNonempty, WaitSleep, WaitRefused, WaitRelock, PoolClock,
                  WaitOver, queueVars, TakeMutex
    <3>4. mutex' \in USER \cup {NIL}
      BY <1>6 DEF WaitElapsed, WaitLock, WaitNonempty, WaitSleep, WaitRefused, WaitRelock, PoolClock,
                  WaitOver, queueVars, TakeMutex
    <3>5. sleeping' \subseteq USER
      BY <1>6 DEF WaitElapsed, WaitLock, WaitNonempty, WaitSleep, WaitRefused, WaitRelock, PoolClock,
                  WaitOver, queueVars, TakeMutex
    <3> QED
      BY <3>1, <3>2, <3>3, <3>4, <3>5
  <2>2. point' \in [USER -> PoolPoint]
    BY <1>6 DEF WaitElapsed, WaitLock, WaitNonempty, WaitSleep, WaitRefused, WaitRelock, PoolClock,
                WaitOver, BeginJob, EndJob, Reach, PoolPoint, PoolHolder
  <2>3. jobs' \in [USER -> Seq(PoolCall)]
    <3>1. CASE WaitElapsed(t)
      <4>1. jobs[t] # <<>>
        BY <3>1 DEF WaitElapsed, KindInv, Kind
      <4> QED
        BY <3>1, <4>1, JobEnds DEF WaitElapsed
    <3>2. CASE ~WaitElapsed(t)
      BY <1>6, <3>2 DEF WaitLock, WaitNonempty, WaitSleep, WaitRefused, WaitRelock, PoolClock,
                        WaitOver, BeginJob
    <3> QED
      BY <3>1, <3>2
  <2>4. DOMAIN left' = USER /\ DOMAIN got' = USER
    BY <1>6 DEF WaitElapsed, WaitLock, WaitNonempty, WaitSleep, WaitRefused, WaitRelock, PoolClock,
                WaitOver, BeginJob, EndJob
  <2> QED
    BY <2>1, <2>2, <2>3, <2>4
<1>7. CASE RemoveSteps(t)
  <2>1. /\ pool_kind' \in PoolKind /\ num_threads' \in Nat /\ is_empty' \in BOOLEAN
        /\ mutex' \in USER \cup {NIL} /\ sleeping' \subseteq USER
    <3>1. pool_kind' \in PoolKind
      BY <1>7 DEF RemoveBegin, RemoveChecked, RemoveRefused, RemoveLock, RemoveFails, queueVars,
                  TakeMutex
    <3>2. num_threads' \in Nat
      BY <1>7 DEF RemoveBegin, RemoveChecked, RemoveRefused, RemoveLock, RemoveFails, queueVars,
                  TakeMutex
    <3>3. is_empty' \in BOOLEAN
      BY <1>7 DEF RemoveBegin, RemoveChecked, RemoveRefused, RemoveLock, RemoveFails, queueVars,
                  TakeMutex
    <3>4. mutex' \in USER \cup {NIL}
      BY <1>7 DEF RemoveBegin, RemoveChecked, RemoveRefused, RemoveLock, RemoveFails, queueVars,
                  TakeMutex
    <3>5. sleeping' \subseteq USER
      BY <1>7 DEF RemoveBegin, RemoveChecked, RemoveRefused, RemoveLock, RemoveFails, queueVars,
                  TakeMutex
    <3> QED
      BY <3>1, <3>2, <3>3, <3>4, <3>5
  <2>2. point' \in [USER -> PoolPoint]
    BY <1>7 DEF RemoveBegin, RemoveChecked, RemoveRefused, RemoveLock, RemoveFails, BeginJob,
                EndJob, Reach, PoolPoint, PoolHolder
  <2>3. jobs' \in [USER -> Seq(PoolCall)]
    <3>1. CASE RemoveRefused(t)
      <4>1. jobs[t] # <<>>
        BY <3>1 DEF RemoveRefused, Job
      <4> QED
        BY <3>1, <4>1, JobEnds DEF RemoveRefused
    <3>2. CASE ~RemoveRefused(t)
      BY <1>7, <3>2 DEF RemoveBegin, RemoveChecked, RemoveLock, RemoveFails, BeginJob
    <3> QED
      BY <3>1, <3>2
  <2>4. DOMAIN left' = USER /\ DOMAIN got' = USER
    BY <1>7 DEF RemoveBegin, RemoveChecked, RemoveRefused, RemoveLock, RemoveFails, BeginJob,
                EndJob
  <2> QED
    BY <2>1, <2>2, <2>3, <2>4
<1> QED
  BY <1>1, <1>2, <1>3, <1>4, <1>5, <1>6, <1>7 DEF PoolStepOf, PoolStep, PoolTime

(* What a step does to the mutex, and to the sleepers.                     *)
LEMMA MutexMoves ==
    ASSUME PoolTypeInv, MutexInv, NEW t \in USER, PoolStepOf(t)
    PROVE  \/ mutex' = mutex /\ (point'[t] \in PoolHolder <=> point[t] \in PoolHolder)
           \/ mutex = NIL /\ mutex' = t /\ point'[t] \in PoolHolder
           \/ point[t] \in PoolHolder /\ mutex' = NIL /\ point'[t] \notin PoolHolder
<1> USE DEF PoolTypeInv, PoolHolder
<1>1. CASE PushSteps(t)
  BY <1>1 DEF PushNothing, PushLock, PushLink, PushNonempty, PushInPool, BeginJob, EndJob, Reach,
              TakeMutex
<1>2. CASE SignalPool(t)
  BY <1>2 DEF SignalPool, Awake, MutexInv
<1>3. CASE UnlockPool(t)
  BY <1>3 DEF UnlockPool, EndJob, Reach
<1>4. CASE PopSteps(t)
  BY <1>4 DEF PopBegin, PopEmpty, FindsEmpty, PopTest, PopLock, PopBusy, PopRetry, PopPrivate,
              BeginJob, EndJob, Reach, TakeMutex
<1>5. CASE TakeSteps(t)
  BY <1>5 DEF PopUnit, PopNothing, TakenEmpty, TakenClear, RemoveUnit, Unlink, Reach
<1>6. CASE WaitSteps(t)
  BY <1>6 DEF WaitElapsed, WaitLock, WaitNonempty, WaitSleep, WaitRefused, WaitRelock, PoolClock,
              WaitOver, BeginJob, EndJob, Reach, TakeMutex
<1>7. CASE RemoveSteps(t)
  BY <1>7 DEF RemoveBegin, RemoveChecked, RemoveRefused, RemoveLock, RemoveFails, BeginJob, EndJob,
              Reach, TakeMutex
<1> QED
  BY <1>1, <1>2, <1>3, <1>4, <1>5, <1>6, <1>7 DEF PoolStepOf, PoolStep, PoolTime

LEMMA SleepersMove ==
    ASSUME PoolTypeInv, MutexInv, NEW t \in USER, PoolStepOf(t)
    PROVE  \/ WaitSleep(t) /\ sleeping' = sleeping \cup {t} /\ point'[t] = "asleep"
           \/ WaitOver(t) /\ sleeping' = sleeping \ {t} /\ point'[t] = "relock"
           \/ SignalPool(t) /\ point[t] = "signal" /\ point'[t] = "unlock"
           \/ /\ ~SignalPool(t)
              /\ sleeping' = sleeping /\ point'[t] # "asleep" /\ (point[t] = "asleep" => PoolClock(t))
           \/ ~SignalPool(t) /\ sleeping' = sleeping /\ point' = point
<1> USE DEF PoolTypeInv
<1>1. CASE PushSteps(t)
  BY <1>1 DEF PushNothing, PushLock, PushLink, PushNonempty, PushInPool, BeginJob, EndJob, Reach,
              SignalPool, Awake
<1>2. CASE SignalPool(t)
  BY <1>2 DEF SignalPool, Awake, MutexInv
<1>3. CASE UnlockPool(t)
  BY <1>3 DEF UnlockPool, EndJob, Reach, SignalPool, Awake
<1>4. CASE PopSteps(t)
  BY <1>4 DEF PopBegin, PopEmpty, FindsEmpty, PopTest, PopLock, PopBusy, PopRetry, PopPrivate,
              BeginJob, EndJob, Reach, SignalPool, Awake
<1>5. CASE TakeSteps(t)
  BY <1>5 DEF PopUnit, PopNothing, TakenEmpty, TakenClear, RemoveUnit, Unlink, Reach, SignalPool,
              Awake
<1>6. CASE WaitSteps(t)
  BY <1>6 DEF WaitElapsed, WaitLock, WaitNonempty, WaitSleep, WaitRefused, WaitRelock, PoolClock,
              WaitOver, BeginJob, EndJob, Reach, SignalPool, Awake
<1>7. CASE RemoveSteps(t)
  BY <1>7 DEF RemoveBegin, RemoveChecked, RemoveRefused, RemoveLock, RemoveFails, BeginJob, EndJob,
              Reach, SignalPool, Awake
<1> QED
  BY <1>1, <1>2, <1>3, <1>4, <1>5, <1>6, <1>7 DEF PoolStepOf, PoolStep, PoolTime

LEMMA MutexKept ==
    ASSUME PoolTypeInv, PoolTypeInv', MutexInv, NEW t \in USER, PoolStepOf(t)
    PROVE  MutexInv'
<1> NIL \notin USER
  BY PoolAssumption
<1>1. ASSUME NEW s \in USER  PROVE  (point[s] \in PoolHolder <=> mutex = s)'
  <2>1. CASE s = t
    BY <2>1, MutexMoves DEF MutexInv
  <2>2. CASE s # t
    <3>1. point'[s] \in PoolHolder <=> point[s] \in PoolHolder
      BY <2>2, PoolFrame DEF PoolHolder
    <3>2. mutex' = s <=> mutex = s
      BY <2>2, MutexMoves DEF MutexInv
    <3> QED
      BY <3>1, <3>2 DEF MutexInv
  <2> QED
    BY <2>1, <2>2
<1>2. ASSUME NEW s \in USER  PROVE  s \in sleeping' <=> point'[s] = "asleep"
  <2>1. CASE SignalPool(t)
    BY <2>1 DEF SignalPool, Awake, MutexInv, PoolTypeInv
  <2>2. CASE ~SignalPool(t) /\ s # t
    <3>1. point'[s] = point[s]
      BY <2>2, PoolFrame
    <3>2. s \in sleeping' <=> s \in sleeping
      BY <2>2, SleepersMove
    <3> QED
      BY <3>1, <3>2 DEF MutexInv
  <2>3. CASE ~SignalPool(t) /\ s = t
    <3>1. point[t] = "asleep" => ~PoolClock(t) \/ point' = point
      BY DEF PoolClock
    <3> QED
      BY <2>3, <3>1, SleepersMove DEF MutexInv
  <2> QED
    BY <2>1, <2>2, <2>3
<1>3. sleeping' \subseteq USER
  BY DEF PoolTypeInv
<1>4. sleeping' = {s \in USER : point'[s] = "asleep"}
  BY <1>2, <1>3
<1> QED
  BY <1>1, <1>4 DEF MutexInv

(* Only the holder of the mutex changes what the pool holds, in these steps.*)
QueueStep(t) ==
    PushLink(t) \/ PushNonempty(t) \/ PopUnit(t) \/ TakenEmpty(t) \/ RemoveUnit(t)

LEMMA QueueSteps ==
    ASSUME PoolTypeInv, NEW t \in USER, PoolStepOf(t), ~QueueStep(t)
    PROVE  /\ num_threads' = num_threads /\ is_empty' = is_empty
           /\ point'[t] \notin {"nonempty", "empty"} \/ point'[t] = point[t]
           /\ point[t] \notin {"nonempty", "empty"} \/ PoolClock(t)
<1> USE DEF PoolTypeInv
<1>1. CASE PushNothing(t) \/ PushLock(t) \/ PushInPool(t)
  BY <1>1 DEF PushNothing, PushLock, PushInPool, BeginJob, EndJob, Reach, queueVars
<1>2. CASE SignalPool(t)
  BY <1>2 DEF SignalPool, Awake, queueVars
<1>3. CASE UnlockPool(t)
  BY <1>3 DEF UnlockPool, EndJob, Reach, queueVars
<1>4. CASE PopSteps(t)
  BY <1>4 DEF PopBegin, PopEmpty, FindsEmpty, PopTest, PopLock, PopBusy, PopRetry, PopPrivate,
              BeginJob, EndJob, Reach, queueVars
<1>5. CASE PopNothing(t) \/ TakenClear(t)
  BY <1>5 DEF PopNothing, TakenClear, Reach, queueVars
<1>6. CASE WaitSteps(t)
  BY <1>6 DEF WaitElapsed, WaitLock, WaitNonempty, WaitSleep, WaitRefused, WaitRelock, PoolClock,
              WaitOver, BeginJob, EndJob, Reach, queueVars
<1>7. CASE RemoveSteps(t)
  BY <1>7 DEF RemoveBegin, RemoveChecked, RemoveRefused, RemoveLock, RemoveFails, BeginJob, EndJob,
              Reach, queueVars
<1> QED
  BY <1>1, <1>2, <1>3, <1>4, <1>5, <1>6, <1>7 DEF PoolStepOf, PoolStep, PoolTime, QueueStep

LEMMA EmptyKept ==
    ASSUME PoolTypeInv, MutexInv, MutexInv', EmptyInv, NEW t \in USER, PoolStepOf(t)
    PROVE  EmptyInv'
<1> NIL \notin USER
  BY PoolAssumption
<1>1. CASE QueueStep(t)
  <2>1. mutex = t /\ mutex' = t /\ num_threads \in Nat
    BY <1>1 DEF QueueStep, PushLink, PushNonempty, PopUnit, TakenEmpty, RemoveUnit, Unlink, Reach,
                MutexInv, PoolHolder, PoolTypeInv
  <2>2. /\ point'[t] \in PoolHolder \ {"nonempty", "empty"} => (is_empty' <=> num_threads' = 0)
        /\ point'[t] = "nonempty" => num_threads' > 0
        /\ point'[t] = "empty" => num_threads' = 0
    <3>1. CASE PushLink(t) \/ PushNonempty(t)
      BY <1>1, <2>1, <3>1 DEF PushLink, PushNonempty, Reach, EmptyInv, PoolHolder, PoolTypeInv
    <3>2. CASE PopUnit(t) \/ RemoveUnit(t) \/ TakenEmpty(t)
      BY <1>1, <2>1, <3>2 DEF PopUnit, RemoveUnit, Unlink, TakenEmpty, Reach, EmptyInv, PoolHolder,
                              PoolTypeInv
    <3> QED
      BY <1>1, <3>1, <3>2 DEF QueueStep
  <2>3. ASSUME NEW s \in USER, s # t  PROVE  point'[s] \notin PoolHolder
    BY <2>1, <2>3 DEF MutexInv
  <2> QED
    BY <2>1, <2>2, <2>3 DEF EmptyInv, PoolHolder
<1>2. CASE ~QueueStep(t)
  <2> USE QueueSteps, <1>2
  <2>1. CASE PoolClock(t)
    BY <2>1 DEF PoolClock, EmptyInv, queueVars
  <2>2. CASE ~PoolClock(t)
    <3>1. point'[t] \notin {"nonempty", "empty"}
      BY <2>2
    <3>2. mutex \in {NIL, t} => (is_empty <=> num_threads = 0)
      BY <2>2 DEF EmptyInv, MutexInv
    <3>3. mutex' = NIL => mutex \in {NIL, t}
      BY MutexMoves DEF MutexInv
    <3>4. ASSUME NEW s \in USER, s # t
          PROVE  point'[s] = point[s] \/ point'[s] = "relock"
      BY <3>4, PoolFrame
    <3>5. point'[t] \in PoolHolder => mutex \in {NIL, t}
      BY MutexMoves DEF MutexInv
    <3> QED
      BY <3>1, <3>2, <3>3, <3>4, <3>5 DEF EmptyInv, PoolHolder
  <2> QED
    BY <2>1, <2>2
<1> QED
  BY <1>1, <1>2

LEMMA KindKept ==
    ASSUME PoolTypeInv, MutexInv, KindInv, NEW t \in USER, PoolStepOf(t)
    PROVE  KindInv'
<1> USE DEF PoolTypeInv, Kind
<1>0. \A s \in USER : Kind(pool_kind, point[s], jobs[s], left[s], Pushed(s))
  BY DEF KindInv
<1>1. Kind(pool_kind, point[t], jobs[t], left[t], Pushed(t))
  BY <1>0
<1>2. pool_kind' = pool_kind
  BY DEF PoolStepOf, PoolStep, PoolTime, PushNothing, PushLock, PushLink, PushNonempty, PushInPool,
         SignalPool, Awake, UnlockPool, PopBegin, PopEmpty, FindsEmpty, PopTest, PopLock, PopBusy,
         PopRetry, PopPrivate, PopUnit, PopNothing, Unlink, TakenEmpty, TakenClear, WaitElapsed,
         WaitLock, WaitNonempty, WaitSleep, WaitRefused, WaitOver, WaitRelock, RemoveBegin,
         RemoveChecked, RemoveRefused, RemoveLock, RemoveUnit, RemoveFails, PoolClock
<1>3. ASSUME NEW s \in USER, s # t
      PROVE  Kind(pool_kind', point'[s], jobs'[s], left'[s], Pushed(s)')
  <2>1. Pushed(s)' = Pushed(s)
    BY <1>3, PoolFrame DEF Pushed, Job, Units
  <2>2. jobs'[s] = jobs[s] /\ left'[s] = left[s]
    BY <1>3, PoolFrame
  <2>3. CASE point'[s] = point[s]
    BY <1>0, <1>2, <2>1, <2>2, <2>3
  <2>4. CASE point[s] = "asleep" /\ point'[s] = "relock"
    BY <1>0, <1>2, <2>1, <2>2, <2>4
  <2> QED
    BY <1>3, <2>3, <2>4, PoolFrame
<1>4. Kind(pool_kind', point'[t], jobs'[t], left'[t], Pushed(t)')
  <2>1. CASE PushLock(t)
    <3>1. jobs[t] # <<>> /\ jobs'[t] = jobs[t] /\ Pushed(t)' = Pushed(t)
      BY <2>1 DEF PushLock, BeginJob, Job, Pushed, Units
    <3>2. Len(Pushed(t)) \in Nat \ {0}
      BY <2>1, <3>1, PushedLength DEF PushLock
    <3>3. left'[t] = Len(Pushed(t)) /\ point'[t] = "link"
      BY <2>1 DEF PushLock, BeginJob, Reach
    <3> QED
      BY <3>1, <3>2, <3>3
  <2>2. CASE PushLink(t) \/ PushNonempty(t)
    <3>1. jobs'[t] = jobs[t] /\ left'[t] = left[t] /\ Pushed(t)' = Pushed(t)
      BY <2>2 DEF PushLink, PushNonempty, Job, Pushed, Units
    <3>2. point[t] \in {"link", "nonempty"} /\ point'[t] \in {"nonempty", "in_pool"}
      BY <2>2 DEF PushLink, PushNonempty, Reach
    <3> QED
      BY <1>1, <3>1, <3>2
  <2>3. CASE PushInPool(t)
    <3>1. jobs'[t] = jobs[t] /\ left'[t] = left[t] - 1 /\ Pushed(t)' = Pushed(t)
      BY <2>3 DEF PushInPool, Job, Pushed, Units
    <3>2. /\ point[t] = "in_pool"
          /\ point'[t] = IF left[t] > 1 THEN "link"
                         ELSE IF pool_kind = "fifo_wait" THEN "signal" ELSE "unlock"
      BY <2>3 DEF PushInPool, Reach
    <3>3. Len(Pushed(t)) \in Nat \ {0} /\ left[t] \in 1 .. Len(Pushed(t)) /\ jobs[t] # <<>>
      BY <1>1, <3>2
    <3>4. CASE left[t] > 1
      BY <1>2, <3>1, <3>2, <3>3, <3>4
    <3>5. CASE ~(left[t] > 1)
      <4>1. left[t] = 1
        BY <3>3, <3>5
      <4> QED
        BY <1>2, <3>1, <3>2, <3>3, <4>1
    <3> QED
      BY <3>4, <3>5
  <2>4. CASE PushNothing(t)
    BY <2>4 DEF PushNothing, EndJob
  <2>5. CASE SignalPool(t)
    <3>1. jobs'[t] = jobs[t] /\ point[t] = "signal" /\ point'[t] = "unlock"
      BY <2>5 DEF SignalPool, Awake, MutexInv
    <3> QED
      BY <1>1, <3>1
  <2>6. CASE UnlockPool(t)
    <3>1. point'[t] = "idle" \/ (point'[t] = "elapsed" /\ jobs'[t] = jobs[t] /\ jobs[t] # <<>>)
      BY <1>1, <2>6 DEF UnlockPool, EndJob, Reach
    <3> QED
      BY <3>1
  <2>7. CASE PopSteps(t)
    <3>1. point'[t] = "idle" \/ (jobs'[t] = jobs[t] /\ jobs[t] # <<>>)
      BY <1>1, <2>7 DEF PopBegin, PopEmpty, FindsEmpty, PopTest, PopLock, PopBusy, PopRetry,
                        PopPrivate, BeginJob, EndJob, Reach, Job
    <3>2. point'[t] \in {"idle", "test", "elapsed", "try", "peek", "pop", "spin"}
      BY <2>7 DEF PopBegin, PopEmpty, FindsEmpty, PopTest, PopLock, PopBusy, PopRetry, PopPrivate,
                  BeginJob, EndJob, Reach
    <3> QED
      BY <3>1, <3>2
  <2>8. CASE TakeSteps(t)
    <3>1. jobs'[t] = jobs[t] /\ point[t] # "idle"
      BY <2>8 DEF PopUnit, PopNothing, TakenEmpty, TakenClear, RemoveUnit, Unlink, Reach
    <3>2. point'[t] \in {"empty", "clear", "unlock", "pop"}
      BY <2>8 DEF PopUnit, PopNothing, TakenEmpty, TakenClear, RemoveUnit, Unlink, Reach
    <3> QED
      BY <1>1, <3>1, <3>2
  <2>9. CASE WaitElapsed(t) \/ WaitNonempty(t) \/ WaitRefused(t) \/ WaitRelock(t)
    <3>1. point[t] # "idle" /\ (point'[t] = "idle" \/ jobs'[t] = jobs[t])
      BY <2>9 DEF WaitElapsed, WaitNonempty, WaitRefused, WaitRelock, EndJob, Reach
    <3>2. point'[t] \in {"idle", "test", "pop"}
      BY <2>9 DEF WaitElapsed, WaitNonempty, WaitRefused, WaitRelock, EndJob, Reach
    <3> QED
      BY <1>1, <3>1, <3>2
  <2>10. CASE WaitLock(t) \/ WaitSleep(t) \/ WaitOver(t)
    <3>1. pool_kind = "fifo_wait" /\ jobs'[t] = jobs[t] /\ jobs[t] # <<>>
      BY <1>1, <2>10 DEF WaitLock, WaitSleep, WaitOver, BeginJob, Reach, Job
    <3>2. point'[t] \in {"wait", "asleep", "relock"}
      BY <2>10 DEF WaitLock, WaitSleep, WaitOver, BeginJob, Reach
    <3> QED
      BY <1>2, <3>1, <3>2
  <2>11. CASE PoolClock(t)
    <3>1. point' = point /\ jobs' = jobs /\ left' = left /\ Pushed(t)' = Pushed(t)
      BY <2>11 DEF PoolClock, Job, Pushed, Units
    <3> QED
      BY <1>1, <1>2, <3>1
  <2>12. CASE RemoveSteps(t)
    <3>1. point'[t] = "idle" \/ (jobs'[t] = jobs[t] /\ jobs[t] # <<>>)
      BY <1>1, <2>12 DEF RemoveBegin, RemoveChecked, RemoveRefused, RemoveLock, RemoveFails,
                         BeginJob, EndJob, Reach, Job
    <3>2. point'[t] \in {"idle", "checked", "lock", "remove", "unlock"}
      BY <2>12 DEF RemoveBegin, RemoveChecked, RemoveRefused, RemoveLock, RemoveFails, BeginJob,
                   EndJob, Reach
    <3> QED
      BY <3>1, <3>2
  <2> QED
    BY <2>1, <2>2, <2>3, <2>4, <2>5, <2>6, <2>7, <2>8, <2>9, <2>10, <2>11, <2>12
       DEF PoolStepOf, PoolStep, PoolTime
<1> QED
  BY <1>3, <1>4 DEF KindInv

LEMMA LeadNatural ==
    ASSUME NEW kind, NEW p, NEW job, NEW l, NEW pushed, Kind(kind, p, job, l, pushed)
    PROVE  Lead(p, l, pushed) \in Nat
<1>1. CASE p \in {"link", "nonempty", "in_pool"}
  <2>1. l \in 1 .. Len(pushed) /\ Len(pushed) \in Nat
    BY <1>1 DEF Kind
  <2> QED
    BY <1>1, <2>1 DEF Lead
<1>2. CASE p = "signal"
  BY <1>2 DEF Lead, Kind
<1>3. CASE p = "pop"
  BY <1>3 DEF Lead
<1>4. CASE p \notin {"link", "nonempty", "in_pool", "signal", "pop"}
  BY <1>4 DEF Lead
<1> QED
  BY <1>1, <1>2, <1>3, <1>4

(* The holder of the mutex is ahead by what it pushes, and a unit that it  *)
(* takes is the one it was allowed to take.                                *)
LEMMA HolderMoves ==
    ASSUME PoolTypeInv, MutexInv, KindInv, KindInv', NEW t \in USER, PoolStepOf(t),
           mutex = t, mutex' = t, ~SignalPool(t), pool_kind = "fifo_wait"
    PROVE  \/ num_threads' = 0
           \/ num_threads' + Ahead(t) <= num_threads + Ahead(t)'
<1> USE DEF PoolTypeInv
<1>0. Ahead(t) \in Nat /\ Ahead(t)' \in Nat
  BY LeadNatural DEF KindInv, Ahead
<1>1. point[t] \in PoolHolder /\ point'[t] \in PoolHolder
  <2>1. point[t] \in PoolHolder
    BY DEF MutexInv
  <2> QED
    BY <2>1, MutexMoves, PoolAssumption
<1>2. CASE QueueStep(t)
  <2>0. left' = left /\ jobs' = jobs
    BY <1>2 DEF QueueStep, PushLink, PushNonempty, PopUnit, TakenEmpty, RemoveUnit, Unlink
  <2>1. CASE PushLink(t) \/ PushNonempty(t)
    <3>1. Pushed(t)' = Pushed(t)
      BY <2>0, <2>1 DEF PushLink, PushNonempty, Pushed, Job, Units
    <3>2. left[t] \in 1 .. Len(Pushed(t)) /\ Len(Pushed(t)) \in Nat
      BY <2>1 DEF PushLink, PushNonempty, Reach, KindInv, Kind
    <3>3. CASE PushLink(t)
      <4>1. num_threads' = num_threads + 1 /\ point[t] = "link" /\ point'[t] \in {"nonempty", "in_pool"}
        BY <3>3 DEF PushLink, Reach
      <4> QED
        BY <2>0, <3>1, <3>2, <4>1 DEF Ahead, Lead
    <3>4. CASE PushNonempty(t)
      <4>1. num_threads' = num_threads /\ point[t] = "nonempty" /\ point'[t] = "in_pool"
        BY <3>4 DEF PushNonempty, Reach
      <4> QED
        BY <2>0, <3>1, <3>2, <4>1 DEF Ahead, Lead
    <3> QED
      BY <2>1, <3>3, <3>4
  <2>2. CASE PopUnit(t) \/ RemoveUnit(t)
    <3>1. point[t] \in {"pop", "remove"} /\ num_threads' = num_threads - 1
      BY <2>2 DEF PopUnit, RemoveUnit, Unlink
    <3>2. Ahead(t) <= 1
      BY <3>1 DEF Ahead, Lead
    <3> QED
      BY <1>0, <3>1, <3>2
  <2>3. CASE TakenEmpty(t)
    <3>1. point[t] = "empty" /\ num_threads' = num_threads
      BY <2>3 DEF TakenEmpty, Reach
    <3>2. Ahead(t) = 0
      BY <3>1 DEF Ahead, Lead
    <3> QED
      BY <1>0, <3>1, <3>2
  <2> QED
    BY <1>2, <2>1, <2>2, <2>3 DEF QueueStep
<1>3. CASE ~QueueStep(t)
  <2>1. num_threads' = num_threads
    BY <1>3, QueueSteps
  <2>2. CASE PushInPool(t)
    <3>1. Pushed(t)' = Pushed(t) /\ left'[t] = left[t] - 1
      BY <2>2 DEF PushInPool, Pushed, Job, Units
    <3>2. left[t] \in 1 .. Len(Pushed(t)) /\ Len(Pushed(t)) \in Nat
      BY <2>2 DEF PushInPool, Reach, KindInv, Kind
    <3>3. point[t] = "in_pool"
      BY <2>2 DEF PushInPool, Reach
    <3>4. CASE left[t] > 1
      <4>1. point'[t] = "link"
        BY <2>2, <3>4 DEF PushInPool, Reach
      <4> QED
        BY <2>1, <3>1, <3>2, <3>3, <4>1 DEF Ahead, Lead
    <3>5. CASE left[t] = 1 /\ pool_kind = "fifo_wait"
      <4>1. point'[t] = "signal"
        BY <2>2, <3>5 DEF PushInPool, Reach
      <4> QED
        BY <2>1, <3>1, <3>2, <3>3, <3>5, <4>1 DEF Ahead, Lead
    <3> QED
      BY <3>2, <3>4, <3>5
  <2>3. CASE PoolClock(t)
    <3>1. Ahead(t)' = Ahead(t)
      BY <2>3 DEF PoolClock, Ahead, Pushed, Job, Units
    <3> QED
      BY <1>0, <2>1, <3>1
  <2>4. CASE ~PushInPool(t) /\ ~PoolClock(t)
    <3>1. CASE point[t] \in {"clear", "wait", "remove", "unlock"}
      <4>1. Ahead(t) = 0
        BY <3>1 DEF Ahead, Lead
      <4> QED
        BY <1>0, <2>1, <4>1
    <3>2. CASE point[t] \notin {"clear", "wait", "remove", "unlock"}
      <4>1. PopNothing(t)
        <5>1. ~(PushNothing(t) \/ PushLock(t) \/ UnlockPool(t) \/ TakenClear(t))
          BY <1>1, <3>2 DEF PushNothing, PushLock, UnlockPool, TakenClear, BeginJob, Reach, PoolHolder
        <5>2. ~(PopBegin(t) \/ PopEmpty(t) \/ PopTest(t) \/ PopLock(t) \/ PopBusy(t) \/ PopRetry(t)
                \/ PopPrivate(t))
          BY <1>1 DEF PopBegin, PopEmpty, PopTest, PopLock, PopBusy, PopRetry, PopPrivate, BeginJob,
                      Reach, PoolHolder
        <5>3. ~(WaitElapsed(t) \/ WaitLock(t) \/ WaitNonempty(t) \/ WaitSleep(t) \/ WaitRefused(t)
                \/ WaitRelock(t) \/ WaitOver(t))
          BY <1>1, <3>2 DEF WaitElapsed, WaitLock, WaitNonempty, WaitSleep, WaitRefused, WaitRelock,
                            WaitOver, BeginJob, Reach, PoolHolder
        <5>4. ~(RemoveBegin(t) \/ RemoveChecked(t) \/ RemoveRefused(t) \/ RemoveLock(t)
                \/ RemoveFails(t))
          BY <1>1, <3>2 DEF RemoveBegin, RemoveChecked, RemoveRefused, RemoveLock, RemoveFails,
                            BeginJob, Reach, PoolHolder
        <5> QED
          BY <1>3, <2>4, <5>1, <5>2, <5>3, <5>4 DEF PoolStepOf, PoolStep, PoolTime, QueueStep
      <4> QED
        BY <2>1, <4>1 DEF PopNothing
    <3> QED
      BY <3>1, <3>2
  <2> QED
    BY <2>2, <2>3, <2>4
<1> QED
  BY <1>2, <1>3

LEMMA RelockingFinite ==
    IsFiniteSet(Relocking) /\ Cardinality(Relocking) \in Nat
<1>1. IsFiniteSet(USER)
  BY PoolAssumption
<1>2. Relocking \subseteq USER
  BY DEF Relocking
<1> QED
  BY <1>1, <1>2, FS_Subset, FS_CardinalityType

LEMMA RelockingSteps ==
    ASSUME PoolTypeInv, NEW t \in USER, PoolStepOf(t), ~WaitOver(t), ~WaitRelock(t),
           ~SignalPool(t)
    PROVE  point'[t] = "relock" <=> point[t] = "relock"
<1> USE DEF PoolTypeInv
<1>1. CASE PushSteps(t)
  BY <1>1 DEF PushNothing, PushLock, PushLink, PushNonempty, PushInPool, BeginJob, EndJob, Reach
<1>2. CASE UnlockPool(t)
  BY <1>2 DEF UnlockPool, EndJob, Reach
<1>3. CASE PopSteps(t)
  BY <1>3 DEF PopBegin, PopEmpty, FindsEmpty, PopTest, PopLock, PopBusy, PopRetry, PopPrivate,
              BeginJob, EndJob, Reach
<1>4. CASE TakeSteps(t)
  BY <1>4 DEF PopUnit, PopNothing, TakenEmpty, TakenClear, RemoveUnit, Unlink, Reach
<1>5. CASE WaitElapsed(t) \/ WaitLock(t) \/ WaitNonempty(t) \/ WaitSleep(t) \/ WaitRefused(t)
           \/ PoolClock(t)
  BY <1>5 DEF WaitElapsed, WaitLock, WaitNonempty, WaitSleep, WaitRefused, PoolClock, BeginJob,
              EndJob, Reach
<1>6. CASE RemoveSteps(t)
  BY <1>6 DEF RemoveBegin, RemoveChecked, RemoveRefused, RemoveLock, RemoveFails, BeginJob, EndJob,
              Reach
<1> QED
  BY <1>1, <1>2, <1>3, <1>4, <1>5, <1>6 DEF PoolStepOf, PoolStep, PoolTime

(* Besides a user that goes to sleep, only an unlock gives the mutex back. *)
LEMMA Unlocks ==
    ASSUME PoolTypeInv, MutexInv, NEW t \in USER, PoolStepOf(t), mutex # NIL, mutex' = NIL,
           ~WaitSleep(t)
    PROVE  mutex = t /\ UnlockPool(t)
<1>1. mutex = t
  BY MutexMoves DEF MutexInv
<1>2. UnlockPool(t)
  BY PoolAssumption
     DEF PoolStepOf, PoolStep, PoolTime, PushNothing, PushLock, PushLink, PushNonempty, PushInPool,
         SignalPool, Awake, PopBegin, PopEmpty, FindsEmpty, PopTest, PopLock, PopBusy,
         PopRetry, PopPrivate, PopUnit, PopNothing, Unlink, TakenEmpty, TakenClear, WaitElapsed,
         WaitLock, WaitNonempty, WaitRefused, WaitOver, WaitRelock, RemoveBegin,
         RemoveChecked, RemoveRefused, RemoveLock, RemoveUnit, RemoveFails, PoolClock, TakeMutex
<1> QED
  BY <1>1, <1>2

LEMMA SleepKept ==
    ASSUME PoolInv, PoolTypeInv', MutexInv', KindInv', NEW t \in USER, PoolStepOf(t)
    PROVE  SleepInv'
<1> USE DEF PoolInv
<1>0. /\ num_threads \in Nat /\ num_threads' \in Nat /\ NIL \notin USER
      /\ point \in [USER -> PoolPoint] /\ point' \in [USER -> PoolPoint]
  BY PoolAssumption DEF PoolTypeInv
<1>1. Cardinality(Relocking) \in Nat /\ IsFiniteSet(Relocking)
  BY RelockingFinite
<1>2. IsFiniteSet(Relocking') /\ Cardinality(Relocking') \in Nat
  <2>1. Relocking' \subseteq USER /\ IsFiniteSet(USER)
    BY PoolAssumption DEF Relocking
  <2> QED
    BY <2>1, FS_Subset, FS_CardinalityType
<1>3. \A s \in USER : Ahead(s) \in Nat /\ Ahead(s)' \in Nat
  BY LeadNatural DEF KindInv, Ahead
<1>4. ASSUME NEW s \in USER, s # t, point'[s] = point[s]
      PROVE  Ahead(s)' = Ahead(s)
  <2>1. left'[s] = left[s] /\ Pushed(s)' = Pushed(s)
    BY <1>4, PoolFrame DEF Pushed, Job, Units
  <2> QED
    BY <1>4, <2>1 DEF Ahead
<1>5. CASE WaitSleep(t)
  <2>1. num_threads' = 0
    BY <1>5 DEF WaitSleep, Reach, queueVars, EmptyInv, PoolHolder
  <2>2. mutex' = NIL
    BY <1>5 DEF WaitSleep
  <2> QED
    BY <1>0, <1>2, <2>1, <2>2 DEF SleepInv
<1>6. CASE WaitOver(t)
  <2>1. /\ point[t] = "asleep" /\ point' = [point EXCEPT ![t] = "relock"]
        /\ mutex' = mutex /\ num_threads' = num_threads
    BY <1>6 DEF WaitOver, Reach, queueVars
  <2>2. sleeping # {} /\ mutex # t
    BY <2>1 DEF MutexInv, PoolHolder
  <2>3. Relocking' = Relocking \cup {t} /\ t \notin Relocking
    BY <1>0, <2>1 DEF Relocking
  <2>4. Cardinality(Relocking') = Cardinality(Relocking) + 1
    BY <1>1, <2>3, FS_AddElement
  <2>5. ASSUME NEW s \in USER, mutex' = s
        PROVE  num_threads' <= Cardinality(Relocking') + Ahead(s)'
    <3>1. s # t /\ mutex = s
      BY <2>1, <2>2, <2>5
    <3>2. Ahead(s)' = Ahead(s) /\ Ahead(s) \in Nat
      BY <1>0, <1>3, <1>4, <2>1, <3>1
    <3>3. num_threads <= Cardinality(Relocking) + Ahead(s)
      BY <2>2, <3>1 DEF SleepInv
    <3> QED
      BY <1>0, <1>1, <2>1, <2>4, <3>2, <3>3
  <2>6. mutex' = NIL => num_threads' <= Cardinality(Relocking')
    BY <1>0, <1>1, <2>1, <2>2, <2>4 DEF SleepInv
  <2> QED
    BY <2>5, <2>6 DEF SleepInv
<1>7. CASE SignalPool(t)
  <2>1. point[t] = "signal" /\ mutex = t /\ mutex' = t /\ num_threads' = num_threads
    BY <1>7 DEF SignalPool, Awake, queueVars, MutexInv, PoolHolder
  <2>2. CASE sleeping' = {}
    BY <2>2 DEF SleepInv
  <2>3. CASE sleeping' # {}
    <3>1. PICK x \in sleeping : Awake(t, {x})
      BY <1>7, <2>3 DEF SignalPool, Awake
    <3>2. Len(Pushed(t)) = 1
      BY <1>7, <2>3 DEF SignalPool, Awake
    <3>3. x \in USER /\ point[x] = "asleep" /\ x # t /\ sleeping # {}
      BY <2>1, <3>1 DEF MutexInv
    <3>4. Relocking' = Relocking \cup {x} /\ x \notin Relocking
      BY <2>1, <3>1, <3>3 DEF Relocking, Awake
    <3>5. Cardinality(Relocking') = Cardinality(Relocking) + 1
      BY <1>1, <3>4, FS_AddElement
    <3>6. Ahead(t) = 1
      BY <2>1, <3>2 DEF Ahead, Lead
    <3>7. num_threads <= Cardinality(Relocking) + 1
      BY <2>1, <3>3, <3>6 DEF SleepInv
    <3>8. num_threads' <= Cardinality(Relocking') + Ahead(t)'
      BY <1>0, <1>1, <1>3, <2>1, <3>5, <3>7
    <3> QED
      BY <1>0, <2>1, <3>8 DEF SleepInv
  <2> QED
    BY <2>2, <2>3
<1>8. CASE WaitRelock(t)
  <2>1. /\ point[t] = "relock" /\ point' = [point EXCEPT ![t] = "pop"] /\ sleeping' = sleeping
        /\ mutex = NIL /\ mutex' = t /\ num_threads' = num_threads
    BY <1>8 DEF WaitRelock, Reach, TakeMutex, queueVars
  <2>2. Relocking = Relocking' \cup {t} /\ t \notin Relocking'
    BY <1>0, <2>1 DEF Relocking
  <2>3. Cardinality(Relocking) = Cardinality(Relocking') + 1
    BY <1>2, <2>2, FS_AddElement
  <2>4. Ahead(t)' = 1
    BY <1>0, <2>1 DEF Ahead, Lead
  <2>5. sleeping # {} => num_threads' <= Cardinality(Relocking') + Ahead(t)'
    BY <2>1, <2>3, <2>4 DEF SleepInv
  <2> QED
    BY <1>0, <2>1, <2>5 DEF SleepInv
<1>9. CASE ~WaitSleep(t) /\ ~WaitOver(t) /\ ~SignalPool(t) /\ ~WaitRelock(t)
  <2>1. sleeping' = sleeping
    BY <1>9, SleepersMove
  <2>2. Relocking' = Relocking
    <3>1. point'[t] = "relock" <=> point[t] = "relock"
      BY <1>9, RelockingSteps
    <3>2. \A s \in USER \ {t} : point'[s] = point[s]
      BY <1>9, PoolFrame
    <3> QED
      BY <3>1, <3>2 DEF Relocking
  <2>3. SUFFICES ASSUME sleeping # {}
                 PROVE  /\ mutex' = NIL => num_threads' <= Cardinality(Relocking)
                        /\ \A s \in USER : mutex' = s =>
                               num_threads' <= Cardinality(Relocking) + Ahead(s)'
    BY <2>1, <2>2 DEF SleepInv
  <2>4. pool_kind = "fifo_wait"
    <3>1. PICK s \in USER : point[s] = "asleep"
      BY <2>3 DEF MutexInv
    <3> QED
      BY <3>1 DEF KindInv, Kind
  <2>5. mutex # t \/ mutex' # t => num_threads' = num_threads
    <3>1. QueueStep(t) => mutex = t /\ mutex' = t
      BY DEF QueueStep, PushLink, PushNonempty, PopUnit, TakenEmpty, RemoveUnit, Unlink, Reach,
             MutexInv, PoolHolder
    <3> QED
      BY <3>1, QueueSteps
  <2>6. ASSUME mutex' = NIL
        PROVE  num_threads' <= Cardinality(Relocking)
    <3>1. num_threads' = num_threads
      BY <1>0, <2>5, <2>6
    <3>2. CASE mutex = NIL
      BY <2>3, <3>1, <3>2 DEF SleepInv
    <3>3. CASE mutex # NIL
      <4>1. mutex = t /\ UnlockPool(t)
        BY <1>9, <2>6, <3>3, Unlocks
      <4>2. Ahead(t) = 0
        BY <4>1 DEF UnlockPool, Ahead, Lead
      <4>3. num_threads <= Cardinality(Relocking) + Ahead(t)
        BY <2>3, <4>1 DEF SleepInv
      <4> QED
        BY <1>0, <1>1, <3>1, <4>2, <4>3
    <3> QED
      BY <3>2, <3>3
  <2>7. ASSUME NEW s \in USER, mutex' = s
        PROVE  num_threads' <= Cardinality(Relocking) + Ahead(s)'
    <3>1. CASE s # t
      <4>1. mutex = s
        BY <1>0, <2>7, <3>1, MutexMoves
      <4>2. num_threads' = num_threads
        BY <2>5, <3>1, <4>1
      <4>3. Ahead(s)' = Ahead(s)
        BY <1>4, <1>9, <3>1, PoolFrame
      <4> QED
        BY <2>3, <4>1, <4>2, <4>3 DEF SleepInv
    <3>2. CASE s = t /\ mutex = t
      <4>1. num_threads' = 0 \/ num_threads' + Ahead(t) <= num_threads + Ahead(t)'
        BY <1>9, <2>4, <2>7, <3>2, HolderMoves
      <4>2. num_threads <= Cardinality(Relocking) + Ahead(t)
        BY <2>3, <3>2 DEF SleepInv
      <4> QED
        BY <1>0, <1>1, <1>3, <3>2, <4>1, <4>2
    <3>3. CASE s = t /\ mutex # t
      <4>1. mutex = NIL /\ num_threads' = num_threads
        BY <1>0, <2>5, <2>7, <3>3, MutexMoves
      <4>2. num_threads <= Cardinality(Relocking)
        BY <2>3, <4>1 DEF SleepInv
      <4> QED
        BY <1>0, <1>1, <1>3, <3>3, <4>1, <4>2
    <3> QED
      BY <3>1, <3>2, <3>3
  <2> QED
    BY <2>6, <2>7
<1> QED
  BY <1>5, <1>6, <1>7, <1>8, <1>9

LEMMA PoolInductive ==
    ASSUME PoolInv, [PoolNext]_builtinVars
    PROVE  PoolInv'
<1>1. CASE UNCHANGED builtinVars
  BY <1>1 DEF PoolInv, PoolTypeInv, MutexInv, EmptyInv, KindInv, SleepInv, Relocking, Ahead, Pushed,
              Job, Units, builtinVars, queueVars, userVars
<1>2. CASE PoolNext
  <2>1. PICK t \in USER : PoolStepOf(t)
    BY <1>2 DEF PoolNext, PoolStepOf
  <2>2. PoolTypeInv'
    BY <2>1, PoolTyped DEF PoolInv
  <2>3. MutexInv'
    BY <2>1, <2>2, MutexKept DEF PoolInv
  <2>4. EmptyInv'
    BY <2>1, <2>3, EmptyKept DEF PoolInv
  <2>5. KindInv'
    BY <2>1, KindKept DEF PoolInv
  <2>6. SleepInv'
    BY <2>1, <2>2, <2>3, <2>5, SleepKept
  <2> QED
    BY <2>2, <2>3, <2>4, <2>5, <2>6 DEF PoolInv
<1> QED
  BY <1>1, <1>2

LEMMA PoolInvariance == PoolSpec => []PoolInv
<1>1. PoolInit => PoolInv
  <2> SUFFICES ASSUME PoolInit PROVE PoolInv
    OBVIOUS
  <2>1. PoolTypeInv
    BY PoolAssumption DEF PoolInit, PoolTypeInv, PoolPoint, LegalPoolUse
  <2>2. MutexInv /\ EmptyInv /\ KindInv /\ SleepInv
    BY PoolAssumption DEF PoolInit, MutexInv, EmptyInv, KindInv, Kind, SleepInv, PoolHolder
  <2> QED
    BY <2>1, <2>2 DEF PoolInv
<1> QED
  BY <1>1, PoolInductive, PTL DEF PoolSpec

(* No user of a FIFO_WAIT pool sleeps beside a unit unless somebody is on  *)
(* the way who was woken for it: whatever the users push and pop, and      *)
(* however late the woken get the mutex.                                   *)
THEOREM UnitsWake == PoolSpec => []SleepersWoken
<1>1. PoolInv => SleepersWoken
  BY DEF PoolInv, SleepInv, SleepersWoken, Relocking
<1> QED
  BY <1>1, PoolInvariance, PTL

-----------------------------------------------------------------------------
(* The ring of a pool: the units of r are linked both ways, from h to l    *)
(* and around.                                                             *)
IsRing(r, n, h, l, next, prev) ==
    /\ r \in Seq(WORK) /\ Len(r) = n /\ IsInjective(r)
    /\ n > 0 => h = r[1] /\ l = r[n]
    /\ \A i \in 1 .. n : /\ next[r[i]] = r[IF i = n THEN 1 ELSE i + 1]
                         /\ prev[r[i]] = r[IF i = 1 THEN n ELSE i - 1]

RingInv ==
    /\ DOMAIN p_next = WORK /\ DOMAIN p_prev = WORK
    /\ IsRing(Queue, num_threads, p_head, p_tail, p_next, p_prev)

(* The calls that have the points of a user.                               *)
JobOK(p, name) ==
    /\ p \in {"link", "nonempty", "in_pool", "signal"} => name \in {"push", "push_back"}
    /\ p \in {"test", "spin", "try", "peek"} => name \in {"pop", "pop_wait"}
    /\ p \in {"wait", "asleep", "relock", "elapsed"} => name = "pop_wait"
    /\ p \in {"pop", "empty", "clear"} => name \in {"pop", "pop_wait", "remove"}
    /\ p \in {"checked", "lock", "remove"} => name = "remove"

JobInv ==
    /\ LegalPoolUse(jobs)
    /\ got \in [USER -> Seq(WORK \cup {NIL})]
    /\ \A t \in USER : point[t] # "idle" => JobOK(point[t], Head(jobs[t])[1])

(* The unit t has just linked, or unlinked.                                *)
Linking(t, u) == point[t] \in {"nonempty", "in_pool"} /\ PushedUnit(t) = u
Unlinking(t, u) == point[t] \in {"empty", "clear"} /\ got[t] # <<>> /\ Last(got[t]) = u

(* is_in_pool is out of date while the holder of the mutex is about to     *)
(* store it.                                                               *)
MarkInv ==
    /\ is_in_pool \in [WORK -> BOOLEAN]
    /\ \A t \in USER :
         /\ point[t] \in {"nonempty", "in_pool"} => PushedUnit(t) \in Range(Queue)
         /\ point[t] = "nonempty" => num_threads = 1
         /\ point[t] \in {"empty", "clear"} =>
              got[t] # <<>> /\ Last(got[t]) \in WORK \ Range(Queue)
    /\ \A u \in WORK : is_in_pool[u] <=>
         \/ u \in Range(Queue) /\ \A t \in USER : ~Linking(t, u)
         \/ \E t \in USER : Unlinking(t, u)

(* How many of the units of its push t has linked.                         *)
Linked(t) == IF point[t] = "unlock" THEN Len(Pushed(t)) ELSE Ahead(t)

(* The new units that t is going to push.                                  *)
IsNew(t, u) ==
    \E k \in DOMAIN jobs[t] :
        /\ jobs[t][k][1] = "push"
        /\ \E i \in DOMAIN jobs[t][k][2] : u = jobs[t][k][2][i] /\ (k = 1 => i > Linked(t))

(* Call k of t pushes what t has got last.                                 *)
PushesBack(t, k) ==
    /\ jobs[t][k][1] = "push_back"
    /\ k = 1 => point[t] \in {"idle", "link"}
    /\ \A i \in 1 .. k - 1 :
         jobs[t][i][1] = "pop" => i = 1 /\ point[t] \in {"empty", "clear", "unlock"}

(* The unit that t has and is going to push back.                          *)
Holds(t, u) ==
    /\ got[t] # <<>> /\ Last(got[t]) = u
    /\ \E k \in DOMAIN jobs[t] : PushesBack(t, k)

(* Who is going to push a unit is alone with it.                           *)
OwnerInv ==
    \A t \in USER : \A u \in WORK :
        /\ IsNew(t, u) => u \notin Range(Queue) /\ \A s \in USER : u \notin Range(got[s])
        /\ Holds(t, u) => u \notin Range(Queue) /\ \A s \in USER : Holds(s, u) => s = t

UnitsInv == RingInv /\ JobInv /\ MarkInv /\ OwnerInv

LessThan == {p \in Nat \X Nat : p[1] < p[2]}

LEMMA LessThanWellFounded == IsWellFoundedOn(LessThan, Nat)
<1>1. IsWellFoundedOn({p \in Nat \X Nat : p[1] < p[2]}, Nat)
  BY NatLessThanWellFounded, Zenon DEF OpToRel
<1>. QED  BY <1>1 DEF LessThan

(* The links of a list, from its head.                                     *)
ChainFrom(s, head, next, none) ==
    /\ head = IF s = <<>> THEN none ELSE s[1]
    /\ \A k \in 1 .. Len(s) : next[s[k]] = IF k = Len(s) THEN none ELSE s[k + 1]

(* f is the walk of at most N steps along them.                            *)
IsWalk(f, N, head, next, none) ==
    f = [k \in 1 .. N |-> IF k = 1 THEN head
                           ELSE IF f[k - 1] = none THEN none ELSE next[f[k - 1]]]

(* Whoever follows the links of a list from its head meets its elements in *)
(* order, then none.                                                       *)
LEMMA FollowList ==
    ASSUME NEW S, NEW none, none \notin S, NEW s \in Seq(S), NEW N \in Nat, NEW head, NEW next,
           ChainFrom(s, head, next, none)
    PROVE  /\ \E f : IsWalk(f, N, head, next, none)
           /\ \A f : IsWalk(f, N, head, next, none) =>
                \A k \in 1 .. N : f[k] = IF k <= Len(s) THEN s[k] ELSE none
<1>. DEFINE g == [k \in 1 .. N |-> IF k <= Len(s) THEN s[k] ELSE none]
<1>1. /\ Len(s) \in Nat /\ N \in Nat /\ DOMAIN s = 1 .. Len(s) /\ (s = <<>> <=> Len(s) = 0)
      /\ \A k \in 1 .. Len(s) : s[k] # none
  OBVIOUS
<1>2. ASSUME NEW k \in 1 .. N
      PROVE  g[k] = IF k = 1 THEN head ELSE IF g[k - 1] = none THEN none ELSE next[g[k - 1]]
  <2>1. CASE k = 1
    <3>1. head = IF Len(s) = 0 THEN none ELSE s[1]
      BY <1>1 DEF ChainFrom
    <3>2. g[1] = IF 1 <= Len(s) THEN s[1] ELSE none
      BY <2>1
    <3>3. 1 <= Len(s) <=> Len(s) # 0
      BY <1>1
    <3>. QED  BY <2>1, <3>1, <3>2, <3>3
  <2>2. CASE k # 1 /\ k - 1 <= Len(s)
    <3>1. k - 1 \in 1 .. Len(s) /\ k - 1 \in 1 .. N /\ (k - 1) + 1 = k
      BY <1>1, <2>2
    <3>2. g[k - 1] = s[k - 1] /\ s[k - 1] # none
      BY <1>1, <3>1
    <3>3. next[s[k - 1]] = IF k - 1 = Len(s) THEN none ELSE s[k]
      BY <3>1 DEF ChainFrom
    <3>. QED  BY <1>1, <2>2, <3>1, <3>2, <3>3
  <2>3. CASE k # 1 /\ ~(k - 1 <= Len(s))
    <3>1. k - 1 \in 1 .. N /\ ~(k <= Len(s))
      BY <1>1, <2>3
    <3>. QED  BY <1>1, <2>3, <3>1
  <2>. QED  BY <2>1, <2>2, <2>3
<1>3. IsWalk(g, N, head, next, none)
  BY <1>2 DEF IsWalk
<1>4. ASSUME NEW w, IsWalk(w, N, head, next, none)
      PROVE  \A k \in 1 .. N : w[k] = g[k]
  <2>1. \A k \in 1 .. N : w[k] = IF k = 1 THEN head
                                 ELSE IF w[k - 1] = none THEN none ELSE next[w[k - 1]]
    BY <1>4 DEF IsWalk
  <2>. HIDE DEF g
  <2>. DEFINE T == {k \in 1 .. N : w[k] # g[k]}
  <2>2. SUFFICES ASSUME T # {} PROVE FALSE
    OBVIOUS
  <2>3. PICK k \in T : \A j \in T : <<j, k>> \notin LessThan
    <3>1. T \subseteq Nat
      OBVIOUS
    <3>. HIDE DEF T
    <3>. QED  BY <2>2, <3>1, LessThanWellFounded, WFMin
  <2>4. k \in 1 .. N /\ w[k] # g[k]
    OBVIOUS
  <2>5. k # 1
    BY <1>2, <2>1, <2>4
  <2>6. k - 1 \in 1 .. N /\ <<k - 1, k>> \in LessThan
    BY <1>1, <2>4, <2>5 DEF LessThan
  <2>7. w[k - 1] = g[k - 1]
    BY <2>3, <2>6
  <2>. QED  BY <1>2, <2>1, <2>4, <2>5, <2>7
<1>5. \A k \in 1 .. N : g[k] = IF k <= Len(s) THEN s[k] ELSE none
  OBVIOUS
<1>. HIDE DEF g
<1>. QED  BY <1>3, <1>4, <1>5

(* Whoever follows the links of a ring from its head goes through its      *)
(* units in order.                                                         *)
LEMMA WalkOfRing ==
    ASSUME NEW r, NEW n \in Nat, NEW h, NEW l, NEW next, NEW prev,
           IsRing(r, n, h, l, next, prev)
    PROVE  Walk(n, h, next) = r
<1>. DEFINE Along(f) == [i \in 1 .. n |-> IF i = 1 THEN h ELSE next[f[i - 1]]]
            w == CHOOSE f : f = Along(f)
<1>1. DOMAIN r = 1 .. n /\ r \in Seq(WORK)
  BY DEF IsRing
<1>2. \A i \in 1 .. n : r[i] = IF i = 1 THEN h ELSE next[r[i - 1]]
  <2>. SUFFICES ASSUME NEW i \in 1 .. n PROVE r[i] = IF i = 1 THEN h ELSE next[r[i - 1]]
    OBVIOUS
  <2>1. CASE i = 1
    BY <2>1 DEF IsRing
  <2>2. CASE i # 1
    <3>1. i - 1 \in 1 .. n /\ i - 1 # n /\ (i - 1) + 1 = i
      BY <2>2
    <3>. QED  BY <2>2, <3>1 DEF IsRing
  <2>. QED  BY <2>1, <2>2
<1>3. r = Along(r)
  <2>1. r = [i \in 1 .. n |-> r[i]]
    BY <1>1
  <2>. QED  BY <1>2, <2>1
<1>4. w = Along(w)
  <2>. HIDE DEF Along
  <2>1. \E f : f = Along(f)
    BY <1>3
  <2>. QED  BY <2>1
<1>. HIDE DEF w
<1>5. w = r
  <2>1. DOMAIN w = 1 .. n /\ \A i \in 1 .. n : w[i] = IF i = 1 THEN h ELSE next[w[i - 1]]
    BY <1>4
  <2>. DEFINE T == {i \in 1 .. n : w[i] # r[i]}
  <2>2. CASE T = {}
    <3>1. \A i \in 1 .. n : w[i] = r[i]
      BY <2>2
    <3>2. w = [i \in 1 .. n |-> w[i]] /\ r = [i \in 1 .. n |-> r[i]]
      BY <1>1, <1>4
    <3>. QED  BY <3>1, <3>2
  <2>3. CASE T # {}
    <3>1. PICK i \in T : \A j \in T : <<j, i>> \notin LessThan
      <4>1. T \subseteq Nat
        OBVIOUS
      <4>. HIDE DEF T
      <4>. QED  BY <2>3, <4>1, LessThanWellFounded, WFMin
    <3>2. i \in 1 .. n /\ w[i] # r[i]
      OBVIOUS
    <3>3. i # 1
      BY <1>2, <2>1, <3>2
    <3>4. i - 1 \in 1 .. n /\ <<i - 1, i>> \in LessThan
      BY <3>2, <3>3 DEF LessThan
    <3>5. w[i - 1] = r[i - 1]
      BY <3>1, <3>4
    <3>. QED  BY <1>2, <2>1, <3>2, <3>3, <3>5
  <2>. QED  BY <2>2, <2>3
<1>6. Walk(n, h, next) = [i \in 1 .. n |-> w[i]]
  BY DEF Walk, w
<1>. QED  BY <1>1, <1>5, <1>6

LEMMA InFront ==
    ASSUME NEW S, NEW s \in Seq(S), NEW u \in S
    PROVE  /\ <<u>> \o s \in Seq(S) /\ Len(<<u>> \o s) = Len(s) + 1
           /\ (<<u>> \o s)[1] = u
           /\ \A i \in 1 .. Len(s) : (<<u>> \o s)[i + 1] = s[i]
<1>1. <<u>> \in Seq(S) /\ Len(<<u>>) = 1 /\ <<u>>[1] = u /\ Len(s) \in Nat
  OBVIOUS
<1>. DEFINE a == <<u>>
<1>. HIDE DEF a
<1>2. /\ a \o s \in Seq(S) /\ Len(a \o s) = 1 + Len(s)
      /\ \A i \in 1 .. 1 + Len(s) : (a \o s)[i] = IF i <= 1 THEN a[i] ELSE s[i - 1]
  BY <1>1, ConcatProperties DEF a
<1>3. (a \o s)[1] = u
  BY <1>1, <1>2 DEF a
<1>4. ASSUME NEW i \in 1 .. Len(s) PROVE (a \o s)[i + 1] = s[i]
  <2>1. i + 1 \in 1 .. 1 + Len(s) /\ ~(i + 1 <= 1) /\ (i + 1) - 1 = i
    BY <1>1
  <2>. QED  BY <1>2, <2>1
<1>. QED  BY <1>1, <1>2, <1>3, <1>4 DEF a

LEMMA WithoutOne ==
    ASSUME NEW S, NEW s \in Seq(S), NEW k \in 1 .. Len(s)
    PROVE  /\ RemoveAt(s, k) \in Seq(S) /\ Len(RemoveAt(s, k)) = Len(s) - 1
           /\ \A i \in 1 .. Len(s) - 1 :
                RemoveAt(s, k)[i] = IF i < k THEN s[i] ELSE s[i + 1]
<1>. DEFINE a == SubSeq(s, 1, k - 1)
            b == SubSeq(s, k + 1, Len(s))
            r == RemoveAt(s, k)
<1>1. Len(s) \in Nat /\ \A i \in 1 .. Len(s) : s[i] \in S
  OBVIOUS
<1>2. /\ a \in Seq(S) /\ Len(a) = k - 1
      /\ \A i \in 1 .. k - 1 : a[i] = s[i]
  BY <1>1, SubSeqProperties
<1>3. /\ b \in Seq(S) /\ Len(b) = Len(s) - k
      /\ \A i \in 1 .. Len(s) - k : b[i] = s[k + i]
  BY <1>1, SubSeqProperties
<1>4. r = a \o b
  BY DEF RemoveAt
<1>. HIDE DEF a, b, r
<1>5. /\ r \in Seq(S) /\ Len(r) = Len(a) + Len(b)
      /\ \A i \in 1 .. Len(a) + Len(b) : r[i] = IF i <= Len(a) THEN a[i] ELSE b[i - Len(a)]
  BY <1>2, <1>3, <1>4, ConcatProperties
<1>6. ASSUME NEW i \in 1 .. Len(s) - 1
      PROVE  r[i] = IF i < k THEN s[i] ELSE s[i + 1]
  <2>1. r[i] = IF i <= k - 1 THEN a[i] ELSE b[i - (k - 1)]
    BY <1>1, <1>2, <1>3, <1>5
  <2>2. CASE i < k
    BY <1>1, <1>2, <2>1, <2>2
  <2>3. CASE ~(i < k)
    <3>1. i - (k - 1) \in 1 .. Len(s) - k /\ k + (i - (k - 1)) = i + 1 /\ ~(i <= k - 1)
      BY <1>1, <2>3
    <3>. QED  BY <1>3, <2>1, <2>3, <3>1
  <2>. QED  BY <2>2, <2>3
<1>. QED  BY <1>1, <1>2, <1>3, <1>5, <1>6 DEF r

(* What is pushed at either end of a ring is in it.                        *)
LEMMA RingGrows ==
    ASSUME NEW n \in Nat, NEW r, NEW h, NEW l, NEW next, NEW prev,
           IsRing(r, n, h, l, next, prev), DOMAIN next = WORK, DOMAIN prev = WORK,
           NEW u \in WORK, u \notin Range(r),
           NEW head, NEW tail, head = (IF n = 0 THEN u ELSE h), tail = (IF n = 0 THEN u ELSE l),
           NEW next2, next2 = [next EXCEPT ![tail] = u, ![u] = head],
           NEW prev2, prev2 = [prev EXCEPT ![head] = u, ![u] = tail]
    PROVE  /\ IsRing(Append(r, u), n + 1, head, u, next2, prev2)
           /\ IsRing(<<u>> \o r, n + 1, u, tail, next2, prev2)
<1>1. /\ r \in Seq(WORK) /\ Len(r) = n /\ DOMAIN r = 1 .. n
      /\ \A i, j \in 1 .. n : r[i] = r[j] => i = j
      /\ \A i \in 1 .. n : r[i] \in WORK /\ r[i] # u
  <2>1. r \in Seq(WORK) /\ Len(r) = n /\ IsInjective(r)
    BY DEF IsRing
  <2>2. DOMAIN r = 1 .. n /\ \A i \in 1 .. n : r[i] \in WORK
    BY <2>1
  <2>. QED  BY <2>1, <2>2 DEF IsInjective, Range
<1>2. /\ n > 0 => head = r[1] /\ tail = r[n]
      /\ n = 0 => head = u /\ tail = u
  BY DEF IsRing
<1>3. head \in WORK /\ tail \in WORK
  BY <1>1, <1>2
<1>4. \A x \in WORK : /\ next2[x] = IF x = u THEN head ELSE IF x = tail THEN u ELSE next[x]
                      /\ prev2[x] = IF x = u THEN tail ELSE IF x = head THEN u ELSE prev[x]
  BY <1>3
<1>5. \A i \in 1 .. n : /\ i # n => next[r[i]] = r[i + 1]
                        /\ i # 1 => prev[r[i]] = r[i - 1]
  BY DEF IsRing
<1>6. \A i \in 1 .. n : /\ next2[r[i]] = IF i = n THEN u ELSE r[i + 1]
                        /\ prev2[r[i]] = IF i = 1 THEN u ELSE r[i - 1]
  <2>. SUFFICES ASSUME NEW i \in 1 .. n
                PROVE  /\ next2[r[i]] = IF i = n THEN u ELSE r[i + 1]
                       /\ prev2[r[i]] = IF i = 1 THEN u ELSE r[i - 1]
    OBVIOUS
  <2>1. (r[i] = tail <=> i = n) /\ (r[i] = head <=> i = 1)
    <3>1. n > 0 /\ 1 \in 1 .. n /\ n \in 1 .. n
      OBVIOUS
    <3>. QED  BY <1>1, <1>2, <3>1
  <2>. QED  BY <1>1, <1>4, <1>5, <2>1
<1>7. IsRing(Append(r, u), n + 1, head, u, next2, prev2)
  <2>. DEFINE a == Append(r, u)
  <2>1. /\ a \in Seq(WORK) /\ Len(a) = n + 1 /\ DOMAIN a = 1 .. n + 1
        /\ a[n + 1] = u /\ \A i \in 1 .. n : a[i] = r[i]
    BY <1>1
  <2>. HIDE DEF a
  <2>2. IsInjective(a)
    BY <1>1, <2>1 DEF IsInjective
  <2>3. head = a[1] /\ u = a[n + 1]
    BY <1>2, <2>1
  <2>4. ASSUME NEW i \in 1 .. n + 1
        PROVE  /\ next2[a[i]] = a[IF i = n + 1 THEN 1 ELSE i + 1]
               /\ prev2[a[i]] = a[IF i = 1 THEN n + 1 ELSE i - 1]
    <3>1. CASE i = n + 1
      <4>1. a[i] = u /\ next2[u] = head /\ prev2[u] = tail
        BY <1>4, <2>1, <3>1
      <4>2. tail = a[IF i = 1 THEN n + 1 ELSE i - 1]
        BY <1>2, <2>1, <3>1
      <4>. QED  BY <2>3, <3>1, <4>1, <4>2
    <3>2. CASE i # n + 1
      <4>1. i \in 1 .. n /\ a[i] = r[i] /\ a[i + 1] = (IF i = n THEN u ELSE r[i + 1])
        BY <2>1, <3>2
      <4>2. a[IF i = 1 THEN n + 1 ELSE i - 1] = IF i = 1 THEN u ELSE r[i - 1]
        BY <2>1, <3>2
      <4>. QED  BY <1>6, <3>2, <4>1, <4>2
    <3>. QED  BY <3>1, <3>2
  <2>. QED  BY <2>1, <2>2, <2>3, <2>4 DEF IsRing, a
<1>8. IsRing(<<u>> \o r, n + 1, u, tail, next2, prev2)
  <2>. DEFINE b == <<u>> \o r
  <2>1. /\ b \in Seq(WORK) /\ Len(b) = n + 1 /\ DOMAIN b = 1 .. n + 1
        /\ b[1] = u /\ \A i \in 1 .. n : b[i + 1] = r[i]
    BY <1>1, InFront
  <2>. HIDE DEF b
  <2>2. \A i \in 2 .. n + 1 : i - 1 \in 1 .. n /\ b[i] = r[i - 1]
    <3>1. \A i \in 2 .. n + 1 : i - 1 \in 1 .. n /\ (i - 1) + 1 = i
      OBVIOUS
    <3>. QED  BY <2>1, <3>1
  <2>3. IsInjective(b)
    <3>1. SUFFICES ASSUME NEW i \in 1 .. n + 1, NEW j \in 1 .. n + 1, b[i] = b[j] PROVE i = j
      BY <2>1 DEF IsInjective
    <3>2. CASE i = 1
      <4>1. j \notin 2 .. n + 1
        BY <1>1, <2>1, <2>2, <3>1, <3>2
      <4>. QED  BY <3>2, <4>1
    <3>3. CASE i # 1
      <4>1. i \in 2 .. n + 1 /\ b[i] = r[i - 1] /\ i - 1 \in 1 .. n
        BY <2>2, <3>3
      <4>2. j # 1
        BY <1>1, <2>1, <3>1, <4>1
      <4>3. b[j] = r[j - 1] /\ j - 1 \in 1 .. n
        BY <2>2, <4>2
      <4>4. i - 1 = j - 1
        BY <1>1, <3>1, <4>1, <4>3
      <4>. QED  BY <4>4
    <3>. QED  BY <3>2, <3>3
  <2>4. u = b[1] /\ tail = b[n + 1]
    BY <1>2, <2>1
  <2>5. ASSUME NEW i \in 1 .. n + 1
        PROVE  /\ next2[b[i]] = b[IF i = n + 1 THEN 1 ELSE i + 1]
               /\ prev2[b[i]] = b[IF i = 1 THEN n + 1 ELSE i - 1]
    <3>1. CASE i = 1
      <4>1. b[i] = u /\ next2[u] = head /\ prev2[u] = tail
        BY <1>4, <2>1, <3>1
      <4>2. head = b[IF i = n + 1 THEN 1 ELSE i + 1]
        <5>1. CASE n = 0
          BY <1>2, <2>1, <3>1, <5>1
        <5>2. CASE n > 0
          <6>1. b[2] = r[1]
            BY <2>2, <5>2
          <6>. QED  BY <1>2, <3>1, <5>2, <6>1
        <5>. QED  BY <5>1, <5>2
      <4>. QED  BY <2>4, <3>1, <4>1, <4>2
    <3>2. CASE i # 1
      <4>1. i - 1 \in 1 .. n /\ b[i] = r[i - 1] /\ i \in 2 .. n + 1
        BY <2>2, <3>2
      <4>2. b[IF i = n + 1 THEN 1 ELSE i + 1] = IF i - 1 = n THEN u ELSE r[(i - 1) + 1]
        <5>1. CASE i = n + 1
          BY <2>1, <5>1
        <5>2. CASE i # n + 1
          BY <2>1, <3>2, <5>2
        <5>. QED  BY <5>1, <5>2
      <4>3. b[i - 1] = IF i - 1 = 1 THEN u ELSE r[(i - 1) - 1]
        BY <2>1, <2>2, <4>1
      <4>. QED  BY <1>6, <3>2, <4>1, <4>2, <4>3
    <3>. QED  BY <3>1, <3>2
  <2>. QED  BY <2>1, <2>3, <2>4, <2>5 DEF IsRing, b
<1>. QED  BY <1>7, <1>8

LEMMA RangeWithoutOne ==
    ASSUME NEW S, NEW s \in Seq(S), IsInjective(s), NEW k \in 1 .. Len(s)
    PROVE  /\ IsInjective(RemoveAt(s, k))
           /\ Range(RemoveAt(s, k)) = Range(s) \ {s[k]}
<1>. DEFINE r == RemoveAt(s, k)
<1>1. Len(s) \in Nat /\ DOMAIN s = 1 .. Len(s)
  OBVIOUS
<1>2. /\ r \in Seq(S) /\ Len(r) = Len(s) - 1
      /\ \A i \in 1 .. Len(s) - 1 : r[i] = IF i < k THEN s[i] ELSE s[i + 1]
  BY WithoutOne
<1>3. DOMAIN r = 1 .. Len(s) - 1
  BY <1>2
<1>. HIDE DEF r
<1>4. IsInjective(r)
  <2>1. SUFFICES ASSUME NEW i \in 1 .. Len(s) - 1, NEW j \in 1 .. Len(s) - 1, r[i] = r[j]
                 PROVE  i = j
    BY <1>3 DEF IsInjective
  <2>2. PICK m \in DOMAIN s : m = (IF i < k THEN i ELSE i + 1)
    BY <1>1
  <2>3. PICK n \in DOMAIN s : n = (IF j < k THEN j ELSE j + 1)
    BY <1>1
  <2>4. s[m] = s[n]
    BY <1>2, <2>1, <2>2, <2>3
  <2>5. m = n
    BY <2>4 DEF IsInjective
  <2>. QED  BY <1>1, <2>2, <2>3, <2>5
<1>5. Range(r) \subseteq Range(s) \ {s[k]}
  BY <1>1, <1>2, <1>3 DEF IsInjective, Range
<1>6. ASSUME NEW i \in DOMAIN s, i # k PROVE s[i] \in Range(r)
  <2>1. CASE i < k
    <3>1. i \in DOMAIN r /\ r[i] = s[i]
      BY <1>1, <1>2, <1>3, <2>1
    <3>. QED  BY <3>1 DEF Range
  <2>2. CASE i > k
    <3>1. i - 1 \in DOMAIN r /\ r[i - 1] = s[i]
      BY <1>1, <1>2, <1>3, <2>2
    <3>. QED  BY <3>1 DEF Range
  <2>. QED  BY <1>1, <1>6, <2>1, <2>2
<1>. QED  BY <1>4, <1>5, <1>6 DEF Range, r

LEMMA EndsRemoved ==
    ASSUME NEW S, NEW s \in Seq(S), s # <<>>
    PROVE  RemoveAt(s, 1) = Tail(s) /\ RemoveAt(s, Len(s)) = Front(s)
<1>1. Len(s) \in Nat \ {0}
  BY EmptySeq
<1>2. 1 \in 1 .. Len(s) /\ Len(s) \in 1 .. Len(s)
  BY <1>1
<1>3. RemoveAt(s, 1) = Tail(s)
  <2>1. /\ Tail(s) \in Seq(S) /\ Len(Tail(s)) = Len(s) - 1
        /\ \A i \in 1 .. Len(s) - 1 : Tail(s)[i] = s[i + 1]
    BY HeadTailProperties
  <2>2. /\ RemoveAt(s, 1) \in Seq(S) /\ Len(RemoveAt(s, 1)) = Len(s) - 1
        /\ \A i \in 1 .. Len(s) - 1 : RemoveAt(s, 1)[i] = s[i + 1]
    BY <1>1, <1>2, WithoutOne
  <2>. QED  BY <1>1, <2>1, <2>2, SeqEqual
<1>4. RemoveAt(s, Len(s)) = Front(s)
  <2>1. /\ Front(s) \in Seq(S) /\ Len(Front(s)) = Len(s) - 1
        /\ \A i \in 1 .. Len(s) - 1 : Front(s)[i] = s[i]
    <3>1. PICK k \in 1 .. Len(s) : k = Len(s)
      BY <1>2
    <3>2. Len(s) \in Nat /\ \A i \in 1 .. Len(s) : s[i] \in S
      OBVIOUS
    <3>3. /\ SubSeq(s, 1, k - 1) \in Seq(S) /\ Len(SubSeq(s, 1, k - 1)) = k - 1
          /\ \A i \in 1 .. k - 1 : SubSeq(s, 1, k - 1)[i] = s[i]
      BY <3>2, SubSeqProperties
    <3>4. Front(s) = SubSeq(s, 1, k - 1)
      BY <3>1 DEF Front
    <3>. QED  BY <3>1, <3>3, <3>4
  <2>2. /\ RemoveAt(s, Len(s)) \in Seq(S) /\ Len(RemoveAt(s, Len(s))) = Len(s) - 1
        /\ \A i \in 1 .. Len(s) - 1 : RemoveAt(s, Len(s))[i] = s[i]
    BY <1>1, <1>2, WithoutOne
  <2>. QED  BY <1>1, <2>1, <2>2, SeqEqual
<1>. QED  BY <1>3, <1>4

(* A unit that is taken out of a ring of several leaves a ring.            *)
LEMMA RingShrinks ==
    ASSUME NEW n \in Nat, NEW r, NEW h, NEW l, NEW next, NEW prev,
           IsRing(r, n, h, l, next, prev), DOMAIN next = WORK, DOMAIN prev = WORK,
           n > 1, NEW k \in 1 .. n, NEW u, u = r[k],
           NEW next2, next2 = [next EXCEPT ![prev[u]] = next[u]],
           NEW prev2, prev2 = [prev EXCEPT ![next[u]] = prev[u]]
    PROVE  IsRing(RemoveAt(r, k), n - 1, IF u = h THEN next[u] ELSE h,
                  IF u = l THEN prev[u] ELSE l, next2, prev2)
<1>. DEFINE q == RemoveAt(r, k)
            After(i) == IF i = n THEN 1 ELSE i + 1
            Before(i) == IF i = 1 THEN n ELSE i - 1
            Old(i) == IF i < k THEN i ELSE i + 1
            After2(i) == IF i = n - 1 THEN 1 ELSE i + 1
            Before2(i) == IF i = 1 THEN n - 1 ELSE i - 1
<1>1. /\ r \in Seq(WORK) /\ Len(r) = n /\ IsInjective(r)
      /\ h = r[1] /\ l = r[n]
      /\ \A i \in 1 .. n : next[r[i]] = r[After(i)] /\ prev[r[i]] = r[Before(i)]
  BY DEF IsRing
<1>2. /\ DOMAIN r = 1 .. n /\ \A i \in 1 .. n : r[i] \in WORK
      /\ \A i, j \in 1 .. n : r[i] = r[j] => i = j
  <2>1. DOMAIN r = 1 .. n /\ \A i \in 1 .. n : r[i] \in WORK
    BY <1>1
  <2>. QED  BY <1>1, <2>1 DEF IsInjective
<1>3. /\ q \in Seq(WORK) /\ Len(q) = n - 1
      /\ \A i \in 1 .. n - 1 : q[i] = r[Old(i)]
      /\ IsInjective(q)
  BY <1>1, WithoutOne, RangeWithoutOne
<1>4. \A i \in 1 .. n : After(i) \in 1 .. n /\ Before(i) \in 1 .. n
  OBVIOUS
<1>5. \A i \in 1 .. n - 1 :
         /\ Old(i) \in 1 .. n /\ After2(i) \in 1 .. n - 1 /\ Before2(i) \in 1 .. n - 1
         /\ Old(After2(i)) = IF Old(i) = Before(k) THEN After(k) ELSE After(Old(i))
         /\ Old(Before2(i)) = IF Old(i) = After(k) THEN Before(k) ELSE Before(Old(i))
  OBVIOUS
<1>6. /\ 1 \in 1 .. n - 1 /\ n - 1 \in 1 .. n - 1 /\ 1 \in 1 .. n /\ n \in 1 .. n
      /\ Old(1) = IF k = 1 THEN After(k) ELSE 1
      /\ Old(n - 1) = IF k = n THEN Before(k) ELSE n
  OBVIOUS
<1>. HIDE DEF q, After, Before, Old, After2, Before2
<1>7. /\ \A x \in WORK : next2[x] = IF x = r[Before(k)] THEN r[After(k)] ELSE next[x]
      /\ \A x \in WORK : prev2[x] = IF x = r[After(k)] THEN r[Before(k)] ELSE prev[x]
  BY <1>1, <1>2, <1>4
<1>8. ASSUME NEW i \in 1 .. n - 1
      PROVE  next2[q[i]] = q[After2(i)] /\ prev2[q[i]] = q[Before2(i)]
  <2>1. q[i] = r[Old(i)] /\ r[Old(i)] \in WORK /\ Old(i) \in 1 .. n
    BY <1>2, <1>3, <1>5
  <2>2. next2[q[i]] = IF Old(i) = Before(k) THEN r[After(k)] ELSE r[After(Old(i))]
    BY <1>1, <1>2, <1>4, <1>7, <2>1
  <2>3. prev2[q[i]] = IF Old(i) = After(k) THEN r[Before(k)] ELSE r[Before(Old(i))]
    BY <1>1, <1>2, <1>4, <1>7, <2>1
  <2>4. q[After2(i)] = r[Old(After2(i))] /\ q[Before2(i)] = r[Old(Before2(i))]
    BY <1>3, <1>5
  <2>. QED  BY <1>5, <2>2, <2>3, <2>4
<1>9. /\ (IF u = h THEN next[u] ELSE h) = q[1]
      /\ (IF u = l THEN prev[u] ELSE l) = q[n - 1]
  <2>1. (u = h <=> k = 1) /\ (u = l <=> k = n)
    BY <1>1, <1>2, <1>6
  <2>2. next[u] = r[After(k)] /\ prev[u] = r[Before(k)]
    BY <1>1
  <2>. QED  BY <1>1, <1>3, <1>6, <2>1, <2>2
<1>. QED  BY <1>3, <1>8, <1>9 DEF IsRing, q, After2, Before2

-----------------------------------------------------------------------------
(* The ring of the pool.                                                   *)

LEMMA HolderAlone ==
    ASSUME MutexInv, NEW t \in USER, NEW s \in USER, s # t, point[t] \in PoolHolder
    PROVE  point[s] \notin PoolHolder
  BY DEF MutexInv

LEMMA RangeAppended ==
    ASSUME NEW S, NEW s \in Seq(S), NEW u \in S
    PROVE  Range(Append(s, u)) = Range(s) \cup {u}
<1>1. /\ Append(s, u) \in Seq(S) /\ Len(Append(s, u)) = Len(s) + 1
      /\ \A i \in 1 .. Len(s) : Append(s, u)[i] = s[i]
      /\ Append(s, u)[Len(s) + 1] = u
  BY AppendProperties
<1>2. /\ Len(s) \in Nat /\ DOMAIN s = 1 .. Len(s)
      /\ DOMAIN Append(s, u) = 1 .. Len(s) + 1
  BY <1>1
<1>. DEFINE a == Append(s, u)
<1>. HIDE DEF a
<1>. QED  BY <1>1, <1>2 DEF Range, a

LEMMA RangeInFront ==
    ASSUME NEW S, NEW s \in Seq(S), NEW u \in S
    PROVE  Range(<<u>> \o s) = Range(s) \cup {u}
<1>1. /\ <<u>> \o s \in Seq(S) /\ Len(<<u>> \o s) = Len(s) + 1
      /\ (<<u>> \o s)[1] = u
      /\ \A i \in 1 .. Len(s) : (<<u>> \o s)[i + 1] = s[i]
  BY InFront
<1>2. /\ Len(s) \in Nat /\ DOMAIN s = 1 .. Len(s)
      /\ DOMAIN (<<u>> \o s) = 1 .. Len(s) + 1
  BY <1>1
<1>. DEFINE a == <<u>> \o s
<1>. HIDE DEF a
<1>3. /\ a[1] = u /\ \A i \in 1 .. Len(s) : a[i + 1] = s[i]
      /\ DOMAIN a = 1 .. Len(s) + 1
  BY <1>1, <1>2 DEF a
<1>4. Range(a) \subseteq Range(s) \cup {u}
  <2>1. SUFFICES ASSUME NEW i \in 1 .. Len(s) + 1, i # 1 PROVE a[i] \in Range(s)
    BY <1>3 DEF Range
  <2>2. i - 1 \in 1 .. Len(s) /\ (i - 1) + 1 = i
    BY <1>2, <2>1
  <2>. QED  BY <1>2, <1>3, <2>2 DEF Range
<1>5. u \in Range(a)
  <2>1. 1 \in 1 .. Len(s) + 1
    BY <1>2
  <2>. QED  BY <1>3, <2>1 DEF Range
<1>6. ASSUME NEW i \in 1 .. Len(s) PROVE s[i] \in Range(a)
  <2>1. i + 1 \in 1 .. Len(s) + 1
    BY <1>2
  <2>. QED  BY <1>3, <2>1 DEF Range
<1>. QED  BY <1>2, <1>4, <1>5, <1>6 DEF Range, a

(* The steps that change the ring, or the links of a unit that left it.    *)
RingStep(t) == PushLink(t) \/ PopUnit(t) \/ TakenClear(t) \/ RemoveUnit(t)

LEMMA RingFrame ==
    ASSUME NEW t \in USER, PoolStepOf(t), ~RingStep(t)
    PROVE  /\ num_threads' = num_threads /\ p_head' = p_head /\ p_tail' = p_tail
           /\ p_next' = p_next /\ p_prev' = p_prev
<1>. USE DEF queueVars
<1>1. CASE PushNothing(t) \/ PushLock(t) \/ PushNonempty(t) \/ PushInPool(t) \/ UnlockPool(t)
  BY <1>1 DEF PushNothing, PushLock, PushNonempty, PushInPool, UnlockPool
<1>2. CASE SignalPool(t)
  BY <1>2 DEF SignalPool, Awake
<1>3. CASE PopSteps(t)
  BY <1>3 DEF PopBegin, PopEmpty, FindsEmpty, PopTest, PopLock, PopBusy, PopRetry, PopPrivate
<1>4. CASE PopNothing(t) \/ TakenEmpty(t)
  BY <1>4 DEF PopNothing, TakenEmpty
<1>5. CASE WaitSteps(t)
  BY <1>5 DEF WaitElapsed, WaitLock, WaitNonempty, WaitSleep, WaitRefused, WaitRelock, PoolClock,
              WaitOver
<1>6. CASE RemoveSteps(t)
  BY <1>6 DEF RemoveBegin, RemoveChecked, RemoveRefused, RemoveLock, RemoveFails
<1>. QED
  BY <1>1, <1>2, <1>3, <1>4, <1>5, <1>6 DEF RingStep, PoolStepOf, PoolStep, PoolTime

LEMMA RingUnchanged ==
    ASSUME RingInv, NEW t \in USER, PoolStepOf(t), ~RingStep(t)
    PROVE  RingInv' /\ Queue' = Queue /\ num_threads' = num_threads
<1>1. /\ num_threads' = num_threads /\ p_head' = p_head /\ p_tail' = p_tail
      /\ p_next' = p_next /\ p_prev' = p_prev
  BY RingFrame
<1>2. Queue' = Queue
  BY <1>1 DEF Queue
<1>. QED  BY <1>1, <1>2 DEF RingInv

(* A push puts its unit at one end.                                        *)
LEMMA Links ==
    ASSUME PoolTypeInv, RingInv, NEW t \in USER, PushLink(t),
           PushedUnit(t) \in WORK \ Range(Queue)
    PROVE  /\ RingInv'
           /\ num_threads' = num_threads + 1
           /\ \/ Queue' = Append(Queue, PushedUnit(t))
              \/ pool_kind = "randws" /\ Queue' = <<PushedUnit(t)>> \o Queue
           /\ Range(Queue)' = Range(Queue) \cup {PushedUnit(t)}
<1>. DEFINE u == PushedUnit(t)
            r == Queue
            head == IF num_threads = 0 THEN u ELSE p_head
            tail == IF num_threads = 0 THEN u ELSE p_tail
<1>1. /\ p_next' = [p_next EXCEPT ![tail] = u, ![u] = head]
      /\ p_prev' = [p_prev EXCEPT ![head] = u, ![u] = tail]
      /\ p_head' = IF num_threads = 0 \/ UsesEnd(t, "head") THEN u ELSE p_head
      /\ p_tail' = IF num_threads = 0 \/ ~UsesEnd(t, "head") THEN u ELSE p_tail
      /\ num_threads' = num_threads + 1
  BY DEF PushLink
<1>2. num_threads \in Nat /\ num_threads' \in Nat
  BY <1>1 DEF PoolTypeInv
<1>3. /\ DOMAIN p_next = WORK /\ DOMAIN p_prev = WORK
      /\ DOMAIN p_next' = WORK /\ DOMAIN p_prev' = WORK
      /\ IsRing(r, num_threads, p_head, p_tail, p_next, p_prev)
      /\ u \in WORK /\ u \notin Range(r)
  BY <1>1 DEF RingInv
<1>. HIDE DEF u, r
<1>4. /\ IsRing(Append(r, u), num_threads + 1, head, u, p_next', p_prev')
      /\ IsRing(<<u>> \o r, num_threads + 1, u, tail, p_next', p_prev')
  BY <1>1, <1>2, <1>3, RingGrows
<1>5. \/ p_head' = head /\ p_tail' = u
      \/ pool_kind = "randws" /\ p_head' = u /\ p_tail' = tail
  BY <1>1 DEF UsesEnd
<1>6. PICK q : /\ IsRing(q, num_threads', p_head', p_tail', p_next', p_prev')
               /\ q = Append(r, u) \/ (pool_kind = "randws" /\ q = <<u>> \o r)
  BY <1>1, <1>4, <1>5
<1>7. Walk(num_threads', p_head', p_next') = q
  BY <1>2, <1>6, WalkOfRing
<1>8. Queue' = q
  BY <1>7 DEF Queue
<1>9. Range(Queue)' = Range(q)
  BY <1>8
<1>10. Range(q) = Range(r) \cup {u}
  <2>1. r \in Seq(WORK)
    BY <1>3 DEF IsRing
  <2>2. Range(Append(r, u)) = Range(r) \cup {u}
    BY <1>3, <2>1, RangeAppended
  <2>3. Range(<<u>> \o r) = Range(r) \cup {u}
    BY <1>3, <2>1, RangeInFront
  <2>. QED  BY <1>6, <2>2, <2>3
<1>11. RingInv'
  BY <1>3, <1>6, <1>8 DEF RingInv
<1>. QED  BY <1>1, <1>6, <1>8, <1>9, <1>10, <1>11 DEF u, r

(* A unit is taken out of the queue.                                       *)
LEMMA Unlinks ==
    ASSUME PoolTypeInv, RingInv, NEW t \in USER, NEW k \in 1 .. num_threads,
           Unlink(t, Queue[k])
    PROVE  /\ RingInv'
           /\ num_threads' = num_threads - 1
           /\ Queue' = RemoveAt(Queue, k)
           /\ Queue[k] \in Range(Queue)
           /\ Range(Queue)' = Range(Queue) \ {Queue[k]}
<1>. DEFINE r == Queue
            n == num_threads
            u == r[k]
<1>1. /\ p_head' = IF n = 1 THEN NIL ELSE IF u = p_head THEN p_next[u] ELSE p_head
      /\ p_tail' = IF n = 1 THEN NIL ELSE IF u = p_tail THEN p_prev[u] ELSE p_tail
      /\ IF n = 1 THEN p_next' = p_next /\ p_prev' = p_prev
         ELSE /\ p_next' = [p_next EXCEPT ![p_prev[u]] = p_next[u]]
              /\ p_prev' = [p_prev EXCEPT ![p_next[u]] = p_prev[u]]
      /\ num_threads' = n - 1
  BY DEF Unlink
<1>2. n \in Nat /\ num_threads' \in Nat /\ k \in 1 .. n
  BY <1>1 DEF PoolTypeInv
<1>3. /\ DOMAIN p_next = WORK /\ DOMAIN p_prev = WORK
      /\ DOMAIN p_next' = WORK /\ DOMAIN p_prev' = WORK
      /\ IsRing(r, n, p_head, p_tail, p_next, p_prev)
  BY <1>1 DEF RingInv
<1>. HIDE DEF n, r
<1>4. r \in Seq(WORK) /\ Len(r) = n /\ IsInjective(r)
  BY <1>3 DEF IsRing
<1>5. /\ IsInjective(RemoveAt(r, k)) /\ Range(RemoveAt(r, k)) = Range(r) \ {u}
      /\ RemoveAt(r, k) \in Seq(WORK) /\ Len(RemoveAt(r, k)) = n - 1
  BY <1>2, <1>4, RangeWithoutOne, WithoutOne
<1>6. IsRing(RemoveAt(r, k), num_threads', p_head', p_tail', p_next', p_prev')
  <2>1. CASE n = 1
    <3>1. num_threads' = 0 /\ Len(RemoveAt(r, k)) = 0
      BY <1>1, <1>5, <2>1
    <3>2. ~(num_threads' > 0) /\ 1 .. num_threads' = {}
      BY <3>1
    <3>. QED  BY <1>5, <3>1, <3>2 DEF IsRing
  <2>2. CASE n # 1
    <3>1. n > 1
      BY <1>2, <2>2
    <3>2. /\ p_next' = [p_next EXCEPT ![p_prev[u]] = p_next[u]]
          /\ p_prev' = [p_prev EXCEPT ![p_next[u]] = p_prev[u]]
          /\ p_head' = IF u = p_head THEN p_next[u] ELSE p_head
          /\ p_tail' = IF u = p_tail THEN p_prev[u] ELSE p_tail
          /\ num_threads' = n - 1
      BY <1>1, <2>2
    <3>3. IsRing(RemoveAt(r, k), n - 1, IF u = p_head THEN p_next[u] ELSE p_head,
                 IF u = p_tail THEN p_prev[u] ELSE p_tail, p_next', p_prev')
      BY <1>2, <1>3, <3>1, <3>2, RingShrinks
    <3>. QED  BY <3>2, <3>3
  <2>. QED  BY <2>1, <2>2
<1>7. Walk(num_threads', p_head', p_next') = RemoveAt(r, k)
  BY <1>2, <1>6, WalkOfRing
<1>8. Queue' = RemoveAt(r, k)
  BY <1>7 DEF Queue
<1>9. Range(Queue)' = Range(RemoveAt(r, k))
  BY <1>8
<1>10. RingInv'
  BY <1>3, <1>6, <1>8 DEF RingInv
<1>11. u \in Range(r)
  BY <1>2, <1>4 DEF Range
<1>. QED  BY <1>1, <1>5, <1>8, <1>9, <1>10, <1>11 DEF n, r

(* The links of a unit that left the ring are not of the ring.             *)
LEMMA LinksCleared ==
    ASSUME PoolTypeInv, RingInv, NEW t \in USER, TakenClear(t),
           Last(got[t]) \in WORK \ Range(Queue)
    PROVE  RingInv' /\ Queue' = Queue /\ num_threads' = num_threads
<1>. DEFINE u == Last(got[t])
            r == Queue
            n == num_threads
<1>1. /\ p_next' = [p_next EXCEPT ![u] = NIL] /\ p_prev' = [p_prev EXCEPT ![u] = NIL]
      /\ num_threads' = n /\ p_head' = p_head /\ p_tail' = p_tail
  BY DEF TakenClear
<1>2. n \in Nat
  BY DEF PoolTypeInv
<1>3. /\ DOMAIN p_next = WORK /\ DOMAIN p_prev = WORK
      /\ DOMAIN p_next' = WORK /\ DOMAIN p_prev' = WORK
      /\ IsRing(r, n, p_head, p_tail, p_next, p_prev)
      /\ u \in WORK /\ u \notin Range(r)
  BY <1>1 DEF RingInv
<1>. HIDE DEF n, r, u
<1>4. r \in Seq(WORK) /\ Len(r) = n
  BY <1>3 DEF IsRing
<1>5. \A i \in 1 .. n : r[i] \in WORK /\ r[i] # u
  BY <1>2, <1>3, <1>4 DEF Range
<1>6. \A i \in 1 .. n : p_next'[r[i]] = p_next[r[i]] /\ p_prev'[r[i]] = p_prev[r[i]]
  BY <1>1, <1>3, <1>5
<1>7. IsRing(r, num_threads', p_head', p_tail', p_next', p_prev')
  BY <1>1, <1>3, <1>6 DEF IsRing
<1>8. Walk(num_threads', p_head', p_next') = r
  BY <1>1, <1>2, <1>7, WalkOfRing
<1>9. Queue' = r
  BY <1>8 DEF Queue
<1>10. RingInv'
  BY <1>3, <1>7, <1>9 DEF RingInv
<1>. QED  BY <1>1, <1>9, <1>10 DEF n, r

-----------------------------------------------------------------------------
(* What the users have left to do.                                         *)

(* The calls of t without the first one: call j of s was call Was(s, j).   *)
LEMMA CallsShift ==
    ASSUME NEW p \in [USER -> Seq(PoolCall)], NEW t \in USER, p[t] # <<>>,
           NEW q, q = [p EXCEPT ![t] = Tail(@)], NEW s \in USER
    PROVE  /\ q[s] \in Seq(PoolCall)
           /\ s # t => q[s] = p[s]
           /\ s = t => \A j \in Nat : j \in DOMAIN q[s] <=> (j >= 1 /\ j + 1 \in DOMAIN p[s])
           /\ \A j \in DOMAIN q[s] : /\ j \in Nat
                                     /\ s = t => j + 1 \in DOMAIN p[s] /\ q[s][j] = p[s][j + 1]
<1>1. p[t] \in Seq(PoolCall) /\ p[s] \in Seq(PoolCall)
  OBVIOUS
<1>2. /\ Tail(p[t]) \in Seq(PoolCall) /\ Len(Tail(p[t])) = Len(p[t]) - 1
      /\ \A i \in 1 .. Len(Tail(p[t])) : Tail(p[t])[i] = p[t][i + 1]
  BY <1>1, HeadTailProperties
<1>3. q[s] = IF s = t THEN Tail(p[t]) ELSE p[s]
  OBVIOUS
<1>4. /\ DOMAIN p[t] = 1 .. Len(p[t]) /\ Len(p[t]) \in Nat
      /\ DOMAIN Tail(p[t]) = 1 .. Len(p[t]) - 1
      /\ DOMAIN p[s] = 1 .. Len(p[s]) /\ Len(p[s]) \in Nat
  BY <1>1, <1>2
<1>5. CASE s = t
  <2>1. q[s] = Tail(p[t])
    BY <1>3, <1>5
  <2>2. \A j \in 1 .. Len(p[t]) - 1 : j \in Nat /\ j + 1 \in 1 .. Len(p[t])
    BY <1>4
  <2>3. \A j \in Nat : j \in 1 .. Len(p[t]) - 1 <=> j >= 1 /\ j + 1 \in 1 .. Len(p[t])
    BY <1>4
  <2>. QED  BY <1>2, <1>4, <1>5, <2>1, <2>2, <2>3
<1>6. CASE s # t
  <2>1. q[s] = p[s]
    BY <1>3, <1>6
  <2>. QED  BY <1>1, <1>4, <1>6, <2>1
<1>. QED  BY <1>5, <1>6

LEMMA Between ==
    ASSUME NEW a \in Nat, NEW b \in Nat, NEW c \in Nat, b <= c, NEW x \in a + 1 .. b - 1
    PROVE  x \in 1 .. c
  OBVIOUS

LEMMA LegalRest ==
    ASSUME NEW p, LegalPoolUse(p), NEW t \in USER, p[t] # <<>>,
           NEW q, q = [p EXCEPT ![t] = Tail(@)]
    PROVE  LegalPoolUse(q)
<1>. DEFINE Was(s, j) == IF s = t THEN j + 1 ELSE j
<1>1. p \in [USER -> Seq(PoolCall)]
  BY DEF LegalPoolUse
<1>2. ASSUME NEW s \in USER, NEW j \in DOMAIN q[s]
      PROVE  j \in Nat /\ Was(s, j) \in DOMAIN p[s] /\ q[s][j] = p[s][Was(s, j)]
  <2>1. /\ s # t => q[s] = p[s]
        /\ j \in Nat
        /\ s = t => j + 1 \in DOMAIN p[s] /\ q[s][j] = p[s][j + 1]
    BY <1>1, CallsShift
  <2>. QED  BY <2>1
<1>3. q \in [USER -> Seq(PoolCall)]
  <2>1. DOMAIN q = USER
    BY <1>1
  <2>2. ASSUME NEW s \in USER PROVE q[s] \in Seq(PoolCall)
    BY <1>1, CallsShift
  <2>3. q = [s \in USER |-> q[s]]
    BY <1>1
  <2>. QED  BY <2>2, <2>3
<1>4. \A s \in USER : \A j, k \in Nat : Was(s, j) = Was(s, k) => j = k
  OBVIOUS
<1>. HIDE DEF Was
<1>5. PushedOnce(q)
  <2>1. SUFFICES ASSUME NEW s \in USER, NEW x \in USER, NEW j \in DOMAIN q[s],
                        NEW k \in DOMAIN q[x], q[s][j][1] = "push", q[x][k][1] = "push",
                        NEW a \in DOMAIN q[s][j][2], NEW b \in DOMAIN q[x][k][2],
                        q[s][j][2][a] = q[x][k][2][b]
                 PROVE  s = x /\ j = k /\ a = b
    BY DEF PushedOnce
  <2>2. PICK m \in DOMAIN p[s] : m = Was(s, j) /\ q[s][j] = p[s][m]
    BY <1>2
  <2>3. PICK n \in DOMAIN p[x] : n = Was(x, k) /\ q[x][k] = p[x][n]
    BY <1>2
  <2>4. s = x /\ m = n /\ a = b
    BY <2>1, <2>2, <2>3 DEF LegalPoolUse, PushedOnce
  <2>. QED  BY <1>2, <1>4, <2>2, <2>3, <2>4
<1>6. ASSUME NEW s \in USER PROVE PushedBackOnce(q[s])
  <2>1. CASE s # t
    <3>1. q[s] = p[s]
      BY <1>1, <2>1
    <3>. QED  BY <3>1 DEF LegalPoolUse
  <2>2. CASE s = t
    <3>1. SUFFICES ASSUME NEW j \in DOMAIN q[t], NEW k \in DOMAIN q[t], j < k,
                          q[t][j][1] = "push_back", q[t][k][1] = "push_back"
                   PROVE  \E i \in j + 1 .. k - 1 : q[t][i][1] = "pop"
      BY <2>2 DEF PushedBackOnce
    <3>2. /\ j \in Nat /\ j + 1 \in DOMAIN p[t] /\ q[t][j] = p[t][j + 1]
          /\ k \in Nat /\ k + 1 \in DOMAIN p[t] /\ q[t][k] = p[t][k + 1]
      BY <1>1, CallsShift
    <3>3. PICK m \in DOMAIN p[t] : m = j + 1
      BY <3>2
    <3>4. PICK n \in DOMAIN p[t] : n = k + 1
      BY <3>2
    <3>5. m < n /\ p[t][m][1] = "push_back" /\ p[t][n][1] = "push_back"
      BY <3>1, <3>2, <3>3, <3>4
    <3>6. PICK i \in m + 1 .. n - 1 : p[t][i][1] = "pop"
      BY <3>5 DEF LegalPoolUse, PushedBackOnce
    <3>7. i - 1 \in j + 1 .. k - 1 /\ i - 1 \in Nat /\ (i - 1) + 1 = i /\ i - 1 >= 1
      BY <3>2, <3>3, <3>4, <3>6
    <3>8. DOMAIN p[t] = 1 .. Len(p[t]) /\ Len(p[t]) \in Nat
      BY <1>1
    <3>9. i \in DOMAIN p[t]
      <4>1. n <= Len(p[t]) /\ n \in Nat /\ m \in Nat
        BY <3>2, <3>3, <3>4, <3>8
      <4>2. PICK len \in Nat : len = Len(p[t])
        BY <3>8
      <4>3. i \in m + 1 .. n - 1
        BY <3>6
      <4>4. i \in 1 .. len
        BY <4>1, <4>2, <4>3, Between
      <4>. QED  BY <3>8, <4>2, <4>4
    <3>10. i - 1 \in DOMAIN q[t]
      BY <1>1, <3>7, <3>9, CallsShift
    <3>11. q[t][i - 1] = p[t][(i - 1) + 1]
      BY <1>1, <3>10, CallsShift
    <3>. QED  BY <3>6, <3>7, <3>11
  <2>. QED  BY <2>1, <2>2
<1>7. ASSUME NEW s \in USER, NEW k \in DOMAIN q[s], q[s][k][1] = "remove"
      PROVE  Len(q[s][k][2]) = 1
  BY <1>2, <1>7 DEF LegalPoolUse
<1>. QED  BY <1>3, <1>5, <1>6, <1>7 DEF LegalPoolUse

(* What a step does with the calls of its user.                            *)
LEMMA CallsMove ==
    ASSUME PoolTypeInv, KindInv, JobInv, NEW t \in USER, PoolStepOf(t)
    PROVE  \/ jobs' = jobs
           \/ /\ EndJob(t) /\ jobs[t] # <<>>
              /\ \/ point[t] = "unlock" /\ got' = got
                 \/ Job(t, "pop") /\ Got(t, NIL)
                 \/ ~Job(t, "pop") /\ got' = got
<1>1. CASE PushNothing(t)
  BY <1>1 DEF PushNothing, Job
<1>2. CASE UnlockPool(t)
  BY <1>2 DEF UnlockPool, KindInv, Kind
<1>3. CASE PopEmpty(t)
  BY <1>3 DEF PopEmpty, FindsEmpty, Job
<1>4. CASE WaitElapsed(t)
  BY <1>4 DEF WaitElapsed, KindInv, Kind, JobInv, JobOK, Job
<1>5. CASE RemoveRefused(t)
  BY <1>5 DEF RemoveRefused, Job
<1>6. CASE PushLock(t) \/ PushLink(t) \/ PushNonempty(t) \/ PushInPool(t)
  BY <1>6 DEF PushLock, BeginJob, PushLink, PushNonempty, PushInPool
<1>7. CASE SignalPool(t)
  BY <1>7 DEF SignalPool, Awake
<1>8. CASE PopBegin(t) \/ PopTest(t) \/ PopLock(t) \/ PopBusy(t) \/ PopRetry(t) \/ PopPrivate(t)
  BY <1>8 DEF PopBegin, PopTest, PopLock, PopBusy, PopRetry, PopPrivate, BeginJob
<1>9. CASE TakeSteps(t)
  BY <1>9 DEF PopUnit, PopNothing, TakenEmpty, TakenClear, RemoveUnit, Unlink
<1>10. CASE WaitLock(t) \/ WaitNonempty(t) \/ WaitSleep(t) \/ WaitRefused(t) \/ WaitRelock(t)
            \/ PoolClock(t) \/ WaitOver(t)
  BY <1>10 DEF WaitLock, WaitNonempty, WaitSleep, WaitRefused, WaitRelock, PoolClock, WaitOver,
               BeginJob
<1>11. CASE RemoveBegin(t) \/ RemoveChecked(t) \/ RemoveLock(t) \/ RemoveFails(t)
  BY <1>11 DEF RemoveBegin, RemoveChecked, RemoveLock, RemoveFails, BeginJob
<1>. QED
  BY <1>1, <1>2, <1>3, <1>4, <1>5, <1>6, <1>7, <1>8, <1>9, <1>10, <1>11
     DEF PoolStepOf, PoolStep, PoolTime

LEMMA RemovesUnit ==
    ASSUME JobInv, NEW t \in USER, jobs[t] # <<>>, Head(jobs[t])[1] = "remove"
    PROVE  Units(t)[1] \in WORK
<1>1. jobs[t] \in Seq(PoolCall) /\ \A k \in DOMAIN jobs[t] : jobs[t][k][1] = "remove" =>
                                      Len(jobs[t][k][2]) = 1
  BY DEF JobInv, LegalPoolUse
<1>2. 1 \in DOMAIN jobs[t] /\ Head(jobs[t]) = jobs[t][1] /\ jobs[t][1] \in PoolCall
  BY <1>1
<1>3. Units(t) \in Seq(WORK) /\ Len(Units(t)) = 1
  BY <1>1, <1>2 DEF Units, PoolCall
<1>.  QED  BY <1>3

(* Where a pop or a remove finds its unit.                                 *)
LEMMA TakesUnit ==
    ASSUME PoolTypeInv, MutexInv, KindInv, RingInv, JobInv, MarkInv, NEW t \in USER,
           PopUnit(t) \/ RemoveUnit(t)
    PROVE  \E k \in 1 .. num_threads :
              /\ Unlink(t, Queue[k])
              /\ PopUnit(t) => k = 1 \/ (pool_kind = "randws" /\ k = num_threads)
<1>1. num_threads \in Nat /\ num_threads > 0
  BY DEF PoolTypeInv, PopUnit, RemoveUnit
<1>2. /\ Queue \in Seq(WORK) /\ Len(Queue) = num_threads
      /\ p_head = Queue[1] /\ p_tail = Queue[num_threads]
  BY <1>1 DEF RingInv, IsRing
<1>3. 1 \in 1 .. num_threads /\ num_threads \in 1 .. num_threads
  BY <1>1
<1>4. CASE PopUnit(t)
  <2>1. CASE UsesEnd(t, "tail")
    <3>1. Unlink(t, Queue[num_threads]) /\ pool_kind = "randws"
      BY <1>2, <1>4, <2>1 DEF PopUnit, UsesEnd
    <3>. QED  BY <1>3, <3>1
  <2>2. CASE ~UsesEnd(t, "tail")
    <3>1. Unlink(t, Queue[1])
      BY <1>2, <1>4, <2>2 DEF PopUnit
    <3>. QED  BY <1>3, <3>1
  <2>. QED  BY <2>1, <2>2
<1>5. CASE RemoveUnit(t) /\ ~PopUnit(t)
  <2>. DEFINE u == Units(t)[1]
  <2>1. /\ point[t] = "remove" /\ is_in_pool[u] /\ Unlink(t, u)
    BY <1>5 DEF RemoveUnit
  <2>2. u \in WORK
    <3>1. jobs[t] # <<>>
      BY <2>1 DEF KindInv, Kind
    <3>2. Head(jobs[t])[1] = "remove"
      BY <2>1 DEF JobInv, JobOK
    <3>. QED  BY <3>1, <3>2, RemovesUnit
  <2>. HIDE DEF u
  <2>3. \A s \in USER : point[s] \notin {"empty", "clear"}
    <3>1. point[t] \in PoolHolder
      BY <2>1 DEF PoolHolder
    <3>2. \A s \in USER : s # t => point[s] \notin PoolHolder
      BY <3>1, HolderAlone
    <3>. QED  BY <2>1, <3>2 DEF PoolHolder
  <2>4. u \in Range(Queue)
    BY <2>1, <2>2, <2>3 DEF MarkInv, Unlinking
  <2>5. PICK k \in 1 .. num_threads : u = Queue[k]
    BY <1>2, <2>4 DEF Range
  <2>. QED  BY <1>5, <2>1, <2>5
<1>. QED  BY <1>4, <1>5

(* What a step does with the results of its user.                          *)
LEMMA GotMoves ==
    ASSUME PoolTypeInv, MutexInv, KindInv, RingInv, JobInv, MarkInv, NEW t \in USER,
           PoolStepOf(t)
    PROVE  \/ got' = got
           \/ ~RingStep(t) /\ Got(t, NIL) /\ (PopEmpty(t) \/ PopNothing(t)) /\ Job(t, "pop")
           \/ \E k \in 1 .. num_threads : Unlink(t, Queue[k])
<1>1. CASE PushNothing(t) \/ PushLock(t) \/ PushLink(t) \/ PushNonempty(t) \/ PushInPool(t)
           \/ UnlockPool(t)
  BY <1>1 DEF PushNothing, PushLock, BeginJob, PushLink, PushNonempty, PushInPool, UnlockPool
<1>2. CASE SignalPool(t)
  BY <1>2 DEF SignalPool, Awake
<1>3. CASE PopBegin(t) \/ PopTest(t) \/ PopLock(t) \/ PopBusy(t) \/ PopRetry(t) \/ PopPrivate(t)
  BY <1>3 DEF PopBegin, PopTest, PopLock, PopBusy, PopRetry, PopPrivate, BeginJob
<1>4. CASE PopEmpty(t)
  BY <1>4 DEF PopEmpty, FindsEmpty, RingStep, PushLink, PopUnit, TakenClear, RemoveUnit, Reach
<1>5. CASE PopNothing(t)
  BY <1>5 DEF PopNothing, RingStep, PushLink, PopUnit, TakenClear, RemoveUnit, Reach, PoolTypeInv
<1>6. CASE PopUnit(t) \/ RemoveUnit(t)
  BY <1>6, TakesUnit
<1>7. CASE TakenEmpty(t) \/ TakenClear(t)
  BY <1>7 DEF TakenEmpty, TakenClear
<1>8. CASE WaitSteps(t)
  BY <1>8 DEF WaitElapsed, WaitLock, WaitNonempty, WaitSleep, WaitRefused, WaitRelock, PoolClock,
              WaitOver, BeginJob
<1>9. CASE RemoveSteps(t)
  BY <1>9 DEF RemoveBegin, RemoveChecked, RemoveRefused, RemoveLock, RemoveFails, BeginJob
<1>. QED
  BY <1>1, <1>2, <1>3, <1>4, <1>5, <1>6, <1>7, <1>8, <1>9 DEF PoolStepOf, PoolStep, PoolTime

(* The call of a user fits the point it moves to.                          *)
LEMMA CallFits ==
    ASSUME PoolTypeInv, MutexInv, KindInv, JobInv, NEW t \in USER, PoolStepOf(t), NEW s \in USER,
           point'[s] # "idle"
    PROVE  jobs'[s] = jobs[s] /\ JobOK(point'[s], Head(jobs[s])[1])
<1>. USE DEF PoolTypeInv
<1>1. CASE s # t
  <2>1. /\ jobs'[s] = jobs[s]
        /\ point'[s] = point[s] \/ (point[s] = "asleep" /\ point'[s] = "relock")
    BY <1>1, PoolFrame
  <2>. QED  BY <2>1 DEF JobInv, JobOK
<1>2. CASE s = t
  <2>1. CASE PushNothing(t) \/ RemoveRefused(t)
    BY <1>2, <2>1 DEF PushNothing, RemoveRefused, EndJob
  <2>2. CASE PushLock(t) \/ PushLink(t) \/ PushNonempty(t) \/ PushInPool(t)
    BY <1>2, <2>2 DEF PushLock, PushLink, PushNonempty, PushInPool, BeginJob, Reach, JobInv, JobOK, Job
  <2>3. CASE SignalPool(t)
    BY <1>2, <2>3 DEF SignalPool, Awake, JobInv, JobOK, MutexInv
  <2>4. CASE UnlockPool(t)
    BY <1>2, <2>4 DEF UnlockPool, EndJob, Reach, JobOK, Job
  <2>5. CASE PopBegin(t) \/ PopTest(t) \/ PopLock(t) \/ PopBusy(t) \/ PopRetry(t) \/ PopPrivate(t)
    BY <1>2, <2>5 DEF PopBegin, PopTest, PopLock, PopBusy, PopRetry, PopPrivate, BeginJob, Reach,
                      JobInv, JobOK, Job
  <2>6. CASE PopEmpty(t)
    <3>1. jobs[t] # <<>> /\ Head(jobs[t])[1] \in {"pop", "pop_wait"}
      BY <2>6 DEF PopEmpty, KindInv, Kind, JobInv, JobOK
    <3>. QED  BY <1>2, <2>6, <3>1 DEF PopEmpty, FindsEmpty, EndJob, JobOK, Job
  <2>7. CASE TakeSteps(t)
    BY <1>2, <2>7 DEF PopUnit, PopNothing, TakenEmpty, TakenClear, RemoveUnit, Unlink, Reach,
                      JobInv, JobOK, Job
  <2>8. CASE WaitElapsed(t) \/ WaitLock(t) \/ WaitNonempty(t) \/ WaitSleep(t) \/ WaitRefused(t)
             \/ WaitRelock(t) \/ WaitOver(t)
    BY <1>2, <2>8 DEF WaitElapsed, WaitLock, WaitNonempty, WaitSleep, WaitRefused, WaitRelock,
                      WaitOver, BeginJob, EndJob, Reach, JobInv, JobOK, Job
  <2>9. CASE PoolClock(t)
    BY <1>2, <2>9 DEF PoolClock, JobInv
  <2>10. CASE RemoveBegin(t) \/ RemoveChecked(t) \/ RemoveLock(t) \/ RemoveFails(t)
    BY <1>2, <2>10 DEF RemoveBegin, RemoveChecked, RemoveLock, RemoveFails, BeginJob, Reach,
                       JobInv, JobOK, Job
  <2>. QED
    BY <2>1, <2>2, <2>3, <2>4, <2>5, <2>6, <2>7, <2>8, <2>9, <2>10
       DEF PoolStepOf, PoolStep, PoolTime
<1>. QED  BY <1>1, <1>2

LEMMA CallsKept ==
    ASSUME PoolTypeInv, MutexInv, KindInv, RingInv, JobInv, MarkInv, NEW t \in USER, PoolStepOf(t)
    PROVE  JobInv'
<1>1. LegalPoolUse(jobs)'
  <2>1. CASE jobs' = jobs
    BY <2>1 DEF JobInv
  <2>2. CASE EndJob(t) /\ jobs[t] # <<>>
    <3>1. jobs' = [jobs EXCEPT ![t] = Tail(@)] /\ LegalPoolUse(jobs)
      BY <2>2 DEF EndJob, JobInv
    <3>2. LegalPoolUse(jobs')
      BY <2>2, <3>1, LegalRest
    <3>. QED  BY <3>2
  <2>. QED  BY <2>1, <2>2, CallsMove
<1>2. got' \in [USER -> Seq(WORK \cup {NIL})]
  <2>1. got \in [USER -> Seq(WORK \cup {NIL})]
    BY DEF JobInv
  <2>2. \A u \in WORK \cup {NIL} : Got(t, u) => got' \in [USER -> Seq(WORK \cup {NIL})]
    <3>1. \A u \in WORK \cup {NIL} : Append(got[t], u) \in Seq(WORK \cup {NIL})
      BY <2>1
    <3>. QED  BY <2>1, <3>1 DEF Got
  <2>3. CASE \E k \in 1 .. num_threads : Unlink(t, Queue[k])
    <3>1. PICK k \in 1 .. num_threads : Unlink(t, Queue[k])
      BY <2>3
    <3>2. Queue[k] \in WORK
      BY DEF RingInv, IsRing
    <3>. QED  BY <2>2, <3>1, <3>2 DEF Unlink
  <2>. QED  BY <2>1, <2>2, <2>3, GotMoves
<1>3. ASSUME NEW s \in USER, (point[s] # "idle")' PROVE JobOK(point[s], Head(jobs[s])[1])'
  BY <1>3, CallFits
<1>. QED  BY <1>1, <1>2, <1>3 DEF JobInv

-----------------------------------------------------------------------------
(* What is_in_pool tells.                                                  *)

Marking == {"nonempty", "in_pool", "empty", "clear"}

MarkStep(t) ==
    PushLink(t) \/ PushNonempty(t) \/ PushInPool(t) \/ PopUnit(t) \/ RemoveUnit(t)
        \/ TakenEmpty(t) \/ TakenClear(t)

LEMMA PushedSame ==
    ASSUME NEW t \in USER, jobs'[t] = jobs[t], got'[t] = got[t]
    PROVE  /\ Pushed(t)' = Pushed(t)
           /\ left'[t] = left[t] => PushedUnit(t)' = PushedUnit(t)
<1>1. Units(t)' = Units(t)
  BY DEF Units
<1>2. Job(t, "push")' <=> Job(t, "push")
  BY DEF Job
<1>3. Pushed(t)' = Pushed(t)
  BY <1>1, <1>2 DEF Pushed
<1>. QED  BY <1>3 DEF PushedUnit

LEMMA MarksUnchanged ==
    ASSUME PoolTypeInv, NEW t \in USER, PoolStepOf(t), ~MarkStep(t)
    PROVE  /\ is_in_pool' = is_in_pool
           /\ \/ point[t] \notin Marking /\ point'[t] \notin Marking
              \/ point' = point /\ left' = left /\ jobs' = jobs /\ got' = got
<1>. USE DEF PoolTypeInv, queueVars, Marking
<1>1. CASE PushNothing(t) \/ PushLock(t) \/ UnlockPool(t)
  BY <1>1 DEF PushNothing, PushLock, UnlockPool, BeginJob, EndJob, Reach
<1>2. CASE SignalPool(t)
  BY <1>2 DEF SignalPool, Awake
<1>3. CASE PopSteps(t)
  <2>1. is_in_pool' = is_in_pool
    BY <1>3 DEF PopBegin, PopEmpty, FindsEmpty, PopTest, PopLock, PopBusy, PopRetry, PopPrivate
  <2>2. point[t] \notin Marking
    BY <1>3 DEF PopBegin, PopEmpty, PopTest, PopLock, PopBusy, PopRetry, PopPrivate, BeginJob, Reach
  <2>3. point'[t] \notin Marking
    BY <1>3 DEF PopBegin, PopEmpty, FindsEmpty, PopTest, PopLock, PopBusy, PopRetry, PopPrivate,
                BeginJob, EndJob, Reach
  <2>. QED  BY <2>1, <2>2, <2>3
<1>4. CASE PopNothing(t)
  BY <1>4 DEF PopNothing, Reach
<1>5. CASE WaitElapsed(t) \/ WaitLock(t) \/ WaitNonempty(t) \/ WaitSleep(t) \/ WaitRefused(t)
           \/ WaitRelock(t) \/ WaitOver(t)
  BY <1>5 DEF WaitElapsed, WaitLock, WaitNonempty, WaitSleep, WaitRefused, WaitRelock, WaitOver,
              BeginJob, EndJob, Reach
<1>6. CASE PoolClock(t)
  BY <1>6 DEF PoolClock
<1>7. CASE RemoveSteps(t)
  BY <1>7 DEF RemoveBegin, RemoveChecked, RemoveRefused, RemoveLock, RemoveFails, BeginJob, EndJob,
              Reach
<1>. QED
  BY <1>1, <1>2, <1>3, <1>4, <1>5, <1>6, <1>7 DEF MarkStep, PoolStepOf, PoolStep, PoolTime

LEMMA LastAppended ==
    ASSUME NEW S, NEW s \in Seq(S), NEW u \in S
    PROVE  Append(s, u) # <<>> /\ Last(Append(s, u)) = u
<1>1. /\ Append(s, u) \in Seq(S) /\ Len(Append(s, u)) = Len(s) + 1
      /\ Append(s, u)[Len(s) + 1] = u /\ Len(s) \in Nat
  BY AppendProperties
<1>2. Append(s, u) # <<>>
  BY <1>1
<1>.  QED  BY <1>1, <1>2 DEF Last

(* Steps of the users that hold no unit by one end only.                   *)
LEMMA MarksKeptElsewhere ==
    ASSUME PoolTypeInv, MutexInv, RingInv, MarkInv, NEW t \in USER, PoolStepOf(t), ~MarkStep(t)
    PROVE  MarkInv'
<1>1. Queue' = Queue /\ num_threads' = num_threads /\ is_in_pool' = is_in_pool
  <2>1. ~RingStep(t)
    BY DEF RingStep, MarkStep
  <2>. QED  BY <2>1, RingUnchanged, MarksUnchanged
<1>2. ASSUME NEW s \in USER
      PROVE  \/ point[s] \notin Marking /\ point'[s] \notin Marking
             \/ /\ point'[s] = point[s] /\ PushedUnit(s)' = PushedUnit(s)
                /\ got'[s] = got[s]
  <2>1. CASE s = t
    BY <2>1, MarksUnchanged, PushedSame
  <2>2. CASE s # t
    <3>1. /\ jobs'[s] = jobs[s] /\ left'[s] = left[s] /\ got'[s] = got[s]
          /\ point'[s] = point[s] \/ (point[s] = "asleep" /\ point'[s] = "relock")
      BY <2>2, PoolFrame
    <3>. QED  BY <3>1, PushedSame DEF Marking
  <2>. QED  BY <2>1, <2>2
<1>3. \A s \in USER : \A u \in WORK : /\ Linking(s, u)' <=> Linking(s, u)
                                      /\ Unlinking(s, u)' <=> Unlinking(s, u)
  BY <1>2 DEF Linking, Unlinking, Marking
<1>4. (is_in_pool \in [WORK -> BOOLEAN])'
  BY <1>1 DEF MarkInv
<1>5. ASSUME NEW s \in USER
      PROVE  /\ (point[s] \in {"nonempty", "in_pool"} => PushedUnit(s) \in Range(Queue))'
             /\ (point[s] = "nonempty" => num_threads = 1)'
             /\ (point[s] \in {"empty", "clear"} =>
                   got[s] # <<>> /\ Last(got[s]) \in WORK \ Range(Queue))'
  BY <1>1, <1>2 DEF MarkInv, Marking
<1>6. ASSUME NEW u \in WORK
      PROVE  (is_in_pool[u] <=> \/ u \in Range(Queue) /\ \A s \in USER : ~Linking(s, u)
                                \/ \E s \in USER : Unlinking(s, u))'
  BY <1>1, <1>3 DEF MarkInv
<1>. QED  BY <1>4, <1>5, <1>6 DEF MarkInv

(* What MarkInv says of the holder of the mutex, and of the others.        *)
MarkOf(t) ==
    /\ is_in_pool \in [WORK -> BOOLEAN]
    /\ point[t] \in {"nonempty", "in_pool"} => PushedUnit(t) \in Range(Queue)
    /\ point[t] = "nonempty" => num_threads = 1
    /\ point[t] \in {"empty", "clear"} =>
         got[t] # <<>> /\ Last(got[t]) \in WORK \ Range(Queue)
    /\ \A u \in WORK : is_in_pool[u] <=>
         (u \in Range(Queue) /\ ~Linking(t, u)) \/ Unlinking(t, u)

(* The holder of the mutex is the only one between a link and a mark.      *)
LEMMA MarkOfHolder ==
    ASSUME MutexInv, NEW t \in USER, point[t] \in PoolHolder
    PROVE  MarkInv <=> MarkOf(t)
<1>1. ASSUME NEW s \in USER, s # t
      PROVE  point[s] \notin {"nonempty", "in_pool", "empty", "clear"}
  BY <1>1, HolderAlone DEF PoolHolder
<1>2. ASSUME NEW u \in WORK
      PROVE  /\ (\A s \in USER : ~Linking(s, u)) <=> ~Linking(t, u)
             /\ (\E s \in USER : Unlinking(s, u)) <=> Unlinking(t, u)
  BY <1>1 DEF Linking, Unlinking
<1>. QED  BY <1>1, <1>2 DEF MarkInv, MarkOf

LEMMA MarksKeptByHolder ==
    ASSUME PoolTypeInv, MutexInv, MutexInv', EmptyInv, KindInv, RingInv, JobInv, MarkInv,
           NEW t \in USER, MarkStep(t), PushLink(t) => PushedUnit(t) \in WORK \ Range(Queue)
    PROVE  MarkInv'
<1>. USE DEF PoolTypeInv
<1>1. point[t] \in PoolHolder /\ point'[t] \in PoolHolder
  <2>1. point[t] \in PoolHolder
    BY DEF MarkStep, PushLink, PushNonempty, PushInPool, PopUnit, RemoveUnit, TakenEmpty, TakenClear,
           Reach, PoolHolder
  <2>2. point'[t] \in PoolHolder
    BY DEF MarkStep, PushLink, PushNonempty, PushInPool, PopUnit, RemoveUnit, TakenEmpty, TakenClear,
           Unlink, Reach, PoolHolder
  <2>. QED  BY <2>1, <2>2
<1>2. /\ is_in_pool \in [WORK -> BOOLEAN]
      /\ point[t] \in {"nonempty", "in_pool"} => PushedUnit(t) \in Range(Queue)
      /\ point[t] = "nonempty" => num_threads = 1
      /\ point[t] \in {"empty", "clear"} => got[t] # <<>> /\ Last(got[t]) \in WORK \ Range(Queue)
      /\ \A u \in WORK : is_in_pool[u] <=>
           (u \in Range(Queue) /\ ~Linking(t, u)) \/ Unlinking(t, u)
  BY <1>1, MarkOfHolder DEF MarkOf
<1>. DEFINE Marked ==
              /\ is_in_pool' \in [WORK -> BOOLEAN]
              /\ point'[t] \in {"nonempty", "in_pool"} => PushedUnit(t)' \in Range(Queue)'
              /\ point'[t] = "nonempty" => num_threads' = 1
              /\ point'[t] \in {"empty", "clear"} =>
                   got'[t] # <<>> /\ Last(got'[t]) \in WORK \ Range(Queue)'
              /\ \A u \in WORK : is_in_pool'[u] <=>
                   (u \in Range(Queue)' /\ ~Linking(t, u)') \/ Unlinking(t, u)'
<1>3. SUFFICES Marked
  <2>1. MarkOf(t)' <=> Marked
    BY DEF MarkOf
  <2>2. (MutexInv /\ point[t] \in PoolHolder => (MarkInv <=> MarkOf(t)))'
    BY MarkOfHolder, PTL
  <2>. QED  BY <1>1, <2>1, <2>2
<1>4. CASE PushLink(t)
  <2>1. /\ point[t] = "link" /\ point'[t] \in {"nonempty", "in_pool"}
        /\ point'[t] = "nonempty" => num_threads = 0
        /\ jobs' = jobs /\ left' = left /\ got' = got /\ is_in_pool' = is_in_pool
    BY <1>4 DEF PushLink, Reach
  <2>2. PushedUnit(t)' = PushedUnit(t)
    BY <2>1, PushedSame
  <2>3. /\ Range(Queue)' = Range(Queue) \cup {PushedUnit(t)}
        /\ num_threads' = num_threads + 1 /\ PushedUnit(t) \in WORK \ Range(Queue)
    BY <1>4, Links
  <2>4. \A u \in WORK : /\ Linking(t, u)' <=> u = PushedUnit(t)
                        /\ ~Linking(t, u) /\ ~Unlinking(t, u) /\ ~Unlinking(t, u)'
    BY <2>1, <2>2 DEF Linking, Unlinking
  <2>. QED  BY <1>2, <2>1, <2>2, <2>3, <2>4
<1>5. CASE PushNonempty(t) \/ PushInPool(t)
  <2>1. ~RingStep(t) /\ PoolStepOf(t)
    BY <1>5 DEF RingStep, PushNonempty, PushInPool, PushLink, PopUnit, TakenClear, RemoveUnit, Reach,
                PoolStepOf, PoolStep
  <2>2. Queue' = Queue /\ num_threads' = num_threads
    BY <2>1, RingUnchanged
  <2>3. jobs' = jobs /\ got' = got
    BY <1>5 DEF PushNonempty, PushInPool
  <2>4. CASE PushNonempty(t)
    <3>1. /\ point[t] = "nonempty" /\ point'[t] = "in_pool"
          /\ left' = left /\ is_in_pool' = is_in_pool
      BY <2>4 DEF PushNonempty, Reach
    <3>2. PushedUnit(t)' = PushedUnit(t)
      BY <2>3, <3>1, PushedSame
    <3>3. \A u \in WORK : /\ Linking(t, u)' <=> Linking(t, u)
                          /\ ~Unlinking(t, u) /\ ~Unlinking(t, u)'
      BY <3>1, <3>2 DEF Linking, Unlinking
    <3>. QED  BY <1>2, <2>2, <3>1, <3>2, <3>3
  <2>5. CASE PushInPool(t)
    <3>1. /\ point[t] = "in_pool" /\ point'[t] \in {"link", "signal", "unlock"}
          /\ is_in_pool' = [is_in_pool EXCEPT ![PushedUnit(t)] = TRUE]
      BY <2>5 DEF PushInPool, Reach
    <3>2. \A u \in WORK : /\ ~Linking(t, u)' /\ (Linking(t, u) <=> u = PushedUnit(t))
                          /\ ~Unlinking(t, u) /\ ~Unlinking(t, u)'
      BY <3>1 DEF Linking, Unlinking
    <3>3. PushedUnit(t) \in Range(Queue)
      BY <1>2, <3>1
    <3>. QED  BY <1>2, <2>2, <3>1, <3>2, <3>3
  <2>. QED  BY <1>5, <2>4, <2>5
<1>6. CASE PopUnit(t) \/ RemoveUnit(t)
  <2>1. PICK k \in 1 .. num_threads : Unlink(t, Queue[k])
    <3>1. PopUnit(t) => \E k \in 1 .. num_threads : Unlink(t, Queue[k])
      BY TakesUnit
    <3>. QED  BY <1>6, <3>1, TakesUnit
  <2>2. /\ Queue[k] \in Range(Queue) /\ Range(Queue)' = Range(Queue) \ {Queue[k]}
    BY <2>1, Unlinks
  <2>3. Queue[k] \in WORK
    BY DEF RingInv, IsRing
  <2>4. /\ point[t] \in {"pop", "remove"} /\ point'[t] \in {"empty", "clear"}
        /\ is_in_pool' = is_in_pool /\ got'[t] = Append(got[t], Queue[k])
    BY <1>6, <2>1 DEF PopUnit, RemoveUnit, Unlink, Got
  <2>5. got'[t] # <<>> /\ Last(got'[t]) = Queue[k]
    <3>1. got[t] \in Seq(WORK \cup {NIL})
      BY DEF JobInv
    <3>2. Queue[k] \in WORK \cup {NIL}
      BY <2>3
    <3>3. Append(got[t], Queue[k]) # <<>> /\ Last(Append(got[t], Queue[k])) = Queue[k]
      BY ONLY <3>1, <3>2, LastAppended
    <3>. QED  BY <2>4, <3>3
  <2>6. \A u \in WORK : /\ ~Linking(t, u)' /\ ~Linking(t, u) /\ ~Unlinking(t, u)
                        /\ Unlinking(t, u)' <=> u = Queue[k]
    BY <2>4, <2>5 DEF Linking, Unlinking
  <2>. QED  BY <1>2, <2>2, <2>3, <2>4, <2>5, <2>6
<1>7. CASE TakenEmpty(t)
  <2>1. ~RingStep(t) /\ PoolStepOf(t)
    BY <1>7 DEF RingStep, TakenEmpty, PushLink, PopUnit, TakenClear, RemoveUnit, Reach, PoolStepOf,
                PoolStep
  <2>2. Queue' = Queue
    BY <2>1, RingUnchanged
  <2>3. /\ point[t] = "empty" /\ point'[t] = "clear" /\ is_in_pool' = is_in_pool /\ got' = got
    BY <1>7 DEF TakenEmpty, Reach
  <2>4. \A u \in WORK : /\ ~Linking(t, u)' /\ ~Linking(t, u)
                        /\ Unlinking(t, u)' <=> Unlinking(t, u)
    BY <2>3 DEF Linking, Unlinking
  <2>. QED  BY <1>2, <2>2, <2>3, <2>4
<1>8. CASE TakenClear(t)
  <2>1. /\ point[t] = "clear" /\ point'[t] \in {"pop", "unlock"}
        /\ is_in_pool' = [is_in_pool EXCEPT ![Last(got[t])] = FALSE]
    BY <1>8 DEF TakenClear, Reach
  <2>2. got[t] # <<>> /\ Last(got[t]) \in WORK \ Range(Queue)
    BY <1>2, <2>1
  <2>3. Queue' = Queue
    BY <1>8, <2>2, LinksCleared
  <2>4. \A u \in WORK : /\ ~Linking(t, u)' /\ ~Linking(t, u) /\ ~Unlinking(t, u)'
                        /\ Unlinking(t, u) <=> u = Last(got[t])
    BY <2>1, <2>2 DEF Linking, Unlinking
  <2>. QED  BY <1>2, <2>1, <2>2, <2>3, <2>4
<1>. QED
  BY <1>4, <1>5, <1>6, <1>7, <1>8 DEF MarkStep

-----------------------------------------------------------------------------
(* Who is going to push a unit.                                            *)

LEMMA TailShorter ==
    ASSUME NEW S, NEW s \in Seq(S), s # <<>>
    PROVE  Tail(s) # s
<1>1. PICK n \in Nat : n = Len(s)
  OBVIOUS
<1>2. Len(Tail(s)) = n - 1
  BY <1>1
<1>3. n - 1 # n
  OBVIOUS
<1>.  QED  BY <1>1, <1>2, <1>3

LEMMA PushesUnits ==
    ASSUME PoolTypeInv, NEW t \in USER, Job(t, "push")
    PROVE  /\ Pushed(t) = jobs[t][1][2] /\ Pushed(t) \in Seq(WORK) /\ Len(Pushed(t)) \in Nat
           /\ 1 \in DOMAIN jobs[t] /\ jobs[t][1] = Head(jobs[t])
<1>1. jobs[t] \in Seq(PoolCall) /\ jobs[t] # <<>>
  BY DEF PoolTypeInv, Job
<1>2. 1 \in DOMAIN jobs[t] /\ Head(jobs[t]) = jobs[t][1] /\ jobs[t][1] \in PoolCall
  BY <1>1
<1>3. Pushed(t) = jobs[t][1][2]
  BY <1>2 DEF Pushed, Units
<1>4. jobs[t][1][2] \in Seq(WORK)
  BY <1>2 DEF PoolCall
<1>.  QED  BY <1>2, <1>3, <1>4

(* A push goes through its units in order.                                 *)
LEMMA LinkedGrows ==
    ASSUME PoolTypeInv, MutexInv, KindInv, JobInv, NEW t \in USER, PoolStepOf(t), jobs' = jobs,
           Job(t, "push")
    PROVE  /\ Linked(t) \in Nat /\ Linked(t)' \in Nat /\ Linked(t)' >= Linked(t)
           /\ PushLink(t) => /\ Linked(t) = Len(Pushed(t)) - left[t]
                             /\ Linked(t)' = Linked(t) + 1
<1>1. Job(t, "push")' /\ jobs[t] # <<>> /\ Head(jobs[t])[1] = "push"
  BY DEF Job
<1>2. Pushed(t)' = Pushed(t)
  <2>1. Units(t)' = Units(t)
    BY DEF Units
  <2>. QED  BY <1>1, <2>1 DEF Pushed
<1>3. PICK n \in Nat : n = Len(Pushed(t)) /\ n = Len(Pushed(t)')
  BY <1>2, PushesUnits
<1>4. /\ Linked(t) = IF point[t] = "unlock" THEN n ELSE
                       CASE point[t] = "link" -> n - left[t]
                         [] point[t] \in {"nonempty", "in_pool"} -> n - left[t] + 1
                         [] point[t] = "signal" -> n
                         [] point[t] = "pop" -> 1
                         [] OTHER -> 0
      /\ Linked(t)' = IF point'[t] = "unlock" THEN n ELSE
                       CASE point'[t] = "link" -> n - left'[t]
                         [] point'[t] \in {"nonempty", "in_pool"} -> n - left'[t] + 1
                         [] point'[t] = "signal" -> n
                         [] point'[t] = "pop" -> 1
                         [] OTHER -> 0
  BY <1>3 DEF Linked, Ahead, Lead
<1>5. point[t] \in {"link", "nonempty", "in_pool"} => left[t] \in 1 .. n
  BY <1>3 DEF KindInv, Kind
<1>6. point[t] \in {"idle", "link", "nonempty", "in_pool", "signal", "unlock"}
  BY <1>1 DEF JobInv, JobOK, PoolTypeInv, PoolPoint, PoolHolder
<1>. USE DEF PoolTypeInv
<1>8. CASE PushLock(t)
  <2>1. point[t] = "idle" /\ point'[t] = "link" /\ left'[t] = n
    BY <1>3, <1>8 DEF PushLock, BeginJob, Reach
  <2>2. ~PushLink(t)
    BY <2>1 DEF PushLink, Reach
  <2>. QED  BY <1>4, <2>1, <2>2
<1>9. CASE PushLink(t)
  <2>1. point[t] = "link" /\ point'[t] \in {"nonempty", "in_pool"} /\ left'[t] = left[t]
    BY <1>9 DEF PushLink, Reach
  <2>2. Linked(t) = n - left[t] /\ Linked(t)' = n - left[t] + 1 /\ left[t] \in 1 .. n
    BY <1>4, <1>5, <2>1
  <2>. QED  BY <1>3, <2>2
<1>10. CASE PushNonempty(t)
  <2>1. point[t] = "nonempty" /\ point'[t] = "in_pool" /\ left'[t] = left[t]
    BY <1>10 DEF PushNonempty, Reach
  <2>2. Linked(t) = n - left[t] + 1 /\ Linked(t)' = n - left[t] + 1 /\ left[t] \in 1 .. n
    BY <1>4, <1>5, <2>1
  <2>. QED  BY <2>1, <2>2 DEF PushLink, Reach
<1>11. CASE PushInPool(t)
  <2>1. /\ point[t] = "in_pool" /\ left[t] \in 1 .. n
        /\ point'[t] = IF left[t] > 1 THEN "link"
                       ELSE IF pool_kind = "fifo_wait" THEN "signal" ELSE "unlock"
    BY <1>5, <1>11 DEF PushInPool, Reach
  <2>2. Linked(t) = n - left[t] + 1 /\ ~PushLink(t)
    BY <1>4, <2>1 DEF PushLink, Reach
  <2>3. CASE left[t] > 1
    <3>1. left'[t] = left[t] - 1
      BY <1>11 DEF PushInPool, KindInv, Kind, PoolTypeInv
    <3>2. Linked(t)' = n - (left[t] - 1)
      BY <1>4, <2>1, <2>3, <3>1
    <3>. QED  BY <2>1, <2>2, <3>2
  <2>4. CASE left[t] <= 1
    <3>1. Linked(t)' = n
      BY <1>4, <2>1, <2>4
    <3>. QED  BY <2>1, <2>2, <3>1
  <2>. QED  BY <2>1, <2>3, <2>4
<1>12. CASE SignalPool(t)
  <2>1. point[t] = "signal" /\ point'[t] = "unlock"
    BY <1>12 DEF SignalPool, Awake, MutexInv
  <2>. QED  BY <1>4, <2>1 DEF PushLink, Reach
<1>13. CASE PoolClock(t)
  <2>1. point'[t] = point[t] /\ left'[t] = left[t]
    BY <1>13 DEF PoolClock
  <2>2. Linked(t)' = Linked(t)
    BY <1>4, <2>1
  <2>3. Linked(t) \in Nat
    BY <1>4, <1>5, <1>6
  <2>4. ~PushLink(t)
    BY <1>13, <2>1 DEF PushLink, Reach
  <2>. QED  BY <2>2, <2>3, <2>4
<1>14. ~PushNothing(t) /\ ~UnlockPool(t)
  <2>1. Tail(jobs[t]) # jobs[t]
    BY <1>1, TailShorter
  <2>2. ~EndJob(t)
    BY <2>1 DEF EndJob
  <2>. QED  BY <1>1, <2>2 DEF PushNothing, UnlockPool, Job
<1>15. CASE PopSteps(t)
  BY <1>1, <1>6, <1>15 DEF PopBegin, PopEmpty, PopTest, PopLock, PopBusy, PopRetry, PopPrivate,
                           Reach, Job
<1>16. CASE TakeSteps(t)
  BY <1>1, <1>6, <1>16 DEF PopUnit, PopNothing, TakenEmpty, TakenClear, RemoveUnit, Reach
<1>17. CASE WaitElapsed(t) \/ WaitLock(t) \/ WaitNonempty(t) \/ WaitSleep(t) \/ WaitRefused(t)
            \/ WaitRelock(t) \/ WaitOver(t)
  BY <1>1, <1>6, <1>17 DEF WaitElapsed, WaitLock, WaitNonempty, WaitSleep, WaitRefused, WaitRelock,
                           WaitOver, Reach, Job
<1>18. CASE RemoveSteps(t)
  BY <1>1, <1>6, <1>18 DEF RemoveBegin, RemoveChecked, RemoveRefused, RemoveLock, RemoveFails,
                           Reach, Job
<1>. QED
  BY <1>8, <1>9, <1>10, <1>11, <1>12, <1>13, <1>14, <1>15, <1>16, <1>17, <1>18
     DEF PoolStepOf, PoolStep, PoolTime

LEMMA LinkedNatural ==
    ASSUME PoolTypeInv, KindInv, NEW t \in USER, Job(t, "push")
    PROVE  Linked(t) \in Nat
<1>1. Len(Pushed(t)) \in Nat
  BY PushesUnits
<1>2. point[t] \in {"link", "nonempty", "in_pool"} => left[t] \in 1 .. Len(Pushed(t))
  BY DEF KindInv, Kind
<1>.  QED  BY <1>1, <1>2 DEF Linked, Ahead, Lead

(* A unit that was pushed or is in the queue does not become new.          *)
LEMMA NewBefore ==
    ASSUME PoolTypeInv, MutexInv, KindInv, JobInv, NEW t \in USER, PoolStepOf(t),
           NEW s \in USER, NEW u \in WORK, IsNew(s, u)'
    PROVE  IsNew(s, u)
<1>1. PICK k \in DOMAIN jobs'[s] :
         /\ jobs'[s][k][1] = "push"
         /\ \E i \in DOMAIN jobs'[s][k][2] :
              u = jobs'[s][k][2][i] /\ (k = 1 => i > Linked(s)')
  BY DEF IsNew
<1>2. PICK i \in DOMAIN jobs'[s][k][2] : u = jobs'[s][k][2][i] /\ (k = 1 => i > Linked(s)')
  BY <1>1
<1>3. CASE jobs'[s] = jobs[s]
  <2>1. SUFFICES k = 1 => i > Linked(s)
    BY <1>1, <1>2, <1>3 DEF IsNew
  <2>2. CASE k = 1
    <3>1. Job(s, "push")
      <4>1. jobs[s] \in Seq(PoolCall) /\ 1 \in DOMAIN jobs[s] /\ jobs[s][1][1] = "push"
        BY <1>1, <1>3, <2>2 DEF PoolTypeInv
      <4>2. jobs[s] # <<>> /\ Head(jobs[s]) = jobs[s][1]
        BY <4>1
      <4>. QED  BY <4>1, <4>2 DEF Job
    <3>2. Linked(s) \in Nat /\ Linked(s)' \in Nat /\ Linked(s)' >= Linked(s)
      <4>1. CASE s = t
        <5>1. jobs' = jobs
          <6>1. CASE EndJob(t) /\ jobs[t] # <<>>
            <7>1. jobs[t] \in Seq(PoolCall) /\ jobs'[t] = Tail(jobs[t])
              BY <6>1 DEF PoolTypeInv, EndJob
            <7>. QED  BY <1>3, <4>1, <6>1, <7>1, TailShorter
          <6>. QED  BY <6>1, CallsMove
        <5>. QED  BY <3>1, <4>1, <5>1, LinkedGrows
      <4>2. CASE s # t
        <5>1. /\ left'[s] = left[s] /\ got'[s] = got[s]
              /\ point'[s] = point[s] \/ (point[s] = "asleep" /\ point'[s] = "relock")
          BY <4>2, PoolFrame
        <5>2. point[s] # "asleep"
          BY <3>1 DEF Job, JobInv, JobOK
        <5>3. Pushed(s)' = Pushed(s)
          BY <1>3, <5>1, PushedSame
        <5>4. Linked(s)' = Linked(s)
          BY <5>1, <5>2, <5>3 DEF Linked, Ahead
        <5>5. Linked(s) \in Nat
          BY <3>1, LinkedNatural
        <5>. QED  BY <5>4, <5>5
      <4>. QED  BY <4>1, <4>2
    <3>3. i \in Nat
      <4>1. jobs[s][1][2] \in Seq(WORK)
        BY <3>1, PushesUnits
      <4>. QED  BY <1>3, <2>2, <4>1
    <3>. QED  BY <1>2, <2>2, <3>2, <3>3
  <2>. QED  BY <2>2
<1>4. CASE jobs'[s] # jobs[s]
  <2>1. s = t
    BY <1>4, PoolFrame
  <2>2. jobs[t] # <<>> /\ jobs' = [jobs EXCEPT ![t] = Tail(@)]
    BY <1>4, <2>1, CallsMove DEF EndJob
  <2>3. jobs \in [USER -> Seq(PoolCall)]
    BY DEF PoolTypeInv
  <2>4. k \in Nat /\ k >= 1 /\ k + 1 \in DOMAIN jobs[t] /\ jobs'[t][k] = jobs[t][k + 1]
    BY <1>1, <2>1, <2>2, <2>3, CallsShift
  <2>5. k + 1 # 1
    BY <2>4
  <2>. QED  BY <1>1, <1>2, <2>1, <2>4, <2>5 DEF IsNew
<1>. QED  BY <1>3, <1>4

(* Who is about to push back was about to.                                 *)
LEMMA PointsBefore ==
    ASSUME PoolTypeInv, MutexInv, NEW t \in USER, PoolStepOf(t), jobs' = jobs, JobInv,
           jobs[t] # <<>>, ~Got(t, NIL)
    PROVE  /\ Job(t, "push_back") /\ point'[t] \in {"idle", "link"}
                 /\ (point[t] = "in_pool" => left[t] = 1) => point[t] \in {"idle", "link"}
           /\ Job(t, "pop") /\ point'[t] \in {"empty", "clear", "unlock"} /\ got' = got =>
                 point[t] \in {"empty", "clear", "unlock"}
<1>. USE DEF PoolTypeInv
<1>1. CASE PushNothing(t) \/ RemoveRefused(t) \/ UnlockPool(t)
  BY <1>1 DEF PushNothing, RemoveRefused, UnlockPool, EndJob, Reach, Job, JobInv, JobOK
<1>2. CASE PushLock(t) \/ PushLink(t) \/ PushNonempty(t)
  BY <1>2 DEF PushLock, PushLink, PushNonempty, BeginJob, Reach
<1>3. CASE PushInPool(t)
  <2>1. /\ point[t] = "in_pool" /\ point' = [point EXCEPT ![t] = 
               IF left[t] > 1 THEN "link" ELSE IF pool_kind = "fifo_wait" THEN "signal" ELSE "unlock"]
        /\ Head(jobs[t])[1] \in {"push", "push_back"}
    BY <1>3 DEF PushInPool, Reach, JobInv, JobOK
  <2>2. left[t] = 1 => point'[t] \in {"signal", "unlock"}
    <3>1. left[t] = 1 => ~(left[t] > 1)
      OBVIOUS
    <3>. QED  BY <2>1, <3>1
  <2>3. ~Job(t, "pop")
    BY <2>1 DEF Job
  <2>. QED  BY <2>1, <2>2, <2>3
<1>4. CASE SignalPool(t)
  BY <1>4 DEF SignalPool, Awake, JobInv, JobOK, Job, MutexInv
<1>5. CASE PopBegin(t) \/ PopTest(t) \/ PopLock(t) \/ PopBusy(t) \/ PopRetry(t) \/ PopPrivate(t)
  BY <1>5 DEF PopBegin, PopTest, PopLock, PopBusy, PopRetry, PopPrivate, BeginJob, Reach
<1>6. CASE PopEmpty(t)
  BY <1>6 DEF PopEmpty, FindsEmpty, EndJob, JobInv, JobOK, Job
<1>7. CASE PopUnit(t) \/ RemoveUnit(t)
  BY <1>7 DEF PopUnit, RemoveUnit, Unlink, Got, JobInv, JobOK, Job
<1>8. CASE PopNothing(t)
  BY <1>8 DEF PopNothing, Reach
<1>9. CASE TakenEmpty(t) \/ TakenClear(t)
  BY <1>9 DEF TakenEmpty, TakenClear, Reach
<1>10. CASE WaitElapsed(t) \/ WaitLock(t) \/ WaitNonempty(t) \/ WaitSleep(t) \/ WaitRefused(t)
            \/ WaitRelock(t) \/ WaitOver(t)
  BY <1>10 DEF WaitElapsed, WaitLock, WaitNonempty, WaitSleep, WaitRefused, WaitRelock, WaitOver,
               BeginJob, EndJob, Reach, JobInv, JobOK, Job
<1>11. CASE PoolClock(t)
  BY <1>11 DEF PoolClock
<1>12. CASE RemoveBegin(t) \/ RemoveChecked(t) \/ RemoveLock(t) \/ RemoveFails(t)
  BY <1>12 DEF RemoveBegin, RemoveChecked, RemoveLock, RemoveFails, BeginJob, Reach, JobInv, JobOK,
               Job
<1>. QED
  BY <1>1, <1>2, <1>3, <1>4, <1>5, <1>6, <1>7, <1>8, <1>9, <1>10, <1>11, <1>12
     DEF PoolStepOf, PoolStep, PoolTime

LEMMA LastInRange ==
    ASSUME NEW S, NEW s \in Seq(S), s # <<>>
    PROVE  Last(s) \in Range(s) /\ Last(s) \in S
<1>1. Len(s) \in DOMAIN s /\ s[Len(s)] \in S
  OBVIOUS
<1>.  QED  BY <1>1 DEF Last, Range

LEMMA PushesOneBack ==
    ASSUME PoolTypeInv, KindInv, JobInv, NEW t \in USER, Job(t, "push_back"),
           point[t] \in {"link", "nonempty", "in_pool"}
    PROVE  /\ got[t] # <<>> /\ Last(got[t]) \in WORK /\ left[t] = 1
           /\ Pushed(t) = <<Last(got[t])>> /\ PushedUnit(t) = Last(got[t])
<1>1. left[t] \in 1 .. Len(Pushed(t)) /\ Len(Pushed(t)) \in Nat \ {0}
  BY DEF KindInv, Kind
<1>2. ~Job(t, "push")
  BY DEF Job
<1>3. got[t] # <<>> /\ Last(got[t]) # NIL /\ Pushed(t) = <<Last(got[t])>>
  <2>1. ~(got[t] # <<>> /\ Last(got[t]) # NIL) => Len(Pushed(t)) = 0
    BY <1>2 DEF Pushed
  <2>. QED  BY <1>1, <1>2, <2>1 DEF Pushed
<1>4. Len(Pushed(t)) = 1 /\ left[t] = 1
  BY <1>1, <1>3
<1>5. got[t] \in Seq(WORK \cup {NIL})
  BY DEF JobInv
<1>6. Last(got[t]) \in Range(got[t]) /\ Last(got[t]) \in WORK \cup {NIL}
  BY <1>3, <1>5, LastInRange
<1>7. PushedUnit(t) = Pushed(t)[1]
  BY <1>4 DEF PushedUnit
<1>.  QED  BY <1>3, <1>4, <1>6, <1>7

LEMMA HeldBefore ==
    ASSUME PoolTypeInv, MutexInv, KindInv, RingInv, JobInv, MarkInv, NEW t \in USER, PoolStepOf(t),
           NEW s \in USER, NEW u \in WORK, Holds(s, u)'
    PROVE  Holds(s, u) \/ (s = t /\ \E k \in 1 .. num_threads :
                                        Unlink(t, Queue[k]) /\ u = Queue[k])
<1>1. PICK k \in DOMAIN jobs'[s] : PushesBack(s, k)'
  BY DEF Holds
<1>2. got'[s] # <<>> /\ Last(got'[s]) = u
  BY DEF Holds
<1>3. /\ jobs'[s][k][1] = "push_back"
      /\ k = 1 => point'[s] \in {"idle", "link"}
      /\ \A i \in 1 .. k - 1 :
           jobs'[s][i][1] = "pop" => i = 1 /\ point'[s] \in {"empty", "clear", "unlock"}
  BY <1>1 DEF PushesBack
<1>4. jobs[s] \in Seq(PoolCall) /\ jobs'[s] \in Seq(PoolCall)
  BY PoolTyped, CallsKept DEF PoolTypeInv, JobInv, LegalPoolUse
<1>5. CASE s # t
  <2>1. /\ jobs'[s] = jobs[s] /\ got'[s] = got[s]
        /\ point'[s] = point[s] \/ (point[s] = "asleep" /\ point'[s] = "relock")
    BY <1>5, PoolFrame
  <2>2. PushesBack(s, k)
    BY <1>3, <2>1 DEF PushesBack
  <2>. QED  BY <1>1, <1>2, <2>1, <2>2 DEF Holds
<1>6. CASE s = t /\ Got(t, NIL)
  <2>1. got[t] \in Seq(WORK \cup {NIL}) /\ got'[t] = Append(got[t], NIL)
    BY <1>6 DEF JobInv, Got
  <2>2. Last(got'[t]) = NIL
    BY <2>1, LastAppended
  <2>. QED  BY <1>2, <1>6, <2>2, PoolAssumption
<1>7. CASE s = t /\ ~Got(t, NIL) /\ \E j \in 1 .. num_threads : Unlink(t, Queue[j])
  <2>1. PICK j \in 1 .. num_threads : Unlink(t, Queue[j])
    BY <1>7
  <2>2. Queue[j] \in WORK \cup {NIL}
    BY DEF RingInv, IsRing
  <2>3. got[t] \in Seq(WORK \cup {NIL}) /\ got'[t] = Append(got[t], Queue[j])
    BY <2>1 DEF JobInv, Unlink, Got
  <2>4. Last(got'[t]) = Queue[j]
    BY <2>2, <2>3, LastAppended
  <2>. QED  BY <1>2, <1>7, <2>1, <2>4
<1>8. CASE s = t /\ ~Got(t, NIL) /\ got' = got
  <2>1. CASE jobs' = jobs
    <3>1. /\ k \in DOMAIN jobs[t] /\ jobs[t] # <<>> /\ Head(jobs[t]) = jobs[t][1]
          /\ k \in Nat /\ k >= 1
      BY <1>1, <1>4, <1>8, <2>1
    <3>2. k = 1 => point[t] \in {"idle", "link"}
      <4>1. SUFFICES ASSUME k = 1 PROVE point[t] \in {"idle", "link"}
        OBVIOUS
      <4>2. Job(t, "push_back") /\ point'[t] \in {"idle", "link"}
        BY <1>3, <1>8, <2>1, <3>1, <4>1 DEF Job
      <4>3. point[t] = "in_pool" => left[t] = 1
        BY <4>2, PushesOneBack
      <4>. QED  BY <1>8, <2>1, <3>1, <4>2, <4>3, PointsBefore
    <3>3. ASSUME NEW i \in 1 .. k - 1, jobs[t][i][1] = "pop"
          PROVE  i = 1 /\ point[t] \in {"empty", "clear", "unlock"}
      <4>1. i = 1 /\ point'[t] \in {"empty", "clear", "unlock"}
        BY <1>3, <1>8, <2>1, <3>3
      <4>2. Job(t, "pop")
        BY <3>1, <3>3, <4>1 DEF Job
      <4>. QED  BY <1>8, <2>1, <3>1, <4>1, <4>2, PointsBefore
    <3>4. PushesBack(t, k)
      BY <1>3, <1>8, <2>1, <3>2, <3>3 DEF PushesBack
    <3>. QED  BY <1>2, <1>8, <3>1, <3>4 DEF Holds
  <2>2. CASE EndJob(t) /\ jobs[t] # <<>> /\ (point[t] = "unlock" \/ ~Job(t, "pop"))
    <3>1. /\ jobs' = [jobs EXCEPT ![t] = Tail(@)] /\ point'[t] = "idle"
          /\ jobs \in [USER -> Seq(PoolCall)]
      BY <2>2 DEF EndJob, PoolTypeInv
    <3>2. k \in Nat /\ k >= 1 /\ k + 1 \in DOMAIN jobs[t] /\ jobs'[t][k] = jobs[t][k + 1]
      BY <1>1, <1>8, <2>2, <3>1, CallsShift
    <3>3. PICK m \in DOMAIN jobs[t] : m = k + 1
      BY <3>2
    <3>4. jobs[t][m][1] = "push_back" /\ m # 1
      BY <1>3, <1>8, <3>2, <3>3
    <3>5. ASSUME NEW i \in 1 .. m - 1, jobs[t][i][1] = "pop"
          PROVE  i = 1 /\ point[t] \in {"empty", "clear", "unlock"}
      <4>1. CASE i = 1
        <5>1. Job(t, "pop")
          BY <1>4, <1>8, <2>2, <3>5, <4>1 DEF Job
        <5>. QED  BY <2>2, <4>1, <5>1
      <4>2. CASE i # 1
        <5>1. i - 1 \in 1 .. k - 1 /\ i - 1 \in Nat /\ i - 1 >= 1 /\ (i - 1) + 1 = i
          BY <3>2, <3>3, <4>2
        <5>2. i \in DOMAIN jobs[t]
          <6>1. DOMAIN jobs[t] = 1 .. Len(jobs[t]) /\ Len(jobs[t]) \in Nat
            BY <1>4, <1>8
          <6>. QED  BY <3>2, <3>3, <6>1
        <5>3. i - 1 \in DOMAIN jobs'[t]
          BY <2>2, <3>1, <5>1, <5>2, CallsShift
        <5>4. jobs'[t][i - 1] = jobs[t][i]
          BY <2>2, <3>1, <5>1, <5>3, CallsShift
        <5>. QED  BY <1>3, <1>8, <3>1, <3>5, <5>1, <5>4
      <4>. QED  BY <4>1, <4>2
    <3>6. PushesBack(t, m)
      BY <3>4, <3>5 DEF PushesBack
    <3>. QED  BY <1>2, <1>8, <3>6 DEF Holds
  <2>. QED  BY <1>8, <2>1, <2>2, CallsMove
<1>. QED  BY <1>5, <1>6, <1>7, <1>8, GotMoves

(* What a step does to the units of the queue.                             *)
LEMMA UnitsMove ==
    ASSUME PoolTypeInv, MutexInv, KindInv, RingInv, JobInv, MarkInv, NEW t \in USER, PoolStepOf(t),
           PushLink(t) => PushedUnit(t) \in WORK \ Range(Queue)
    PROVE  \/ Range(Queue)' = Range(Queue) /\ \A s \in USER : \A u \in WORK :
                                                 u \in Range(got'[s]) <=> u \in Range(got[s])
           \/ PushLink(t) /\ Range(Queue)' = Range(Queue) \cup {PushedUnit(t)} /\ got' = got
           \/ \E k \in 1 .. num_threads :
                 /\ Unlink(t, Queue[k])
                 /\ Queue[k] \in Range(Queue) /\ Range(Queue)' = Range(Queue) \ {Queue[k]}
                 /\ \A s \in USER : \A u \in WORK :
                       u \in Range(got'[s]) <=> u \in Range(got[s]) \/ (s = t /\ u = Queue[k])
<1>1. got \in [USER -> Seq(WORK \cup {NIL})]
  BY DEF JobInv
<1>2. ASSUME NEW x \in WORK \cup {NIL}, Got(t, x)
      PROVE  \A s \in USER : \A u \in WORK :
                u \in Range(got'[s]) <=> u \in Range(got[s]) \/ (s = t /\ u = x)
  <2>1. Range(Append(got[t], x)) = Range(got[t]) \cup {x}
    BY <1>1, RangeAppended
  <2>2. \A s \in USER : got'[s] = IF s = t THEN Append(got[t], x) ELSE got[s]
    BY <1>1, <1>2 DEF Got
  <2>. QED  BY <2>1, <2>2
<1>3. CASE PushLink(t)
  BY <1>3, Links DEF PushLink
<1>4. CASE ~PushLink(t) /\ \E k \in 1 .. num_threads : Unlink(t, Queue[k])
  <2>1. PICK k \in 1 .. num_threads : Unlink(t, Queue[k])
    BY <1>4
  <2>2. Queue[k] \in WORK /\ Got(t, Queue[k])
    BY <2>1 DEF RingInv, IsRing, Unlink
  <2>3. Queue[k] \in Range(Queue) /\ Range(Queue)' = Range(Queue) \ {Queue[k]}
    BY <2>1, Unlinks
  <2>. QED  BY <1>2, <2>1, <2>2, <2>3
<1>5. CASE ~PushLink(t) /\ ~(\E k \in 1 .. num_threads : Unlink(t, Queue[k]))
  <2>1. Queue' = Queue
    <3>1. CASE TakenClear(t)
      <4>1. Last(got[t]) \in WORK \ Range(Queue)
        BY <3>1 DEF TakenClear, Reach, MarkInv
      <4>. QED  BY <3>1, <4>1, LinksCleared
    <3>2. CASE ~TakenClear(t)
      <4>1. ~RingStep(t)
        BY <1>5, <3>2, TakesUnit DEF RingStep
      <4>. QED  BY <4>1, RingUnchanged
    <3>. QED  BY <3>1, <3>2
  <2>2. Range(Queue)' = Range(Queue)
    BY <2>1
  <2>3. CASE Got(t, NIL)
    BY <1>2, <2>2, <2>3, PoolAssumption
  <2>4. CASE got' = got
    BY <2>2, <2>4
  <2>. QED  BY <1>5, <2>3, <2>4, GotMoves
<1>. QED  BY <1>3, <1>4, <1>5

(* What is pushed is new, or what its user got last.                       *)
LEMMA PushedIsOwned ==
    ASSUME PoolTypeInv, KindInv, JobInv, NEW t \in USER, point[t] = "link"
    PROVE  /\ PushedUnit(t) \in WORK
           /\ \/ /\ Job(t, "push") /\ IsNew(t, PushedUnit(t))
                 /\ Len(Pushed(t)) - left[t] + 1 \in DOMAIN jobs[t][1][2]
                 /\ PushedUnit(t) = jobs[t][1][2][Len(Pushed(t)) - left[t] + 1]
              \/ /\ Job(t, "push_back") /\ Holds(t, PushedUnit(t))
                 /\ PushedUnit(t) = Last(got[t]) /\ got[t] # <<>>
<1>1. jobs[t] # <<>> /\ (Job(t, "push") \/ Job(t, "push_back"))
  BY DEF KindInv, Kind, JobInv, JobOK, Job
<1>2. CASE Job(t, "push")
  <2>1. /\ Pushed(t) = jobs[t][1][2] /\ Pushed(t) \in Seq(WORK)
        /\ 1 \in DOMAIN jobs[t] /\ jobs[t][1] = Head(jobs[t])
    BY <1>2, PushesUnits
  <2>2. PICK n \in Nat : n = Len(Pushed(t)) /\ DOMAIN Pushed(t) = 1 .. n
    BY <2>1
  <2>3. left[t] \in 1 .. n
    BY <2>2 DEF KindInv, Kind
  <2>4. PICK i \in 1 .. n : i = n - left[t] + 1 /\ i > n - left[t]
    BY <2>3
  <2>5. PushedUnit(t) = Pushed(t)[i] /\ Pushed(t)[i] \in WORK /\ i \in DOMAIN jobs[t][1][2]
    BY <2>1, <2>2, <2>4 DEF PushedUnit
  <2>6. Linked(t) = n - left[t]
    BY <2>2 DEF Linked, Ahead, Lead
  <2>7. jobs[t][1][1] = "push"
    BY <1>2, <2>1 DEF Job
  <2>8. IsNew(t, PushedUnit(t))
    BY <2>1, <2>4, <2>5, <2>6, <2>7 DEF IsNew
  <2>. QED  BY <1>2, <2>1, <2>2, <2>4, <2>5, <2>8
<1>3. CASE Job(t, "push_back")
  <2>1. got[t] # <<>> /\ Last(got[t]) \in WORK /\ PushedUnit(t) = Last(got[t])
    BY <1>3, PushesOneBack
  <2>2. 1 \in DOMAIN jobs[t] /\ jobs[t][1][1] = "push_back"
    <3>1. jobs[t] \in Seq(PoolCall) /\ Head(jobs[t])[1] = "push_back"
      BY <1>3 DEF PoolTypeInv, Job
    <3>. QED  BY <1>1, <3>1
  <2>3. PushesBack(t, 1)
    BY <2>2 DEF PushesBack
  <2>. QED  BY <1>3, <2>1, <2>2, <2>3 DEF Holds
<1>. QED  BY <1>1, <1>2, <1>3

LEMMA PushedIsFree ==
    ASSUME PoolTypeInv, KindInv, JobInv, OwnerInv, NEW t \in USER, PushLink(t)
    PROVE  PushedUnit(t) \in WORK \ Range(Queue)
<1>1. point[t] = "link"
  BY DEF PushLink, Reach
<1>.  QED  BY <1>1, PushedIsOwned DEF OwnerInv

(* Nobody owns what was pushed.                                            *)
LEMMA PushedIsNotNew ==
    ASSUME PoolTypeInv, MutexInv, KindInv, JobInv, OwnerInv, NEW t \in USER, PushLink(t),
           NEW s \in USER, NEW u \in WORK, u = PushedUnit(t), IsNew(s, u)'
    PROVE  FALSE
<1>1. PoolStepOf(t) /\ point[t] = "link" /\ jobs' = jobs
  BY DEF PoolStepOf, PoolStep, PushLink, Reach
<1>2. PICK k \in DOMAIN jobs[s] :
         /\ jobs[s][k][1] = "push"
         /\ \E i \in DOMAIN jobs[s][k][2] : u = jobs[s][k][2][i] /\ (k = 1 => i > Linked(s)')
  BY <1>1 DEF IsNew
<1>3. PICK i \in DOMAIN jobs[s][k][2] : u = jobs[s][k][2][i] /\ (k = 1 => i > Linked(s)')
  BY <1>2
<1>4. CASE Job(t, "push") /\ Len(Pushed(t)) - left[t] + 1 \in DOMAIN jobs[t][1][2]
            /\ u = jobs[t][1][2][Len(Pushed(t)) - left[t] + 1]
  <2>1. 1 \in DOMAIN jobs[t] /\ jobs[t][1][1] = "push"
    BY <1>4, PushesUnits DEF Job
  <2>2. PICK a \in DOMAIN jobs[t][1][2] : a = Len(Pushed(t)) - left[t] + 1 /\ u = jobs[t][1][2][a]
    BY <1>4
  <2>3. s = t /\ k = 1 /\ i = a
    <3>1. PushedOnce(jobs)
      BY DEF JobInv, LegalPoolUse
    <3>2. \A b \in DOMAIN jobs[s][k][2] : \A c \in DOMAIN jobs[t][1][2] :
             jobs[s][k][2][b] = jobs[t][1][2][c] => s = t /\ k = 1 /\ b = c
      BY <1>2, <2>1, <3>1 DEF PushedOnce
    <3>3. jobs[s][k][2][i] = jobs[t][1][2][a]
      BY <1>3, <2>2
    <3>. QED  BY <3>2, <3>3, Zenon
  <2>4. Linked(t)' = a /\ a \in Nat
    BY <1>1, <1>4, <2>2, LinkedGrows
  <2>. QED  BY <1>3, <2>3, <2>4
<1>5. CASE u = Last(got[t]) /\ got[t] # <<>>
  <2>1. IsNew(s, u)
    BY <1>1, NewBefore
  <2>2. got[t] \in Seq(WORK \cup {NIL})
    BY DEF JobInv
  <2>3. u \in Range(got[t])
    BY <1>5, <2>2, LastInRange
  <2>. QED  BY <2>1, <2>3 DEF OwnerInv
<1>. QED  BY <1>1, <1>4, <1>5, PushedIsOwned

LEMMA PushedIsNotHeld ==
    ASSUME PoolTypeInv, MutexInv, KindInv, RingInv, JobInv, MarkInv, OwnerInv,
           NEW t \in USER, PushLink(t),
           NEW s \in USER, NEW u \in WORK, u = PushedUnit(t), Holds(s, u)'
    PROVE  FALSE
<1>1. /\ PoolStepOf(t) /\ point[t] = "link" /\ jobs' = jobs /\ got' = got
      /\ point'[t] \in {"nonempty", "in_pool"}
  BY DEF PoolStepOf, PoolStep, PushLink, Reach, PoolTypeInv
<1>2. got'[s] = got[s]
  BY <1>1
<1>3. Holds(s, u)
  <2>1. ~(\E k \in 1 .. num_threads : Unlink(t, Queue[k]))
    <3>1. \A x : Unlink(t, x) => point'[t] \in {"empty", "clear"}
      BY DEF Unlink, PoolTypeInv
    <3>. QED  BY <1>1, <3>1
  <2>. QED  BY <1>1, <2>1, HeldBefore
<1>4. got[s] \in Seq(WORK \cup {NIL}) /\ got[s] # <<>> /\ Last(got[s]) = u
  BY <1>3 DEF JobInv, Holds
<1>5. CASE IsNew(t, u)
  <2>1. u \in Range(got[s])
    BY <1>4, LastInRange
  <2>. QED  BY <1>5, <2>1 DEF OwnerInv
<1>6. CASE Job(t, "push_back") /\ Holds(t, u)
  <2>1. s = t
    BY <1>3, <1>6 DEF OwnerInv
  <2>2. PICK k \in DOMAIN jobs'[t] : PushesBack(t, k)'
    BY <2>1 DEF Holds
  <2>3. /\ jobs[t][k][1] = "push_back" /\ k \in DOMAIN jobs[t]
        /\ k # 1
        /\ \A i \in 1 .. k - 1 : jobs[t][i][1] # "pop"
    BY <1>1, <2>2 DEF PushesBack
  <2>4. /\ jobs[t] \in Seq(PoolCall) /\ 1 \in DOMAIN jobs[t] /\ jobs[t][1][1] = "push_back"
        /\ k > 1 /\ k \in Nat
    <3>1. jobs[t] \in Seq(PoolCall) /\ jobs[t] # <<>> /\ Head(jobs[t])[1] = "push_back"
      BY <1>6 DEF PoolTypeInv, Job
    <3>. QED  BY <2>3, <3>1
  <2>5. PICK i \in 1 + 1 .. k - 1 : jobs[t][i][1] = "pop"
    BY <2>3, <2>4 DEF JobInv, LegalPoolUse, PushedBackOnce
  <2>6. i \in 1 .. k - 1
    BY <2>4
  <2>. QED  BY <2>3, <2>5, <2>6
<1>. QED  BY <1>1, <1>5, <1>6, PushedIsOwned

LEMMA OwnersKept ==
    ASSUME PoolTypeInv, MutexInv, KindInv, RingInv, JobInv, MarkInv, OwnerInv,
           NEW t \in USER, PoolStepOf(t)
    PROVE  OwnerInv'
<1>1. \/ Range(Queue)' = Range(Queue) /\ \A s \in USER : \A u \in WORK :
                                                 u \in Range(got'[s]) <=> u \in Range(got[s])
      \/ PushLink(t) /\ Range(Queue)' = Range(Queue) \cup {PushedUnit(t)} /\ got' = got
      \/ \E k \in 1 .. num_threads :
            /\ Unlink(t, Queue[k])
            /\ Queue[k] \in Range(Queue) /\ Range(Queue)' = Range(Queue) \ {Queue[k]}
            /\ \A s \in USER : \A u \in WORK :
                  u \in Range(got'[s]) <=> u \in Range(got[s]) \/ (s = t /\ u = Queue[k])
  BY PushedIsFree, UnitsMove
<1>2. ASSUME NEW s \in USER, NEW u \in WORK, IsNew(s, u)'
      PROVE  u \notin Range(Queue)' /\ \A x \in USER : u \notin Range(got'[x])
  <2>1. IsNew(s, u)
    BY <1>2, NewBefore
  <2>2. u \notin Range(Queue) /\ \A x \in USER : u \notin Range(got[x])
    BY <2>1 DEF OwnerInv
  <2>3. PushLink(t) => u # PushedUnit(t)
    BY <1>2, PushedIsNotNew
  <2>. QED  BY <1>1, <2>2, <2>3
<1>3. ASSUME NEW s \in USER, NEW u \in WORK, Holds(s, u)'
      PROVE  u \notin Range(Queue)' /\ \A x \in USER : Holds(x, u)' => x = s
  <2>1. \A x \in USER : Holds(x, u)' => Holds(x, u) \/
           (x = t /\ \E k \in 1 .. num_threads : Unlink(t, Queue[k]) /\ u = Queue[k])
    BY HeldBefore
  <2>2. CASE \E k \in 1 .. num_threads : Unlink(t, Queue[k]) /\ u = Queue[k]
    <3>1. PICK k \in 1 .. num_threads : Unlink(t, Queue[k]) /\ u = Queue[k]
      BY <2>2
    <3>2. u \in Range(Queue) /\ u \notin Range(Queue)'
      BY <3>1, Unlinks
    <3>3. \A x \in USER : ~Holds(x, u)
      BY <3>2 DEF OwnerInv
    <3>. QED  BY <1>3, <2>1, <3>2, <3>3
  <2>3. CASE ~(\E k \in 1 .. num_threads : Unlink(t, Queue[k]) /\ u = Queue[k])
    <3>1. \A x \in USER : Holds(x, u)' => Holds(x, u)
      BY <2>1, <2>3
    <3>2. Holds(s, u)
      BY <1>3, <3>1
    <3>3. u \notin Range(Queue) /\ \A x \in USER : Holds(x, u) => x = s
      BY <3>2 DEF OwnerInv
    <3>4. PushLink(t) => u # PushedUnit(t)
      BY <1>3, PushedIsNotHeld
    <3>. QED  BY <1>1, <3>1, <3>3, <3>4
  <2>. QED  BY <2>2, <2>3
<1>4. \A s \in USER : \A u \in WORK :
        /\ IsNew(s, u)' => u \notin Range(Queue)' /\ \A x \in USER : u \notin Range(got'[x])
        /\ Holds(s, u)' => u \notin Range(Queue)' /\ \A x \in USER : Holds(x, u)' => x = s
  BY <1>2, <1>3
<1>. QED  BY <1>4 DEF OwnerInv

LEMMA UnitsInitially == PoolInit => UnitsInv
<1>. SUFFICES ASSUME PoolInit PROVE UnitsInv
  OBVIOUS
<1>. USE DEF PoolInit
<1>1. Queue = <<>>
  <2>1. IsRing(<<>>, 0, p_head, p_tail, p_next, p_prev)
    <3>1. <<>> \in Seq(WORK) /\ Len(<<>>) = 0 /\ IsInjective(<<>>)
      BY DEF IsInjective
    <3>. QED  BY <3>1 DEF IsRing
  <2>2. Walk(0, p_head, p_next) = <<>>
    BY <2>1, WalkOfRing
  <2>. QED  BY <2>2 DEF Queue
<1>2. Range(Queue) = {}
  BY <1>1 DEF Range
<1>3. RingInv
  <2>1. <<>> \in Seq(WORK) /\ Len(<<>>) = 0 /\ IsInjective(<<>>)
    BY DEF IsInjective
  <2>. QED  BY <1>1, <2>1 DEF RingInv, IsRing
<1>4. JobInv
  <2>1. LegalPoolUse(jobs)
    BY PoolAssumption
  <2>. QED  BY <2>1 DEF JobInv
<1>5. MarkInv
  BY <1>2 DEF MarkInv, Linking, Unlinking
<1>6. OwnerInv
  <2>1. \A s \in USER : Range(got[s]) = {} /\ \A u : ~Holds(s, u)
    BY DEF Range, Holds
  <2>. QED  BY <1>2, <2>1 DEF OwnerInv
<1>. QED  BY <1>3, <1>4, <1>5, <1>6 DEF UnitsInv

LEMMA UnitsInductive ==
    ASSUME PoolInv, PoolInv', UnitsInv, [PoolNext]_builtinVars
    PROVE  UnitsInv'
<1>. USE DEF PoolInv, UnitsInv
<1>1. ASSUME NEW t \in USER, PoolStepOf(t) PROVE UnitsInv'
  <2>1. PushLink(t) => PushedUnit(t) \in WORK \ Range(Queue)
    BY PushedIsFree
  <2>2. RingInv'
    <3>1. CASE PushLink(t)
      BY <2>1, <3>1, Links
    <3>2. CASE PopUnit(t) \/ RemoveUnit(t)
      <4>1. \E k \in 1 .. num_threads : Unlink(t, Queue[k])
        BY <3>2, TakesUnit
      <4>. QED  BY <4>1, Unlinks
    <3>3. CASE TakenClear(t)
      <4>1. Last(got[t]) \in WORK \ Range(Queue)
        BY <3>3 DEF TakenClear, Reach, MarkInv
      <4>. QED  BY <3>3, <4>1, LinksCleared
    <3>4. CASE ~RingStep(t)
      BY <1>1, <3>4, RingUnchanged
    <3>. QED  BY <3>1, <3>2, <3>3, <3>4 DEF RingStep
  <2>3. JobInv'
    BY <1>1, CallsKept
  <2>4. MarkInv'
    BY <1>1, <2>1, MarksKeptByHolder, MarksKeptElsewhere
  <2>5. OwnerInv'
    BY <1>1, OwnersKept
  <2>. QED  BY <2>2, <2>3, <2>4, <2>5
<1>2. CASE UNCHANGED builtinVars
  <2>. USE <1>2 DEF builtinVars, queueVars, userVars
  <2>1. Queue' = Queue /\ num_threads' = num_threads
    BY DEF Queue
  <2>2. RingInv' /\ JobInv'
    BY <2>1 DEF RingInv, JobInv
  <2>3. \A t \in USER : PushedUnit(t)' = PushedUnit(t) /\ Pushed(t)' = Pushed(t)
    BY PushedSame
  <2>4. MarkInv'
    BY <2>1, <2>3 DEF MarkInv, Linking, Unlinking
  <2>5. \A t \in USER : \A u \in WORK : /\ IsNew(t, u)' <=> IsNew(t, u)
                                        /\ Holds(t, u)' <=> Holds(t, u)
    BY <2>3 DEF IsNew, Holds, PushesBack, Linked, Ahead
  <2>6. OwnerInv'
    BY <2>1, <2>5 DEF OwnerInv
  <2>. QED  BY <2>2, <2>4, <2>6
<1>. QED  BY <1>1, <1>2 DEF PoolNext, PoolStepOf

(* The links of a pool are a ring of the units that are in it and of no    *)
(* others, and nobody else is about to push one of these.                  *)
LEMMA UnitsInvariance == PoolSpec => []UnitsInv
<1>1. PoolInit => UnitsInv
  BY UnitsInitially
<1>2. PoolInv /\ PoolInv' /\ UnitsInv /\ [PoolNext]_builtinVars => UnitsInv'
  BY UnitsInductive
<1>. QED  BY <1>1, <1>2, PoolInvariance, PTL DEF PoolSpec

-----------------------------------------------------------------------------
(* A pool with its ring is an abstract pool.                               *)

LEMMA PoolKindSame ==
    ASSUME NEW t \in USER, PoolStepOf(t)
    PROVE  pool_kind' = pool_kind
<1>1. CASE PushNothing(t) \/ PushLock(t) \/ PushLink(t) \/ PushNonempty(t) \/ PushInPool(t)
           \/ UnlockPool(t)
  BY <1>1 DEF PushNothing, PushLock, PushLink, PushNonempty, PushInPool, UnlockPool
<1>2. CASE SignalPool(t)
  BY <1>2 DEF SignalPool, Awake
<1>3. CASE PopSteps(t)
  BY <1>3 DEF PopBegin, PopEmpty, FindsEmpty, PopTest, PopLock, PopBusy, PopRetry, PopPrivate
<1>4. CASE TakeSteps(t)
  BY <1>4 DEF PopUnit, PopNothing, TakenEmpty, TakenClear, RemoveUnit, Unlink
<1>5. CASE WaitSteps(t)
  BY <1>5 DEF WaitElapsed, WaitLock, WaitNonempty, WaitSleep, WaitRefused, WaitRelock, PoolClock,
              WaitOver
<1>6. CASE RemoveSteps(t)
  BY <1>6 DEF RemoveBegin, RemoveChecked, RemoveRefused, RemoveLock, RemoveFails
<1>. QED
  BY <1>1, <1>2, <1>3, <1>4, <1>5, <1>6 DEF PoolStepOf, PoolStep, PoolTime

Removing == {"checked", "lock", "remove"}

RemoveStep(t) ==
    RemoveBegin(t) \/ RemoveChecked(t) \/ RemoveRefused(t) \/ RemoveLock(t) \/ RemoveUnit(t)
        \/ RemoveFails(t)

(* A step changes what its user asks for, if anything.                     *)
LEMMA AskedElsewhere ==
    ASSUME PoolTypeInv, MutexInv, NEW t \in USER, PoolStepOf(t), NEW s \in USER, s # t
    PROVE  Asked'[s] = Asked[s]
<1>1. /\ jobs'[s] = jobs[s]
      /\ point'[s] = point[s] \/ (point[s] = "asleep" /\ point'[s] = "relock")
  BY PoolFrame
<1>. QED  BY <1>1 DEF Asked, Units

LEMMA AskedSame ==
    ASSUME PoolTypeInv, MutexInv, NEW t \in USER, PoolStepOf(t), ~RemoveStep(t)
    PROVE  Asked' = Asked
<1>. USE DEF PoolTypeInv, Removing
<1>1. \/ point[t] \notin Removing /\ point'[t] \notin Removing
      \/ point' = point /\ jobs' = jobs
  <2>1. CASE PushNothing(t) \/ PushLock(t) \/ PushLink(t) \/ PushNonempty(t) \/ PushInPool(t)
             \/ UnlockPool(t)
    BY <2>1 DEF PushNothing, PushLock, PushLink, PushNonempty, PushInPool, UnlockPool, BeginJob,
                EndJob, Reach
  <2>2. CASE SignalPool(t)
    BY <2>2 DEF SignalPool, Awake
  <2>3. CASE PopBegin(t) \/ PopTest(t) \/ PopLock(t) \/ PopBusy(t) \/ PopRetry(t) \/ PopPrivate(t)
    BY <2>3 DEF PopBegin, PopTest, PopLock, PopBusy, PopRetry, PopPrivate, BeginJob, Reach
  <2>4. CASE PopEmpty(t)
    BY <2>4 DEF PopEmpty, FindsEmpty, EndJob
  <2>5. CASE PopUnit(t) \/ PopNothing(t) \/ TakenEmpty(t) \/ TakenClear(t)
    BY <2>5 DEF PopUnit, PopNothing, TakenEmpty, TakenClear, Unlink, Reach
  <2>6. CASE WaitElapsed(t) \/ WaitLock(t) \/ WaitNonempty(t) \/ WaitSleep(t) \/ WaitRefused(t)
             \/ WaitRelock(t) \/ WaitOver(t)
    BY <2>6 DEF WaitElapsed, WaitLock, WaitNonempty, WaitSleep, WaitRefused, WaitRelock, WaitOver,
                BeginJob, EndJob, Reach
  <2>7. CASE PoolClock(t)
    BY <2>7 DEF PoolClock
  <2>. QED
    BY <2>1, <2>2, <2>3, <2>4, <2>5, <2>6, <2>7 DEF RemoveStep, PoolStepOf, PoolStep, PoolTime
<1>2. Asked'[t] = Asked[t]
  BY <1>1 DEF Asked, Units
<1>3. \A s \in USER : Asked'[s] = Asked[s]
  BY <1>2, AskedElsewhere
<1>. QED  BY <1>3 DEF Asked

(* What a remove asks for is a unit; all others ask for nothing.           *)
LEMMA AskedUnits ==
    ASSUME PoolTypeInv, KindInv, JobInv
    PROVE  \A t \in USER : /\ Asked[t] \in WORK \cup {NIL}
                           /\ point[t] \notin Removing => Asked[t] = NIL
                           /\ point[t] \in Removing => Asked[t] = Units(t)[1]
<1>. SUFFICES ASSUME NEW t \in USER
              PROVE  /\ Asked[t] \in WORK \cup {NIL}
                     /\ point[t] \notin Removing => Asked[t] = NIL
                     /\ point[t] \in Removing => Asked[t] = Units(t)[1]
  OBVIOUS
<1>1. CASE point[t] \in Removing
  <2>1. jobs[t] # <<>> /\ Head(jobs[t])[1] = "remove"
    BY <1>1 DEF KindInv, Kind, JobInv, JobOK, Removing
  <2>. QED  BY <1>1, <2>1, RemovesUnit DEF Asked, Removing
<1>2. CASE point[t] \notin Removing
  BY <1>2 DEF Asked, Removing
<1>. QED  BY <1>1, <1>2

LEMMA AskedTyped == PoolTypeInv /\ KindInv /\ JobInv => Asked \in [USER -> WORK \cup {NIL}]
<1>. SUFFICES ASSUME PoolTypeInv, KindInv, JobInv PROVE Asked \in [USER -> WORK \cup {NIL}]
  OBVIOUS
<1>1. \A t \in USER : Asked[t] \in WORK \cup {NIL}
  BY AskedUnits
<1>. QED  BY <1>1 DEF Asked

LEMMA ContentsSame ==
    ASSUME PoolTypeInv, MutexInv, RingInv, MarkInv, NEW t \in USER, PoolStepOf(t),
           ~QueueStep(t)
    PROVE  Contents' = Contents
<1>1. is_empty' = is_empty
  BY QueueSteps
<1>2. Queue' = Queue
  <2>1. CASE TakenClear(t)
    <3>1. Last(got[t]) \in WORK \ Range(Queue)
      BY <2>1 DEF TakenClear, Reach, MarkInv
    <3>. QED  BY <2>1, <3>1, LinksCleared
  <2>2. CASE ~TakenClear(t)
    BY <2>2, RingUnchanged DEF RingStep, QueueStep
  <2>. QED  BY <2>1, <2>2
<1>. QED  BY <1>1, <1>2 DEF Contents

LEMMA PoolStepRefines ==
    ASSUME PoolInv, UnitsInv, PoolInv', UnitsInv', NEW t \in USER, PoolStepOf(t)
    PROVE  AbstractP!Next \/ UNCHANGED AbstractP!poolVars
<1>. USE DEF PoolInv, UnitsInv
<1>1. pool_kind' = pool_kind /\ (pool_kind # "randws")' = (pool_kind # "randws")
  BY PoolKindSame
<1>2. num_threads \in Nat /\ is_empty \in BOOLEAN /\ Queue \in Seq(WORK) /\ Len(Queue) = num_threads
  BY DEF PoolTypeInv, RingInv, IsRing
<1>3. NIL \notin WORK
  BY PoolAssumption
<1>4. CASE PushLink(t)
  <2>1. /\ point[t] = "link" /\ is_empty' = is_empty /\ got' = got
        /\ PushedUnit(t) \in WORK \ Range(Queue)
    BY <1>4, PushedIsFree DEF PushLink, Reach
  <2>2. is_empty <=> num_threads = 0
    BY <2>1 DEF EmptyInv, PoolHolder
  <2>3. Asked' = Asked
    BY <1>4, AskedSame DEF RemoveStep, PushLink, RemoveBegin, RemoveChecked, RemoveRefused,
                           RemoveLock, RemoveUnit, RemoveFails, BeginJob, Reach
  <2>4. CASE is_empty
    <3>1. Contents' = Contents
      BY <2>1, <2>4 DEF Contents
    <3>. QED  BY <1>1, <2>1, <2>3, <3>1 DEF AbstractP!poolVars
  <2>5. CASE ~is_empty
    <3>1. Contents = Queue /\ Contents' = Queue'
      BY <2>1, <2>5 DEF Contents
    <3>2. \/ Queue' = Append(Queue, PushedUnit(t))
          \/ pool_kind = "randws" /\ Queue' = <<PushedUnit(t)>> \o Queue
      BY <1>4, <2>1, Links
    <3>3. ~AbstractP!Contains(Queue, PushedUnit(t))
      BY <1>2, <2>1 DEF AbstractP!Contains, Range
    <3>4. AbstractP!Push(PushedUnit(t))
      BY <1>1, <2>1, <2>3, <3>1, <3>2, <3>3 DEF AbstractP!Push
    <3>. QED  BY <2>1, <3>4 DEF AbstractP!Next
  <2>. QED  BY <2>4, <2>5
<1>5. CASE PushNonempty(t)
  <2>1. /\ point[t] = "nonempty" /\ is_empty' = FALSE /\ got' = got
        /\ ~RingStep(t)
    BY <1>5 DEF PushNonempty, Reach, RingStep, PushLink, PopUnit, TakenClear, RemoveUnit
  <2>2. Queue' = Queue /\ num_threads = 1 /\ PushedUnit(t) \in Range(Queue)
    BY <2>1, RingUnchanged DEF MarkInv
  <2>3. Asked' = Asked
    BY <1>5, AskedSame DEF RemoveStep, PushNonempty, RemoveBegin, RemoveChecked, RemoveRefused,
                           RemoveLock, RemoveUnit, RemoveFails, BeginJob, Reach
  <2>4. CASE is_empty
    <3>1. Contents = <<>> /\ Contents' = Queue
      BY <2>1, <2>2, <2>4 DEF Contents
    <3>2. PushedUnit(t) = Queue[1] /\ PushedUnit(t) \in WORK
      BY <1>2, <2>2 DEF Range
    <3>3. Queue = Append(<<>>, PushedUnit(t))
      BY <1>2, <2>2, <3>2
    <3>4. ~AbstractP!Contains(<<>>, PushedUnit(t))
      BY DEF AbstractP!Contains
    <3>5. AbstractP!Push(PushedUnit(t))
      BY <1>1, <2>1, <2>3, <3>1, <3>3, <3>4 DEF AbstractP!Push
    <3>. QED  BY <3>2, <3>5 DEF AbstractP!Next
  <2>5. CASE ~is_empty
    <3>1. Contents' = Contents
      BY <2>1, <2>2, <2>5 DEF Contents
    <3>. QED  BY <1>1, <2>1, <2>3, <3>1 DEF AbstractP!poolVars
  <2>. QED  BY <2>4, <2>5
<1>6. CASE TakenEmpty(t)
  <2>1. /\ point[t] = "empty" /\ is_empty' = TRUE /\ got' = got /\ ~RingStep(t)
    BY <1>6 DEF TakenEmpty, Reach, RingStep, PushLink, PopUnit, TakenClear, RemoveUnit
  <2>2. num_threads = 0
    BY <2>1 DEF EmptyInv
  <2>3. Queue = <<>>
    BY <1>2, <2>2
  <2>4. Contents' = Contents
    BY <2>1, <2>3 DEF Contents
  <2>5. Asked' = Asked
    BY <1>6, AskedSame DEF RemoveStep, TakenEmpty, RemoveBegin, RemoveChecked, RemoveRefused,
                           RemoveLock, RemoveUnit, RemoveFails, BeginJob, Reach
  <2>. QED  BY <1>1, <2>1, <2>4, <2>5 DEF AbstractP!poolVars
<1>7. CASE PopUnit(t) \/ RemoveUnit(t)
  <2>1. PICK k \in 1 .. num_threads :
           /\ Unlink(t, Queue[k])
           /\ PopUnit(t) => k = 1 \/ (pool_kind = "randws" /\ k = num_threads)
    BY <1>7, TakesUnit
  <2>2. /\ point[t] \in {"pop", "remove"} /\ num_threads > 0 /\ is_empty' = is_empty
        /\ got' = [got EXCEPT ![t] = Append(@, Queue[k])]
        /\ point'[t] \in {"empty", "clear"}
    BY <1>7, <2>1 DEF PopUnit, RemoveUnit, Unlink, Got, PoolTypeInv
  <2>3. ~is_empty
    BY <2>2 DEF EmptyInv, PoolHolder
  <2>4. Contents = Queue /\ Contents' = RemoveAt(Queue, k)
    BY <2>1, <2>2, <2>3, Unlinks DEF Contents
  <2>5. Queue # <<>> /\ k \in DOMAIN Queue
    BY <1>2, <2>2
  <2>6. CASE PopUnit(t)
    <3>1. Asked' = Asked /\ point[t] = "pop"
      BY <2>6, AskedSame DEF RemoveStep, PopUnit, RemoveBegin, RemoveChecked, RemoveRefused,
                             RemoveLock, RemoveUnit, RemoveFails, BeginJob, Reach
    <3>2. Asked[t] = NIL
      BY <3>1, AskedUnits DEF Removing
    <3>3. CASE k = 1
      <4>1. Contents' = Tail(Queue) /\ Queue[k] = Head(Queue)
        BY <1>2, <2>4, <2>5, <3>3, EndsRemoved
      <4>2. AbstractP!PopHead(t)
        BY <1>1, <2>2, <2>4, <2>5, <3>1, <3>2, <4>1
           DEF AbstractP!PopHead, AbstractP!Pop, AbstractP!Take
      <4>. QED  BY <4>2 DEF AbstractP!Next
    <3>4. CASE pool_kind = "randws" /\ k = num_threads
      <4>1. Contents' = AbstractP!Front(Queue) /\ Queue[k] = AbstractP!Last(Queue)
        BY <1>2, <2>4, <2>5, <3>4, EndsRemoved DEF AbstractP!Last, AbstractP!Front, Front
      <4>2. AbstractP!PopTail(t)
        BY <1>1, <2>2, <2>4, <2>5, <3>1, <3>2, <3>4, <4>1
           DEF AbstractP!PopTail, AbstractP!Pop, AbstractP!Take
      <4>. QED  BY <4>2 DEF AbstractP!Next
    <3>. QED  BY <2>1, <2>6, <3>3, <3>4
  <2>7. CASE RemoveUnit(t) /\ ~PopUnit(t)
    <3>1. point[t] = "remove" /\ Unlink(t, Units(t)[1]) /\ Asked[t] = Units(t)[1]
      BY <2>7, AskedUnits DEF RemoveUnit, Removing
    <3>2. Units(t)[1] = Queue[k]
      <4>1. got[t] \in Seq(WORK \cup {NIL}) /\ Units(t)[1] \in WORK \cup {NIL}
        BY <3>1, AskedUnits DEF JobInv
      <4>2. Queue[k] \in WORK \cup {NIL}
        BY <1>2, <2>5
      <4>3. got'[t] = Append(got[t], Units(t)[1]) /\ got'[t] = Append(got[t], Queue[k])
        BY <2>1, <3>1 DEF Unlink, Got, JobInv
      <4>4. Last(Append(got[t], Units(t)[1])) = Units(t)[1]
        BY <4>1, LastAppended
      <4>5. Last(Append(got[t], Queue[k])) = Queue[k]
        BY <4>1, <4>2, LastAppended
      <4>. QED  BY <4>3, <4>4, <4>5
    <3>3. Asked'[t] = NIL
      BY <2>2, AskedUnits DEF Asked
    <3>4. Asked' = [Asked EXCEPT ![t] = NIL]
      <4>1. \A s \in USER : s # t => Asked'[s] = Asked[s]
        BY AskedElsewhere
      <4>. QED  BY <3>3, <4>1 DEF Asked
    <3>5. Contents' = AbstractP!RemoveAt(Queue, k)
      BY <2>4 DEF AbstractP!RemoveAt, RemoveAt
    <3>6. AbstractP!RemoveUnit(t, k)
      BY <1>1, <2>2, <2>4, <3>1, <3>2, <3>4, <3>5 DEF AbstractP!RemoveUnit, AbstractP!Take
    <3>. QED  BY <2>4, <2>5, <3>6 DEF AbstractP!Next
  <2>. QED  BY <1>7, <2>6, <2>7
<1>8. CASE (PopEmpty(t) \/ PopNothing(t)) /\ Got(t, NIL) /\ ~QueueStep(t)
  <2>1. is_empty
    <3>1. PopNothing(t) => point[t] = "pop" /\ num_threads = 0
      BY DEF PopNothing, Reach
    <3>. QED  BY <1>8, <3>1 DEF PopEmpty, FindsEmpty, EmptyInv, PoolHolder
  <2>2. Contents = <<>> /\ Contents' = <<>>
    BY <1>8, <2>1, ContentsSame DEF Contents
  <2>3. point[t] \notin Removing
    BY <1>8 DEF PopEmpty, PopNothing, Reach, Removing
  <2>4. Asked[t] = NIL
    BY <2>3, AskedUnits
  <2>5. Asked' = Asked
    BY <1>8, <2>3, AskedSame
       DEF RemoveStep, RemoveBegin, RemoveChecked, RemoveRefused, RemoveLock, RemoveUnit,
           RemoveFails, PopEmpty, PopNothing, BeginJob, Reach, Removing
  <2>6. AbstractP!PopNone(t)
    BY <1>1, <1>8, <2>2, <2>4, <2>5 DEF AbstractP!PopNone, AbstractP!Pop, AbstractP!Take, Got
  <2>. QED  BY <2>6 DEF AbstractP!Next
<1>9. CASE got' = got /\ ~QueueStep(t)
  <2>1. Contents' = Contents
    BY <1>9, ContentsSame
  <2>2. CASE Asked' = Asked
    BY <1>1, <1>9, <2>1, <2>2 DEF AbstractP!poolVars
  <2>3. CASE Asked' # Asked
    <3>1. Asked' = [Asked EXCEPT ![t] = Asked'[t]]
      <4>1. \A s \in USER : s # t => Asked'[s] = Asked[s]
        BY AskedElsewhere
      <4>. QED  BY <4>1 DEF Asked
    <3>2. (PoolTypeInv /\ KindInv /\ JobInv => Asked \in [USER -> WORK \cup {NIL}])'
      BY AskedTyped, PTL
    <3>3. Asked'[t] \in WORK \cup {NIL}
      BY <3>2
    <3>4. AbstractP!Ask(t, Asked'[t])
      BY <1>1, <1>9, <2>1, <3>1 DEF AbstractP!Ask
    <3>. QED  BY <3>3, <3>4 DEF AbstractP!Next
  <2>. QED  BY <2>2, <2>3
<1>10. CASE ~QueueStep(t)
  <2>1. \A k \in 1 .. num_threads : ~Unlink(t, Queue[k])
    <3>1. SUFFICES ASSUME NEW x, Unlink(t, x), num_threads > 0 PROVE FALSE
      BY <1>2
    <3>2. num_threads' = num_threads
      BY <1>10, QueueSteps
    <3>3. num_threads' = num_threads - 1
      BY <3>1 DEF Unlink
    <3>. QED  BY <1>2, <3>2, <3>3
  <2>. QED  BY <1>8, <1>9, <1>10, <2>1, GotMoves
<1>. QED  BY <1>4, <1>5, <1>6, <1>7, <1>10 DEF QueueStep

(* The pools of thread_queue.h keep the promises of AbstractPool, whatever *)
(* their users push, pop and remove, as long as nobody pushes a unit that  *)
(* is in a pool: a pop without a unit found an empty pool, units leave in  *)
(* order, each once, and a remove takes its own unit only.                 *)
THEOREM PoolImplementation == PoolSpec => ImplementsAbstractPool
<1>1. PoolInit => AbstractP!Init
  <2>. SUFFICES ASSUME PoolInit PROVE AbstractP!Init
    OBVIOUS
  <2>1. Contents = <<>>
    BY DEF PoolInit, Contents
  <2>2. Asked = [t \in USER |-> NIL]
    BY DEF PoolInit, Asked
  <2>. QED  BY <2>1, <2>2 DEF PoolInit, AbstractP!Init
<1>2. PoolInv /\ PoolInv' /\ UnitsInv /\ UnitsInv' /\ [PoolNext]_builtinVars
        => [AbstractP!Next]_(AbstractP!poolVars)
  <2>. SUFFICES ASSUME PoolInv, PoolInv', UnitsInv, UnitsInv', [PoolNext]_builtinVars
                PROVE  AbstractP!Next \/ UNCHANGED AbstractP!poolVars
    OBVIOUS
  <2>1. CASE PoolNext
    BY <2>1, PoolStepRefines DEF PoolNext, PoolStepOf
  <2>2. CASE UNCHANGED builtinVars
    <3>1. Contents' = Contents /\ Asked' = Asked
      BY <2>2 DEF builtinVars, queueVars, userVars, Contents, Queue, Asked, Units
    <3>. QED  BY <2>2, <3>1 DEF AbstractP!poolVars, builtinVars, queueVars, userVars
  <2>. QED  BY <2>1, <2>2
<1>. QED
  BY <1>1, <1>2, PoolInvariance, UnitsInvariance, PTL
     DEF PoolSpec, ImplementsAbstractPool, AbstractP!Spec

-----------------------------------------------------------------------------
(* Execution streams.  The stages of an ES: where the native thread is, the*)
(* states of the context, of the ES and of the ULT of its scheduler, and   *)
(* whether that ULT is in the root pool.                                   *)

NativePoint == {"none", "start", "run", "events", "stop", "stop_request", "stop_empty",
                "after_run", "root_end", "finish", "asleep", "exited"}

CallerPoint == {"idle", "create", "join_ult", "join_ctx", "join_sleep", "joined", "free",
                "free_ctx", "free_join", "revive_ctx"}

XstreamTypeInv ==
    /\ life \in [STREAM -> {"none", "live", "failed", "freed"}]
    /\ es_state \in [STREAM -> {"RUNNING", "TERMINATED"}]
    /\ ctx_state \in [STREAM -> {"UNINIT", "RUNNING", "REQ_JOIN", "WAITING", "REQ_TERMINATE"}]
    /\ native \in [STREAM -> NativePoint]
    /\ main_sched \in [STREAM -> {"READY", "RUNNING", "TERMINATED"}]
    /\ root_pool \in [STREAM -> BOOLEAN]
    /\ request \in [STREAM -> SUBSET {"CANCEL"}]
    /\ sched_request \in [STREAM -> SUBSET {"FINISH", "EXIT"}]
    /\ units \in [STREAM -> Seq(UNIT)]
    /\ call \in [CALLER -> CallerPoint]
    /\ todo \in [CALLER -> Seq(XstreamCall)]
    /\ owed \in [CALLER -> SUBSET UNIT]
    /\ cancelled \subseteq STREAM

EsAt(x, points, contexts, state_of_es, ult, in_pool) ==
    /\ native[x] \in points
    /\ ctx_state[x] \in contexts
    /\ es_state[x] = state_of_es
    /\ main_sched[x] = ult
    /\ root_pool[x] = in_pool

Absent(x) == EsAt(x, {"none"}, {"UNINIT"}, "RUNNING", "READY", FALSE)
Starting(x) == EsAt(x, {"start"}, {"RUNNING"}, "RUNNING", "READY", TRUE)
RunsUnits(x) == EsAt(x, {"run", "events", "stop", "stop_request", "stop_empty", "after_run"},
                     {"RUNNING"}, "RUNNING", "RUNNING", FALSE)
Stopping(x) == \/ EsAt(x, {"root_end"}, {"RUNNING", "REQ_JOIN"}, "RUNNING", "TERMINATED", FALSE)
               \/ EsAt(x, {"finish"}, {"RUNNING", "REQ_JOIN"}, "TERMINATED", "TERMINATED", FALSE)
AtRest(x) == EsAt(x, {"asleep"}, {"WAITING"}, "TERMINATED", "TERMINATED", FALSE)
Reviving(x) == EsAt(x, {"asleep"}, {"WAITING"}, "RUNNING", "READY", TRUE)
Revived(x) == EsAt(x, {"asleep"}, {"RUNNING"}, "RUNNING", "READY", TRUE)
Ending(x) == EsAt(x, {"asleep", "exited"}, {"REQ_TERMINATE"}, "TERMINATED", "TERMINATED", FALSE)

StageInv ==
    \A x \in STREAM : \/ Absent(x) \/ Starting(x) \/ RunsUnits(x) \/ Stopping(x)
                      \/ AtRest(x) \/ Reviving(x) \/ Revived(x) \/ Ending(x)

(* The call that caller c is in, and what it knows of its ES.              *)
InCall(c, names) == todo[c] # <<>> /\ Head(todo[c])[1] \in names

JoinPoint == {"join_ult", "join_ctx", "join_sleep", "joined"}

CallerOK(c) ==
    /\ call[c] = "create" => InCall(c, {"create"})
    /\ call[c] \in JoinPoint => InCall(c, {"join", "free"})
    /\ call[c] \in {"free", "free_ctx", "free_join"} => InCall(c, {"free"})
    /\ call[c] = "revive_ctx" => InCall(c, {"revive"}) /\ Reviving(Target(c))
    /\ call[c] \in {"join_ctx", "join_sleep"} => main_sched[Target(c)] = "TERMINATED"
    /\ call[c] = "join_sleep" => ctx_state[Target(c)] \in {"REQ_JOIN", "WAITING"}
    /\ call[c] \in {"joined", "free", "free_ctx"} => AtRest(Target(c))
    /\ call[c] = "free_join" => Ending(Target(c))
    /\ call[c] \notin {"idle", "create"} => life[Target(c)] = "live"

(* A stage that one caller brings about lasts as long as its call.         *)
CalledAt(x, l) == \E c \in CALLER : call[c] = l /\ Target(c) = x

CallInv ==
    /\ \A c \in CALLER : CallerOK(c)
    /\ \A x \in STREAM :
         /\ life[x] \in {"none", "failed"} => Absent(x)
         /\ ctx_state[x] = "REQ_JOIN" => CalledAt(x, "join_sleep")
         /\ Reviving(x) => CalledAt(x, "revive_ctx")
         /\ Ending(x) => life[x] = "freed" \/ CalledAt(x, "free_join")

(* What is left of the programs.                                           *)
NeverStops(x) ==
    /\ main_sched[x] # "TERMINATED"
    /\ "CANCEL" \notin request[x] /\ "FINISH" \notin sched_request[x]
    /\ Range(units[x]) \cap EXITS = {}

NotRevived(s, k) == \A i \in 1 .. k - 1 : ~IsCall(s, i, {"revive"}, s[k][2])

(* A call to revive finds the ES at rest, or as it is never asked to stop. *)
ReviveOK(c, k) ==
    LET x == todo[c][k][2] IN
      \/ JoinedBefore(todo[c], k)
      \/ life[x] = "failed" \/ Ending(x)
      \/ AtRest(x) /\ NotRevived(todo[c], k)
      \/ NeverStopped(todo, c, k) /\ NeverStops(x)

ProgramInv ==
    /\ OneOwner(todo) /\ NamesFresh(todo)
    /\ \A c \in CALLER : \A k \in DOMAIN todo[c] :
         /\ todo[c][k][1] = "create" => life[todo[c][k][2]] = "none"
         /\ todo[c][k][1] = "push" =>
              /\ todo[c][k][3] \in UNIT
              /\ \A x \in STREAM : todo[c][k][3] \notin Range(units[x])
              /\ \A d \in CALLER : todo[c][k][3] \notin owed[d]
         /\ todo[c][k][1] = "revive" /\ ~(k = 1 /\ call[c] = "revive_ctx") => ReviveOK(c, k)

(* A scheduler that has stopped without a cancellation has left nothing.   *)
DrainInv ==
    /\ \A x \in STREAM : "CANCEL" \in request[x] => x \in cancelled
    /\ \A c \in CALLER :
         call[c] \in JoinPoint /\ main_sched[Target(c)] = "TERMINATED" /\ Target(c) \notin cancelled
           => owed[c] \cap Range(units[Target(c)]) = {}

XstreamInv == XstreamTypeInv /\ StageInv /\ CallInv /\ ProgramInv /\ DrainInv

LEMMA UnitAppended ==
    ASSUME NEW s \in Seq(UNIT), NEW u \in UNIT
    PROVE  Append(s, u) \in Seq(UNIT) /\ Range(Append(s, u)) = Range(s) \cup {u}
<1>1. /\ DOMAIN s = 1 .. Len(s) /\ Len(s) \in Nat
      /\ DOMAIN Append(s, u) = 1 .. Len(s) + 1
      /\ \A i \in 1 .. Len(s) : Append(s, u)[i] = s[i]
      /\ Append(s, u)[Len(s) + 1] = u
  OBVIOUS
<1>2. Range(Append(s, u)) \subseteq Range(s) \cup {u}
  BY <1>1 DEF Range
<1>3. Range(s) \cup {u} \subseteq Range(Append(s, u))
  BY <1>1 DEF Range
<1>. QED  BY <1>2, <1>3

LEMMA UnitTaken ==
    ASSUME NEW s \in Seq(UNIT), s # <<>>
    PROVE  /\ Tail(s) \in Seq(UNIT) /\ Range(Tail(s)) \subseteq Range(s)
           /\ Head(s) \in Range(s)
<1>1. /\ DOMAIN s = 1 .. Len(s) /\ Len(s) \in Nat \ {0}
      /\ DOMAIN Tail(s) = 1 .. Len(s) - 1
      /\ \A i \in 1 .. Len(s) - 1 : Tail(s)[i] = s[i + 1]
      /\ Head(s) = s[1]
  OBVIOUS
<1>. QED  BY <1>1 DEF Range

(* A caller with a call left.                                              *)
LEMMA CallOfEs ==
    ASSUME XstreamTypeInv, NEW c \in CALLER, todo[c] # <<>>
    PROVE  /\ Head(todo[c]) \in XstreamCall /\ Target(c) \in STREAM
           /\ 1 \in DOMAIN todo[c] /\ todo[c][1] = Head(todo[c])
           /\ Tail(todo[c]) \in Seq(XstreamCall)
           /\ \A k \in DOMAIN Tail(todo[c]) :
                k + 1 \in DOMAIN todo[c] /\ Tail(todo[c])[k] = todo[c][k + 1]
<1>1. todo[c] \in Seq(XstreamCall)
  BY DEF XstreamTypeInv
<1>2. /\ Head(todo[c]) \in XstreamCall /\ Tail(todo[c]) \in Seq(XstreamCall)
      /\ 1 \in DOMAIN todo[c] /\ todo[c][1] = Head(todo[c])
      /\ \A k \in DOMAIN Tail(todo[c]) :
                k + 1 \in DOMAIN todo[c] /\ Tail(todo[c])[k] = todo[c][k + 1]
  BY <1>1
<1>. QED  BY <1>2 DEF Target, XstreamCall

(* The calls of an ES that exclude each other have one caller.             *)
LEMMA AloneOnEs ==
    ASSUME XstreamTypeInv, OneOwner(todo), NEW c \in CALLER, NEW d \in CALLER,
           InCall(c, Exclusive), InCall(d, Exclusive), Target(c) = Target(d)
    PROVE  c = d
<1>1. /\ Target(c) \in STREAM
      /\ 1 \in DOMAIN todo[c] /\ 1 \in DOMAIN todo[d]
      /\ todo[c][1] = Head(todo[c]) /\ todo[d][1] = Head(todo[d])
  BY CallOfEs DEF InCall
<1>2. IsCall(todo[c], 1, Exclusive, Target(c)) /\ IsCall(todo[d], 1, Exclusive, Target(c))
  BY <1>1 DEF IsCall, InCall, Target
<1>. QED  BY <1>1, <1>2 DEF OneOwner

LEMMA BusyExclusive ==
    ASSUME NEW c \in CALLER, CallerOK(c), call[c] \in CallerPoint, call[c] # "idle"
    PROVE  InCall(c, Exclusive) /\ todo[c] # <<>>
BY DEF CallerOK, InCall, Exclusive, CallerPoint, JoinPoint

(* What a step of a caller leaves of the programs.                         *)
LEMMA CallerFrame ==
    ASSUME XstreamTypeInv, NEW c \in CALLER, CallerOK(c), CallerStep(c)
    PROVE  /\ todo[c] # <<>>
           /\ \A d \in CALLER \ {c} :
                 call'[d] = call[d] /\ todo'[d] = todo[d] /\ owed'[d] = owed[d]
           /\ \/ EndCall(c) /\ call'[c] = "idle" /\ todo'[c] = Tail(todo[c])
              \/ \E l \in CallerPoint \ {"idle"} : GoCall(c, l) /\ call'[c] = l /\ todo' = todo
              \/ JoinWake(c) /\ UNCHANGED <<call, todo>>
<1>. USE DEF XstreamTypeInv, CallAt, Begins, BeginsOn, CallerOK, InCall, JoinPoint, EndCall, GoCall,
             CallerPoint
<1>1. CASE NullHandle(c) \/ PushUnit(c) \/ ChangeRank(c) \/ ReviveError(c) \/ Cancel(c)
  BY <1>1 DEF NullHandle, PushUnit, ChangeRank, ReviveError, Cancel
<1>2. CASE SetNewRank(c) \/ CreateXstream(c) \/ CreateFails(c)
  BY <1>2 DEF SetNewRank, CreateXstream, CreateFails
<1>3. CASE JoinRequest(c) \/ JoinUlt(c) \/ JoinContext(c)
  BY <1>3 DEF JoinRequest, JoinUlt, JoinContext
<1>4. CASE JoinWake(c)
  BY <1>4 DEF JoinWake
<1>5. CASE JoinReturns(c)
  BY <1>5 DEF JoinReturns
<1>6. CASE FreeRank(c) \/ FreeContext(c) \/ FreeDone(c) \/ ReviveUlt(c) \/ ReviveContext(c)
  BY <1>6 DEF FreeRank, FreeContext, FreeDone, ReviveUlt, ReviveContext
<1>. QED  BY <1>1, <1>2, <1>3, <1>4, <1>5, <1>6 DEF CallerStep

-----------------------------------------------------------------------------
(* The types.                                                              *)

LEMMA CallerTypes ==
    ASSUME XstreamTypeInv, ProgramInv, NEW c \in CALLER, CallerOK(c), CallerStep(c)
    PROVE  XstreamTypeInv'
<1>1. todo[c] # <<>> /\ Target(c) \in STREAM /\ Tail(todo[c]) \in Seq(XstreamCall)
  BY CallerFrame, CallOfEs
<1>2. call' \in [CALLER -> CallerPoint] /\ todo' \in [CALLER -> Seq(XstreamCall)]
  <2>1. CASE EndCall(c)
    BY <1>1, <2>1 DEF EndCall, XstreamTypeInv, CallerPoint
  <2>2. CASE \E l \in CallerPoint \ {"idle"} : GoCall(c, l)
    BY <2>2 DEF GoCall, XstreamTypeInv
  <2>3. CASE UNCHANGED <<call, todo>>
    BY <2>3 DEF XstreamTypeInv
  <2>. QED  BY <2>1, <2>2, <2>3, CallerFrame
<1>. USE DEF XstreamTypeInv, rankVars, ctxVars, schedVars
<1>3. CASE NullHandle(c)
  BY <1>2, <1>3 DEF NullHandle
<1>4. CASE PushUnit(c)
  <2>1. Argument(c) \in UNIT
    BY <1>1, <1>4, CallOfEs DEF PushUnit, ProgramInv, Argument, BeginsOn, Begins
  <2>2. Append(units[Target(c)], Argument(c)) \in Seq(UNIT)
    BY <1>1, <2>1
  <2>. QED  BY <1>1, <1>2, <1>4, <2>2 DEF PushUnit
<1>5. CASE SetNewRank(c)
  BY <1>1, <1>2, <1>5 DEF SetNewRank
<1>6. CASE CreateXstream(c)
  BY <1>1, <1>2, <1>6 DEF CreateXstream, NativePoint
<1>7. CASE CreateFails(c)
  BY <1>1, <1>2, <1>7 DEF CreateFails
<1>8. CASE ChangeRank(c)
  BY <1>2, <1>8 DEF ChangeRank
<1>9. CASE JoinRequest(c)
  <2>1. Range(units[Target(c)]) \subseteq UNIT
    BY <1>1 DEF Range
  <2>. QED  BY <1>1, <1>2, <1>9, <2>1 DEF JoinRequest
<1>10. CASE JoinUlt(c)
  BY <1>2, <1>10 DEF JoinUlt
<1>11. CASE JoinContext(c)
  BY <1>1, <1>2, <1>11 DEF JoinContext
<1>12. CASE JoinWake(c)
  BY <1>1, <1>2, <1>12 DEF JoinWake
<1>13. CASE JoinReturns(c)
  BY <1>2, <1>13 DEF JoinReturns
<1>14. CASE FreeRank(c)
  BY <1>2, <1>14 DEF FreeRank
<1>15. CASE FreeContext(c)
  BY <1>1, <1>2, <1>15 DEF FreeContext
<1>16. CASE FreeDone(c)
  BY <1>1, <1>2, <1>16 DEF FreeDone
<1>17. CASE ReviveError(c)
  BY <1>2, <1>17 DEF ReviveError
<1>18. CASE ReviveUlt(c)
  BY <1>1, <1>2, <1>18 DEF ReviveUlt
<1>19. CASE ReviveContext(c)
  BY <1>1, <1>2, <1>19 DEF ReviveContext
<1>20. CASE Cancel(c)
  BY <1>1, <1>2, <1>20 DEF Cancel
<1>. QED
  BY <1>3, <1>4, <1>5, <1>6, <1>7, <1>8, <1>9, <1>10, <1>11, <1>12, <1>13, <1>14, <1>15, <1>16,
     <1>17, <1>18, <1>19, <1>20 DEF CallerStep

LEMMA NativeTypes ==
    ASSUME XstreamTypeInv, NEW x \in STREAM, NativeStep(x)
    PROVE  XstreamTypeInv'
<1>1. native' \in [STREAM -> NativePoint]
  <2>1. \E from, next \in NativePoint : NativeGo(x, from, next)
    <3>. USE DEF NativePoint
    <3>1. CASE RootPop(x) \/ RunNothing(x) \/ CheckEvents(x) \/ RootEnd(x) \/ NativeFinish(x)
      BY <3>1 DEF RootPop, RunNothing, CheckEvents, RootEnd, NativeFinish
    <3>2. CASE RunUnit(x) \/ AfterRun(x)
      BY <3>2 DEF RunUnit, AfterRun
    <3>3. CASE HasToStop(x)
      BY <3>3 DEF HasToStop
    <3>4. CASE NativeWake(x)
      BY <3>4 DEF NativeWake
    <3>. QED  BY <3>1, <3>2, <3>3, <3>4 DEF NativeStep
  <2>. QED  BY <2>1 DEF NativeGo, XstreamTypeInv
<1>. USE DEF XstreamTypeInv, rankVars, ctxVars, schedVars, callerVars
<1>2. CASE RootPop(x)
  BY <1>1, <1>2 DEF RootPop
<1>3. CASE RunUnit(x)
  <2>1. Tail(units[x]) \in Seq(UNIT)
    BY <1>3, UnitTaken DEF RunUnit
  <2>2. units' \in [STREAM -> Seq(UNIT)]
    BY <1>3, <2>1 DEF RunUnit
  <2>3. request' \in [STREAM -> SUBSET {"CANCEL"}] /\ cancelled' \subseteq STREAM
    <3>1. CASE request' = [request EXCEPT ![x] = @ \cup {"CANCEL"}] /\ cancelled' = cancelled \cup {x}
      BY <3>1
    <3>2. CASE UNCHANGED <<request, cancelled>>
      BY <3>2
    <3>. QED  BY <1>3, <3>1, <3>2 DEF RunUnit
  <2>. QED  BY <1>1, <1>3, <2>2, <2>3 DEF RunUnit
<1>4. CASE RunNothing(x) \/ HasToStop(x)
  BY <1>1, <1>4 DEF RunNothing, HasToStop
<1>5. CASE CheckEvents(x)
  BY <1>1, <1>5 DEF CheckEvents
<1>6. CASE AfterRun(x)
  BY <1>1, <1>6 DEF AfterRun
<1>7. CASE RootEnd(x)
  BY <1>1, <1>7 DEF RootEnd
<1>8. CASE NativeFinish(x)
  BY <1>1, <1>8 DEF NativeFinish
<1>9. CASE NativeWake(x)
  BY <1>1, <1>9 DEF NativeWake
<1>. QED  BY <1>2, <1>3, <1>4, <1>5, <1>6, <1>7, <1>8, <1>9 DEF NativeStep

-----------------------------------------------------------------------------
(* The stages.                                                             *)

(* The five states are those of before.                                    *)
SameStage(x) ==
    /\ native'[x] = native[x] /\ ctx_state'[x] = ctx_state[x] /\ es_state'[x] = es_state[x]
    /\ main_sched'[x] = main_sched[x] /\ root_pool'[x] = root_pool[x]

(* What a native thread does to the stage of its ES.                       *)
NativeMove(x) ==
    \/ Starting(x) /\ RunsUnits(x)'
    \/ RunsUnits(x) /\ RunsUnits(x)'
    \/ RunsUnits(x) /\ Stopping(x)' /\ ctx_state'[x] # "REQ_JOIN"
    \/ Stopping(x) /\ Stopping(x)' /\ ctx_state'[x] = ctx_state[x]
    \/ Stopping(x) /\ AtRest(x)'
    \/ Revived(x) /\ Starting(x)'
    \/ Ending(x) /\ Ending(x)'
    \/ SameStage(x)

LEMMA NativeMoves ==
    ASSUME XstreamTypeInv, StageInv, NEW x \in STREAM, NativeStep(x)
    PROVE  /\ NativeMove(x)
           /\ \A y \in STREAM \ {x} : SameStage(y)
           /\ UNCHANGED <<life, call, todo, owed>>
<1>. USE DEF XstreamTypeInv, rankVars, ctxVars, schedVars, callerVars, NativeGo
<1>1. UNCHANGED <<life, call, todo, owed>>
  BY DEF NativeStep, RootPop, RunUnit, RunNothing, CheckEvents, HasToStop, AfterRun, RootEnd,
         NativeFinish, NativeWake
<1>2. ASSUME NEW y \in STREAM \ {x} PROVE SameStage(y)
  BY DEF NativeStep, RootPop, RunUnit, RunNothing, CheckEvents, HasToStop, AfterRun, RootEnd,
         NativeFinish, NativeWake, SameStage
<1>3. \/ Absent(x) \/ Starting(x) \/ RunsUnits(x) \/ Stopping(x)
      \/ AtRest(x) \/ Reviving(x) \/ Revived(x) \/ Ending(x)
  BY DEF StageInv
<1>. USE DEF NativeMove, SameStage, Absent, Starting, RunsUnits, Stopping, AtRest, Reviving, Revived,
             Ending, EsAt
<1>4. CASE RootPop(x)
  BY <1>3, <1>4 DEF RootPop
<1>5. CASE RunUnit(x) \/ RunNothing(x) \/ CheckEvents(x)
  BY <1>3, <1>5 DEF RunUnit, RunNothing, CheckEvents
<1>6. CASE HasToStop(x)
  BY <1>3, <1>6 DEF HasToStop
<1>7. CASE AfterRun(x)
  BY <1>3, <1>7 DEF AfterRun
<1>8. CASE RootEnd(x)
  BY <1>3, <1>8 DEF RootEnd
<1>9. CASE NativeFinish(x)
  BY <1>3, <1>9 DEF NativeFinish
<1>10. CASE NativeWake(x)
  BY <1>3, <1>10 DEF NativeWake
<1>. QED  BY <1>1, <1>2, <1>4, <1>5, <1>6, <1>7, <1>8, <1>9, <1>10 DEF NativeStep

(* What a caller does to the stage of the ES of its call.                  *)
CallerMove(c, x) ==
    \/ Absent(x) /\ Starting(x)' /\ life'[x] = "live"
    \/ Stopping(x) /\ Stopping(x)' /\ call'[c] = "join_sleep"
    \/ AtRest(x) /\ Ending(x)' /\ call'[c] = "free_join"
    \/ AtRest(x) /\ Reviving(x)' /\ call'[c] = "revive_ctx" /\ Head(todo[c])[1] = "revive"
    \/ Reviving(x) /\ Revived(x)'
    \/ /\ SameStage(x)
       /\ call[c] # "revive_ctx"
       /\ call[c] = "join_sleep" /\ ctx_state[x] = "REQ_JOIN" => UNCHANGED <<call, todo>>
       /\ call[c] = "free_join" => life'[x] = "freed"

LifeMove(x) ==
    \/ life'[x] = life[x]
    \/ life[x] = "none" /\ life'[x] \in {"live", "failed"}
    \/ life[x] = "live" /\ life'[x] = "freed"

(* An ES that is revived is at rest: it was joined, or it has not stopped. *)
LEMMA RevivesAtRest ==
    ASSUME XstreamTypeInv, StageInv, CallInv, ProgramInv, NEW c \in CALLER,
           BeginsOn(c, "revive"), main_sched[Target(c)] = "TERMINATED"
    PROVE  AtRest(Target(c))
<1>. DEFINE x == Target(c)
<1>1. /\ todo[c] # <<>> /\ x \in STREAM /\ 1 \in DOMAIN todo[c]
      /\ todo[c][1][1] = "revive" /\ todo[c][1][2] = x /\ call[c] = "idle" /\ life[x] = "live"
  BY CallOfEs DEF BeginsOn, Begins, CallAt, Target
<1>2. ReviveOK(c, 1)
  BY <1>1 DEF ProgramInv
<1>3. ~JoinedBefore(todo[c], 1)
  BY DEF JoinedBefore
<1>4. ~NeverStops(x)
  BY DEF NeverStops
<1>5. CASE Ending(x)
  <2>1. PICK d \in CALLER : call[d] = "free_join" /\ Target(d) = x
    BY <1>1, <1>5 DEF CallInv, CalledAt
  <2>2. InCall(d, Exclusive) /\ InCall(c, Exclusive)
    BY <1>1, <2>1, CallOfEs DEF CallInv, CallerOK, InCall, Exclusive
  <2>3. c = d
    BY <2>1, <2>2, AloneOnEs DEF ProgramInv
  <2>. QED  BY <1>1, <2>1, <2>3
<1>. QED  BY <1>1, <1>2, <1>3, <1>4, <1>5 DEF ReviveOK

LEMMA CallerMoves ==
    ASSUME XstreamTypeInv, StageInv, CallInv, ProgramInv, NEW c \in CALLER, CallerStep(c),
           NEW x \in STREAM, x = Target(c)
    PROVE  /\ CallerMove(c, x) /\ LifeMove(x)
           /\ \A y \in STREAM : y # x => SameStage(y) /\ life'[y] = life[y]
<1>1. /\ CallerOK(c) /\ todo[c] # <<>>
      /\ 1 \in DOMAIN todo[c] /\ todo[c][1] = Head(todo[c])
  BY CallerFrame, CallOfEs DEF CallInv
<1>2. \/ Absent(x) \/ Starting(x) \/ RunsUnits(x) \/ Stopping(x)
      \/ AtRest(x) \/ Reviving(x) \/ Revived(x) \/ Ending(x)
  BY <1>1 DEF StageInv
<1>. USE DEF XstreamTypeInv, rankVars, ctxVars, schedVars, callerVars
<1>3. ASSUME NEW y \in STREAM, y # x PROVE SameStage(y) /\ life'[y] = life[y]
  <2>. USE DEF SameStage
  <2>1. CASE \/ NullHandle(c) \/ PushUnit(c) \/ SetNewRank(c) \/ CreateXstream(c) \/ CreateFails(c)
             \/ ChangeRank(c)
    BY <1>3, <2>1 DEF NullHandle, PushUnit, SetNewRank, CreateXstream, CreateFails, ChangeRank
  <2>2. CASE \/ JoinRequest(c) \/ JoinUlt(c) \/ JoinContext(c) \/ JoinWake(c) \/ JoinReturns(c)
    BY <1>3, <2>2 DEF JoinRequest, JoinUlt, JoinContext, JoinWake, JoinReturns
  <2>3. CASE \/ FreeRank(c) \/ FreeContext(c) \/ FreeDone(c)
             \/ ReviveError(c) \/ ReviveUlt(c) \/ ReviveContext(c) \/ Cancel(c)
    BY <1>3, <2>3 DEF FreeRank, FreeContext, FreeDone, ReviveError, ReviveUlt, ReviveContext, Cancel
  <2>. QED  BY <2>1, <2>2, <2>3 DEF CallerStep
<1>4. LifeMove(x)
  <2>. USE DEF LifeMove
  <2>1. CASE SetNewRank(c) \/ CreateXstream(c) \/ CreateFails(c)
    <3>1. life[x] = "none"
      BY <1>1, <2>1 DEF SetNewRank, CreateXstream, CreateFails, CallAt, Begins, CallerOK, InCall,
                        ProgramInv, Target
    <3>. QED  BY <2>1, <3>1 DEF SetNewRank, CreateXstream, CreateFails
  <2>2. CASE FreeDone(c)
    <3>1. life[x] = "live"
      BY <1>1, <2>2 DEF FreeDone, CallAt, CallerOK
    <3>. QED  BY <2>2, <3>1 DEF FreeDone
  <2>3. CASE \/ NullHandle(c) \/ PushUnit(c) \/ ChangeRank(c) \/ JoinRequest(c) \/ JoinUlt(c)
             \/ JoinContext(c) \/ JoinWake(c) \/ JoinReturns(c)
    BY <2>3 DEF NullHandle, PushUnit, ChangeRank, JoinRequest, JoinUlt, JoinContext, JoinWake,
                JoinReturns
  <2>4. CASE \/ FreeRank(c) \/ FreeContext(c) \/ ReviveError(c) \/ ReviveUlt(c)
             \/ ReviveContext(c) \/ Cancel(c)
    BY <2>4 DEF FreeRank, FreeContext, ReviveError, ReviveUlt, ReviveContext, Cancel
  <2>. QED  BY <2>1, <2>2, <2>3, <2>4 DEF CallerStep
<1>5. CASE \/ NullHandle(c) \/ PushUnit(c) \/ SetNewRank(c) \/ CreateFails(c) \/ ChangeRank(c)
           \/ JoinRequest(c) \/ JoinUlt(c) \/ JoinWake(c) \/ JoinReturns(c)
           \/ FreeRank(c) \/ FreeDone(c) \/ ReviveError(c) \/ Cancel(c)
  <2>. USE DEF NullHandle, PushUnit, SetNewRank, CreateFails, ChangeRank, JoinRequest, JoinUlt,
               JoinWake, JoinReturns, FreeRank, FreeDone, ReviveError, Cancel
  <2>1. SameStage(x)
    BY <1>5 DEF SameStage
  <2>2. /\ call[c] # "revive_ctx"
        /\ call[c] = "free_join" => life'[x] = "freed"
    <3>1. CASE FreeDone(c)
      BY <3>1 DEF CallAt
    <3>2. CASE ~FreeDone(c)
      BY <1>5, <3>2 DEF CallAt, BeginsOn, Begins
    <3>. QED  BY <3>1, <3>2
  <2>3. call[c] = "join_sleep" /\ ctx_state[x] = "REQ_JOIN" => UNCHANGED <<call, todo>>
    BY <1>5 DEF CallAt, BeginsOn, Begins
  <2>. QED  BY <1>3, <1>4, <2>1, <2>2, <2>3 DEF CallerMove
<1>. USE DEF Absent, Starting, RunsUnits, Stopping, AtRest, Reviving, Revived, Ending, EsAt
<1>6. CASE CreateXstream(c)
  <2>1. life[x] = "none"
    BY <1>1, <1>6 DEF CreateXstream, CallAt, CallerOK, InCall, ProgramInv, Target
  <2>2. Absent(x)
    BY <1>1, <2>1 DEF CallInv
  <2>3. Starting(x)'
    BY <1>1, <1>6, <2>2 DEF CreateXstream, Target
  <2>4. life'[x] = "live"
    BY <1>6 DEF CreateXstream, Target
  <2>. QED  BY <1>3, <1>4, <2>2, <2>3, <2>4 DEF CallerMove
<1>7. CASE JoinContext(c)
  <2>1. CASE ctx_state[x] = "WAITING"
    BY <1>3, <1>7, <1>4, <2>1 DEF JoinContext, CallerMove, SameStage, CallAt
  <2>2. CASE ctx_state[x] # "WAITING"
    <3>1. main_sched[x] = "TERMINATED" /\ call[c] = "join_ctx" /\ life[x] = "live"
      BY <1>1, <1>7 DEF JoinContext, CallAt, CallerOK
    <3>2. ~Ending(x)
      <4>1. SUFFICES ASSUME Ending(x) PROVE FALSE
        OBVIOUS
      <4>2. PICK d \in CALLER : call[d] = "free_join" /\ Target(d) = x
        <5>1. CalledAt(x, "free_join")
          BY <3>1, <4>1 DEF CallInv
        <5>. QED  BY <5>1 DEF CalledAt
      <4>3. InCall(d, Exclusive) /\ InCall(c, Exclusive)
        BY <3>1, <4>2, BusyExclusive DEF CallInv
      <4>. QED  BY <3>1, <4>2, <4>3, AloneOnEs DEF ProgramInv
    <3>3. Stopping(x)
      BY <1>2, <2>2, <3>1, <3>2
    <3>4. Stopping(x)' /\ call'[c] = "join_sleep"
      BY <1>1, <1>7, <2>2, <3>3 DEF JoinContext, GoCall, Target
    <3>. QED  BY <1>3, <1>4, <3>3, <3>4 DEF CallerMove
  <2>. QED  BY <2>1, <2>2
<1>8. CASE FreeContext(c)
  <2>1. AtRest(x)
    BY <1>1, <1>8 DEF FreeContext, CallAt, CallerOK
  <2>2. Ending(x)' /\ call'[c] = "free_join"
    BY <1>1, <1>8, <2>1 DEF FreeContext, GoCall, Target
  <2>. QED  BY <1>3, <1>4, <2>1, <2>2 DEF CallerMove
<1>9. CASE ReviveUlt(c)
  <2>1. AtRest(x) /\ Head(todo[c])[1] = "revive"
    BY <1>9, RevivesAtRest DEF ReviveUlt, BeginsOn, Begins
  <2>2. Reviving(x)' /\ call'[c] = "revive_ctx"
    BY <1>1, <1>9, <2>1 DEF ReviveUlt, GoCall, Target
  <2>. QED  BY <1>3, <1>4, <2>1, <2>2 DEF CallerMove
<1>10. CASE ReviveContext(c)
  <2>1. Reviving(x)
    BY <1>1, <1>10 DEF ReviveContext, CallAt, CallerOK
  <2>2. Revived(x)'
    BY <1>1, <1>10, <2>1 DEF ReviveContext, Target
  <2>. QED  BY <1>3, <1>4, <2>1, <2>2 DEF CallerMove
<1>. QED  BY <1>3, <1>5, <1>6, <1>7, <1>8, <1>9, <1>10 DEF CallerStep

LEMMA NativeKeepsCalls ==
    ASSUME XstreamTypeInv, StageInv, CallInv, NEW x \in STREAM, NativeStep(x)
    PROVE  StageInv' /\ CallInv'
<1>1. /\ NativeMove(x)
      /\ \A y \in STREAM \ {x} : SameStage(y)
      /\ UNCHANGED <<life, call, todo>>
  BY NativeMoves
<1>2. ASSUME NEW c \in CALLER PROVE CallerOK(c)'
  <2>1. CallerOK(c) /\ call[c] \in CallerPoint
    BY DEF CallInv, XstreamTypeInv
  <2>2. CASE call[c] \in {"idle", "create"}
    BY <1>1, <2>1, <2>2 DEF CallerOK, InCall, JoinPoint
  <2>3. CASE call[c] \notin {"idle", "create"}
    <3>1. Target(c) \in STREAM
      BY <2>1, <2>3, BusyExclusive, CallOfEs
    <3>2. PICK y \in STREAM : y = Target(c)
      BY <3>1
    <3>3. Target(c)' = y
      BY <1>1, <3>2 DEF Target
    <3>. USE DEF CallerOK, InCall, Absent, Starting, RunsUnits, Stopping, AtRest, Reviving, Revived,
                 Ending, EsAt
    <3>4. CASE y = x
      BY <1>1, <2>1, <2>3, <3>2, <3>3, <3>4 DEF NativeMove, SameStage
    <3>5. CASE y # x
      BY <1>1, <2>1, <2>3, <3>2, <3>3, <3>5 DEF SameStage
    <3>. QED  BY <3>4, <3>5
  <2>. QED  BY <2>2, <2>3
<1>3. ASSUME NEW y \in STREAM, NEW l PROVE CalledAt(y, l)' <=> CalledAt(y, l)
  BY <1>1 DEF CalledAt, Target
<1>. USE DEF Absent, Starting, RunsUnits, Stopping, AtRest, Reviving, Revived, Ending, EsAt
<1>4. ASSUME NEW y \in STREAM
      PROVE  /\ \/ Absent(y) \/ Starting(y) \/ RunsUnits(y) \/ Stopping(y)
                \/ AtRest(y) \/ Reviving(y) \/ Revived(y) \/ Ending(y)
             /\ life[y] \in {"none", "failed"} => Absent(y)
             /\ ctx_state[y] = "REQ_JOIN" => CalledAt(y, "join_sleep")
             /\ Reviving(y) => CalledAt(y, "revive_ctx")
             /\ Ending(y) => life[y] = "freed" \/ CalledAt(y, "free_join")
  BY DEF StageInv, CallInv
<1>5. ASSUME NEW y \in STREAM
      PROVE  /\ (\/ Absent(y) \/ Starting(y) \/ RunsUnits(y) \/ Stopping(y)
                 \/ AtRest(y) \/ Reviving(y) \/ Revived(y) \/ Ending(y))'
             /\ (life[y] \in {"none", "failed"} => Absent(y))'
             /\ (ctx_state[y] = "REQ_JOIN" => CalledAt(y, "join_sleep"))'
             /\ (Reviving(y) => CalledAt(y, "revive_ctx"))'
             /\ (Ending(y) => life[y] = "freed" \/ CalledAt(y, "free_join"))'
  <2>1. CASE y # x
    BY <1>1, <1>3, <1>4, <2>1 DEF SameStage
  <2>2. CASE y = x
    <3>. USE DEF NativeMove, SameStage
    <3>1. (\/ Absent(y) \/ Starting(y) \/ RunsUnits(y) \/ Stopping(y)
           \/ AtRest(y) \/ Reviving(y) \/ Revived(y) \/ Ending(y))'
      <4>1. CASE SameStage(y)
        BY <1>4, <4>1
      <4>2. CASE ~SameStage(y)
        <5>. HIDE DEF Absent, Starting, RunsUnits, Stopping, AtRest, Reviving, Revived, Ending, EsAt,
                      SameStage
        <5>. QED  BY <1>1, <2>2, <4>2
      <4>. QED  BY <4>1, <4>2
    <3>2. (life[y] \in {"none", "failed"} => Absent(y))'
      BY <1>1, <1>4, <2>2
    <3>3. (ctx_state[y] = "REQ_JOIN" => CalledAt(y, "join_sleep"))'
      BY <1>1, <1>3, <1>4, <2>2
    <3>4. (Reviving(y) => CalledAt(y, "revive_ctx"))'
      BY <1>1, <1>3, <1>4, <2>2
    <3>5. (Ending(y) => life[y] = "freed" \/ CalledAt(y, "free_join"))'
      BY <1>1, <1>3, <1>4, <2>2
    <3>. QED  BY <3>1, <3>2, <3>3, <3>4, <3>5
  <2>. QED  BY <2>1, <2>2
<1>. QED  BY <1>2, <1>5 DEF StageInv, CallInv

(* A caller whose call no other excludes changes the stage of no ES.       *)
LEMMA OthersExcluded ==
    ASSUME XstreamTypeInv, CallInv, NEW c \in CALLER, CallerStep(c), ~InCall(c, Exclusive)
    PROVE  UNCHANGED <<life, es_state, ctx_state, native, main_sched, root_pool>>
<1>1. CallerOK(c) /\ call[c] = "idle"
  BY BusyExclusive DEF CallInv, XstreamTypeInv
<1>2. NullHandle(c) \/ PushUnit(c) \/ ChangeRank(c) \/ Cancel(c)
  <2>. USE DEF InCall, Exclusive, CallAt, Begins, BeginsOn
  <2>1. ~SetNewRank(c) /\ ~ReviveError(c) /\ ~ReviveUlt(c)
    BY DEF SetNewRank, ReviveError, ReviveUlt
  <2>2. ~JoinRequest(c)
    BY DEF JoinRequest
  <2>3. /\ ~CreateXstream(c) /\ ~CreateFails(c) /\ ~JoinUlt(c) /\ ~JoinContext(c) /\ ~JoinWake(c)
        /\ ~JoinReturns(c) /\ ~FreeRank(c) /\ ~FreeContext(c) /\ ~FreeDone(c) /\ ~ReviveContext(c)
    BY <1>1 DEF CreateXstream, CreateFails, JoinUlt, JoinContext, JoinWake, JoinReturns, FreeRank,
                FreeContext, FreeDone, ReviveContext
  <2>. QED  BY <2>1, <2>2, <2>3 DEF CallerStep
<1>. QED
  BY <1>2 DEF NullHandle, PushUnit, ChangeRank, Cancel, ctxVars, schedVars

LEMMA CallerOwnOK ==
    ASSUME XstreamTypeInv, StageInv, CallInv, ProgramInv, NEW c \in CALLER, CallerStep(c)
    PROVE  CallerOK(c)'
<1>1. /\ CallerOK(c) /\ todo[c] # <<>> /\ Target(c) \in STREAM
  BY CallerFrame, CallOfEs DEF CallInv
<1>2. PICK x \in STREAM : x = Target(c)
  BY <1>1
<1>3. CallerMove(c, x)
  BY <1>2, CallerMoves
<1>4. CASE call'[c] = "idle"
  BY <1>4 DEF CallerOK, JoinPoint
<1>5. CASE \E l \in CallerPoint \ {"idle"} : GoCall(c, l) /\ call'[c] = l /\ todo' = todo
  <2>1. Target(c)' = x /\ InCall(c, {"create"})' = InCall(c, {"create"})
        /\ InCall(c, {"join", "free"})' = InCall(c, {"join", "free"})
        /\ InCall(c, {"free"})' = InCall(c, {"free"})
        /\ InCall(c, {"revive"})' = InCall(c, {"revive"})
    BY <1>2, <1>5 DEF Target, InCall
  <2>2. call' = [call EXCEPT ![c] = call'[c]] /\ call'[c] \in CallerPoint \ {"idle"}
    BY <1>5 DEF GoCall
  <2>3. \/ Absent(x) \/ Starting(x) \/ RunsUnits(x) \/ Stopping(x)
        \/ AtRest(x) \/ Reviving(x) \/ Revived(x) \/ Ending(x)
    BY DEF StageInv
  <2>. USE <1>1, <1>2, <1>3, <2>1 DEF CallerOK, JoinPoint, CallAt, Begins, BeginsOn, XstreamTypeInv
  <2>4. CASE SetNewRank(c)
    <3>1. call'[c] = "create" /\ InCall(c, {"create"})
      BY <2>2, <2>4 DEF SetNewRank, GoCall, EndCall, InCall
    <3>. QED  BY <3>1
  <2>5. CASE JoinRequest(c)
    <3>1. call'[c] = "join_ult" /\ InCall(c, {"join", "free"}) /\ life'[x] = "live"
      BY <2>5 DEF JoinRequest, GoCall, InCall
    <3>. QED  BY <3>1
  <2>6. CASE JoinUlt(c)
    <3>1. /\ call'[c] = "join_ctx" /\ InCall(c, {"join", "free"}) /\ life'[x] = "live"
          /\ main_sched'[x] = "TERMINATED"
      BY <2>6 DEF JoinUlt, GoCall, schedVars
    <3>. QED  BY <3>1
  <2>. USE DEF Absent, Starting, RunsUnits, Stopping, AtRest, Reviving, Revived, Ending, EsAt,
               CallerMove, SameStage
  <2>7. CASE JoinContext(c)
    <3>1. /\ InCall(c, {"join", "free"}) /\ life'[x] = "live" /\ main_sched'[x] = "TERMINATED"
          /\ main_sched[x] = "TERMINATED"
      BY <2>7 DEF JoinContext, schedVars
    <3>2. CASE ctx_state[x] = "WAITING"
      <4>1. call'[c] = "joined" /\ UNCHANGED <<ctx_state, es_state, native, root_pool>>
        BY <2>7, <3>2 DEF JoinContext, GoCall, ctxVars, schedVars
      <4>2. AtRest(x)
        BY <2>3, <3>1, <3>2
      <4>3. AtRest(x)'
        BY <3>1, <4>1, <4>2
      <4>. QED  BY <3>1, <4>1, <4>3
    <3>3. CASE ctx_state[x] # "WAITING"
      <4>1. call'[c] = "join_sleep" /\ ctx_state'[x] = "REQ_JOIN"
        BY <2>7, <3>3 DEF JoinContext, GoCall
      <4>. QED  BY <3>1, <4>1
    <3>. QED  BY <3>2, <3>3
  <2>8. CASE JoinWake(c)
    <3>1. /\ InCall(c, {"join", "free"}) /\ life'[x] = "live" /\ main_sched[x] = "TERMINATED"
          /\ UNCHANGED <<ctx_state, es_state, native, root_pool, main_sched>>
          /\ ctx_state[x] \in {"REQ_JOIN", "WAITING"}
      BY <2>8 DEF JoinWake, schedVars
    <3>2. CASE ctx_state[x] = "REQ_JOIN"
      BY <2>8, <3>1, <3>2 DEF JoinWake
    <3>3. CASE ctx_state[x] # "REQ_JOIN"
      <4>1. call'[c] = "joined"
        BY <2>8, <3>3 DEF JoinWake, GoCall
      <4>2. AtRest(x)
        BY <2>3, <3>1, <3>3
      <4>3. AtRest(x)'
        BY <3>1, <4>2
      <4>. QED  BY <3>1, <4>1, <4>3
    <3>. QED  BY <3>2, <3>3
  <2>9. CASE JoinReturns(c)
    <3>1. /\ call'[c] = "free" /\ InCall(c, {"free"}) /\ life'[x] = "live" /\ AtRest(x)'
      <4>1. Head(todo[c])[1] = "free" /\ GoCall(c, "free")
        BY <1>5, <2>9 DEF JoinReturns, GoCall, EndCall
      <4>. QED  BY <2>9, <4>1 DEF JoinReturns, GoCall, InCall, ctxVars, schedVars
    <3>. QED  BY <3>1
  <2>10. CASE FreeRank(c)
    <3>1. /\ call'[c] = "free_ctx" /\ InCall(c, {"free"}) /\ life'[x] = "live" /\ AtRest(x)'
      BY <2>10 DEF FreeRank, GoCall, ctxVars, schedVars
    <3>. QED  BY <3>1
  <2>11. CASE FreeContext(c)
    <3>1. /\ call'[c] = "free_join" /\ InCall(c, {"free"}) /\ life'[x] = "live" /\ AtRest(x)
      BY <2>11 DEF FreeContext, GoCall
    <3>2. Ending(x)'
      BY <2>11, <3>1 DEF FreeContext, schedVars
    <3>. QED  BY <3>1, <3>2
  <2>12. CASE ReviveUlt(c)
    <3>1. /\ call'[c] = "revive_ctx" /\ InCall(c, {"revive"}) /\ life'[x] = "live"
      BY <2>12 DEF ReviveUlt, GoCall, InCall
    <3>2. AtRest(x)
      BY <2>12, RevivesAtRest DEF ReviveUlt
    <3>3. Reviving(x)'
      BY <2>12, <3>2 DEF ReviveUlt, schedVars
    <3>. QED  BY <3>1, <3>3
  <2>13. CASE \/ NullHandle(c) \/ PushUnit(c) \/ CreateXstream(c) \/ CreateFails(c) \/ ChangeRank(c)
              \/ FreeDone(c) \/ ReviveError(c) \/ ReviveContext(c) \/ Cancel(c)
    <3>1. call'[c] = "idle"
      BY <2>13 DEF NullHandle, PushUnit, CreateXstream, CreateFails, ChangeRank, FreeDone,
                   ReviveError, ReviveContext, Cancel, EndCall
    <3>. QED  BY <2>2, <3>1
  <2>. QED  BY <2>4, <2>5, <2>6, <2>7, <2>8, <2>9, <2>10, <2>11, <2>12, <2>13 DEF CallerStep
<1>6. CASE JoinWake(c) /\ UNCHANGED <<call, todo>>
  <2>1. /\ UNCHANGED <<life, ctx_state, es_state, native, root_pool, main_sched>>
        /\ call[c] = "join_sleep"
    BY <1>6 DEF JoinWake, schedVars, CallAt
  <2>. QED  BY <1>1, <1>6, <2>1 DEF CallerOK, Target, InCall, JoinPoint
<1>. QED  BY <1>1, <1>4, <1>5, <1>6, CallerFrame

LEMMA CallerKeepsCalls ==
    ASSUME XstreamTypeInv, StageInv, CallInv, ProgramInv, NEW c \in CALLER, CallerStep(c)
    PROVE  StageInv' /\ CallInv'
<1>1. /\ CallerOK(c) /\ todo[c] # <<>> /\ Target(c) \in STREAM
  BY CallerFrame, CallOfEs DEF CallInv
<1>2. PICK x \in STREAM : x = Target(c)
  BY <1>1
<1>3. /\ CallerMove(c, x) /\ LifeMove(x)
      /\ \A y \in STREAM : y # x => SameStage(y) /\ life'[y] = life[y]
  BY <1>2, CallerMoves
<1>4. \A d \in CALLER \ {c} : call'[d] = call[d] /\ todo'[d] = todo[d] /\ Target(d)' = Target(d)
  BY <1>1, CallerFrame DEF Target
<1>5. call'[c] # "idle" => todo' = todo /\ Target(c)' = x
  BY <1>1, <1>2, CallerFrame DEF Target
<1>6. ASSUME NEW d \in CALLER PROVE CallerOK(d)'
  <2>1. CASE d = c
    BY <2>1, CallerOwnOK
  <2>2. CASE d # c /\ call[d] = "idle"
    BY <1>4, <2>2 DEF CallerOK, JoinPoint
  <2>3. CASE d # c /\ call[d] # "idle"
    <3>1. CallerOK(d) /\ InCall(d, Exclusive) /\ Target(d) \in STREAM
      BY <2>3, BusyExclusive, CallOfEs DEF CallInv, XstreamTypeInv
    <3>2. PICK y \in STREAM : y = Target(d)
      BY <3>1
    <3>3. SameStage(y) /\ life'[y] = life[y]
      <4>1. CASE y # x
        BY <1>3, <4>1
      <4>2. CASE y = x
        <5>1. ~InCall(c, Exclusive)
          BY <1>2, <2>3, <3>1, <3>2, <4>2, AloneOnEs DEF ProgramInv
        <5>. QED  BY <5>1, OthersExcluded DEF SameStage
      <4>. QED  BY <4>1, <4>2
    <3>4. call'[d] = call[d] /\ todo'[d] = todo[d] /\ Target(d)' = y
      BY <1>4, <2>3, <3>2
    <3>. QED
      BY <3>1, <3>2, <3>3, <3>4 DEF CallerOK, InCall, SameStage, AtRest, Reviving, Ending, EsAt
  <2>. QED  BY <2>1, <2>2, <2>3
<1>. USE DEF Absent, Starting, RunsUnits, Stopping, AtRest, Reviving, Revived, Ending, EsAt
<1>7. ASSUME NEW y \in STREAM
      PROVE  /\ \/ Absent(y) \/ Starting(y) \/ RunsUnits(y) \/ Stopping(y)
                \/ AtRest(y) \/ Reviving(y) \/ Revived(y) \/ Ending(y)
             /\ life[y] \in {"none", "failed"} => Absent(y)
             /\ ctx_state[y] = "REQ_JOIN" => CalledAt(y, "join_sleep")
             /\ Reviving(y) => CalledAt(y, "revive_ctx")
             /\ Ending(y) => life[y] = "freed" \/ CalledAt(y, "free_join")
  BY DEF StageInv, CallInv
<1>8. ASSUME NEW y \in STREAM, NEW l, CalledAt(y, l)
      PROVE  CalledAt(y, l)' \/ (y = x /\ call[c] = l)
  BY <1>2, <1>4, <1>8 DEF CalledAt
<1>9. ASSUME NEW l, call'[c] = l, l # "idle" PROVE CalledAt(x, l)'
  BY <1>5, <1>9 DEF CalledAt
<1>10. ASSUME NEW y \in STREAM, y # x
       PROVE  /\ (\/ Absent(y) \/ Starting(y) \/ RunsUnits(y) \/ Stopping(y)
                  \/ AtRest(y) \/ Reviving(y) \/ Revived(y) \/ Ending(y))'
              /\ (life[y] \in {"none", "failed"} => Absent(y))'
              /\ (ctx_state[y] = "REQ_JOIN" => CalledAt(y, "join_sleep"))'
              /\ (Reviving(y) => CalledAt(y, "revive_ctx"))'
              /\ (Ending(y) => life[y] = "freed" \/ CalledAt(y, "free_join"))'
  <2>1. SameStage(y) /\ life'[y] = life[y]
    BY <1>3, <1>10
  <2>. QED  BY <1>7, <1>8, <1>10, <2>1 DEF SameStage
<1>11. /\ (\/ Absent(x) \/ Starting(x) \/ RunsUnits(x) \/ Stopping(x)
           \/ AtRest(x) \/ Reviving(x) \/ Revived(x) \/ Ending(x))'
       /\ (life[x] \in {"none", "failed"} => Absent(x))'
  BY <1>3, <1>7 DEF CallerMove, LifeMove, SameStage
<1>12. (ctx_state[x] = "REQ_JOIN" => CalledAt(x, "join_sleep"))'
  <2>1. CASE SameStage(x)
    <3>1. CASE ctx_state[x] = "REQ_JOIN"
      <4>1. CalledAt(x, "join_sleep")
        BY <1>7, <3>1
      <4>2. CASE call[c] = "join_sleep"
        BY <1>3, <1>9, <2>1, <3>1, <4>2 DEF CallerMove, SameStage
      <4>3. CASE call[c] # "join_sleep"
        BY <1>8, <4>1, <4>3
      <4>. QED  BY <4>2, <4>3
    <3>. QED  BY <2>1, <3>1 DEF SameStage
  <2>2. CASE ~SameStage(x)
    BY <1>3, <1>9, <2>2 DEF CallerMove
  <2>. QED  BY <2>1, <2>2
<1>13. (Reviving(x) => CalledAt(x, "revive_ctx"))'
  <2>1. CASE SameStage(x)
    <3>1. CASE Reviving(x)
      BY <1>3, <1>7, <1>8, <2>1, <3>1 DEF CallerMove, SameStage
    <3>. QED  BY <2>1, <3>1 DEF SameStage
  <2>2. CASE ~SameStage(x)
    BY <1>3, <1>9, <2>2 DEF CallerMove
  <2>. QED  BY <2>1, <2>2
<1>14. (Ending(x) => life[x] = "freed" \/ CalledAt(x, "free_join"))'
  <2>1. CASE SameStage(x)
    <3>1. CASE Ending(x)
      BY <1>3, <1>7, <1>8, <2>1, <3>1 DEF CallerMove, LifeMove, SameStage
    <3>. QED  BY <2>1, <3>1 DEF SameStage
  <2>2. CASE ~SameStage(x)
    BY <1>3, <1>9, <2>2 DEF CallerMove
  <2>. QED  BY <2>1, <2>2
<1>. HIDE DEF Absent, Starting, RunsUnits, Stopping, AtRest, Reviving, Revived, Ending, EsAt
<1>15. StageInv'
  BY <1>10, <1>11 DEF StageInv
<1>16. CallInv'
  BY <1>6, <1>10, <1>11, <1>12, <1>13, <1>14 DEF CallInv
<1>. QED  BY <1>15, <1>16

-----------------------------------------------------------------------------
(* The programs.                                                           *)

(* Call k of d is what was its call m: the same, or one further on when d  *)
(* has ended a call.                                                       *)
Was(d, k, m) ==
    \/ m = k /\ todo'[d] = todo[d]
    \/ m = k + 1 /\ todo'[d] = Tail(todo[d]) /\ call'[d] = "idle" /\ EndCall(d)

LEMMA WasBefore ==
    ASSUME XstreamTypeInv, CallInv, NEW c \in CALLER, CallerStep(c),
           NEW d \in CALLER, NEW k \in DOMAIN todo'[d]
    PROVE  \E m \in DOMAIN todo[d] : Was(d, k, m) /\ todo'[d][k] = todo[d][m] /\ m \in Nat
<1>1. todo[d] \in Seq(XstreamCall) /\ CallerOK(c)
  BY DEF XstreamTypeInv, CallInv
<1>2. CASE todo'[d] = todo[d]
  BY <1>1, <1>2 DEF Was
<1>3. CASE todo'[d] # todo[d]
  <2>1. d = c /\ EndCall(c) /\ call'[c] = "idle" /\ todo'[c] = Tail(todo[c]) /\ todo[c] # <<>>
    BY <1>1, <1>3, CallerFrame
  <2>2. k + 1 \in DOMAIN todo[d] /\ todo'[d][k] = todo[d][k + 1] /\ k + 1 \in Nat
    BY <1>1, <2>1, CallOfEs
  <2>. QED  BY <2>1, <2>2 DEF Was
<1>. QED  BY <1>2, <1>3

LEMMA ProgramsShorter ==
    ASSUME XstreamTypeInv, CallInv, OneOwner(todo), NamesFresh(todo), NEW c \in CALLER, CallerStep(c)
    PROVE  OneOwner(todo') /\ NamesFresh(todo')
<1>1. OneOwner(todo')
  <2>1. SUFFICES ASSUME NEW d \in CALLER, NEW e \in CALLER, NEW x \in STREAM,
                        NEW j \in DOMAIN todo'[d], NEW k \in DOMAIN todo'[e],
                        IsCall(todo'[d], j, Exclusive, x), IsCall(todo'[e], k, Exclusive, x)
                 PROVE  d = e
    BY DEF OneOwner
  <2>2. PICK m \in DOMAIN todo[d] : todo'[d][j] = todo[d][m]
    BY WasBefore
  <2>3. PICK n \in DOMAIN todo[e] : todo'[e][k] = todo[e][n]
    BY WasBefore
  <2>4. IsCall(todo[d], m, Exclusive, x) /\ IsCall(todo[e], n, Exclusive, x)
    BY <2>1, <2>2, <2>3 DEF IsCall
  <2>. QED  BY <2>4 DEF OneOwner
<1>2. NamesFresh(todo')
  <2>1. SUFFICES ASSUME NEW d \in CALLER, NEW e \in CALLER,
                        NEW j \in DOMAIN todo'[d], NEW k \in DOMAIN todo'[e],
                        LET a == todo'[d][j]
                            b == todo'[e][k] IN
                          \/ a[1] = "create" /\ b[1] = "create" /\ a[2] = b[2]
                          \/ a[1] = "push" /\ b[1] = "push" /\ a[3] = b[3]
                 PROVE  d = e /\ j = k
    BY DEF NamesFresh
  <2>2. PICK m \in DOMAIN todo[d] : Was(d, j, m) /\ todo'[d][j] = todo[d][m] /\ m \in Nat
    BY WasBefore
  <2>3. PICK n \in DOMAIN todo[e] : Was(e, k, n) /\ todo'[e][k] = todo[e][n] /\ n \in Nat
    BY WasBefore
  <2>4. d = e /\ m = n
    BY <2>1, <2>2, <2>3 DEF NamesFresh
  <2>5. todo[d] \in Seq(XstreamCall) /\ todo'[d] \in {todo[d], Tail(todo[d])}
    BY <2>2 DEF XstreamTypeInv, Was
  <2>6. j \in Nat /\ k \in Nat /\ (Tail(todo[d]) = todo[d] => todo[d] = <<>>)
    <3>1. CASE todo[d] = <<>>
      BY <2>4, <2>5, <3>1
    <3>2. CASE todo[d] # <<>>
      <4>1. Tail(todo[d]) \in Seq(XstreamCall) /\ Len(Tail(todo[d])) = Len(todo[d]) - 1
            /\ Len(todo[d]) \in Nat
        BY <2>5, <3>2
      <4>2. j \in Nat /\ k \in Nat
        BY <2>4, <2>5, <4>1
      <4>3. Tail(todo[d]) # todo[d]
        BY <2>5, <3>2, TailShorter
      <4>. QED  BY <4>2, <4>3
    <3>. QED  BY <3>1, <3>2
  <2>7. todo[d] # <<>>
    BY <2>2, <2>5
  <2>. QED  BY <2>2, <2>3, <2>4, <2>6, <2>7 DEF Was
<1>. QED  BY <1>1, <1>2

LEMMA ShorterBefore ==
    ASSUME XstreamTypeInv, NEW d \in CALLER, NEW k \in DOMAIN todo'[d], NEW m \in DOMAIN todo[d],
           Was(d, k, m), todo'[d][k] = todo[d][m], todo[d] # <<>>
    PROVE  \A i \in 1 .. k - 1 :
              \E n \in 1 .. m - 1 : n = i + (m - k) /\ todo'[d][i] = todo[d][n] /\ (m = k + 1 => n = i + 1)
<1>1. /\ todo[d] \in Seq(XstreamCall) /\ Tail(todo[d]) \in Seq(XstreamCall)
      /\ \A i \in DOMAIN Tail(todo[d]) : Tail(todo[d])[i] = todo[d][i + 1]
  BY CallOfEs DEF XstreamTypeInv
<1>2. m \in Nat \ {0} /\ DOMAIN todo[d] = 1 .. Len(todo[d])
      /\ DOMAIN Tail(todo[d]) = 1 .. Len(Tail(todo[d])) /\ Len(Tail(todo[d])) \in Nat
  BY <1>1
<1>3. CASE m = k /\ todo'[d] = todo[d]
  BY <1>2, <1>3
<1>4. CASE m = k + 1 /\ todo'[d] = Tail(todo[d])
  <2>1. k \in 1 .. Len(Tail(todo[d]))
    BY <1>2, <1>4
  <2>2. SUFFICES ASSUME NEW i \in 1 .. k - 1
                 PROVE  /\ i + 1 \in 1 .. m - 1 /\ i + 1 = i + (m - k)
                        /\ todo'[d][i] = todo[d][i + 1]
    BY <1>4
  <2>3. i \in DOMAIN Tail(todo[d])
    BY <1>2, <2>1
  <2>. QED  BY <1>1, <1>4, <2>1, <2>3
<1>. QED  BY <1>3, <1>4 DEF Was

(* What a program says of a call stays true when another call has ended,   *)
(* except that the join before a revival is over.                          *)
LEMMA StillNotRevived ==
    ASSUME XstreamTypeInv, NEW d \in CALLER, NEW k \in DOMAIN todo'[d], NEW m \in DOMAIN todo[d],
           Was(d, k, m), todo'[d][k] = todo[d][m], todo[d] # <<>>, NotRevived(todo[d], m)
    PROVE  NotRevived(todo'[d], k)
<1>1. ASSUME NEW i \in 1 .. k - 1 PROVE ~IsCall(todo'[d], i, {"revive"}, todo'[d][k][2])
  <2>1. PICK n \in 1 .. m - 1 : todo'[d][i] = todo[d][n]
    BY ShorterBefore
  <2>. QED  BY <2>1 DEF NotRevived, IsCall
<1>. QED  BY <1>1 DEF NotRevived

LEMMA StillNeverStopped ==
    ASSUME XstreamTypeInv, CallInv, NEW c \in CALLER, CallerStep(c),
           NEW d \in CALLER, NEW k \in DOMAIN todo'[d], NEW m \in DOMAIN todo[d],
           Was(d, k, m), todo'[d][k] = todo[d][m], todo[d] # <<>>, NeverStopped(todo, d, m)
    PROVE  NeverStopped(todo', d, k)
<1>. DEFINE x == todo[d][m][2]
<1>1. ASSUME NEW i \in 1 .. k - 1 PROVE ~IsCall(todo'[d], i, {"join", "free"}, x)
  <2>1. PICK n \in 1 .. m - 1 : todo'[d][i] = todo[d][n]
    BY ShorterBefore
  <2>. QED  BY <2>1 DEF NeverStopped, IsCall
<1>2. ASSUME NEW e \in CALLER, NEW i \in DOMAIN todo'[e]
      PROVE  /\ ~IsCall(todo'[e], i, {"cancel"}, x)
             /\ ~(IsCall(todo'[e], i, {"push"}, x) /\ todo'[e][i][3] \in EXITS)
  <2>1. PICK n \in DOMAIN todo[e] : todo'[e][i] = todo[e][n]
    BY WasBefore
  <2>. QED  BY <2>1 DEF NeverStopped, IsCall
<1>. QED  BY <1>1, <1>2 DEF NeverStopped

LEMMA StillJoined ==
    ASSUME XstreamTypeInv, NEW d \in CALLER, NEW k \in DOMAIN todo'[d], NEW m \in DOMAIN todo[d],
           Was(d, k, m), todo'[d][k] = todo[d][m], todo[d] # <<>>, JoinedBefore(todo[d], m)
    PROVE  \/ JoinedBefore(todo'[d], k)
           \/ /\ m = k + 1 /\ IsCall(todo[d], 1, {"join"}, todo[d][m][2])
              /\ NotRevived(todo'[d], k)
<1>. DEFINE x == todo[d][m][2]
<1>1. /\ todo[d] \in Seq(XstreamCall) /\ m \in Nat \ {0} /\ k \in Nat /\ m \in {k, k + 1}
  <2>1. todo[d] \in Seq(XstreamCall) /\ Tail(todo[d]) \in Seq(XstreamCall)
    BY CallOfEs DEF XstreamTypeInv
  <2>2. todo'[d] \in {todo[d], Tail(todo[d])}
    BY DEF Was
  <2>. QED  BY <2>1, <2>2 DEF Was
<1>2. PICK j \in 1 .. m - 1 : /\ IsCall(todo[d], j, {"join"}, x)
                              /\ \A i \in j + 1 .. m - 1 : ~IsCall(todo[d], i, {"revive"}, x)
  BY DEF JoinedBefore
<1>3. \A i \in 1 .. k - 1 :
         \E n \in 1 .. m - 1 : n = i + (m - k) /\ todo'[d][i] = todo[d][n]
  BY ShorterBefore
<1>4. ASSUME NEW i \in 1 .. k - 1, i + (m - k) >= j + 1
      PROVE  ~IsCall(todo'[d], i, {"revive"}, x)
  <2>1. PICK n \in 1 .. m - 1 : n = i + (m - k) /\ todo'[d][i] = todo[d][n]
    BY <1>3
  <2>2. n \in j + 1 .. m - 1
    BY <1>1, <1>4, <2>1
  <2>. QED  BY <1>2, <2>1, <2>2 DEF IsCall
<1>5. CASE m = k + 1 /\ j = 1
  <2>1. ASSUME NEW i \in 1 .. k - 1
        PROVE  ~IsCall(todo'[d], i, {"revive"}, x)
    <3>1. i + (m - k) >= j + 1
      BY <1>1, <1>5
    <3>. QED  BY <1>4, <3>1
  <2>. QED  BY <1>2, <1>5, <2>1 DEF NotRevived
<1>6. CASE ~(m = k + 1 /\ j = 1)
  <2>1. j - (m - k) \in 1 .. k - 1
    BY <1>1, <1>6
  <2>2. PICK i \in 1 .. k - 1 : i = j - (m - k)
    BY <2>1
  <2>3. IsCall(todo'[d], i, {"join"}, x)
    <3>1. PICK n \in 1 .. m - 1 : n = i + (m - k) /\ todo'[d][i] = todo[d][n]
      BY <1>3
    <3>2. n = j
      BY <1>1, <2>2, <3>1
    <3>. QED  BY <1>2, <3>1, <3>2 DEF IsCall
  <2>4. ASSUME NEW h \in i + 1 .. k - 1 PROVE ~IsCall(todo'[d], h, {"revive"}, x)
    <3>1. h \in 1 .. k - 1 /\ h + (m - k) >= j + 1
      BY <1>1, <2>2
    <3>. QED  BY <1>4, <3>1
  <2>. QED  BY <2>3, <2>4 DEF JoinedBefore
<1>. QED  BY <1>5, <1>6

(* Only the caller that takes the step can have ended a call.              *)
LEMMA EndedOwn ==
    ASSUME XstreamTypeInv, CallInv, NEW c \in CALLER, CallerStep(c),
           NEW d \in CALLER, NEW k \in Nat, Was(d, k, k + 1), todo[d] # <<>>
    PROVE  d = c /\ EndCall(c) /\ call'[c] = "idle" /\ todo'[c] = Tail(todo[c])
<1>1. todo'[d] = Tail(todo[d]) /\ call'[d] = "idle" /\ EndCall(d)
  BY DEF Was
<1>2. todo[d] \in Seq(XstreamCall)
  BY DEF XstreamTypeInv
<1>3. Tail(todo[d]) # todo[d]
  BY <1>2, TailShorter
<1>4. d = c
  BY <1>1, <1>3, CallerFrame DEF CallInv
<1>. QED  BY <1>1, <1>4

(* A call that has ended is none of those that are left.                   *)
LEMMA EndedGone ==
    ASSUME XstreamTypeInv, NEW c \in CALLER, todo[c] # <<>>, EndCall(c),
           NEW k \in Nat \ {0}, NEW m, Was(c, k, m)
    PROVE  m # 1
<1>1. todo[c] \in Seq(XstreamCall) /\ todo'[c] = Tail(todo[c])
  BY DEF XstreamTypeInv, EndCall
<1>2. todo'[c] # todo[c]
  BY <1>1, TailShorter
<1>. QED  BY <1>2 DEF Was

(* A call that is a join ends when the ES is at rest, or was not created.  *)
LEMMA JoinEnds ==
    ASSUME XstreamTypeInv, StageInv, CallInv, NEW c \in CALLER, CallerStep(c),
           EndCall(c), call'[c] = "idle", IsCall(todo[c], 1, {"join"}, Target(c))
    PROVE  \/ life[Target(c)] = "failed" /\ UNCHANGED life
           \/ AtRest(Target(c)) /\ SameStage(Target(c))
<1>1. /\ CallerOK(c) /\ todo[c] # <<>> /\ Target(c) \in STREAM /\ Head(todo[c])[1] = "join"
  BY CallerFrame, CallOfEs DEF CallInv, IsCall
<1>2. CASE NullHandle(c)
  BY <1>2 DEF NullHandle
<1>3. CASE JoinReturns(c)
  BY <1>1, <1>3 DEF JoinReturns, CallAt, CallerOK, SameStage, ctxVars, schedVars
<1>4. CASE PushUnit(c) \/ SetNewRank(c) \/ ChangeRank(c) \/ ReviveError(c) \/ Cancel(c) \/ ReviveUlt(c)
  BY <1>1, <1>4 DEF PushUnit, SetNewRank, ChangeRank, ReviveError, Cancel, ReviveUlt, BeginsOn, Begins
<1>5. CASE \/ CreateXstream(c) \/ CreateFails(c) \/ FreeRank(c) \/ FreeContext(c) \/ FreeDone(c)
           \/ ReviveContext(c)
  BY <1>1, <1>5 DEF CreateXstream, CreateFails, FreeRank, FreeContext, FreeDone, ReviveContext, CallAt,
                    CallerOK, InCall
<1>6. CASE JoinRequest(c) \/ JoinUlt(c) \/ JoinContext(c)
  BY <1>6 DEF JoinRequest, JoinUlt, JoinContext, GoCall, XstreamTypeInv
<1>7. CASE JoinWake(c)
  <2>1. call'[c] # "idle"
    BY <1>7 DEF JoinWake, GoCall, XstreamTypeInv, CallAt
  <2>. QED  BY <2>1
<1>. QED  BY <1>2, <1>3, <1>4, <1>5, <1>6, <1>7 DEF CallerStep

(* The requests and the pool of x change when it is named.                 *)
LEMMA NeverStopsKept ==
    ASSUME XstreamTypeInv, StageInv, CallInv, ProgramInv, NEW c \in CALLER, CallerStep(c),
           NEW d \in CALLER, NEW k \in DOMAIN todo[d], todo[d][k][1] = "revive",
           NEW x \in STREAM, x = todo[d][k][2], NeverStopped(todo, d, k), NeverStops(x)
    PROVE  NeverStops(x)'
<1>1. /\ CallerOK(c) /\ todo[c] # <<>> /\ Target(c) \in STREAM
      /\ 1 \in DOMAIN todo[c] /\ todo[c][1] = Head(todo[c]) /\ todo[c][1][2] = Target(c)
  BY CallerFrame, CallOfEs DEF CallInv, Target
<1>2. PICK y \in STREAM : y = Target(c)
  BY <1>1
<1>3. CallerMove(c, y) /\ \A z \in STREAM : z # y => SameStage(z)
  BY <1>2, CallerMoves
<1>4. main_sched'[x] # "TERMINATED"
  <2>1. main_sched[x] # "TERMINATED"
    BY DEF NeverStops
  <2>. QED  BY <1>3, <2>1 DEF CallerMove, SameStage, Absent, Starting, Stopping, AtRest, Reviving,
                              Revived, Ending, EsAt
<1>5. y = x => Head(todo[c])[1] \notin {"cancel", "join", "free"}
  <2>1. SUFFICES ASSUME y = x, Head(todo[c])[1] \in {"cancel", "join", "free"} PROVE FALSE
    OBVIOUS
  <2>2. CASE Head(todo[c])[1] = "cancel"
    BY <1>1, <1>2, <2>1, <2>2 DEF NeverStopped, IsCall
  <2>3. CASE Head(todo[c])[1] \in {"join", "free"}
    <3>1. IsCall(todo[c], 1, Exclusive, x) /\ IsCall(todo[d], k, Exclusive, x)
      BY <1>1, <1>2, <2>1, <2>3 DEF IsCall, Exclusive
    <3>2. c = d
      BY <1>1, <3>1 DEF ProgramInv, OneOwner
    <3>3. k # 1 /\ todo[d] \in Seq(XstreamCall)
      BY <1>1, <2>3, <3>2 DEF XstreamTypeInv
    <3>4. 1 \in 1 .. k - 1
      BY <3>3
    <3>. QED  BY <1>1, <1>2, <2>1, <2>3, <3>2, <3>4 DEF NeverStopped, IsCall
  <2>. QED  BY <2>1, <2>2, <2>3
<1>. USE DEF XstreamTypeInv, schedVars
<1>6. CASE PushUnit(c)
  <2>1. Argument(c) \in UNIT /\ Head(todo[c])[1] = "push" /\ Argument(c) = todo[c][1][3]
    BY <1>1, <1>6 DEF PushUnit, ProgramInv, Argument, BeginsOn, Begins
  <2>2. UNCHANGED <<request, sched_request>>
    BY <1>6 DEF PushUnit
  <2>3. CASE y = x
    <3>1. Argument(c) \notin EXITS
      BY <1>1, <1>2, <2>1, <2>3 DEF NeverStopped, IsCall
    <3>2. Range(units'[x]) = Range(units[x]) \cup {Argument(c)}
      BY <1>2, <1>6, <2>1, <2>3, UnitAppended DEF PushUnit
    <3>. QED  BY <1>4, <2>2, <3>1, <3>2 DEF NeverStops
  <2>4. CASE y # x
    BY <1>2, <1>4, <1>6, <2>2, <2>4 DEF NeverStops, PushUnit
  <2>. QED  BY <2>3, <2>4
<1>7. CASE JoinRequest(c) \/ Cancel(c)
  BY <1>2, <1>4, <1>5, <1>7 DEF JoinRequest, Cancel, BeginsOn, Begins, NeverStops
<1>8. CASE ReviveUlt(c)
  BY <1>2, <1>4, <1>8 DEF ReviveUlt, NeverStops
<1>9. CASE ~PushUnit(c) /\ ~JoinRequest(c) /\ ~Cancel(c) /\ ~ReviveUlt(c)
  <2>1. UNCHANGED <<request, sched_request, units>>
    BY <1>9 DEF CallerStep, NullHandle, SetNewRank, CreateXstream, CreateFails, ChangeRank, JoinUlt,
            JoinContext, JoinWake, JoinReturns, FreeRank, FreeContext, FreeDone, ReviveError,
            ReviveContext
  <2>. QED  BY <1>4, <2>1 DEF NeverStops
<1>. QED  BY <1>6, <1>7, <1>8, <1>9

LEMMA ReviveKept ==
    ASSUME XstreamTypeInv, StageInv, CallInv, ProgramInv, NEW c \in CALLER, CallerStep(c),
           NEW d \in CALLER, NEW k \in DOMAIN todo'[d], todo'[d][k][1] = "revive",
           ~(k = 1 /\ call'[d] = "revive_ctx")
    PROVE  ReviveOK(d, k)'
<1>1. PICK m \in DOMAIN todo[d] : Was(d, k, m) /\ todo'[d][k] = todo[d][m] /\ m \in Nat
  BY WasBefore
<1>2. /\ CallerOK(c) /\ todo[c] # <<>> /\ Target(c) \in STREAM
      /\ 1 \in DOMAIN todo[c] /\ todo[c][1] = Head(todo[c]) /\ todo[c][1][2] = Target(c)
  BY CallerFrame, CallOfEs DEF CallInv, Target
<1>3. /\ todo[d] \in Seq(XstreamCall) /\ todo[d] # <<>> /\ todo[d][m] \in XstreamCall
      /\ m \in Nat \ {0} /\ k \in Nat \ {0}
  <2>1. todo[d] \in Seq(XstreamCall)
    BY DEF XstreamTypeInv
  <2>2. m \in 1 .. Len(todo[d]) /\ todo[d] # <<>> /\ todo[d][m] \in XstreamCall
    BY <2>1
  <2>3. todo'[d] \in Seq(XstreamCall)
    BY CallerTypes, <1>2 DEF XstreamTypeInv
  <2>. QED  BY <2>1, <2>2, <2>3
<1>4. PICK x \in STREAM : x = todo[d][m][2]
  BY <1>3 DEF XstreamCall
<1>5. PICK y \in STREAM : y = Target(c)
  BY <1>2
<1>6. CallerMove(c, y) /\ LifeMove(y) /\ \A z \in STREAM : z # y => SameStage(z) /\ life'[z] = life[z]
  BY <1>5, CallerMoves
<1>7. ReviveOK(d, m)
  <2>1. SUFFICES ASSUME m = 1, call[d] = "revive_ctx" PROVE FALSE
    BY <1>1 DEF ProgramInv
  <2>2. todo'[d] = todo[d] /\ k = 1
    BY <1>1, <1>3, <2>1 DEF Was
  <2>3. d = c
    BY <1>2, <2>1, <2>2, CallerFrame
  <2>4. ReviveContext(c)
    BY <2>1, <2>3 DEF CallerStep, NullHandle, PushUnit, SetNewRank, CreateXstream, CreateFails,
       ChangeRank, JoinRequest, JoinUlt, JoinContext, JoinWake, JoinReturns, FreeRank, FreeContext,
       FreeDone, ReviveError, ReviveUlt, Cancel, BeginsOn, Begins, CallAt
  <2>5. todo'[c] = Tail(todo[c])
    BY <1>2, <2>4 DEF ReviveContext, EndCall, XstreamTypeInv
  <2>. QED  BY <1>3, <2>2, <2>3, <2>5, TailShorter
<1>8. ReviveOK(d, k)' <=> \/ JoinedBefore(todo'[d], k)
                          \/ life'[x] = "failed" \/ Ending(x)'
                          \/ AtRest(x)' /\ NotRevived(todo'[d], k)
                          \/ NeverStopped(todo', d, k) /\ NeverStops(x)'
  BY <1>1, <1>4 DEF ReviveOK, Ending, AtRest, EsAt, NeverStops
<1>9. CASE life[x] = "failed"
  <2>1. life'[x] = "failed"
    BY <1>6, <1>9 DEF LifeMove
  <2>. QED  BY <1>8, <2>1
<1>10. CASE Ending(x)
  <2>1. Ending(x)'
    BY <1>6, <1>10 DEF CallerMove, SameStage, Absent, Stopping, AtRest, Reviving, Ending, EsAt
  <2>. QED  BY <1>8, <2>1
<1>11. CASE AtRest(x) /\ NotRevived(todo[d], m)
  <2>1. NotRevived(todo'[d], k)
    BY <1>1, <1>3, <1>11, StillNotRevived
  <2>2. \/ AtRest(x)' \/ Ending(x)'
        \/ y = x /\ call'[c] = "revive_ctx" /\ Head(todo[c])[1] = "revive"
    BY <1>6, <1>11 DEF CallerMove, SameStage, Absent, Stopping, AtRest, Reviving, Ending, EsAt
  <2>3. ASSUME y = x, call'[c] = "revive_ctx", Head(todo[c])[1] = "revive" PROVE FALSE
    <3>1. IsCall(todo[c], 1, Exclusive, x) /\ IsCall(todo[d], m, Exclusive, x)
      BY <1>1, <1>2, <1>4, <1>5, <2>3 DEF IsCall, Exclusive
    <3>2. c = d
      BY <1>2, <3>1 DEF ProgramInv, OneOwner
    <3>3. m = k /\ k # 1
      BY <1>1, <2>3, <3>2 DEF Was
    <3>4. 1 \in 1 .. m - 1
      BY <1>3, <3>3
    <3>5. IsCall(todo[d], 1, {"revive"}, x)
      BY <1>2, <1>5, <2>3, <3>2 DEF IsCall
    <3>. QED  BY <1>4, <1>11, <3>4, <3>5 DEF NotRevived
  <2>. QED  BY <1>8, <2>1, <2>2, <2>3
<1>12. CASE NeverStopped(todo, d, m) /\ NeverStops(x)
  <2>1. NeverStopped(todo', d, k)
    BY <1>1, <1>3, <1>12, StillNeverStopped
  <2>2. NeverStops(x)'
    BY <1>1, <1>4, <1>12, NeverStopsKept
  <2>. QED  BY <1>8, <2>1, <2>2
<1>13. CASE JoinedBefore(todo[d], m)
  <2>1. CASE JoinedBefore(todo'[d], k)
    BY <1>8, <2>1
  <2>2. CASE /\ m = k + 1 /\ IsCall(todo[d], 1, {"join"}, x)
             /\ NotRevived(todo'[d], k)
    <3>1. d = c /\ EndCall(c) /\ call'[c] = "idle"
      BY <1>1, <1>3, <2>2, EndedOwn
    <3>2. Target(c) = x
      BY <1>2, <2>2, <3>1 DEF IsCall
    <3>3. \/ life[x] = "failed"
          \/ AtRest(x) /\ SameStage(x)
      BY <2>2, <3>1, <3>2, JoinEnds
    <3>4. AtRest(x) /\ SameStage(x) => AtRest(x)'
      BY DEF AtRest, EsAt, SameStage
    <3>. QED  BY <1>8, <1>9, <2>2, <3>3, <3>4
  <2>. QED  BY <1>1, <1>3, <1>4, <1>13, <2>1, <2>2, StillJoined
<1>. QED  BY <1>4, <1>7, <1>9, <1>10, <1>11, <1>12, <1>13 DEF ReviveOK

LEMMA CallerKeepsPrograms ==
    ASSUME XstreamTypeInv, StageInv, CallInv, ProgramInv, NEW c \in CALLER, CallerStep(c)
    PROVE  ProgramInv'
<1>1. /\ CallerOK(c) /\ todo[c] # <<>> /\ Target(c) \in STREAM
      /\ 1 \in DOMAIN todo[c] /\ todo[c][1] = Head(todo[c]) /\ todo[c][1][2] = Target(c)
  BY CallerFrame, CallOfEs DEF CallInv, Target
<1>2. PICK x \in STREAM : x = Target(c)
  BY <1>1
<1>3. OneOwner(todo') /\ NamesFresh(todo')
  BY ProgramsShorter DEF ProgramInv
<1>4. ASSUME NEW d \in CALLER, NEW k \in DOMAIN todo'[d], todo'[d][k][1] = "create"
      PROVE  life'[todo'[d][k][2]] = "none"
  <2>1. PICK m \in DOMAIN todo[d] : Was(d, k, m) /\ todo'[d][k] = todo[d][m] /\ m \in Nat
    BY WasBefore
  <2>2. todo[d][m] \in XstreamCall /\ k \in Nat \ {0}
    <3>1. todo[d] \in Seq(XstreamCall) /\ todo'[d] \in Seq(XstreamCall)
      BY CallerTypes, <1>1 DEF XstreamTypeInv
    <3>. QED  BY <3>1
  <2>3. PICK y \in STREAM : y = todo[d][m][2]
    BY <2>2 DEF XstreamCall
  <2>4. life[y] = "none"
    BY <1>4, <2>1, <2>3 DEF ProgramInv
  <2>5. CASE y # x
    BY <1>2, <2>1, <2>3, <2>4, <2>5, CallerMoves
  <2>6. CASE y = x /\ life'[x] # "none"
    <3>1. SetNewRank(c) \/ CreateXstream(c) \/ CreateFails(c)
      <4>1. life'[x] # life[x]
        BY <2>4, <2>6
      <4>2. ~FreeDone(c)
        BY <1>1, <1>2, <2>4, <2>6 DEF FreeDone, CallAt, CallerOK
      <4>. QED
        BY <4>1, <4>2 DEF CallerStep, NullHandle, PushUnit, ChangeRank, JoinRequest, JoinUlt,
           JoinContext, JoinWake, JoinReturns, FreeRank, FreeContext, ReviveError, ReviveUlt,
           ReviveContext, Cancel
    <3>2. todo[c][1][1] = "create" /\ todo[d][m][1] = "create" /\ todo[c][1][2] = todo[d][m][2]
      BY <1>1, <1>2, <1>4, <2>1, <2>3, <2>6, <3>1
      DEF SetNewRank, CreateXstream, CreateFails, CallAt, Begins, CallerOK, InCall
    <3>3. d = c /\ m = 1
      BY <1>1, <3>2 DEF ProgramInv, NamesFresh
    <3>4. EndCall(c)
      BY <2>4, <2>6, <3>1 DEF SetNewRank, CreateXstream, CreateFails
    <3>. QED  BY <1>1, <2>1, <2>2, <3>3, <3>4, EndedGone
  <2>. QED  BY <2>1, <2>3, <2>4, <2>5, <2>6
<1>5. ASSUME NEW d \in CALLER, NEW k \in DOMAIN todo'[d], todo'[d][k][1] = "push"
      PROVE  /\ todo'[d][k][3] \in UNIT
             /\ \A y \in STREAM : todo'[d][k][3] \notin Range(units'[y])
             /\ \A e \in CALLER : todo'[d][k][3] \notin owed'[e]
  <2>1. PICK m \in DOMAIN todo[d] : Was(d, k, m) /\ todo'[d][k] = todo[d][m] /\ m \in Nat
    BY WasBefore
  <2>2. k \in Nat \ {0}
    <3>1. todo'[d] \in Seq(XstreamCall)
      BY CallerTypes, <1>1 DEF XstreamTypeInv
    <3>. QED  BY <3>1
  <2>3. PICK u \in UNIT : u = todo[d][m][3]
    BY <1>5, <2>1 DEF ProgramInv
  <2>4. /\ \A y \in STREAM : u \notin Range(units[y])
        /\ \A e \in CALLER : u \notin owed[e]
    BY <1>5, <2>1, <2>3 DEF ProgramInv
  <2>5. ASSUME NEW y \in STREAM PROVE u \notin Range(units'[y])
    <3>1. CASE PushUnit(c)
      <4>1. /\ Argument(c) \in UNIT /\ todo[c][1][1] = "push" /\ Argument(c) = todo[c][1][3]
            /\ EndCall(c)
        BY <1>1, <3>1 DEF PushUnit, ProgramInv, Argument, BeginsOn, Begins
      <4>2. Argument(c) # u
        BY <1>1, <1>5, <2>1, <2>2, <2>3, <4>1, EndedGone DEF ProgramInv, NamesFresh
      <4>3. CASE y = x
        <5>1. Range(units'[y]) = Range(units[y]) \cup {Argument(c)}
          BY <1>2, <3>1, <4>1, <4>3, UnitAppended DEF PushUnit, XstreamTypeInv
        <5>. QED  BY <2>4, <4>2, <5>1
      <4>4. CASE y # x
        BY <1>2, <2>4, <3>1, <4>4 DEF PushUnit, XstreamTypeInv
      <4>. QED  BY <4>3, <4>4
    <3>2. CASE ~PushUnit(c)
      <4>1. UNCHANGED units
        BY <3>2 DEF CallerStep, NullHandle, SetNewRank, CreateXstream, CreateFails, ChangeRank,
           JoinRequest, JoinUlt, JoinContext, JoinWake, JoinReturns, FreeRank, FreeContext, FreeDone,
           ReviveError, ReviveUlt, ReviveContext, Cancel, schedVars
      <4>. QED  BY <2>4, <4>1
    <3>. QED  BY <3>1, <3>2
  <2>6. ASSUME NEW e \in CALLER PROVE u \notin owed'[e]
    <3>1. CASE JoinRequest(c) \/ JoinReturns(c)
      <4>1. owed'[e] \in {owed[e], {}, Range(units[x])}
        BY <1>2, <3>1 DEF JoinRequest, JoinReturns, XstreamTypeInv
      <4>. QED  BY <2>4, <4>1
    <3>2. CASE ~JoinRequest(c) /\ ~JoinReturns(c)
      <4>1. UNCHANGED owed
        BY <3>2 DEF CallerStep, NullHandle, PushUnit, SetNewRank, CreateXstream, CreateFails,
           ChangeRank, JoinUlt, JoinContext, JoinWake, FreeRank, FreeContext, FreeDone,
           ReviveError, ReviveUlt, ReviveContext, Cancel
      <4>. QED  BY <2>4, <4>1
    <3>. QED  BY <3>1, <3>2
  <2>. QED  BY <2>1, <2>3, <2>5, <2>6
<1>. QED  BY <1>3, <1>4, <1>5, ReviveKept DEF ProgramInv

LEMMA NativeKeepsPrograms ==
    ASSUME XstreamTypeInv, StageInv, CallInv, ProgramInv, NEW x \in STREAM, NativeStep(x)
    PROVE  ProgramInv'
<1>1. /\ NativeMove(x)
      /\ \A y \in STREAM \ {x} : SameStage(y)
      /\ UNCHANGED <<life, call, todo, owed>>
  BY NativeMoves
<1>2. ASSUME NEW y \in STREAM PROVE Range(units'[y]) \subseteq Range(units[y])
  <2>1. CASE RunUnit(x)
    <3>1. CASE y = x
      BY <2>1, <3>1, UnitTaken DEF RunUnit, XstreamTypeInv
    <3>2. CASE y # x
      BY <2>1, <3>2 DEF RunUnit, XstreamTypeInv
    <3>. QED  BY <3>1, <3>2
  <2>2. CASE ~RunUnit(x)
    BY <2>2 DEF NativeStep, RootPop, RunNothing, CheckEvents, HasToStop, AfterRun, RootEnd,
                NativeFinish, NativeWake, schedVars
  <2>. QED  BY <2>1, <2>2
<1>3. ASSUME NEW y \in STREAM, NeverStops(y) PROVE NeverStops(y)'
  <2>. USE DEF XstreamTypeInv, NeverStops, schedVars
  <2>1. CASE RunUnit(x)
    <3>1. CASE y = x
      <4>1. Head(units[x]) \notin EXITS
        BY <1>3, <2>1, <3>1, UnitTaken DEF RunUnit
      <4>. QED  BY <1>2, <1>3, <2>1, <3>1, <4>1 DEF RunUnit
    <3>2. CASE y # x
      BY <1>2, <1>3, <2>1, <3>2 DEF RunUnit
    <3>. QED  BY <3>1, <3>2
  <2>2. CASE RootPop(x)
    BY <1>3, <2>2 DEF RootPop
  <2>3. CASE CheckEvents(x)
    BY <1>3, <2>3 DEF CheckEvents
  <2>4. CASE AfterRun(x)
    <3>1. UNCHANGED <<request, sched_request, units>>
      BY <2>4 DEF AfterRun
    <3>2. main_sched'[y] # "TERMINATED"
      BY <1>3, <2>4 DEF AfterRun
    <3>. QED  BY <1>3, <3>1, <3>2
  <2>5. CASE ~RunUnit(x) /\ ~RootPop(x) /\ ~CheckEvents(x) /\ ~AfterRun(x)
    BY <1>3, <2>5 DEF NativeStep, RunNothing, HasToStop, RootEnd, NativeFinish, NativeWake
  <2>. QED  BY <2>1, <2>2, <2>3, <2>4, <2>5
<1>4. ASSUME NEW c \in CALLER, NEW k \in DOMAIN todo[c], ReviveOK(c, k)
      PROVE  ReviveOK(c, k)'
  <2>1. todo[c][k] \in XstreamCall
    <3>1. todo[c] \in Seq(XstreamCall)
      BY DEF XstreamTypeInv
    <3>. QED  BY <3>1
  <2>2. PICK y \in STREAM : y = todo[c][k][2]
    BY <2>1 DEF XstreamCall
  <2>3. Ending(y) => Ending(y)'
    BY <1>1 DEF NativeMove, SameStage, Starting, RunsUnits, Stopping, Revived, Ending, EsAt
  <2>4. AtRest(y) => AtRest(y)'
    BY <1>1 DEF NativeMove, SameStage, Starting, RunsUnits, Stopping, AtRest, Revived, Ending, EsAt
  <2>5. ReviveOK(c, k)' <=> \/ JoinedBefore(todo[c], k)
                            \/ life[y] = "failed" \/ Ending(y)'
                            \/ AtRest(y)' /\ NotRevived(todo[c], k)
                            \/ NeverStopped(todo, c, k) /\ NeverStops(y)'
    BY <1>1, <2>2 DEF ReviveOK, Ending, AtRest, EsAt, NeverStops
  <2>. QED  BY <1>3, <1>4, <2>2, <2>3, <2>4, <2>5 DEF ReviveOK
<1>5. ASSUME NEW c \in CALLER, NEW k \in DOMAIN todo[c]
      PROVE  /\ todo[c][k][1] = "create" => life[todo[c][k][2]] = "none"
             /\ todo[c][k][1] = "push" =>
                  /\ todo[c][k][3] \in UNIT
                  /\ \A y \in STREAM : todo[c][k][3] \notin Range(units'[y])
                  /\ \A d \in CALLER : todo[c][k][3] \notin owed[d]
  BY <1>2 DEF ProgramInv
<1>. QED  BY <1>1, <1>4, <1>5 DEF ProgramInv

-----------------------------------------------------------------------------
(* What a join leaves.                                                     *)

LEMMA NativeDrains ==
    ASSUME XstreamTypeInv, StageInv, CallInv, DrainInv, NEW x \in STREAM, NativeStep(x)
    PROVE  DrainInv'
<1>1. UNCHANGED <<life, call, todo, owed>>
  BY NativeMoves
<1>. USE DEF XstreamTypeInv, schedVars, callerVars
<1>2. ASSUME NEW y \in STREAM, "CANCEL" \in request'[y] PROVE y \in cancelled'
  <2>1. CASE RunUnit(x)
    BY <1>2, <2>1 DEF RunUnit, DrainInv
  <2>2. CASE ~RunUnit(x)
    BY <1>2, <2>2 DEF NativeStep, RootPop, RunNothing, CheckEvents, HasToStop, AfterRun, RootEnd,
                      NativeFinish, NativeWake, DrainInv
  <2>. QED  BY <2>1, <2>2
<1>3. cancelled \subseteq cancelled'
  BY DEF NativeStep, RootPop, RunUnit, RunNothing, CheckEvents, HasToStop, AfterRun, RootEnd,
         NativeFinish, NativeWake
<1>4. ASSUME NEW c \in CALLER, call'[c] \in JoinPoint, main_sched'[Target(c)'] = "TERMINATED",
             Target(c)' \notin cancelled'
      PROVE  owed'[c] \cap Range(units'[Target(c)']) = {}
  <2>1. CallerOK(c) /\ call[c] \in JoinPoint
    BY <1>1, <1>4 DEF CallInv
  <2>2. todo[c] # <<>>
    BY <2>1 DEF CallerOK, InCall
  <2>3. PICK y \in STREAM : y = Target(c) /\ y = Target(c)'
    BY <1>1, <2>2, CallOfEs DEF Target
  <2>4. y \notin cancelled
    BY <1>3, <1>4, <2>3
  <2>5. CASE main_sched[y] = "TERMINATED"
    <3>1. owed[c] \cap Range(units[y]) = {}
      BY <2>1, <2>3, <2>4, <2>5 DEF DrainInv
    <3>2. CASE RunUnit(x)
      <4>1. Range(units'[y]) \subseteq Range(units[y])
        <5>1. CASE y = x
          BY <3>2, <5>1, UnitTaken DEF RunUnit
        <5>2. CASE y # x
          BY <3>2, <5>2 DEF RunUnit
        <5>. QED  BY <5>1, <5>2
      <4>. QED  BY <1>1, <2>3, <3>1, <4>1
    <3>3. CASE ~RunUnit(x)
      <4>1. UNCHANGED units
        BY <3>3 DEF NativeStep, RootPop, RunNothing, CheckEvents, HasToStop, AfterRun, RootEnd,
                    NativeFinish, NativeWake
      <4>. QED  BY <1>1, <2>3, <3>1, <4>1
    <3>. QED  BY <3>2, <3>3
  <2>6. CASE main_sched[y] # "TERMINATED"
    <3>1. main_sched'[y] = "TERMINATED"
      BY <1>4, <2>3
    <3>2. AfterRun(x) /\ y = x
      BY <2>6, <3>1 DEF NativeStep, RootPop, RunUnit, RunNothing, CheckEvents, HasToStop, AfterRun,
                        RootEnd, NativeFinish, NativeWake
    <3>3. "CANCEL" \notin request[x]
      BY <2>4, <3>2 DEF DrainInv
    <3>4. units'[y] = <<>>
      BY <2>6, <3>1, <3>2, <3>3 DEF AfterRun
    <3>. QED  BY <2>3, <3>4 DEF Range
  <2>. QED  BY <2>5, <2>6
<1>. QED  BY <1>2, <1>4 DEF DrainInv

LEMMA CallerDrains ==
    ASSUME XstreamTypeInv, StageInv, CallInv, ProgramInv, DrainInv, NEW c \in CALLER, CallerStep(c)
    PROVE  DrainInv'
<1>1. /\ CallerOK(c) /\ todo[c] # <<>> /\ Target(c) \in STREAM
      /\ 1 \in DOMAIN todo[c] /\ todo[c][1] = Head(todo[c]) /\ todo[c][1][2] = Target(c)
  BY CallerFrame, CallOfEs DEF CallInv, Target
<1>2. PICK x \in STREAM : x = Target(c)
  BY <1>1
<1>3. XstreamTypeInv'
  BY <1>1, CallerTypes
<1>. USE DEF XstreamTypeInv, schedVars
<1>4. ASSUME NEW y \in STREAM, "CANCEL" \in request'[y] PROVE y \in cancelled'
  <2>1. CASE Cancel(c)
    BY <1>2, <1>4, <2>1 DEF Cancel, DrainInv
  <2>2. CASE ReviveUlt(c)
    BY <1>2, <1>4, <2>2 DEF ReviveUlt, DrainInv
  <2>3. CASE ~Cancel(c) /\ ~ReviveUlt(c)
    <3>1. UNCHANGED <<request, cancelled>>
      BY <2>3 DEF CallerStep, NullHandle, PushUnit, SetNewRank, CreateXstream, CreateFails, ChangeRank,
         JoinRequest, JoinUlt, JoinContext, JoinWake, JoinReturns, FreeRank, FreeContext, FreeDone,
         ReviveError, ReviveContext
    <3>. QED  BY <1>4, <3>1 DEF DrainInv
  <2>. QED  BY <2>1, <2>2, <2>3
<1>5. ASSUME NEW d \in CALLER, call'[d] \in JoinPoint, main_sched'[Target(d)'] = "TERMINATED",
             Target(d)' \notin cancelled'
      PROVE  owed'[d] \cap Range(units'[Target(d)']) = {}
  <2>1. todo'[d] = todo[d] /\ Target(d)' = Target(d)
    BY <1>1, <1>5, CallerFrame DEF Target, JoinPoint
  <2>2. todo[d] # <<>>
    BY <1>1, <1>5, <2>1, CallerOwnOK, CallerKeepsCalls DEF CallInv, CallerOK, InCall
  <2>3. PICK y \in STREAM : y = Target(d) /\ y = Target(d)'
    BY <2>1, <2>2, CallOfEs
  <2>4. CASE JoinRequest(c) /\ d = c
    <3>1. UNCHANGED <<main_sched, units>>
      BY <2>4 DEF JoinRequest
    <3>2. owed'[c] = {}
      BY <1>5, <2>3, <2>4, <3>1 DEF JoinRequest
    <3>. QED  BY <2>4, <3>2
  <2>5. CASE ~(JoinRequest(c) /\ d = c)
    <3>1. call[d] \in JoinPoint
      <4>1. CASE d # c
        BY <1>1, <1>5, <4>1, CallerFrame
      <4>2. CASE d = c
        <5>. USE DEF JoinPoint, CallAt, GoCall, EndCall
        <5>1. CASE JoinUlt(c) \/ JoinContext(c) \/ JoinWake(c) \/ JoinReturns(c)
          BY <4>2, <5>1 DEF JoinUlt, JoinContext, JoinWake, JoinReturns
        <5>2. CASE \/ NullHandle(c) \/ PushUnit(c) \/ SetNewRank(c) \/ CreateXstream(c)
                   \/ CreateFails(c) \/ ChangeRank(c) \/ ReviveError(c) \/ Cancel(c)
          BY <1>5, <4>2, <5>2 DEF NullHandle, PushUnit, SetNewRank, CreateXstream, CreateFails,
                                  ChangeRank, ReviveError, Cancel
        <5>3. CASE \/ FreeRank(c) \/ FreeContext(c) \/ FreeDone(c) \/ ReviveUlt(c)
                   \/ ReviveContext(c)
          BY <1>5, <4>2, <5>3 DEF FreeRank, FreeContext, FreeDone, ReviveUlt, ReviveContext
        <5>. QED  BY <2>5, <4>2, <5>1, <5>2, <5>3 DEF CallerStep
      <4>. QED  BY <4>1, <4>2
    <3>2. owed'[d] \subseteq owed[d]
      <4>1. CASE JoinRequest(c)
        BY <2>5, <4>1 DEF JoinRequest
      <4>2. CASE JoinReturns(c)
        BY <4>2 DEF JoinReturns
      <4>3. CASE ~JoinRequest(c) /\ ~JoinReturns(c)
        BY <4>3 DEF CallerStep, NullHandle, PushUnit, SetNewRank, CreateXstream, CreateFails,
           ChangeRank, JoinUlt, JoinContext, JoinWake, FreeRank, FreeContext, FreeDone,
           ReviveError, ReviveUlt, ReviveContext, Cancel
      <4>. QED  BY <4>1, <4>2, <4>3
    <3>3. CASE ReviveUlt(c)
      <4>1. y # x
        BY <1>2, <1>5, <2>3, <3>3 DEF ReviveUlt
      <4>2. main_sched[y] = "TERMINATED" /\ y \notin cancelled /\ units'[y] = units[y]
        BY <1>2, <1>5, <2>3, <3>3, <4>1 DEF ReviveUlt
      <4>3. owed[d] \cap Range(units[y]) = {}
        BY <2>3, <3>1, <4>2 DEF DrainInv
      <4>. QED  BY <2>3, <3>2, <4>2, <4>3
    <3>4. CASE ~ReviveUlt(c)
      <4>1. main_sched'[y] = main_sched[y] /\ y \notin cancelled
        <5>1. UNCHANGED main_sched /\ cancelled \subseteq cancelled'
          BY <3>4 DEF CallerStep, NullHandle, PushUnit, SetNewRank, CreateXstream, CreateFails,
             ChangeRank, JoinRequest, JoinUlt, JoinContext, JoinWake, JoinReturns, FreeRank,
             FreeContext, FreeDone, ReviveError, ReviveContext, Cancel
        <5>. QED  BY <1>5, <2>3, <5>1
      <4>2. owed[d] \cap Range(units[y]) = {}
        BY <1>5, <2>3, <3>1, <4>1 DEF DrainInv
      <4>3. CASE PushUnit(c)
        <5>1. /\ Argument(c) \in UNIT /\ todo[c][1][1] = "push" /\ Argument(c) = todo[c][1][3]
          BY <1>1, <4>3 DEF PushUnit, ProgramInv, Argument, BeginsOn, Begins
        <5>2. Argument(c) \notin owed[d]
          BY <1>1, <5>1 DEF ProgramInv
        <5>3. CASE y = x
          <6>1. Range(units'[y]) = Range(units[y]) \cup {Argument(c)}
            BY <1>2, <4>3, <5>1, <5>3, UnitAppended DEF PushUnit
          <6>. QED  BY <2>3, <3>2, <4>2, <5>2, <6>1
        <5>4. CASE y # x
          <6>1. units'[y] = units[y]
            BY <1>2, <4>3, <5>4 DEF PushUnit
          <6>. QED  BY <2>3, <3>2, <4>2, <6>1
        <5>. QED  BY <5>3, <5>4
      <4>4. CASE ~PushUnit(c)
        <5>1. UNCHANGED units
          BY <4>4 DEF CallerStep, NullHandle, SetNewRank, CreateXstream, CreateFails, ChangeRank,
             JoinRequest, JoinUlt, JoinContext, JoinWake, JoinReturns, FreeRank, FreeContext, FreeDone,
             ReviveError, ReviveUlt, ReviveContext, Cancel
        <5>. QED  BY <2>3, <3>2, <4>2, <5>1
      <4>. QED  BY <4>3, <4>4
    <3>. QED  BY <3>3, <3>4
  <2>. QED  BY <2>4, <2>5
<1>. QED  BY <1>4, <1>5 DEF DrainInv

-----------------------------------------------------------------------------
(* The invariant.                                                          *)

LEMMA XstreamInitInv == XstreamInit => XstreamInv
<1>. SUFFICES ASSUME XstreamInit PROVE XstreamInv
  OBVIOUS
<1>1. LegalUse(todo)
  BY XstreamAssumption DEF XstreamInit
<1>2. XstreamTypeInv
  <2>1. todo \in [CALLER -> Seq(XstreamCall)]
    BY <1>1 DEF LegalUse
  <2>. QED  BY <2>1 DEF XstreamInit, XstreamTypeInv, NativePoint, CallerPoint
<1>3. \A x \in STREAM : Absent(x)
  BY DEF XstreamInit, Absent, EsAt
<1>4. CallInv
  <2>1. \A c \in CALLER : call[c] = "idle"
    BY DEF XstreamInit
  <2>2. \A c \in CALLER : CallerOK(c)
    BY <2>1 DEF CallerOK, JoinPoint
  <2>. QED  BY <1>3, <2>2 DEF CallInv, Absent, Reviving, Ending, EsAt
<1>5. ASSUME NEW c \in CALLER, NEW k \in DOMAIN todo[c]
      PROVE  /\ todo[c][k][1] = "create" => life[todo[c][k][2]] = "none"
             /\ todo[c][k][1] = "push" =>
                  /\ todo[c][k][3] \in UNIT
                  /\ \A x \in STREAM : todo[c][k][3] \notin Range(units[x])
                  /\ \A d \in CALLER : todo[c][k][3] \notin owed[d]
             /\ todo[c][k][1] = "revive" => ReviveOK(c, k)
  <2>1. todo[c][k] \in XstreamCall
    <3>1. todo[c] \in Seq(XstreamCall)
      BY <1>2 DEF XstreamTypeInv
    <3>. QED  BY <3>1
  <2>2. PICK x \in STREAM : x = todo[c][k][2]
    BY <2>1 DEF XstreamCall
  <2>3. NeverStops(x)
    BY DEF XstreamInit, NeverStops, Range
  <2>4. todo[c][k][1] = "revive" => ReviveOK(c, k)
    BY <1>1, <2>2, <2>3 DEF LegalUse, ReviveOK
  <2>5. todo[c][k][1] = "create" => life[x] = "none"
    BY <1>1, <2>2 DEF LegalUse, Accepted, XstreamInit
  <2>6. todo[c][k][1] = "push" => todo[c][k][3] \in UNIT
    BY <1>1 DEF LegalUse, Accepted
  <2>7. \A y \in STREAM : Range(units[y]) = {}
    BY DEF XstreamInit, Range
  <2>8. \A d \in CALLER : owed[d] = {}
    BY DEF XstreamInit
  <2>. QED  BY <2>2, <2>4, <2>5, <2>6, <2>7, <2>8
<1>6. DrainInv
  BY DEF XstreamInit, DrainInv, JoinPoint
<1>7. StageInv
  BY <1>3 DEF StageInv
<1>. QED  BY <1>1, <1>2, <1>4, <1>5, <1>6, <1>7 DEF XstreamInv, ProgramInv, LegalUse

LEMMA XstreamNextInv == XstreamInv /\ [XstreamNext]_xstreamVars => XstreamInv'
<1>. SUFFICES ASSUME XstreamInv, [XstreamNext]_xstreamVars PROVE XstreamInv'
  OBVIOUS
<1>. USE DEF XstreamInv
<1>1. ASSUME NEW c \in CALLER, CallerStep(c) PROVE XstreamInv'
  <2>1. CallerOK(c)
    BY DEF CallInv
  <2>. QED  BY <1>1, <2>1, CallerTypes, CallerKeepsCalls, CallerKeepsPrograms, CallerDrains
<1>2. ASSUME NEW x \in STREAM, NativeStep(x) PROVE XstreamInv'
  BY <1>2, NativeTypes, NativeKeepsCalls, NativeKeepsPrograms, NativeDrains
<1>3. CASE UNCHANGED <<life, ctx_state, es_state, native, schedVars, callerVars>>
  <2>1. XstreamTypeInv'
    BY <1>3 DEF XstreamTypeInv, schedVars, callerVars
  <2>. USE <1>3 DEF schedVars, callerVars
  <2>2. StageInv' /\ CallInv'
    BY DEF StageInv, CallInv, CallerOK, CalledAt, InCall, Target, Absent, Starting, RunsUnits,
           Stopping, AtRest, Reviving, Revived, Ending, EsAt
  <2>3. ProgramInv'
    BY DEF ProgramInv, ReviveOK, NeverStops, AtRest, Ending, EsAt
  <2>4. DrainInv'
    BY DEF DrainInv, Target
  <2>. QED  BY <2>1, <2>2, <2>3, <2>4
<1>4. ASSUME NEW x \in STREAM, SpuriousWake(x) PROVE XstreamInv'
  BY <1>3, <1>4 DEF SpuriousWake
<1>5. CASE UNCHANGED xstreamVars
  BY <1>3, <1>5 DEF xstreamVars, ctxVars
<1>. QED  BY <1>1, <1>2, <1>4, <1>5 DEF XstreamNext

LEMMA XstreamInvariance == XstreamSpec => []XstreamInv
BY XstreamInitInv, XstreamNextInv, PTL DEF XstreamSpec

(* An ES that is joined has run the units that were in its pool when the   *)
(* join began, unless it had stopped or was cancelled, whoever pushes      *)
(* meanwhile.                                                              *)
THEOREM StreamsDrained == XstreamSpec => []JoinDrains
<1>1. XstreamInv => JoinDrains
  BY DEF XstreamInv, DrainInv, CallInv, CallerOK, JoinDrains, JoinPoint, AtRest, EsAt
<1>. QED  BY <1>1, XstreamInvariance, PTL

(* The assertions of the native threads and of those who join and revive   *)
(* them hold where they are evaluated.                                     *)
THEOREM StreamAssertions == XstreamSpec => []ContextAssertions
<1>1. XstreamInv => ContextAssertions
  <2>. SUFFICES ASSUME XstreamInv PROVE ContextAssertions
    OBVIOUS
  <2>. USE DEF XstreamInv, XstreamTypeInv, Absent, Starting, RunsUnits, Stopping, AtRest, Reviving,
               Revived, Ending, EsAt
  <2>1. ASSUME NEW x \in STREAM, native[x] = "start"
        PROVE  ctx_state[x] = "RUNNING" /\ es_state[x] = "RUNNING"
    BY <2>1 DEF StageInv
  <2>2. ASSUME NEW c \in CALLER, call[c] \in {"joined", "free", "free_ctx", "revive_ctx"}
        PROVE  /\ ctx_state[Target(c)] = "WAITING"
               /\ call[c] = "joined" => es_state[Target(c)] = "TERMINATED"
    BY <2>2 DEF CallInv, CallerOK
  <2>3. ASSUME NEW c \in CALLER, call[c] = "join_ctx"
        PROVE  ctx_state[Target(c)] \in {"WAITING", "RUNNING"}
    <3>1. /\ CallerOK(c) /\ InCall(c, Exclusive) /\ todo[c] # <<>> /\ Target(c) \in STREAM
      BY <2>3, BusyExclusive, CallOfEs DEF CallInv
    <3>2. main_sched[Target(c)] = "TERMINATED" /\ life[Target(c)] = "live"
      BY <2>3, <3>1 DEF CallerOK
    <3>3. ~CalledAt(Target(c), "join_sleep") /\ ~CalledAt(Target(c), "free_join")
      <4>1. SUFFICES ASSUME NEW d \in CALLER, call[d] \in {"join_sleep", "free_join"},
                            Target(d) = Target(c)
                     PROVE  FALSE
        BY DEF CalledAt
      <4>2. CallerOK(d) /\ InCall(d, Exclusive)
        BY <4>1, BusyExclusive DEF CallInv
      <4>. QED  BY <2>3, <3>1, <4>1, <4>2, AloneOnEs DEF ProgramInv
    <3>. QED  BY <3>1, <3>2, <3>3 DEF CallInv, StageInv
  <2>. QED  BY <2>1, <2>2, <2>3 DEF ContextAssertions
<1>. QED  BY <1>1, XstreamInvariance, PTL

-----------------------------------------------------------------------------
(* The list of ESs.  Where p_xstream_head and the links of the ESs hold a  *)
(* sequence s, Order is that sequence, and the functions that add an ES and*)
(* remove one do so to the sequence.                                       *)

IsList(l, s) ==
    /\ s \in Seq(STREAM) /\ Len(s) >= 1
    /\ l.head = s[1]
    /\ \A k \in 1 .. Len(s) :
         /\ l.next[s[k]] = IF k = Len(s) THEN NOSTREAM ELSE s[k + 1]
         /\ l.prev[s[k]] = IF k = 1 THEN NOSTREAM ELSE s[k - 1]

ListLinks == [head : STREAM \cup {NOSTREAM}, next : [STREAM -> STREAM \cup {NOSTREAM}],
          prev : [STREAM -> STREAM \cup {NOSTREAM}]]

Ascending(s, r) == \A j, k \in 1 .. Len(s) : j < k => r[s[j]] < r[s[k]]

(* x is put at place p of s; place p is taken out of it.                   *)
Placed(s, p, x) ==
    [k \in 1 .. Len(s) + 1 |-> IF k < p THEN s[k] ELSE IF k = p THEN x ELSE s[k - 1]]

Without(s, p) == [k \in 1 .. Len(s) - 1 |-> IF k < p THEN s[k] ELSE s[k + 1]]

LEMMA AscendingOnce ==
    ASSUME NEW s \in Seq(STREAM), NEW r \in [STREAM -> Nat], Ascending(s, r)
    PROVE  \A j, k \in 1 .. Len(s) : s[j] = s[k] => j = k
<1>. SUFFICES ASSUME NEW j \in 1 .. Len(s), NEW k \in 1 .. Len(s), s[j] = s[k], j # k
              PROVE  FALSE
  OBVIOUS
<1>1. r[s[j]] \in Nat /\ r[s[k]] \in Nat /\ (j < k \/ k < j)
  OBVIOUS
<1>. QED  BY <1>1 DEF Ascending

LEMMA ListFits ==
    ASSUME NEW s \in Seq(STREAM), \A j, k \in 1 .. Len(s) : s[j] = s[k] => j = k
    PROVE  Cardinality(STREAM) \in Nat /\ Len(s) <= Cardinality(STREAM)
<1>1. IsFiniteSet(STREAM)
  BY XstreamAssumption
<1>2. s \in Injection(1 .. Len(s), STREAM)
  BY DEF Injection, IsInjective
<1>3. Cardinality(1 .. Len(s)) = Len(s)
  BY FS_Interval
<1>. QED  BY <1>1, <1>2, <1>3, FS_Injection, FS_CardinalityType

(* Whoever follows p_next from the head meets the ESs of the list, then no *)
(* ES.                                                                     *)
LEMMA OrderOfList ==
    ASSUME NEW l, NEW s, IsList(l, s), \A j, k \in 1 .. Len(s) : s[j] = s[k] => j = k
    PROVE  Order(l) = s
<1>. DEFINE N == Cardinality(STREAM)
            P(f) == IsWalk(f, N, l.head, l.next, NOSTREAM)
            w == CHOOSE f : P(f)
<1>1. /\ s \in Seq(STREAM) /\ Len(s) \in Nat \ {0} /\ N \in Nat /\ Len(s) <= N
      /\ DOMAIN s = 1 .. Len(s) /\ NOSTREAM \notin STREAM
  BY ListFits, XstreamAssumption DEF IsList
<1>2. Order(l) = [k \in 1 .. Cardinality({j \in 1 .. N : w[j] # NOSTREAM}) |-> w[k]]
  BY DEF Order, IsWalk
<1>. HIDE DEF N
<1>3. ChainFrom(s, l.head, l.next, NOSTREAM)
  <2>1. s # <<>>
    BY <1>1
  <2>2. l.head = s[1] /\ \A k \in 1 .. Len(s) : l.next[s[k]] = IF k = Len(s) THEN NOSTREAM
                                                                            ELSE s[k + 1]
    BY DEF IsList
  <2>. QED  BY <2>1, <2>2 DEF ChainFrom
<1>4. \E f : P(f)
  BY <1>1, <1>3, FollowList
<1>5. P(w)
  <2>. HIDE DEF P
  <2>. QED  BY <1>4
<1>. HIDE DEF w
<1>6. \A k \in 1 .. N : w[k] = IF k <= Len(s) THEN s[k] ELSE NOSTREAM
  BY <1>1, <1>3, <1>5, FollowList
<1>7. {j \in 1 .. N : w[j] # NOSTREAM} = 1 .. Len(s)
  <2>1. ASSUME NEW j \in 1 .. N PROVE w[j] # NOSTREAM <=> j <= Len(s)
    <3>1. j <= Len(s) => s[j] \in STREAM
      BY <1>1
    <3>. QED  BY <1>1, <1>6, <3>1
  <2>. QED  BY <1>1, <2>1
<1>8. Cardinality({j \in 1 .. N : w[j] # NOSTREAM}) = Len(s)
  <2>1. Cardinality(1 .. Len(s)) = Len(s)
    BY <1>1, FS_Interval
  <2>. QED  BY <1>7, <2>1
<1>9. \A k \in 1 .. Len(s) : w[k] = s[k]
  BY <1>1, <1>6
<1>10. s = [k \in 1 .. Len(s) |-> s[k]]
  BY <1>1
<1>. QED  BY <1>2, <1>8, <1>9, <1>10

LEMMA PlacedIn ==
    ASSUME NEW s \in Seq(STREAM), NEW p \in 1 .. Len(s) + 1, NEW x \in STREAM
    PROVE  /\ Placed(s, p, x) \in Seq(STREAM) /\ Len(Placed(s, p, x)) = Len(s) + 1
           /\ Range(Placed(s, p, x)) = Range(s) \cup {x}
<1>. DEFINE q == Placed(s, p, x)
<1>1. Len(s) \in Nat /\ DOMAIN s = 1 .. Len(s) /\ \A k \in 1 .. Len(s) : s[k] \in STREAM
  OBVIOUS
<1>2. ASSUME NEW k \in 1 .. Len(s) + 1
      PROVE  q[k] = (IF k < p THEN s[k] ELSE IF k = p THEN x ELSE s[k - 1]) /\ q[k] \in STREAM
  <2>1. k < p => k \in 1 .. Len(s)
    BY <1>1
  <2>2. ~(k < p) /\ k # p => k - 1 \in 1 .. Len(s)
    BY <1>1
  <2>. QED  BY <1>1, <2>1, <2>2 DEF Placed
<1>3. q \in [1 .. Len(s) + 1 -> STREAM]
  BY <1>2 DEF Placed
<1>4. q \in Seq(STREAM) /\ Len(q) = Len(s) + 1
  BY <1>1, <1>3
<1>5. Range(q) \subseteq Range(s) \cup {x}
  <2>. SUFFICES ASSUME NEW k \in 1 .. Len(s) + 1 PROVE q[k] \in Range(s) \cup {x}
    BY <1>3 DEF Range
  <2>1. k < p => k \in 1 .. Len(s)
    BY <1>1
  <2>2. ~(k < p) /\ k # p => k - 1 \in 1 .. Len(s)
    BY <1>1
  <2>. QED  BY <1>1, <1>2, <2>1, <2>2 DEF Range
<1>6. Range(s) \cup {x} \subseteq Range(q)
  <2>1. x \in Range(q)
    <3>1. q[p] = x /\ p \in DOMAIN q
      BY <1>1, <1>2, <1>3
    <3>. QED  BY <3>1 DEF Range
  <2>2. ASSUME NEW k \in 1 .. Len(s) PROVE s[k] \in Range(q)
    <3>1. CASE k < p
      <4>1. k \in DOMAIN q /\ q[k] = s[k]
        BY <1>1, <1>2, <1>3, <3>1
      <4>. QED  BY <4>1 DEF Range
    <3>2. CASE ~(k < p)
      <4>1. k + 1 \in 1 .. Len(s) + 1 /\ ~(k + 1 < p) /\ k + 1 # p /\ (k + 1) - 1 = k
        BY <1>1, <3>2
      <4>2. k + 1 \in DOMAIN q /\ q[k + 1] = s[k]
        BY <1>2, <1>3, <4>1
      <4>. QED  BY <4>2 DEF Range
    <3>. QED  BY <3>1, <3>2
  <2>. QED  BY <1>1, <2>1, <2>2 DEF Range
<1>. QED  BY <1>4, <1>5, <1>6

LEMMA WithoutOf ==
    ASSUME NEW s \in Seq(STREAM), NEW p \in 1 .. Len(s),
           \A j, k \in 1 .. Len(s) : s[j] = s[k] => j = k
    PROVE  /\ Without(s, p) \in Seq(STREAM) /\ Len(Without(s, p)) = Len(s) - 1
           /\ Range(Without(s, p)) = Range(s) \ {s[p]}
<1>. DEFINE q == Without(s, p)
<1>1. Len(s) \in Nat /\ Len(s) - 1 \in Nat /\ DOMAIN s = 1 .. Len(s)
      /\ \A k \in 1 .. Len(s) : s[k] \in STREAM
  OBVIOUS
<1>2. ASSUME NEW k \in 1 .. Len(s) - 1
      PROVE  q[k] = (IF k < p THEN s[k] ELSE s[k + 1]) /\ q[k] \in STREAM
  BY <1>1 DEF Without
<1>3. q \in [1 .. Len(s) - 1 -> STREAM]
  BY <1>2 DEF Without
<1>4. q \in Seq(STREAM) /\ Len(q) = Len(s) - 1
  <2>. DEFINE n == Len(s) - 1
  <2>1. n \in Nat /\ q \in [1 .. n -> STREAM]
    BY <1>1, <1>3
  <2>. HIDE DEF n, q
  <2>2. q \in Seq(STREAM) /\ Len(q) = n
    BY <2>1
  <2>. QED  BY <2>2 DEF n
<1>5. Range(q) \subseteq Range(s) \ {s[p]}
  <2>. SUFFICES ASSUME NEW k \in 1 .. Len(s) - 1 PROVE q[k] \in Range(s) \ {s[p]}
    BY <1>3 DEF Range
  <2>1. k \in 1 .. Len(s) /\ k + 1 \in 1 .. Len(s) /\ (k < p => k # p) /\ (~(k < p) => k + 1 # p)
    BY <1>1
  <2>. QED  BY <1>1, <1>2, <2>1 DEF Range
<1>6. Range(s) \ {s[p]} \subseteq Range(q)
  <2>. SUFFICES ASSUME NEW k \in 1 .. Len(s), k # p PROVE s[k] \in Range(q)
    BY <1>1 DEF Range
  <2>1. CASE k < p
    <3>1. k \in DOMAIN q /\ q[k] = s[k]
      BY <1>1, <1>2, <1>3, <2>1
    <3>. QED  BY <3>1 DEF Range
  <2>2. CASE ~(k < p)
    <3>1. k - 1 \in 1 .. Len(s) - 1 /\ ~(k - 1 < p) /\ (k - 1) + 1 = k
      BY <1>1, <2>2
    <3>2. k - 1 \in DOMAIN q /\ q[k - 1] = s[k]
      BY <1>2, <1>3, <3>1
    <3>. QED  BY <3>2 DEF Range
  <2>. QED  BY <2>1, <2>2
<1>. QED  BY <1>4, <1>5, <1>6

(* Adding an ES of a rank that none of the list has, all being behind the  *)
(* first.                                                                  *)
LEMMA AddsInOrder ==
    ASSUME NEW l \in ListLinks, NEW s, IsList(l, s), NEW r \in [STREAM -> Nat], Ascending(s, r),
           NEW x \in STREAM, x \notin Range(s), r[s[1]] < r[x],
           \A y \in Range(s) : r[y] # r[x]
    PROVE  /\ AddToList(l, r, x) \in ListLinks
           /\ \E p \in 2 .. Len(s) + 1 : /\ IsList(AddToList(l, r, x), Placed(s, p, x))
                                        /\ Ascending(Placed(s, p, x), r)
<1>. DEFINE n == Len(s)
            later == {k \in 1 .. n : r[s[k]] > r[x]}
            p == IF later = {} THEN n + 1 ELSE Min(later)
            q == Placed(s, p, x)
            m == AddToList(l, r, x)
<1>s. s \in Seq(STREAM) /\ n \in Nat /\ n >= 1 /\ DOMAIN s = 1 .. n /\ n = Len(s)
  BY DEF IsList
<1>2. \A j, k \in 1 .. n : s[j] = s[k] => j = k
  BY <1>s, AscendingOnce
<1>3. Order(l) = s
  BY <1>2, OrderOfList
<1>l. /\ l.head = s[1]
      /\ \A k \in 1 .. n : /\ l.next[s[k]] = IF k = n THEN NOSTREAM ELSE s[k + 1]
                           /\ l.prev[s[k]] = IF k = 1 THEN NOSTREAM ELSE s[k - 1]
  BY DEF IsList
<1>a. \A j, k \in 1 .. n : j < k => r[s[j]] < r[s[k]]
  BY DEF Ascending
<1>. HIDE DEF n
<1>e. \A k \in 1 .. n : s[k] \in STREAM
  BY <1>s
<1>r. r[x] \in Nat /\ \A k \in 1 .. n : r[s[k]] \in Nat
  BY <1>e
<1>x. \A k \in 1 .. n : s[k] # x /\ r[s[k]] # r[x]
  BY <1>s DEF Range
<1>4. later # {} => Min(later) \in later /\ \A k \in later : Min(later) <= k
  <2>. SUFFICES ASSUME later # {} PROVE \E i \in later : \A k \in later : i <= k
    BY DEF Min
  <2>1. later \subseteq Nat
    OBVIOUS
  <2>2. PICK i \in later : \A k \in later : <<k, i>> \notin LessThan
    <3>. HIDE DEF later
    <3>. QED  BY <2>1, LessThanWellFounded, WFMin
  <2>3. ASSUME NEW k \in later PROVE i <= k
    <3>1. i \in Nat /\ k \in Nat /\ <<k, i>> \notin LessThan
      BY <2>1, <2>2
    <3>. QED  BY <3>1 DEF LessThan
  <2>. QED  BY <2>3
<1>5. /\ p \in 2 .. n + 1 /\ p \in Nat
      /\ later = {} <=> p = n + 1
      /\ \A k \in 1 .. n : k < p => r[s[k]] < r[x]
      /\ \A k \in 1 .. n : ~(k < p) => r[x] < r[s[k]]
  <2>1. CASE later = {}
    <3>1. p = n + 1 /\ \A k \in 1 .. n : ~(r[s[k]] > r[x])
      BY <2>1
    <3>2. \A k \in 1 .. n : r[s[k]] < r[x]
      BY <1>r, <1>x, <3>1
    <3>. HIDE DEF later, p
    <3>. QED  BY <1>s, <2>1, <3>1, <3>2
  <2>2. CASE later # {}
    <3>1. p = Min(later)
      BY <2>2
    <3>2. p \in 1 .. n /\ r[s[p]] > r[x] /\ \A k \in 1 .. n : r[s[k]] > r[x] => p <= k
      <4>1. p \in later /\ \A k \in later : p <= k
        BY <1>4, <2>2, <3>1
      <4>. HIDE DEF p
      <4>. QED  BY <4>1
    <3>. HIDE DEF later, p
    <3>3. p # 1 /\ p # n + 1
      BY <1>r, <1>s, <3>2
    <3>4. ASSUME NEW k \in 1 .. n, k < p PROVE r[s[k]] < r[x]
      <4>1. ~(r[s[k]] > r[x])
        BY <3>2, <3>4
      <4>. QED  BY <1>r, <1>x, <4>1
    <3>5. ASSUME NEW k \in 1 .. n, ~(k < p) PROVE r[x] < r[s[k]]
      <4>1. CASE k = p
        BY <1>r, <3>2, <4>1
      <4>2. CASE p < k
        <5>1. r[s[p]] < r[s[k]]
          BY <1>a, <3>2, <4>2
        <5>. QED  BY <1>r, <3>2, <5>1
      <4>. QED  BY <3>2, <3>5, <4>1, <4>2
    <3>6. p \in 2 .. n + 1 /\ p \in Nat
      BY <1>s, <3>2, <3>3
    <3>. QED  BY <2>2, <3>3, <3>4, <3>5, <3>6
  <2>. QED  BY <2>1, <2>2
<1>n. /\ n \in Nat /\ n >= 1 /\ p \in Nat /\ p >= 2 /\ p <= n + 1
      /\ p - 1 \in 1 .. n /\ (p # n + 1 => p \in 1 .. n) /\ p # 1
  <2>. HIDE DEF p, later
  <2>. QED  BY <1>s, <1>5
<1>6. /\ p = n + 1 =>
           m = [l EXCEPT !.next[s[n]] = x, !.prev[x] = s[n], !.next[x] = NOSTREAM]
      /\ p # n + 1 =>
           m = [l EXCEPT !.next[s[p - 1]] = x, !.prev[x] = s[p - 1], !.prev[s[p]] = x,
                         !.next[x] = s[p]]
  <2>1. CASE later = {}
    <3>1. p = n + 1
      BY <2>1
    <3>2. m = [l EXCEPT !.next[s[n]] = x, !.prev[x] = s[n], !.next[x] = NOSTREAM]
      BY <1>3, <2>1 DEF AddToList, n
    <3>. QED  BY <3>1, <3>2
  <2>2. CASE later # {}
    <3>1. p = Min(later)
      BY <2>2
    <3>2. p # n + 1
      BY <1>5, <2>2
    <3>3. p \in 1 .. n /\ p # 1 /\ p - 1 \in 1 .. n
      BY <1>n, <3>2
    <3>4. l.prev[s[p]] = s[p - 1]
      BY <1>l, <3>3
    <3>5. s[p - 1] # NOSTREAM
      BY <1>e, <3>3, XstreamAssumption
    <3>6. later = {k \in 1 .. Len(s) : r[s[k]] > r[x]}
      BY DEF n
    <3>. HIDE DEF p
    <3>7. p = Min({k \in 1 .. Len(s) : r[s[k]] > r[x]}) /\ {k \in 1 .. Len(s) : r[s[k]] > r[x]} # {}
      BY <2>2, <3>1, <3>6
    <3>8. m = [l EXCEPT !.next[s[p - 1]] = x, !.prev[x] = s[p - 1], !.prev[s[p]] = x,
                        !.next[x] = s[p]]
      BY <1>3, <3>4, <3>5, <3>7 DEF AddToList
    <3>. QED  BY <3>2, <3>8
  <2>. QED  BY <2>1, <2>2
<1>. HIDE DEF p, m, later
<1>7. /\ q \in Seq(STREAM) /\ Len(q) = n + 1
      /\ \A k \in 1 .. n + 1 : q[k] = IF k < p THEN s[k] ELSE IF k = p THEN x ELSE s[k - 1]
  <2>1. q \in Seq(STREAM) /\ Len(q) = n + 1
    BY <1>s, <1>5, PlacedIn
  <2>2. q = [k \in 1 .. n + 1 |-> IF k < p THEN s[k] ELSE IF k = p THEN x ELSE s[k - 1]]
    BY <1>s DEF Placed
  <2>. QED  BY <2>1, <2>2
<1>. HIDE DEF q
<1>q. /\ \A k \in 1 .. n : k < p => q[k] = s[k]
      /\ q[p] = x
      /\ \A k \in 1 .. n : ~(k < p) => q[k + 1] = s[k]
  <2>1. ASSUME NEW k \in 1 .. n, k < p PROVE q[k] = s[k]
    <3>1. k \in 1 .. n + 1
      BY <1>n
    <3>. QED  BY <1>7, <2>1, <3>1
  <2>2. q[p] = x
    <3>1. p \in 1 .. n + 1 /\ ~(p < p)
      BY <1>n
    <3>. QED  BY <1>7, <3>1
  <2>3. ASSUME NEW k \in 1 .. n, ~(k < p) PROVE q[k + 1] = s[k]
    <3>1. k + 1 \in 1 .. n + 1 /\ ~(k + 1 < p) /\ k + 1 # p /\ (k + 1) - 1 = k
      BY <1>n, <2>3
    <3>. QED  BY <1>7, <3>1
  <2>. QED  BY <2>1, <2>2, <2>3
<1>c. ASSUME NEW k \in 1 .. n + 1
      PROVE  \/ k \in 1 .. n /\ k < p
             \/ k = p
             \/ \E i \in 1 .. n : k = i + 1 /\ ~(i < p)
  <2>1. p < k => k - 1 \in 1 .. n /\ k = (k - 1) + 1 /\ ~(k - 1 < p)
    BY <1>n
  <2>2. k < p => k \in 1 .. n
    BY <1>n
  <2>3. k < p \/ k = p \/ p < k
    BY <1>n
  <2>. QED  BY <2>1, <2>2, <2>3
<1>8. Ascending(q, r)
  <2>. SUFFICES ASSUME NEW j \in 1 .. n + 1, NEW k \in 1 .. n + 1, j < k
                PROVE  r[q[j]] < r[q[k]]
    BY <1>7 DEF Ascending
  <2>1. CASE k \in 1 .. n /\ k < p
    <3>1. j \in 1 .. n /\ j < p
      BY <1>n, <2>1
    <3>. QED  BY <1>a, <1>q, <2>1, <3>1
  <2>2. CASE k = p
    <3>1. j \in 1 .. n /\ j < p
      BY <1>n, <2>2
    <3>. QED  BY <1>5, <1>q, <2>2, <3>1
  <2>3. ASSUME NEW i \in 1 .. n, k = i + 1, ~(i < p) PROVE r[q[j]] < r[q[k]]
    <3>1. CASE j \in 1 .. n /\ j < p
      <4>1. j < i
        BY <1>n, <2>3, <3>1
      <4>. QED  BY <1>a, <1>q, <2>3, <3>1, <4>1
    <3>2. CASE j = p
      BY <1>5, <1>q, <2>3, <3>2
    <3>3. ASSUME NEW h \in 1 .. n, j = h + 1, ~(h < p) PROVE r[q[j]] < r[q[k]]
      <4>1. h < i
        BY <2>3, <3>3
      <4>. QED  BY <1>a, <1>q, <2>3, <3>3, <4>1
    <3>. QED  BY <1>c, <3>1, <3>2, <3>3
  <2>. QED  BY <1>c, <2>1, <2>2, <2>3
<1>9. /\ m \in ListLinks /\ m.head = l.head
      /\ m.next[x] = IF p = n + 1 THEN NOSTREAM ELSE s[p]
      /\ m.prev[x] = s[p - 1]
      /\ \A y \in STREAM \ {x} :
           /\ m.next[y] = IF y = s[p - 1] THEN x ELSE l.next[y]
           /\ m.prev[y] = IF p # n + 1 /\ y = s[p] THEN x ELSE l.prev[y]
  <2>1. s[p - 1] \in STREAM \ {x}
    BY <1>e, <1>n, <1>x
  <2>2. CASE p = n + 1
    <3>1. s[p - 1] = s[n]
      BY <1>n, <2>2
    <3>2. m = [l EXCEPT !.next[s[p - 1]] = x, !.prev[x] = s[p - 1], !.next[x] = NOSTREAM]
      BY <1>6, <2>2, <3>1
    <3>. QED  BY <2>1, <2>2, <3>2 DEF ListLinks
  <2>3. CASE p # n + 1
    <3>1. s[p] \in STREAM \ {x}
      BY <1>e, <1>n, <1>x, <2>3
    <3>2. m = [l EXCEPT !.next[s[p - 1]] = x, !.prev[x] = s[p - 1], !.prev[s[p]] = x,
                        !.next[x] = s[p]]
      BY <1>6, <2>3
    <3>. QED  BY <2>1, <2>3, <3>1, <3>2 DEF ListLinks
  <2>. QED  BY <2>2, <2>3
<1>10. ASSUME NEW k \in 1 .. n + 1
       PROVE  /\ m.next[q[k]] = IF k = n + 1 THEN NOSTREAM ELSE q[k + 1]
              /\ m.prev[q[k]] = IF k = 1 THEN NOSTREAM ELSE q[k - 1]
  <2>1. CASE k \in 1 .. n /\ k < p
    <3>1. q[k] = s[k] /\ s[k] \in STREAM \ {x} /\ k # n + 1
      BY <1>e, <1>n, <1>q, <1>x, <2>1
    <3>2. m.prev[q[k]] = l.prev[s[k]]
      <4>1. p # n + 1 => s[k] # s[p]
        BY <1>2, <1>n, <2>1
      <4>. QED  BY <1>9, <3>1, <4>1
    <3>3. m.prev[q[k]] = IF k = 1 THEN NOSTREAM ELSE q[k - 1]
      <4>1. k # 1 => k - 1 \in 1 .. n /\ k - 1 < p
        BY <1>n, <2>1
      <4>2. k # 1 => q[k - 1] = s[k - 1]
        BY <1>q, <4>1
      <4>. QED  BY <1>l, <2>1, <3>2, <4>2
    <3>4. CASE k = p - 1
      <4>1. k + 1 = p
        BY <1>n, <3>4
      <4>2. m.next[q[k]] = x
        BY <1>9, <3>1, <3>4
      <4>. QED  BY <1>q, <3>1, <3>3, <4>1, <4>2
    <3>5. CASE k # p - 1
      <4>1. k + 1 \in 1 .. n /\ k + 1 < p /\ k # n
        BY <1>n, <2>1, <3>5
      <4>2. s[k] # s[p - 1]
        BY <1>2, <1>n, <2>1, <3>5
      <4>3. m.next[q[k]] = s[k + 1]
        BY <1>9, <1>l, <2>1, <3>1, <4>1, <4>2
      <4>. QED  BY <1>q, <3>1, <3>3, <4>1, <4>3
    <3>. QED  BY <3>4, <3>5
  <2>2. CASE k = p
    <3>1. q[k - 1] = s[p - 1] /\ k # 1
      <4>1. p - 1 < p
        BY <1>n
      <4>. QED  BY <1>n, <1>q, <2>2, <4>1
    <3>2. k # n + 1 => q[k + 1] = s[p]
      <4>1. ~(p < p)
        BY <1>n
      <4>. QED  BY <1>n, <1>q, <2>2, <4>1
    <3>. QED  BY <1>9, <1>q, <2>2, <3>1, <3>2
  <2>3. ASSUME NEW i \in 1 .. n, k = i + 1, ~(i < p)
        PROVE  /\ m.next[q[k]] = IF k = n + 1 THEN NOSTREAM ELSE q[k + 1]
               /\ m.prev[q[k]] = IF k = 1 THEN NOSTREAM ELSE q[k - 1]
    <3>1. q[k] = s[i] /\ s[i] \in STREAM \ {x}
      BY <1>e, <1>q, <1>x, <2>3
    <3>2. i # p - 1 /\ k # 1 /\ k - 1 = i /\ i # 1 /\ p # n + 1
      BY <1>n, <2>3
    <3>3. m.next[q[k]] = l.next[s[i]]
      <4>1. s[i] # s[p - 1]
        BY <1>2, <1>n, <3>2
      <4>. QED  BY <1>9, <3>1, <4>1
    <3>4. m.next[q[k]] = IF k = n + 1 THEN NOSTREAM ELSE q[k + 1]
      <4>1. k = n + 1 <=> i = n
        BY <1>n, <2>3
      <4>2. i # n => i + 1 \in 1 .. n /\ ~(i + 1 < p)
        BY <1>n, <2>3
      <4>3. i # n => q[k + 1] = s[i + 1]
        BY <1>q, <2>3, <4>2
      <4>. QED  BY <1>l, <3>3, <4>1, <4>3
    <3>5. CASE i = p
      <4>1. m.prev[q[k]] = x
        BY <1>9, <3>1, <3>2, <3>5
      <4>. QED  BY <1>q, <3>2, <3>4, <3>5, <4>1
    <3>6. CASE i # p
      <4>1. i - 1 \in 1 .. n /\ ~(i - 1 < p) /\ (i - 1) + 1 = i
        BY <1>n, <2>3, <3>6
      <4>2. q[i] = s[i - 1]
        BY <1>q, <4>1
      <4>3. s[i] # s[p]
        BY <1>2, <1>n, <3>2, <3>6
      <4>4. m.prev[q[k]] = l.prev[s[i]]
        BY <1>9, <3>1, <4>3
      <4>5. l.prev[s[i]] = s[i - 1]
        BY <1>l, <3>2
      <4>. QED  BY <3>2, <3>4, <4>2, <4>4, <4>5
    <3>. QED  BY <3>5, <3>6
  <2>. QED  BY <1>c, <2>1, <2>2, <2>3
<1>11. m.head = q[1]
  <2>1. 1 \in 1 .. n /\ 1 < p
    BY <1>n
  <2>. QED  BY <1>l, <1>9, <1>q, <2>1
<1>12. IsList(m, q)
  <2>1. Len(q) >= 1
    BY <1>7, <1>n
  <2>. QED  BY <1>7, <1>10, <1>11, <2>1 DEF IsList
<1>. QED  BY <1>5, <1>8, <1>9, <1>12 DEF m, q, n

(* Removing an ES that is not the first.                                   *)
LEMMA RemovesInOrder ==
    ASSUME NEW l \in ListLinks, NEW s, IsList(l, s), NEW r \in [STREAM -> Nat], Ascending(s, r),
           NEW p \in 2 .. Len(s)
    PROVE  /\ RemoveFromList(l, s[p]) \in ListLinks
           /\ IsList(RemoveFromList(l, s[p]), Without(s, p))
           /\ Ascending(Without(s, p), r)
<1>. DEFINE n == Len(s)
            x == s[p]
            q == Without(s, p)
            m == RemoveFromList(l, x)
<1>s. s \in Seq(STREAM) /\ n \in Nat /\ DOMAIN s = 1 .. n /\ n = Len(s)
  BY DEF IsList
<1>2. \A j, k \in 1 .. n : s[j] = s[k] => j = k
  BY <1>s, AscendingOnce
<1>l. /\ l.head = s[1]
      /\ \A k \in 1 .. n : /\ l.next[s[k]] = IF k = n THEN NOSTREAM ELSE s[k + 1]
                           /\ l.prev[s[k]] = IF k = 1 THEN NOSTREAM ELSE s[k - 1]
  BY DEF IsList
<1>a. \A j, k \in 1 .. n : j < k => r[s[j]] < r[s[k]]
  BY DEF Ascending
<1>p. n \in Nat /\ p \in 2 .. n
  BY <1>s
<1>. HIDE DEF n
<1>n. /\ n \in Nat /\ p \in Nat /\ p >= 2 /\ p <= n
      /\ p \in 1 .. n /\ p - 1 \in 1 .. n /\ p # 1 /\ (p - 1) + 1 = p
      /\ p # n => p + 1 \in 1 .. n
  BY <1>p
<1>e. \A k \in 1 .. n : s[k] \in STREAM /\ s[k] # NOSTREAM
  BY <1>s, XstreamAssumption
<1>3. l.prev[x] = s[p - 1] /\ l.next[x] = IF p = n THEN NOSTREAM ELSE s[p + 1]
  BY <1>l, <1>n
<1>5. /\ m \in ListLinks /\ m.head = l.head
      /\ \A y \in STREAM :
           /\ m.next[y] = IF y = s[p - 1] THEN l.next[x] ELSE l.next[y]
           /\ m.prev[y] = IF p # n /\ y = s[p + 1] THEN s[p - 1] ELSE l.prev[y]
  <2>. DEFINE a == [l EXCEPT !.next[s[p - 1]] = l.next[x]]
  <2>1. /\ s[p - 1] \in STREAM /\ s[p - 1] # NOSTREAM /\ x \in STREAM
        /\ p # n => s[p + 1] \in STREAM /\ s[p + 1] # NOSTREAM
    BY <1>e, <1>n
  <2>2. m = IF l.next[x] = NOSTREAM THEN a ELSE [a EXCEPT !.prev[l.next[x]] = s[p - 1]]
    BY <1>3, <2>1 DEF RemoveFromList
  <2>3. a \in ListLinks /\ a.head = l.head /\ a.prev = l.prev
        /\ \A y \in STREAM : a.next[y] = IF y = s[p - 1] THEN l.next[x] ELSE l.next[y]
    BY <2>1 DEF ListLinks
  <2>. HIDE DEF a
  <2>4. CASE p = n
    <3>1. m = a
      BY <1>3, <2>2, <2>4
    <3>. QED  BY <2>3, <2>4, <3>1
  <2>5. CASE p # n
    <3>1. m = [a EXCEPT !.prev[s[p + 1]] = s[p - 1]] /\ s[p + 1] \in STREAM
      BY <1>3, <2>1, <2>2, <2>5
    <3>. HIDE DEF m
    <3>2. /\ m \in ListLinks /\ m.head = a.head /\ m.next = a.next
          /\ \A y \in STREAM : m.prev[y] = IF y = s[p + 1] THEN s[p - 1] ELSE a.prev[y]
      BY <2>1, <2>3, <3>1 DEF ListLinks
    <3>. QED  BY <2>3, <2>5, <3>2
  <2>. QED  BY <2>4, <2>5
<1>7. /\ q \in Seq(STREAM) /\ Len(q) = n - 1
      /\ \A k \in 1 .. n - 1 : q[k] = IF k < p THEN s[k] ELSE s[k + 1]
  <2>1. q \in Seq(STREAM) /\ Len(q) = n - 1
    BY <1>s, <1>2, <1>n, WithoutOf
  <2>2. q = [k \in 1 .. n - 1 |-> IF k < p THEN s[k] ELSE s[k + 1]]
    BY <1>s DEF Without
  <2>. QED  BY <2>1, <2>2
<1>. HIDE DEF q, m, x
<1>8. Ascending(q, r)
  <2>. SUFFICES ASSUME NEW j \in 1 .. n - 1, NEW k \in 1 .. n - 1, j < k PROVE r[q[j]] < r[q[k]]
    BY <1>7 DEF Ascending
  <2>1. /\ j \in 1 .. n /\ k \in 1 .. n /\ j + 1 \in 1 .. n /\ k + 1 \in 1 .. n
        /\ j < k + 1 /\ j + 1 < k + 1 /\ (k < p => j < p)
    BY <1>n
  <2>. QED  BY <1>7, <1>a, <2>1
<1>9. ASSUME NEW k \in 1 .. n - 1
      PROVE  /\ m.next[q[k]] = IF k = n - 1 THEN NOSTREAM ELSE q[k + 1]
             /\ m.prev[q[k]] = IF k = 1 THEN NOSTREAM ELSE q[k - 1]
  <2>1. CASE k < p
    <3>1. k \in 1 .. n /\ k # n
      BY <1>n
    <3>2. q[k] = s[k] /\ s[k] \in STREAM
      BY <1>7, <1>e, <2>1, <3>1
    <3>3. m.prev[q[k]] = l.prev[s[k]]
      <4>1. p # n => k # p + 1
        BY <1>n, <2>1
      <4>2. p # n => s[k] # s[p + 1]
        BY <1>2, <1>n, <3>1, <4>1
      <4>. QED  BY <1>5, <3>2, <4>2
    <3>4. m.prev[q[k]] = IF k = 1 THEN NOSTREAM ELSE q[k - 1]
      <4>1. k # 1 => k - 1 \in 1 .. n - 1 /\ k - 1 < p
        BY <1>n, <2>1
      <4>2. k # 1 => q[k - 1] = s[k - 1]
        BY <1>7, <4>1
      <4>. QED  BY <1>l, <3>1, <3>3, <4>2
    <3>5. CASE k = p - 1
      <4>1. m.next[q[k]] = l.next[x]
        BY <1>5, <3>2, <3>5
      <4>2. p # n => p \in 1 .. n - 1 /\ ~(p < p)
        BY <1>n
      <4>3. p # n => q[p] = s[p + 1]
        BY <1>7, <4>2
      <4>4. k + 1 = p /\ (k = n - 1 <=> p = n)
        BY <1>n, <3>5
      <4>. QED  BY <1>3, <3>4, <4>1, <4>3, <4>4
    <3>6. CASE k # p - 1
      <4>1. k + 1 < p /\ k + 1 \in 1 .. n - 1 /\ k # n - 1
        BY <1>n, <2>1, <3>6
      <4>2. s[k] # s[p - 1]
        BY <1>2, <1>n, <3>1, <3>6
      <4>3. m.next[q[k]] = s[k + 1]
        BY <1>5, <1>l, <3>1, <3>2, <4>2
      <4>4. q[k + 1] = s[k + 1]
        BY <1>7, <4>1
      <4>. QED  BY <3>4, <4>1, <4>3, <4>4
    <3>. QED  BY <3>5, <3>6
  <2>2. CASE ~(k < p)
    <3>1. k + 1 \in 1 .. n /\ k # 1 /\ p # n /\ k + 1 # p - 1 /\ k + 1 # 1 /\ k \in 1 .. n
          /\ (k + 1) - 1 = k
      BY <1>n, <2>2
    <3>2. q[k] = s[k + 1] /\ s[k + 1] \in STREAM
      BY <1>7, <1>e, <2>2, <3>1
    <3>3. m.next[q[k]] = l.next[s[k + 1]]
      <4>1. s[k + 1] # s[p - 1]
        BY <1>2, <1>n, <3>1
      <4>. QED  BY <1>5, <3>2, <4>1
    <3>4. m.next[q[k]] = IF k = n - 1 THEN NOSTREAM ELSE q[k + 1]
      <4>1. k + 1 = n <=> k = n - 1
        BY <1>n
      <4>2. k # n - 1 => k + 1 \in 1 .. n - 1 /\ ~(k + 1 < p)
        BY <1>n, <2>2
      <4>3. k # n - 1 => q[k + 1] = s[(k + 1) + 1]
        BY <1>7, <4>2
      <4>. QED  BY <1>l, <3>1, <3>3, <4>1, <4>3
    <3>5. CASE k = p
      <4>1. m.prev[q[k]] = s[p - 1]
        BY <1>5, <3>1, <3>2, <3>5
      <4>2. p - 1 \in 1 .. n - 1 /\ p - 1 < p
        BY <1>n
      <4>3. q[p - 1] = s[p - 1]
        BY <1>7, <4>2
      <4>. QED  BY <3>1, <3>4, <3>5, <4>1, <4>3
    <3>6. CASE k # p
      <4>1. k - 1 \in 1 .. n - 1 /\ ~(k - 1 < p) /\ (k - 1) + 1 = k
        BY <1>n, <2>2, <3>6
      <4>2. q[k - 1] = s[k]
        BY <1>7, <4>1
      <4>3. s[k + 1] # s[p + 1]
        <5>1. k + 1 # p + 1 /\ p + 1 \in 1 .. n
          BY <1>n, <3>1, <3>6
        <5>. QED  BY <1>2, <3>1, <5>1
      <4>4. m.prev[q[k]] = l.prev[s[k + 1]]
        BY <1>5, <3>2, <4>3
      <4>5. l.prev[s[k + 1]] = s[k]
        BY <1>l, <3>1
      <4>. QED  BY <3>1, <3>4, <4>2, <4>4, <4>5
    <3>. QED  BY <3>5, <3>6
  <2>. QED  BY <2>1, <2>2
<1>10. m.head = q[1]
  <2>1. 1 \in 1 .. n - 1 /\ 1 < p
    BY <1>n
  <2>. QED  BY <1>l, <1>5, <1>7, <2>1
<1>11. IsList(m, q)
  <2>1. Len(q) >= 1
    BY <1>7, <1>n
  <2>. QED  BY <1>7, <1>9, <1>10, <2>1 DEF IsList
<1>. QED  BY <1>5, <1>8, <1>11 DEF m, q, x

(* The ESs that are on the list: those that exist, until they are freed,   *)
(* and those that are being created.                                       *)
OnList(x) ==
    \/ life[x] = "live" /\ \A c \in CALLER :
          call[c] \in {"free_ctx", "free_join"} => Target(c) # x
    \/ \E c \in CALLER : call[c] = "create" /\ Target(c) = x

(* The list holds s: the primary ES has rank 0 and is the first for good,  *)
(* as a rank is not below 0.  That makes AddToList write all it should.    *)
Lists(s) ==
    /\ IsList(list, s) /\ Ascending(s, rank)
    /\ s[1] = PRIMARY
    /\ Range(s) = {x \in STREAM : OnList(x)}
    /\ num_xstreams = Len(s)

ListInv ==
    /\ list \in ListLinks
    /\ rank \in [STREAM -> Nat] /\ rank[PRIMARY] = 0
    /\ \E s : Lists(s)

(* The calls left, and that who frees an ES is its only user.              *)
Frees(c) == call[c] \in JoinPoint \cup {"free", "free_ctx", "free_join"} /\ InCall(c, {"free"})

UsersInv ==
    /\ \A c \in CALLER : \A k \in DOMAIN todo[c] : Accepted(todo[c][k])
    /\ \A c \in CALLER : Frees(c) => UsedOnlyBy(c, Target(c))

LEMMA TakenOnList ==
    ASSUME ListInv, NEW s, Lists(s), NEW r
    PROVE  RankTaken(r) <=> \E y \in Range(s) : rank[y] = r
<1>1. s \in Seq(STREAM)
  BY DEF Lists, IsList
<1>2. Order(list) = s
  BY <1>1, AscendingOnce, OrderOfList DEF Lists, ListInv
<1>. QED  BY <1>2 DEF RankTaken

(* There are more ranks to try than ESs.                                   *)
LEMMA FreeRankFound ==
    ASSUME ListInv
    PROVE  FirstFreeRank \in Nat
<1>. DEFINE N == Cardinality(STREAM)
            F == {r \in 0 .. N : ~RankTaken(r)}
<1>1. N \in Nat /\ IsFiniteSet(STREAM)
  BY XstreamAssumption, FS_CardinalityType
<1>. HIDE DEF N
<1>2. F # {}
  <2>. SUFFICES ASSUME F = {} PROVE FALSE
    OBVIOUS
  <2>. DEFINE f == [r \in 0 .. N |-> CHOOSE y \in STREAM : rank[y] = r]
  <2>1. ASSUME NEW r \in 0 .. N PROVE f[r] \in STREAM /\ rank[f[r]] = r
    <3>1. RankTaken(r)
      OBVIOUS
    <3>2. PICK s : Lists(s)
      BY DEF ListInv
    <3>3. \E y \in STREAM : rank[y] = r
      BY <3>1, <3>2, TakenOnList DEF Lists
    <3>. QED  BY <3>3
  <2>2. f \in [0 .. N -> STREAM]
    BY <2>1
  <2>3. \A j, k \in 0 .. N : f[j] = f[k] => j = k
    <3>. HIDE DEF f
    <3>. QED  BY <2>1
  <2>4. f \in Injection(0 .. N, STREAM)
    <3>. HIDE DEF f
    <3>. QED  BY <2>2, <2>3 DEF Injection, IsInjective
  <2>5. Cardinality(0 .. N) = N + 1
    BY <1>1, FS_Interval
  <2>6. Cardinality(0 .. N) <= N
    <3>. HIDE DEF f
    <3>. QED  BY <1>1, <2>4, FS_Injection DEF N
  <2>. QED  BY <1>1, <2>5, <2>6
<1>3. PICK i \in F : \A j \in F : <<j, i>> \notin LessThan
  <2>1. F \subseteq Nat
    BY <1>1
  <2>. HIDE DEF F
  <2>. QED  BY <1>2, <2>1, LessThanWellFounded, WFMin
<1>4. \A j \in F : i <= j
  <2>. SUFFICES ASSUME NEW j \in F PROVE i <= j
    OBVIOUS
  <2>1. i \in Nat /\ j \in Nat /\ <<j, i>> \notin LessThan
    BY <1>1, <1>3
  <2>. QED  BY <2>1 DEF LessThan
<1>5. Min(F) \in F
  BY <1>4 DEF Min
<1>6. FirstFreeRank = Min(F)
  BY DEF FirstFreeRank, N
<1>. QED  BY <1>1, <1>5, <1>6

(* An ES joins the list, leaves it, or changes its place.                  *)
LEMMA EntersList ==
    ASSUME ListInv, NEW x \in STREAM, ~OnList(x), NEW r \in Nat, ~RankTaken(r),
           rank' = [rank EXCEPT ![x] = r], list' = AddToList(list, rank', x),
           num_xstreams' = num_xstreams + 1,
           \A y \in STREAM : OnList(y)' <=> (OnList(y) \/ y = x)
    PROVE  ListInv'
<1>1. PICK s : Lists(s)
  BY DEF ListInv
<1>2. /\ s \in Seq(STREAM) /\ Len(s) \in Nat /\ Len(s) >= 1 /\ DOMAIN s = 1 .. Len(s)
      /\ IsList(list, s) /\ 1 \in 1 .. Len(s) /\ s[1] = PRIMARY
  BY <1>1 DEF Lists, IsList
<1>3. x \notin Range(s) /\ PRIMARY \in Range(s) /\ x # PRIMARY
  <2>1. PRIMARY \in Range(s)
    BY <1>2 DEF Range
  <2>. QED  BY <1>1, <2>1 DEF Lists
<1>4. /\ rank' \in [STREAM -> Nat] /\ rank'[x] = r /\ rank'[PRIMARY] = 0
      /\ \A y \in STREAM \ {x} : rank'[y] = rank[y]
  BY <1>3, XstreamAssumption DEF ListInv
<1>5. \A k \in 1 .. Len(s) : s[k] \in STREAM \ {x}
  BY <1>2, <1>3 DEF Range
<1>6. Ascending(s, rank')
  BY <1>1, <1>4, <1>5 DEF Lists, Ascending
<1>7. \A y \in Range(s) : rank'[y] # rank'[x]
  <2>1. \A y \in Range(s) : rank[y] # r /\ y \in STREAM \ {x}
    BY <1>1, <1>3, TakenOnList DEF Lists
  <2>. QED  BY <1>4, <2>1
<1>8. rank'[s[1]] < rank'[x]
  BY <1>2, <1>3, <1>4, <1>7
<1>9. PICK p \in 2 .. Len(s) + 1 : /\ list' \in ListLinks
                                  /\ IsList(list', Placed(s, p, x))
                                  /\ Ascending(Placed(s, p, x), rank')
  BY <1>2, <1>3, <1>4, <1>6, <1>7, <1>8, AddsInOrder DEF ListInv
<1>. DEFINE q == Placed(s, p, x)
<1>10. Len(q) = Len(s) + 1 /\ Range(q) = Range(s) \cup {x}
  BY <1>2, PlacedIn
<1>11. q[1] = PRIMARY
  <2>1. 1 \in 1 .. Len(s) + 1 /\ 1 < p
    BY <1>2
  <2>. QED  BY <1>2, <2>1 DEF Placed
<1>. HIDE DEF q
<1>12. Range(q) = {y \in STREAM : OnList(y)'}
  BY <1>1, <1>10 DEF Lists
<1>13. num_xstreams' = Len(q)
  BY <1>1, <1>10 DEF Lists
<1>14. Lists(q)'
  BY <1>9, <1>11, <1>12, <1>13 DEF Lists, q
<1>. QED  BY <1>4, <1>9, <1>14 DEF ListInv

(* x is at a place behind the first.                                       *)
LEMMA PlaceOf ==
    ASSUME ListInv, NEW s, Lists(s), NEW x \in STREAM, x # PRIMARY, OnList(x)
    PROVE  /\ \E p \in 2 .. Len(s) : s[p] = x
           /\ s \in Seq(STREAM) /\ Len(s) \in Nat /\ DOMAIN s = 1 .. Len(s) /\ s[1] = PRIMARY
           /\ IsList(list, s) /\ Ascending(s, rank)
           /\ \A j, k \in 1 .. Len(s) : s[j] = s[k] => j = k
<1>1. /\ s \in Seq(STREAM) /\ Len(s) \in Nat /\ DOMAIN s = 1 .. Len(s) /\ s[1] = PRIMARY
      /\ IsList(list, s) /\ Ascending(s, rank)
  BY DEF Lists, IsList
<1>2. \A j, k \in 1 .. Len(s) : s[j] = s[k] => j = k
  BY <1>1, AscendingOnce DEF ListInv
<1>3. PICK p \in 1 .. Len(s) : s[p] = x
  <2>1. x \in Range(s)
    BY DEF Lists
  <2>. QED  BY <1>1, <2>1 DEF Range
<1>4. p \in 2 .. Len(s)
  BY <1>1, <1>3
<1>. QED  BY <1>1, <1>2, <1>3, <1>4

LEMMA LeavesList ==
    ASSUME ListInv, NEW x \in STREAM, x # PRIMARY, OnList(x), ReturnRank(x),
           \A y \in STREAM : OnList(y)' <=> (OnList(y) /\ y # x)
    PROVE  ListInv'
<1>1. PICK s : Lists(s)
  BY DEF ListInv
<1>2. PICK p \in 2 .. Len(s) : s[p] = x
  BY <1>1, PlaceOf
<1>3. /\ s \in Seq(STREAM) /\ Len(s) \in Nat /\ DOMAIN s = 1 .. Len(s) /\ s[1] = PRIMARY
      /\ IsList(list, s) /\ Ascending(s, rank) /\ p \in 1 .. Len(s)
      /\ \A j, k \in 1 .. Len(s) : s[j] = s[k] => j = k
  BY <1>1, <1>2, PlaceOf
<1>. DEFINE q == Without(s, p)
<1>4. list' \in ListLinks /\ IsList(list', q) /\ Ascending(q, rank)
  BY <1>2, <1>3, RemovesInOrder DEF ListInv, ReturnRank
<1>5. Len(q) = Len(s) - 1 /\ Range(q) = Range(s) \ {x}
  BY <1>2, <1>3, WithoutOf
<1>6. q[1] = PRIMARY
  <2>1. 1 \in 1 .. Len(s) - 1 /\ 1 < p
    BY <1>3
  <2>. QED  BY <1>3, <2>1 DEF Without
<1>. HIDE DEF q
<1>7. Range(q) = {y \in STREAM : OnList(y)'}
  BY <1>1, <1>5 DEF Lists
<1>8. num_xstreams' = Len(q) /\ rank' = rank
  BY <1>1, <1>5 DEF Lists, ReturnRank
<1>9. Lists(q)'
  BY <1>4, <1>6, <1>7, <1>8 DEF Lists
<1>. QED  BY <1>4, <1>8, <1>9 DEF ListInv

LEMMA MovesInList ==
    ASSUME ListInv, NEW x \in STREAM, x # PRIMARY, OnList(x), NEW r \in Nat, ~RankTaken(r),
           rank' = [rank EXCEPT ![x] = r],
           list' = AddToList(RemoveFromList(list, x), rank', x),
           num_xstreams' = num_xstreams,
           \A y \in STREAM : OnList(y)' <=> OnList(y)
    PROVE  ListInv'
<1>1. PICK s : Lists(s)
  BY DEF ListInv
<1>2. PICK i \in 2 .. Len(s) : s[i] = x
  BY <1>1, PlaceOf
<1>3. /\ s \in Seq(STREAM) /\ Len(s) \in Nat /\ DOMAIN s = 1 .. Len(s) /\ s[1] = PRIMARY
      /\ IsList(list, s) /\ Ascending(s, rank) /\ i \in 1 .. Len(s)
      /\ \A j, k \in 1 .. Len(s) : s[j] = s[k] => j = k
  BY <1>1, <1>2, PlaceOf
<1>. DEFINE l == RemoveFromList(list, x)
            m == Without(s, i)
<1>4. l \in ListLinks /\ IsList(l, m) /\ Ascending(m, rank)
  BY <1>2, <1>3, RemovesInOrder DEF ListInv
<1>5. m \in Seq(STREAM) /\ Len(m) = Len(s) - 1 /\ Range(m) = Range(s) \ {x}
  BY <1>2, <1>3, WithoutOf
<1>6. m[1] = PRIMARY
  <2>1. 1 \in 1 .. Len(s) - 1 /\ 1 < i
    BY <1>3
  <2>. QED  BY <1>3, <2>1 DEF Without
<1>. HIDE DEF l, m
<1>7. Len(m) >= 1 /\ Len(m) \in Nat /\ DOMAIN m = 1 .. Len(m)
  BY <1>4, <1>5 DEF IsList
<1>8. /\ rank' \in [STREAM -> Nat] /\ rank'[x] = r /\ rank'[PRIMARY] = 0
      /\ \A y \in STREAM \ {x} : rank'[y] = rank[y]
  BY XstreamAssumption DEF ListInv
<1>9. \A k \in 1 .. Len(m) : m[k] \in STREAM \ {x}
  <2>1. \A k \in 1 .. Len(m) : m[k] \in Range(m)
    BY <1>7 DEF Range
  <2>. QED  BY <1>5, <2>1
<1>10. Ascending(m, rank')
  BY <1>4, <1>8, <1>9 DEF Ascending
<1>11. \A y \in Range(m) : rank'[y] # rank'[x]
  <2>1. \A y \in Range(m) : y \in Range(s) /\ y \in STREAM \ {x}
    BY <1>1, <1>5 DEF Lists
  <2>2. \A y \in Range(s) : rank[y] # r
    BY <1>1, TakenOnList
  <2>. QED  BY <1>8, <2>1, <2>2
<1>12. rank'[m[1]] < rank'[x]
  <2>1. m[1] \in Range(m)
    BY <1>7 DEF Range
  <2>. QED  BY <1>6, <1>8, <1>11, <2>1
<1>13. PICK p \in 2 .. Len(m) + 1 : /\ list' \in ListLinks
                                   /\ IsList(list', Placed(m, p, x))
                                   /\ Ascending(Placed(m, p, x), rank')
  BY <1>4, <1>5, <1>8, <1>10, <1>11, <1>12, AddsInOrder DEF l
<1>. DEFINE q == Placed(m, p, x)
<1>14. Len(q) = Len(s) /\ Range(q) = Range(s)
  <2>1. Len(q) = Len(m) + 1 /\ Range(q) = Range(m) \cup {x}
    <3>1. p \in 1 .. Len(m) + 1
      BY <1>7
    <3>. QED  BY <1>5, <3>1, PlacedIn
  <2>2. x \in Range(s)
    BY <1>1 DEF Lists
  <2>. HIDE DEF q
  <2>. QED  BY <1>3, <1>5, <2>1, <2>2
<1>15. q[1] = PRIMARY
  <2>1. 1 \in 1 .. Len(m) + 1 /\ 1 < p
    BY <1>7
  <2>. QED  BY <1>6, <2>1 DEF Placed
<1>. HIDE DEF q
<1>16. Range(q) = {y \in STREAM : OnList(y)'}
  BY <1>1, <1>14 DEF Lists
<1>17. num_xstreams' = Len(q)
  BY <1>1, <1>14 DEF Lists
<1>18. Lists(q)'
  BY <1>13, <1>15, <1>16, <1>17 DEF Lists, q
<1>. QED  BY <1>8, <1>13, <1>18 DEF ListInv

LEMMA ListKept ==
    ASSUME ListInv, UNCHANGED rankVars, \A y \in STREAM : OnList(y)' <=> OnList(y)
    PROVE  ListInv'
<1>1. PICK s : Lists(s)
  BY DEF ListInv
<1>2. {y \in STREAM : OnList(y)'} = {y \in STREAM : OnList(y)}
  OBVIOUS
<1>3. Lists(s)'
  BY <1>1, <1>2 DEF Lists, rankVars
<1>. QED  BY <1>3 DEF ListInv, rankVars

-----------------------------------------------------------------------------
(* Who is on the list after a step.                                        *)

LEMMA OthersOnList ==
    ASSUME XstreamTypeInv, StageInv, CallInv, ProgramInv, NEW c \in CALLER, CallerStep(c),
           NEW y \in STREAM, y # Target(c)
    PROVE  OnList(y)' <=> OnList(y)
<1>1. /\ CallerOK(c) /\ todo[c] # <<>> /\ Target(c) \in STREAM
  BY CallerFrame, CallOfEs DEF CallInv
<1>2. life'[y] = life[y]
  BY <1>1, CallerMoves
<1>3. \A d \in CALLER \ {c} : call'[d] = call[d] /\ Target(d)' = Target(d)
  BY <1>1, CallerFrame DEF Target
<1>4. call'[c] \in {"create", "free_ctx", "free_join"} => Target(c)' # y
  <2>1. CASE call'[c] = "idle"
    BY <2>1
  <2>2. CASE todo' = todo
    BY <2>2 DEF Target
  <2>. QED  BY <1>1, <2>1, <2>2, CallerFrame
<1>. QED  BY <1>2, <1>3, <1>4 DEF OnList

LEMMA SameOnList ==
    ASSUME XstreamTypeInv, CallInv, NEW c \in CALLER, CallerStep(c), UNCHANGED life,
           call[c] \notin {"create", "free_ctx", "free_join"},
           call'[c] \notin {"create", "free_ctx", "free_join"}, NEW y \in STREAM
    PROVE  OnList(y)' <=> OnList(y)
<1>1. CallerOK(c)
  BY DEF CallInv
<1>2. \A d \in CALLER \ {c} : call'[d] = call[d] /\ Target(d)' = Target(d)
  BY <1>1, CallerFrame DEF Target
<1>. QED  BY <1>2 DEF OnList

(* Nobody else creates or frees the ES meanwhile.                          *)
LEMMA OnlyOwner ==
    ASSUME XstreamTypeInv, CallInv, ProgramInv, NEW c \in CALLER, InCall(c, Exclusive),
           NEW d \in CALLER, call[d] \in {"create", "free_ctx", "free_join"}, Target(d) = Target(c)
    PROVE  d = c
<1>1. InCall(d, Exclusive)
  BY BusyExclusive DEF CallInv, XstreamTypeInv
<1>. QED  BY <1>1, AloneOnEs DEF ProgramInv

LEMMA CallerKeepsList ==
    ASSUME XstreamTypeInv, StageInv, CallInv, ProgramInv, ListInv, UsersInv,
           NEW c \in CALLER, CallerStep(c)
    PROVE  ListInv'
<1>1. /\ CallerOK(c) /\ todo[c] # <<>> /\ Target(c) \in STREAM
      /\ 1 \in DOMAIN todo[c] /\ todo[c][1] = Head(todo[c])
  BY CallerFrame, CallOfEs DEF CallInv
<1>2. PICK x \in STREAM : x = Target(c)
  BY <1>1
<1>3. \A y \in STREAM \ {x} : OnList(y)' <=> OnList(y)
  BY <1>2, OthersOnList
<1>4. Accepted(Head(todo[c])) /\ Head(todo[c])[2] = x
  BY <1>1, <1>2 DEF UsersInv, Target
<1>5. \A d \in CALLER \ {c} : call'[d] = call[d] /\ Target(d)' = Target(d)
  BY <1>1, CallerFrame DEF Target
<1>6. ASSUME InCall(c, Exclusive), NEW d \in CALLER \ {c}, Target(d) = x
      PROVE  call[d] \notin {"create", "free_ctx", "free_join"}
  BY <1>2, <1>6, OnlyOwner
<1>7. call \in [CALLER -> CallerPoint] /\ life \in [STREAM -> {"none", "live", "failed", "freed"}]
  BY DEF XstreamTypeInv
<1>8. CASE SetNewRank(c)
  <2>1. call[c] = "idle" /\ Head(todo[c])[1] = "create"
    BY <1>8 DEF SetNewRank, Begins, CallAt
  <2>2. InCall(c, Exclusive) /\ x # PRIMARY /\ Argument(c) \in Nat \cup {-1}
    BY <1>1, <1>4, <2>1 DEF InCall, Exclusive, Accepted, Argument
  <2>3. life[x] = "none"
    BY <1>1, <1>2, <2>1 DEF ProgramInv, Target
  <2>4. ~OnList(x)
    BY <1>6, <2>1, <2>2, <2>3 DEF OnList
  <2>. DEFINE r == IF Argument(c) = -1 THEN FirstFreeRank ELSE Argument(c)
  <2>5. r \in Nat
    BY <2>2, FreeRankFound
  <2>. HIDE DEF r
  <2>6. CASE UNCHANGED rankVars
    <3>1. life' = [life EXCEPT ![x] = "failed"] /\ call'[c] = "idle"
      <4>1. num_xstreams' # num_xstreams + 1
        <5>1. num_xstreams \in Nat
          BY DEF ListInv, Lists, IsList
        <5>. QED  BY <2>6, <5>1 DEF rankVars
      <4>. QED  BY <1>2, <1>7, <1>8, <4>1 DEF SetNewRank, EndCall
    <3>2. ~OnList(x)'
      BY <1>5, <1>6, <1>7, <2>2, <3>1 DEF OnList
    <3>. QED  BY <1>3, <2>4, <2>6, <3>2, ListKept
  <2>7. CASE /\ ~RankTaken(r) /\ rank' = [rank EXCEPT ![x] = r]
             /\ list' = AddToList(list, rank', x) /\ num_xstreams' = num_xstreams + 1
             /\ GoCall(c, "create")
    <3>1. call'[c] = "create" /\ Target(c)' = x
      BY <1>2, <1>7, <2>7 DEF GoCall, Target
    <3>2. OnList(x)'
      BY <3>1 DEF OnList
    <3>. QED  BY <1>3, <2>4, <2>5, <2>7, <3>2, EntersList
  <2>. QED  BY <1>2, <1>8, <2>6, <2>7 DEF SetNewRank, r
<1>9. CASE CreateXstream(c)
  <2>1. call[c] = "create" /\ InCall(c, Exclusive)
    BY <1>1, <1>9 DEF CreateXstream, CallAt, CallerOK, InCall, Exclusive
  <2>2. OnList(x)
    BY <1>2, <2>1 DEF OnList
  <2>3. call'[c] = "idle" /\ life'[x] = "live"
    BY <1>2, <1>7, <1>9 DEF CreateXstream, EndCall
  <2>4. OnList(x)'
    BY <1>5, <1>6, <2>1, <2>3 DEF OnList
  <2>5. UNCHANGED rankVars
    BY <1>9 DEF CreateXstream
  <2>. QED  BY <1>3, <2>2, <2>4, <2>5, ListKept
<1>10. CASE CreateFails(c)
  <2>1. call[c] = "create" /\ InCall(c, {"create"}) /\ InCall(c, Exclusive)
    BY <1>1, <1>10 DEF CreateFails, CallAt, CallerOK, InCall, Exclusive
  <2>2. OnList(x) /\ x # PRIMARY
    BY <1>2, <1>4, <2>1 DEF OnList, InCall, Accepted
  <2>3. call'[c] = "idle" /\ life'[x] = "failed" /\ ReturnRank(x)
    BY <1>2, <1>7, <1>10 DEF CreateFails, EndCall
  <2>4. ~OnList(x)'
    BY <1>5, <1>6, <2>1, <2>3 DEF OnList
  <2>. QED  BY <1>3, <2>2, <2>3, <2>4, LeavesList
<1>11. CASE ChangeRank(c)
  <2>1. /\ call[c] = "idle" /\ Head(todo[c])[1] = "set_rank" /\ life[x] = "live"
        /\ call'[c] = "idle" /\ UNCHANGED life
    BY <1>2, <1>7, <1>11 DEF ChangeRank, BeginsOn, Begins, CallAt, EndCall
  <2>2. x # PRIMARY /\ Argument(c) \in Nat
    BY <1>4, <2>1 DEF Accepted, Argument
  <2>3. OnList(x)
    <3>1. SUFFICES ASSUME NEW d \in CALLER, call[d] \in {"free_ctx", "free_join"}, Target(d) = x
                   PROVE  FALSE
      BY <2>1 DEF OnList
    <3>2. Frees(d)
      BY <3>1 DEF Frees, CallInv, CallerOK
    <3>3. UsedOnlyBy(d, x) /\ d # c
      BY <2>1, <3>1, <3>2 DEF UsersInv
    <3>4. 1 \in 1 .. Len(todo[c])
      BY <1>1 DEF XstreamTypeInv
    <3>. QED  BY <1>1, <1>4, <3>3, <3>4 DEF UsedOnlyBy
  <2>4. \A y \in STREAM : OnList(y)' <=> OnList(y)
    BY <2>1, SameOnList
  <2>5. CASE UNCHANGED rankVars
    BY <2>4, <2>5, ListKept
  <2>6. CASE /\ ~RankTaken(Argument(c)) /\ rank' = [rank EXCEPT ![x] = Argument(c)]
             /\ list' = AddToList(RemoveFromList(list, x), rank', x)
             /\ UNCHANGED num_xstreams
    BY <2>2, <2>3, <2>4, <2>6, MovesInList
  <2>. QED  BY <1>2, <1>11, <2>5, <2>6 DEF ChangeRank
<1>12. CASE FreeRank(c)
  <2>1. call[c] = "free" /\ InCall(c, {"free"}) /\ InCall(c, Exclusive) /\ life[x] = "live"
    BY <1>1, <1>2, <1>12 DEF FreeRank, CallAt, CallerOK, InCall, Exclusive
  <2>2. OnList(x) /\ x # PRIMARY
    BY <1>4, <1>6, <2>1 DEF OnList, InCall, Accepted
  <2>3. /\ call'[c] = "free_ctx" /\ Target(c)' = x /\ ReturnRank(x) /\ UNCHANGED life
    BY <1>2, <1>7, <1>12 DEF FreeRank, GoCall, Target
  <2>4. ~OnList(x)'
    BY <1>5, <1>6, <2>1, <2>3 DEF OnList
  <2>. QED  BY <1>3, <2>2, <2>3, <2>4, LeavesList
<1>13. CASE FreeContext(c) \/ FreeDone(c)
  <2>1. call[c] \in {"free_ctx", "free_join"} /\ InCall(c, Exclusive) /\ UNCHANGED rankVars
    BY <1>1, <1>13 DEF FreeContext, FreeDone, CallAt, CallerOK, InCall, Exclusive
  <2>2. ~OnList(x)
    BY <1>2, <1>6, <2>1 DEF OnList
  <2>3. \/ call'[c] = "free_join" /\ Target(c)' = x
        \/ call'[c] = "idle" /\ life'[x] = "freed"
    BY <1>2, <1>7, <1>13 DEF FreeContext, FreeDone, GoCall, EndCall, Target
  <2>4. ~OnList(x)'
    BY <1>5, <1>6, <2>1, <2>3 DEF OnList
  <2>. QED  BY <1>3, <2>1, <2>2, <2>4, ListKept
<1>14. CASE \/ NullHandle(c) \/ PushUnit(c) \/ JoinRequest(c) \/ JoinUlt(c) \/ JoinContext(c)
            \/ JoinWake(c) \/ JoinReturns(c) \/ ReviveError(c) \/ ReviveUlt(c) \/ ReviveContext(c)
            \/ Cancel(c)
  <2>. USE <1>7 DEF CallAt, BeginsOn, Begins, GoCall, EndCall
  <2>1. /\ UNCHANGED <<life, rankVars>>
        /\ call[c] \notin {"create", "free_ctx", "free_join"}
        /\ call'[c] \notin {"create", "free_ctx", "free_join"}
    <3>1. CASE NullHandle(c) \/ PushUnit(c) \/ JoinRequest(c) \/ JoinUlt(c) \/ JoinContext(c)
      BY <3>1 DEF NullHandle, PushUnit, JoinRequest, JoinUlt, JoinContext
    <3>2. CASE JoinWake(c) \/ JoinReturns(c)
      BY <3>2 DEF JoinWake, JoinReturns
    <3>3. CASE ReviveError(c) \/ ReviveUlt(c) \/ ReviveContext(c) \/ Cancel(c)
      BY <3>3 DEF ReviveError, ReviveUlt, ReviveContext, Cancel
    <3>. QED  BY <1>14, <3>1, <3>2, <3>3
  <2>. QED  BY <2>1, SameOnList, ListKept
<1>. QED
  BY <1>8, <1>9, <1>10, <1>11, <1>12, <1>13, <1>14 DEF CallerStep

(* A free is called by the only user left, and programs only get shorter.  *)
LEMMA CallerKeepsUsers ==
    ASSUME XstreamTypeInv, StageInv, CallInv, ProgramInv, UsersInv, NEW c \in CALLER, CallerStep(c)
    PROVE  UsersInv'
<1>1. /\ CallerOK(c) /\ todo[c] # <<>> /\ Target(c) \in STREAM
  BY CallerFrame, CallOfEs DEF CallInv
<1>2. XstreamTypeInv'
  BY <1>1, CallerTypes
<1>3. ASSUME NEW d \in CALLER, NEW k \in DOMAIN todo'[d]
      PROVE  \E m \in DOMAIN todo[d] : todo'[d][k] = todo[d][m]
  BY <1>3, WasBefore
<1>4. ASSUME NEW d \in CALLER, NEW k \in DOMAIN todo'[d] PROVE Accepted(todo'[d][k])
  BY <1>3 DEF UsersInv
<1>5. ASSUME NEW d \in CALLER, NEW y, UsedOnlyBy(d, y) PROVE UsedOnlyBy(d, y)'
  <2>. SUFFICES ASSUME NEW e \in CALLER \ {d}, NEW k \in 1 .. Len(todo'[e])
                PROVE  todo'[e][k][2] # y
    BY DEF UsedOnlyBy
  <2>1. k \in DOMAIN todo'[e] /\ \A m \in DOMAIN todo[e] : m \in 1 .. Len(todo[e])
    BY <1>2 DEF XstreamTypeInv
  <2>. QED  BY <1>3, <1>5, <2>1 DEF UsedOnlyBy
<1>6. ASSUME NEW d \in CALLER \ {c}, Frees(d)' PROVE UsedOnlyBy(d, Target(d))'
  <2>1. call'[d] = call[d] /\ todo'[d] = todo[d]
    BY <1>1, CallerFrame
  <2>2. Frees(d) /\ Target(d)' = Target(d)
    BY <1>6, <2>1 DEF Frees, InCall, Target
  <2>3. UsedOnlyBy(d, Target(d))
    BY <2>2 DEF UsersInv
  <2>. QED  BY <1>5, <2>2, <2>3 DEF UsedOnlyBy
<1>7. ASSUME Frees(c)' PROVE UsedOnlyBy(c, Target(c))'
  <2>1. todo' = todo /\ Target(c)' = Target(c) /\ call'[c] # "idle"
    <3>1. call'[c] # "idle"
      BY <1>7 DEF Frees, JoinPoint
    <3>. QED  BY <1>1, <3>1, CallerFrame DEF Target
  <2>2. InCall(c, {"free"}) /\ call'[c] \in JoinPoint \cup {"free", "free_ctx", "free_join"}
    BY <1>7, <2>1 DEF Frees, InCall
  <2>3. CASE Frees(c)
    BY <1>5, <2>1, <2>3 DEF UsersInv, UsedOnlyBy
  <2>4. CASE ~Frees(c)
    <3>1. JoinRequest(c)
      <4>1. call[c] \notin JoinPoint \cup {"free", "free_ctx", "free_join"}
        BY <2>2, <2>4 DEF Frees
      <4>2. /\ ~JoinUlt(c) /\ ~JoinContext(c) /\ ~JoinWake(c) /\ ~JoinReturns(c) /\ ~FreeRank(c)
            /\ ~FreeContext(c) /\ ~FreeDone(c)
        BY <4>1 DEF JoinUlt, JoinContext, JoinWake, JoinReturns, FreeRank, FreeContext, FreeDone, CallAt,
                    JoinPoint
      <4>3. /\ ~NullHandle(c) /\ ~PushUnit(c) /\ ~CreateXstream(c) /\ ~CreateFails(c)
            /\ ~ChangeRank(c) /\ ~ReviveError(c) /\ ~ReviveContext(c) /\ ~Cancel(c)
        <5>1. ~EndCall(c)
          BY <2>1 DEF EndCall, XstreamTypeInv
        <5>. QED  BY <5>1 DEF NullHandle, PushUnit, CreateXstream, CreateFails, ChangeRank, ReviveError,
                              ReviveContext, Cancel
      <4>4. ~SetNewRank(c) /\ ~ReviveUlt(c)
        BY <2>2 DEF SetNewRank, ReviveUlt, Begins, BeginsOn, InCall
      <4>. QED  BY <4>2, <4>3, <4>4 DEF CallerStep
    <3>2. UsedOnlyBy(c, Target(c))
      BY <2>2, <3>1 DEF JoinRequest, BeginsOn, Begins, InCall
    <3>. QED  BY <1>5, <2>1, <3>2 DEF UsedOnlyBy
  <2>. QED  BY <2>3, <2>4
<1>. QED  BY <1>4, <1>6, <1>7 DEF UsersInv

LEMMA ListInitially == XstreamInit => ListInv /\ UsersInv
<1>. SUFFICES ASSUME XstreamInit PROVE ListInv /\ UsersInv
  OBVIOUS
<1>1. PRIMARY \in STREAM
  BY XstreamAssumption
<1>2. list \in ListLinks /\ rank \in [STREAM -> Nat] /\ rank[PRIMARY] = 0
  BY <1>1 DEF XstreamInit, ListLinks
<1>3. \A x \in STREAM : OnList(x) <=> x = PRIMARY
  BY DEF XstreamInit, OnList
<1>. DEFINE s == <<PRIMARY>>
<1>4. /\ s \in Seq(STREAM) /\ Len(s) = 1 /\ s[1] = PRIMARY /\ DOMAIN s = 1 .. 1
  BY <1>1
<1>. HIDE DEF s
<1>5. IsList(list, s)
  BY <1>1, <1>4 DEF IsList, XstreamInit
<1>6. Range(s) = {x \in STREAM : OnList(x)}
  BY <1>1, <1>3, <1>4 DEF Range
<1>7. Ascending(s, rank)
  BY <1>4 DEF Ascending
<1>8. Lists(s)
  BY <1>4, <1>5, <1>6, <1>7 DEF Lists, XstreamInit
<1>9. UsersInv
  <2>1. \A c \in CALLER : ~Frees(c)
    BY DEF XstreamInit, Frees, JoinPoint
  <2>2. LegalUse(todo)
    BY XstreamAssumption DEF XstreamInit
  <2>. QED  BY <2>1, <2>2 DEF UsersInv, LegalUse
<1>. QED  BY <1>2, <1>8, <1>9 DEF ListInv

LEMMA ListInductive ==
    XstreamInv /\ ListInv /\ UsersInv /\ [XstreamNext]_xstreamVars => ListInv' /\ UsersInv'
<1>. SUFFICES ASSUME XstreamInv, ListInv, UsersInv, [XstreamNext]_xstreamVars
              PROVE  ListInv' /\ UsersInv'
  OBVIOUS
<1>1. ASSUME NEW c \in CALLER, CallerStep(c) PROVE ListInv' /\ UsersInv'
  BY <1>1, CallerKeepsList, CallerKeepsUsers DEF XstreamInv
<1>2. CASE UNCHANGED <<life, rankVars, call, todo>>
  <2>1. \A x \in STREAM : OnList(x)' <=> OnList(x)
    BY <1>2 DEF OnList, Target
  <2>2. UsersInv'
    BY <1>2 DEF UsersInv, Frees, InCall, UsedOnlyBy, Target
  <2>. QED  BY <1>2, <2>1, <2>2, ListKept
<1>3. ASSUME NEW x \in STREAM, NativeStep(x) PROVE UNCHANGED <<life, rankVars, call, todo>>
  <2>. USE DEF callerVars
  <2>1. CASE RootPop(x) \/ RunUnit(x) \/ RunNothing(x) \/ CheckEvents(x) \/ HasToStop(x)
    BY <2>1 DEF RootPop, RunUnit, RunNothing, CheckEvents, HasToStop
  <2>2. CASE AfterRun(x) \/ RootEnd(x) \/ NativeFinish(x) \/ NativeWake(x)
    BY <2>2 DEF AfterRun, RootEnd, NativeFinish, NativeWake
  <2>. QED  BY <1>3, <2>1, <2>2 DEF NativeStep
<1>4. ASSUME NEW x \in STREAM, SpuriousWake(x) PROVE UNCHANGED <<life, rankVars, call, todo>>
  BY <1>4 DEF SpuriousWake, callerVars
<1>5. CASE UNCHANGED xstreamVars
  BY <1>2, <1>5 DEF xstreamVars, callerVars
<1>. QED  BY <1>1, <1>2, <1>3, <1>4, <1>5 DEF XstreamNext

LEMMA ListInvariance == XstreamSpec => []ListInv
BY ListInitially, ListInductive, XstreamInvariance, PTL DEF XstreamSpec

(* Besides the assertions, the list of ESs holds those that exist in the   *)
(* order of their ranks, linked both ways, and num_xstreams counts them,   *)
(* whatever the callers create, free and rank again meanwhile.             *)
THEOREM StreamsConsistent == XstreamSpec => []XstreamsConsistent
<1>1. ListInv => RankList
  <2>. SUFFICES ASSUME ListInv PROVE RankList
    OBVIOUS
  <2>1. PICK s : Lists(s)
    BY DEF ListInv
  <2>2. /\ s \in Seq(STREAM) /\ Len(s) \in Nat
        /\ \A j, k \in 1 .. Len(s) : s[j] = s[k] => j = k
    <3>1. s \in Seq(STREAM) /\ Ascending(s, rank) /\ rank \in [STREAM -> Nat]
      BY <2>1 DEF Lists, IsList, ListInv
    <3>. QED  BY <3>1, AscendingOnce
  <2>3. Order(list) = s
    BY <2>1, <2>2, OrderOfList DEF Lists
  <2>4. ASSUME NEW k \in 1 .. Len(s)
        PROVE  /\ list.prev[s[k]] = IF k = 1 THEN NOSTREAM ELSE s[k - 1]
               /\ k > 1 => rank[s[k - 1]] < rank[s[k]]
    <3>1. k > 1 => k - 1 \in 1 .. Len(s) /\ k - 1 < k
      BY <2>2
    <3>2. list.prev[s[k]] = IF k = 1 THEN NOSTREAM ELSE s[k - 1]
      BY <2>1 DEF Lists, IsList
    <3>. QED  BY <2>1, <3>1, <3>2 DEF Lists, Ascending
  <2>5. Range(s) = {x \in STREAM : OnList(x)} /\ num_xstreams = Len(s)
    BY <2>1 DEF Lists
  <2>. QED  BY <2>3, <2>4, <2>5 DEF RankList, OnList
<1>. QED  BY <1>1, ListInvariance, StreamAssertions, PTL DEF XstreamsConsistent

-----------------------------------------------------------------------------
(* The pages of the memory pools.                                          *)

PushPoint == {"push", "push_tag", "push_cas"}

MemPoint == PushPoint \cup {"idle", "pop", "pop_tag", "pop_next", "pop_cas", "partial",
                            "partial_release", "page_alloc", "carve", "carved", "deliver",
                            "destroy", "ext_free", "ext_release"}

MemStatus == [LocalPool -> {"none", "init", "live", "gone"}]

(* What a record of local variables is, whatever the headers in it are.    *)
RegField == {"pool", "op", "lifo", "top", "tag", "next", "elem", "then", "page", "head", "num"}

IsReg(r) == DOMAIN r = RegField /\ r.lifo \in Lifo

MemTypes ==
    /\ DOMAIN p_top = Lifo /\ p_top["page"] \in Page \cup {None}
    /\ tag \in [Lifo -> Nat]
    /\ DOMAIN link = Lifo /\ link["page"] \in [Page -> Page \cup {None}]
    /\ pages = 1 .. Cardinality(pages) /\ pages \subseteq Page
    /\ mem_pc \in [Actor -> MemPoint]
    /\ DOMAIN reg = Actor /\ \A a \in Actor : IsReg(reg[a])
    /\ status \in MemStatus

OnPages(a) == reg[a].lifo = "page"

(* What a thread knows of the LIFO of pages.  If the tag is the one it has *)
(* read, so is everything else that it has read.                           *)
ActorOK(a) ==
    /\ mem_pc[a] = "carve" => reg[a].page \in Page
    /\ mem_pc[a] \in PushPoint =>
          reg[a].then \in {"idle", "carved", "destroy", "partial_release", "ext_release"}
    /\ mem_pc[a] = "ext_free" => reg[a].op = "free"
    /\ reg[a].op = "init" => reg[a].pool \in MEM_ES
    /\ OnPages(a) =>
       /\ mem_pc[a] \in PushPoint => reg[a].elem \in Page /\ reg[a].then = "carved"
       /\ mem_pc[a] \in {"push_tag", "push_cas"} => reg[a].top \in Page \cup {None}
       /\ mem_pc[a] \in {"pop_tag", "pop_next", "pop_cas"} => reg[a].top \in Page
       /\ mem_pc[a] \in {"pop_next", "pop_cas"} => reg[a].tag \in Nat /\ reg[a].tag <= tag["page"]
       /\ mem_pc[a] = "pop_cas" /\ p_top["page"] = reg[a].top /\ tag["page"] = reg[a].tag
             => reg[a].next = link["page"][reg[a].top]
       /\ mem_pc[a] = "push_cas" => link["page"][reg[a].elem] = reg[a].top

ActorsOK == \A a \in Actor : ActorOK(a)

(* The page that a thread carves, or is about to push.                     *)
HeldPages(a) ==
    IF mem_pc[a] = "carve" THEN {reg[a].page}
    ELSE IF mem_pc[a] \in PushPoint /\ OnPages(a) THEN {reg[a].elem} ELSE {}

(* The LIFO of pages, from the top.                                        *)
IsStack(s) ==
    /\ \A i, j \in 1 .. Len(s) : s[i] = s[j] => i = j
    /\ p_top["page"] = IF s = <<>> THEN None ELSE s[1]
    /\ \A i \in 1 .. Len(s) : link["page"][s[i]] = IF i = Len(s) THEN None ELSE s[i + 1]

(* Each page is in the LIFO, on the list of empty ones or held by one      *)
(* thread, and none that is held is in the LIFO.                           *)
Accounted(S) ==
    /\ pages = S \cup p_mem_page_empty \cup UNION {HeldPages(a) : a \in Actor}
    /\ \A a \in Actor : HeldPages(a) \cap S = {}
    /\ \A a, b \in Actor : a # b => HeldPages(a) \cap HeldPages(b) = {}

StackInv == pages_freed = {} => \E s \in Seq(Page) : IsStack(s) /\ Accounted(Range(s))

(* When the pool of the external threads is destroyed, or has been, there  *)
(* is nobody but the thread that finalizes.                                *)
FinalInv ==
    status[ext] = "gone" =>
       /\ \A x \in MEM_ES : status[x] \in {"none", "gone"}
       /\ \A a \in Actor \ {PRIMARY_ES} : mem_pc[a] = "idle"
       /\ mem_pc[PRIMARY_ES] = "idle" \/ reg[PRIMARY_ES].op = "destroy"

FreedInv ==
    pages_freed # {} => status[ext] = "gone" /\ (\A a \in Actor : mem_pc[a] = "idle") /\ pages_freed = pages

MemInv == MemTypes /\ ActorsOK /\ FinalInv /\ FreedInv /\ StackInv

(* What the steps of the threads rely on, which take no page from the      *)
(* LIFO without this.                                                      *)
PagesInv == MemTypes /\ ActorsOK /\ pages_freed = {} /\ StackInv

USE DEF PagesInv

-----------------------------------------------------------------------------
(* Fields of the local variables.                                          *)

LEMMA NoRegIsReg == IsReg(NoReg)
  BY DEF IsReg, NoReg, Lifo, RegField

(* The step of a thread to l, with local variables r.                      *)
Moves(a) ==
    /\ mem_pc' \in [Actor -> MemPoint]
    /\ DOMAIN reg' = Actor /\ \A b \in Actor : IsReg(reg'[b])
    /\ \A b \in Actor \ {a} : mem_pc'[b] = mem_pc[b] /\ reg'[b] = reg[b]

LEMMA GoTo ==
    ASSUME MemTypes, NEW a \in Actor, NEW l \in MemPoint, NEW r, IsReg(r), Go(a, l, r)
    PROVE  Moves(a) /\ mem_pc'[a] = l /\ reg'[a] = r
  BY DEF MemTypes, Go, Moves

(* What is shared of the pages stays what it is.                           *)
SamePages ==
    /\ DOMAIN p_top' = Lifo /\ DOMAIN link' = Lifo /\ tag' \in [Lifo -> Nat]
    /\ p_top'["page"] = p_top["page"] /\ tag'["page"] = tag["page"]
    /\ link'["page"] = link["page"]
    /\ pages' = pages /\ p_mem_page_empty' = p_mem_page_empty /\ pages_freed' = pages_freed
    /\ status' \in MemStatus

(* The LIFO of pages does not care about steps that leave them alone.      *)
LEMMA QuietStep ==
    ASSUME PagesInv, NEW a \in Actor, Moves(a), SamePages,
           HeldPages(a)' = HeldPages(a), ActorOK(a)'
    PROVE  PagesInv'
<1>1. MemTypes'
  BY DEF MemTypes, Moves, SamePages
<1>2. ASSUME NEW b \in Actor \ {a}
      PROVE  ActorOK(b)'
  BY <1>2 DEF ActorsOK, ActorOK, OnPages, Moves, SamePages
<1>3. \A b \in Actor : HeldPages(b)' = HeldPages(b)
  BY DEF HeldPages, OnPages, Moves
<1>4. ASSUME NEW s \in Seq(Page), IsStack(s), Accounted(Range(s))
      PROVE  IsStack(s)' /\ Accounted(Range(s))'
  <2>1. IsStack(s)'
    BY <1>4 DEF IsStack, SamePages
  <2>2. UNION {HeldPages(b)' : b \in Actor} = UNION {HeldPages(b) : b \in Actor}
    BY <1>3
  <2>. HIDE DEF HeldPages
  <2>3. Accounted(Range(s))'
    BY <1>3, <1>4, <2>2 DEF Accounted, SamePages
  <2>. QED  BY <2>1, <2>3
<1>5. StackInv'
  BY <1>4 DEF StackInv, SamePages
<1>. QED  BY <1>1, <1>2, <1>5 DEF ActorsOK, SamePages

(* Points where a thread knows nothing of the pages.                       *)
LEMMA AwayFromPages ==
    ASSUME NEW a \in Actor,
           mem_pc[a] \notin PushPoint \cup {"carve", "pop_tag", "pop_next", "pop_cas", "ext_free"},
           reg[a].op = "init" => reg[a].pool \in MEM_ES
    PROVE  ActorOK(a) /\ HeldPages(a) = {}
  BY DEF ActorOK, HeldPages, PushPoint

(* A thread that comes to such a point from another one.                   *)
LEMMA AwayStep ==
    ASSUME PagesInv, NEW a \in Actor, HeldPages(a) = {}, NEW l, NEW r,
           l \in MemPoint \ (PushPoint \cup {"carve", "pop_tag", "pop_next", "pop_cas", "ext_free"}),
           IsReg(r), r.op = "init" => r.pool \in MEM_ES, Go(a, l, r), SamePages
    PROVE  PagesInv'
<1>1. Moves(a) /\ mem_pc'[a] = l /\ reg'[a] = r
  BY GoTo
<1>2. ActorOK(a)' /\ HeldPages(a)' = {}
  BY <1>1, AwayFromPages DEF ActorOK, HeldPages, PushPoint
<1>. QED  BY <1>1, <1>2, QuietStep

(* A thread that is going to push a bucket.                                *)
LEMMA PushStart ==
    ASSUME PagesInv, NEW a \in Actor, HeldPages(a) = {},
           NEW r, NEW elem, NEW then, IsReg(r), r.op = "init" => r.pool \in MEM_ES,
           then \in {"idle", "carved", "destroy", "partial_release", "ext_release"},
           PushTo(a, r, "bucket", elem, then), SamePages
    PROVE  PagesInv'
<1>. DEFINE q == [r EXCEPT !.lifo = "bucket", !.elem = elem, !.then = then]
<1>1. IsReg(q) /\ q.lifo = "bucket" /\ q.then = then /\ q.op = r.op /\ q.pool = r.pool
  BY DEF IsReg, RegField, Lifo
<1>2. Go(a, "push", q)
  BY DEF PushTo
<1>. HIDE DEF q
<1>3. Moves(a) /\ mem_pc'[a] = "push" /\ reg'[a] = q
  BY <1>1, <1>2, GoTo DEF MemPoint, PushPoint
<1>4. ActorOK(a)' /\ HeldPages(a)' = {}
  BY <1>1, <1>3 DEF ActorOK, HeldPages, PushPoint, OnPages
<1>. QED  BY <1>3, <1>4, QuietStep

(* A thread that is going to pop from either LIFO.                         *)
LEMMA PopStart ==
    ASSUME PagesInv, NEW a \in Actor, HeldPages(a) = {},
           NEW r, NEW l \in Lifo, IsReg(r), r.op = "init" => r.pool \in MEM_ES,
           PopTo(a, r, l), SamePages
    PROVE  PagesInv'
<1>. DEFINE q == [r EXCEPT !.lifo = l]
<1>1. IsReg(q) /\ q.op = r.op /\ q.pool = r.pool
  BY DEF IsReg, RegField
<1>2. Go(a, "pop", q)
  BY DEF PopTo
<1>. HIDE DEF q
<1>. QED  BY <1>1, <1>2, AwayStep DEF MemPoint, PushPoint

(* The end of an operation.                                                *)
LEMMA ReturnStep ==
    ASSUME PagesInv, NEW a \in Actor, HeldPages(a) = {}, Return(a), SamePages
    PROVE  PagesInv'
<1>1. Go(a, "idle", NoReg) /\ NoReg.op # "init"
  BY DEF Return, NoReg
<1>. QED  BY <1>1, AwayStep, NoRegIsReg DEF MemPoint, PushPoint

-----------------------------------------------------------------------------
(* The steps that leave the pages alone, or only read them.                *)

LEMMA PopReadStep ==
    ASSUME PagesInv, NEW a \in Actor,
           LifoEmpty(a) \/ PopTop(a) \/ PopTag(a) \/ PopNext(a)
    PROVE  PagesInv'
<1>. DEFINE l == reg[a].lifo
<1>1. IsReg(reg[a]) /\ l \in Lifo /\ ActorOK(a)
  BY DEF MemTypes, IsReg, ActorsOK
<1>2. SamePages
  BY DEF LifoEmpty, PopTop, PopTag, PopNext, globalPoolVars, localPoolVars, SamePages, MemTypes
<1>3. HeldPages(a) = {}
  BY DEF LifoEmpty, PopTop, PopTag, PopNext, IsAt, HeldPages, PushPoint
<1>4. reg[a].op = "init" => reg[a].pool \in MEM_ES
  BY <1>1 DEF ActorOK
<1>5. CASE LifoEmpty(a)
  <2>1. CASE l = "bucket"
    BY <1>1, <1>2, <1>3, <1>4, <1>5, <2>1, PopStart DEF LifoEmpty, Lifo
  <2>2. CASE l # "bucket"
    BY <1>1, <1>2, <1>3, <1>4, <1>5, <2>2, AwayStep DEF LifoEmpty, MemPoint, PushPoint
  <2>. QED  BY <2>1, <2>2
<1>6. CASE PopTop(a)
  <2>. DEFINE r == [reg[a] EXCEPT !.top = p_top[l]]
  <2>1. /\ IsReg(r) /\ r.lifo = l /\ r.top = p_top[l] /\ r.op = reg[a].op /\ r.pool = reg[a].pool
        /\ p_top[l] # None /\ Go(a, "pop_tag", r)
    BY <1>1, <1>6 DEF PopTop, IsReg, RegField
  <2>. HIDE DEF r
  <2>2. Moves(a) /\ mem_pc'[a] = "pop_tag" /\ reg'[a] = r
    BY <2>1, GoTo DEF MemPoint
  <2>3. ActorOK(a)' /\ HeldPages(a)' = {}
    BY <1>4, <2>1, <2>2 DEF ActorOK, HeldPages, PushPoint, OnPages, MemTypes
  <2>. QED  BY <1>2, <1>3, <2>2, <2>3, QuietStep
<1>7. CASE PopTag(a)
  <2>. DEFINE r == [reg[a] EXCEPT !.tag = tag[l]]
  <2>1. /\ IsReg(r) /\ r.lifo = l /\ r.top = reg[a].top /\ r.tag = tag[l]
        /\ r.op = reg[a].op /\ r.pool = reg[a].pool /\ Go(a, "pop_next", r)
    BY <1>1, <1>7 DEF PopTag, IsReg, RegField
  <2>. HIDE DEF r
  <2>2. Moves(a) /\ mem_pc'[a] = "pop_next" /\ reg'[a] = r /\ mem_pc[a] = "pop_tag"
    BY <1>7, <2>1, GoTo DEF MemPoint, PopTag, IsAt
  <2>3. l = "page" => r.top \in Page /\ r.tag \in Nat /\ r.tag = tag["page"]
    BY <1>1, <2>1, <2>2 DEF ActorOK, OnPages, MemTypes
  <2>4. ActorOK(a)' /\ HeldPages(a)' = {}
    BY <1>2, <1>4, <2>1, <2>2, <2>3 DEF ActorOK, HeldPages, PushPoint, OnPages, SamePages
  <2>. QED  BY <1>2, <1>3, <2>2, <2>4, QuietStep
<1>8. CASE PopNext(a)
  <2>. DEFINE r == [reg[a] EXCEPT !.next = link[l][reg[a].top]]
  <2>1. /\ IsReg(r) /\ r.lifo = l /\ r.top = reg[a].top /\ r.tag = reg[a].tag
        /\ r.next = link[l][reg[a].top]
        /\ r.op = reg[a].op /\ r.pool = reg[a].pool /\ Go(a, "pop_cas", r)
    BY <1>1, <1>8 DEF PopNext, IsReg, RegField
  <2>. HIDE DEF r
  <2>2. Moves(a) /\ mem_pc'[a] = "pop_cas" /\ reg'[a] = r /\ mem_pc[a] = "pop_next"
    BY <1>8, <2>1, GoTo DEF MemPoint, PopNext, IsAt
  <2>3. l = "page" => /\ r.top \in Page /\ r.tag \in Nat /\ r.tag <= tag["page"]
                      /\ r.next = link["page"][r.top]
    BY <1>1, <2>1, <2>2 DEF ActorOK, OnPages
  <2>4. ActorOK(a)' /\ HeldPages(a)' = {}
    BY <1>2, <1>4, <2>1, <2>2, <2>3 DEF ActorOK, HeldPages, PushPoint, OnPages, SamePages
  <2>. QED  BY <1>2, <1>3, <2>2, <2>4, QuietStep
<1>. QED  BY <1>5, <1>6, <1>7, <1>8

(* A pop that fails, or takes a bucket.                                    *)
LEMMA PopCasQuiet ==
    ASSUME PagesInv, NEW a \in Actor, PopCas(a),
           reg[a].lifo = "bucket" \/ UNCHANGED <<p_top, tag>>
    PROVE  PagesInv'
<1>. DEFINE l == reg[a].lifo
            q == [reg[a] EXCEPT !.top = None, !.tag = 0, !.next = None]
<1>1. IsReg(reg[a]) /\ l \in Lifo /\ ActorOK(a) /\ tag[l] \in Nat
  BY DEF MemTypes, IsReg, ActorsOK
<1>2. HeldPages(a) = {}
  BY DEF PopCas, IsAt, HeldPages, PushPoint
<1>3. reg[a].op = "init" => reg[a].pool \in MEM_ES
  BY <1>1 DEF ActorOK
<1>4. IsReg(q) /\ q.lifo = l /\ q.op = reg[a].op /\ q.pool = reg[a].pool
  BY <1>1 DEF IsReg, RegField
<1>6. tag[l] # tag[l] + 1
  BY <1>1
<1>7. CASE Go(a, "pop", q) /\ UNCHANGED <<p_top, tag>>
  <2>1. SamePages
    BY <1>7 DEF PopCas, MemTypes, SamePages, localPoolVars
  <2>. QED  BY <1>2, <1>3, <1>4, <1>7, <2>1, AwayStep DEF MemPoint, PushPoint
<1>8. CASE p_top' = [p_top EXCEPT ![l] = reg[a].next] /\ tag' = [tag EXCEPT ![l] = @ + 1]
           /\ Popped(a) /\ l = "bucket"
  <2>. DEFINE r == [q EXCEPT !.head = reg[a].top, !.num = PER]
  <2>1. SamePages
    BY <1>1, <1>8 DEF PopCas, MemTypes, SamePages, localPoolVars, Lifo
  <2>2. IsReg(r) /\ r.op = reg[a].op /\ r.pool = reg[a].pool
    BY <1>4 DEF IsReg, RegField
  <2>3. Go(a, "deliver", r)
    BY <1>4, <1>8 DEF Popped
  <2>. HIDE DEF r
  <2>. QED  BY <1>2, <1>3, <2>1, <2>2, <2>3, AwayStep DEF MemPoint, PushPoint
<1>9. \/ Go(a, "pop", q) /\ UNCHANGED <<p_top, tag>>
      \/ p_top' = [p_top EXCEPT ![l] = reg[a].next] /\ tag' = [tag EXCEPT ![l] = @ + 1]
         /\ Popped(a)
  BY DEF PopCas
<1>10. tag' = [tag EXCEPT ![l] = @ + 1] => tag' # tag
  BY <1>1, <1>6 DEF MemTypes
<1>. QED  BY <1>7, <1>8, <1>9, <1>10

(* A push that has read the top, or failed, or is one of a bucket.         *)
LEMMA PushTopStep ==
    ASSUME PagesInv, NEW a \in Actor, PushTop(a)
    PROVE  PagesInv'
<1>. DEFINE l == reg[a].lifo
            r == [reg[a] EXCEPT !.top = p_top[l]]
<1>1. IsReg(reg[a]) /\ l \in Lifo /\ ActorOK(a) /\ mem_pc[a] = "push"
  BY DEF MemTypes, IsReg, ActorsOK, PushTop, IsAt
<1>2. SamePages
  BY DEF PushTop, globalPoolVars, localPoolVars, SamePages, MemTypes
<1>3. /\ IsReg(r) /\ r.lifo = l /\ r.top = p_top[l] /\ r.op = reg[a].op /\ r.pool = reg[a].pool
      /\ r.elem = reg[a].elem /\ r.then = reg[a].then /\ Go(a, "push_tag", r)
  BY <1>1 DEF PushTop, IsReg, RegField
<1>. HIDE DEF r
<1>4. Moves(a) /\ mem_pc'[a] = "push_tag" /\ reg'[a] = r
  BY <1>3, GoTo DEF MemPoint, PushPoint
<1>5. ActorOK(a)'
  BY <1>1, <1>3, <1>4 DEF ActorOK, PushPoint, OnPages, MemTypes
<1>6. HeldPages(a)' = HeldPages(a)
  BY <1>1, <1>3, <1>4 DEF HeldPages, PushPoint, OnPages
<1>. QED  BY <1>2, <1>4, <1>5, <1>6, QuietStep

LEMMA PushTagQuiet ==
    ASSUME PagesInv, NEW a \in Actor, PushTag(a), reg[a].lifo = "bucket"
    PROVE  PagesInv'
<1>. DEFINE r == [reg[a] EXCEPT !.tag = tag["bucket"]]
<1>1. IsReg(reg[a]) /\ ActorOK(a) /\ mem_pc[a] = "push_tag"
  BY DEF MemTypes, IsReg, ActorsOK, PushTag, IsAt
<1>2. SamePages
  BY DEF PushTag, localPoolVars, SamePages, MemTypes, Lifo
<1>3. /\ IsReg(r) /\ r.lifo = "bucket" /\ r.op = reg[a].op /\ r.pool = reg[a].pool
      /\ r.elem = reg[a].elem /\ r.then = reg[a].then /\ Go(a, "push_cas", r)
  BY <1>1 DEF PushTag, IsReg, RegField
<1>. HIDE DEF r
<1>4. Moves(a) /\ mem_pc'[a] = "push_cas" /\ reg'[a] = r
  BY <1>3, GoTo DEF MemPoint, PushPoint
<1>5. ActorOK(a)'
  BY <1>1, <1>3, <1>4 DEF ActorOK, PushPoint, OnPages, MemTypes
<1>6. HeldPages(a)' = HeldPages(a)
  BY <1>1, <1>3, <1>4 DEF HeldPages, PushPoint, OnPages
<1>. QED  BY <1>2, <1>4, <1>5, <1>6, QuietStep

LEMMA PushCasQuiet ==
    ASSUME PagesInv, NEW a \in Actor, PushCas(a),
           reg[a].lifo = "bucket" \/ UNCHANGED <<p_top, tag>>
    PROVE  PagesInv'
<1>. DEFINE l == reg[a].lifo
            r == [reg[a] EXCEPT !.top = None, !.tag = 0]
            q == [r EXCEPT !.elem = None, !.then = "idle"]
<1>1. IsReg(reg[a]) /\ l \in Lifo /\ ActorOK(a) /\ mem_pc[a] = "push_cas" /\ tag[l] \in Nat
  BY DEF MemTypes, IsReg, ActorsOK, PushCas, IsAt
<1>3. /\ IsReg(r) /\ r.lifo = l /\ r.op = reg[a].op /\ r.pool = reg[a].pool
      /\ r.elem = reg[a].elem /\ r.then = reg[a].then
  BY <1>1 DEF IsReg, RegField
<1>4. IsReg(q) /\ q.op = reg[a].op /\ q.pool = reg[a].pool
  BY <1>3 DEF IsReg, RegField
<1>5. \/ Go(a, "push", r) /\ UNCHANGED <<p_top, tag>>
      \/ /\ p_top' = [p_top EXCEPT ![l] = r.elem] /\ tag' = [tag EXCEPT ![l] = @ + 1]
         /\ Go(a, r.then, IF r.then = "idle" THEN NoReg ELSE q)
  BY DEF PushCas
<1>. HIDE DEF r, q
<1>6. CASE Go(a, "push", r) /\ UNCHANGED <<p_top, tag>>
  <2>1. SamePages
    BY <1>6 DEF PushCas, MemTypes, SamePages, localPoolVars
  <2>2. Moves(a) /\ mem_pc'[a] = "push" /\ reg'[a] = r
    BY <1>3, <1>6, GoTo DEF MemPoint, PushPoint
  <2>3. ActorOK(a)'
    BY <1>1, <1>3, <2>2 DEF ActorOK, PushPoint, OnPages
  <2>4. HeldPages(a)' = HeldPages(a)
    BY <1>1, <1>3, <2>2 DEF HeldPages, PushPoint, OnPages
  <2>. QED  BY <2>1, <2>2, <2>3, <2>4, QuietStep
<1>7. CASE /\ p_top' = [p_top EXCEPT ![l] = r.elem] /\ tag' = [tag EXCEPT ![l] = @ + 1]
           /\ Go(a, r.then, IF r.then = "idle" THEN NoReg ELSE q) /\ l = "bucket"
  <2>1. SamePages
    BY <1>1, <1>7 DEF PushCas, MemTypes, SamePages, localPoolVars, Lifo
  <2>2. HeldPages(a) = {}
    BY <1>1, <1>7 DEF HeldPages, OnPages, PushPoint
  <2>3. r.then \in {"idle", "carved", "destroy", "partial_release", "ext_release"}
    BY <1>1, <1>3 DEF ActorOK, PushPoint
  <2>4. reg[a].op = "init" => reg[a].pool \in MEM_ES
    BY <1>1 DEF ActorOK
  <2>5. CASE r.then = "idle"
    <3>1. Go(a, "idle", NoReg) /\ NoReg.op # "init"
      BY <1>7, <2>5 DEF NoReg
    <3>. QED  BY <2>1, <2>2, <3>1, AwayStep, NoRegIsReg DEF MemPoint, PushPoint
  <2>6. CASE r.then # "idle"
    BY <1>4, <1>7, <2>1, <2>2, <2>3, <2>4, <2>6, AwayStep DEF MemPoint, PushPoint
  <2>. QED  BY <2>5, <2>6
<1>8. tag' = [tag EXCEPT ![l] = @ + 1] => tag' # tag
  BY <1>1 DEF MemTypes
<1>. QED  BY <1>5, <1>6, <1>7, <1>8

(* The return of a bucket that is not complete.                            *)
LEMMA PartialStep ==
    ASSUME PagesInv, NEW a \in Actor, ReturnPartial(a)
    PROVE  PagesInv'
<1>1. IsReg(reg[a]) /\ (reg[a].op = "init" => reg[a].pool \in MEM_ES)
  BY DEF MemTypes, ActorsOK, ActorOK
<1>2. HeldPages(a) = {}
  BY DEF ReturnPartial, PartialNew, PartialConnect, PartialComplete, PartialRelease,
         IsAt, HeldPages, PushPoint
<1>3. CASE PartialNew(a)
  <2>1. SamePages
    BY <1>3 DEF PartialNew, MemTypes, SamePages, Lifo, Return, MemStatus
  <2>. QED  BY <1>2, <1>3, <2>1, ReturnStep DEF PartialNew
<1>4. CASE PartialConnect(a)
  <2>1. SamePages
    BY <1>4 DEF PartialConnect, MemTypes, SamePages, Lifo, Return, MemStatus
  <2>. QED  BY <1>2, <1>4, <2>1, ReturnStep DEF PartialConnect
<1>5. CASE PartialComplete(a)
  <2>. DEFINE r == [reg[a] EXCEPT !.head = None, !.num = 0]
  <2>1. SamePages
    BY <1>5 DEF PartialComplete, MemTypes, SamePages, Lifo, localPoolVars
  <2>2. IsReg(r) /\ r.op = reg[a].op /\ r.pool = reg[a].pool
    BY <1>1 DEF IsReg, RegField
  <2>3. PushTo(a, r, "bucket", partial_bucket, "partial_release")
    BY <1>5 DEF PartialComplete
  <2>. HIDE DEF r
  <2>. QED  BY <1>1, <1>2, <2>1, <2>2, <2>3, PushStart
<1>6. CASE PartialRelease(a)
  <2>1. SamePages
    BY <1>6 DEF PartialRelease, MemTypes, SamePages, Return, MemStatus
  <2>. QED  BY <1>2, <1>6, <2>1, ReturnStep DEF PartialRelease
<1>. QED  BY <1>3, <1>4, <1>5, <1>6 DEF ReturnPartial

(* A bucket is on its way to the local pool, or cannot be had.             *)
LEMMA TakeBucketStep ==
    ASSUME PagesInv, NEW a \in Actor,
           PageAllocFails(a) \/ Carved(a) \/ Deliver(a)
    PROVE  PagesInv'
<1>1. IsReg(reg[a]) /\ (reg[a].op = "init" => reg[a].pool \in MEM_ES)
  BY DEF MemTypes, ActorsOK, ActorOK
<1>2. HeldPages(a) = {}
  BY DEF PageAllocFails, Carved, Deliver, IsAt, HeldPages, PushPoint
<1>3. CASE PageAllocFails(a)
  <2>1. SamePages
    BY <1>3 DEF PageAllocFails, globalPoolVars, MemTypes, SamePages, Return, MemStatus
  <2>2. CASE Return(a)
    BY <1>2, <2>1, <2>2, ReturnStep
  <2>3. CASE Go(a, "partial", reg[a]) /\ UNCHANGED status
    BY <1>1, <1>2, <2>1, <2>3, AwayStep DEF MemPoint, PushPoint
  <2>. QED  BY <1>3, <2>2, <2>3 DEF PageAllocFails
<1>4. CASE Carved(a)
  <2>1. SamePages
    BY <1>4 DEF Carved, globalPoolVars, localPoolVars, MemTypes, SamePages
  <2>2. CASE Go(a, "deliver", reg[a])
    BY <1>1, <1>2, <2>1, <2>2, AwayStep DEF MemPoint, PushPoint
  <2>3. CASE PopTo(a, reg[a], "page")
    BY <1>1, <1>2, <2>1, <2>3, PopStart DEF Lifo
  <2>. QED  BY <1>4, <2>2, <2>3 DEF Carved
<1>5. CASE Deliver(a)
  <2>1. SamePages
    BY <1>5 DEF Deliver, MemTypes, MemStatus, SamePages, Lifo
  <2>2. Go(a, "idle", NoReg) /\ NoReg.op # "init"
    BY <1>5 DEF Deliver, NoReg
  <2>. QED  BY <1>2, <2>1, <2>2, AwayStep, NoRegIsReg DEF MemPoint, PushPoint
<1>. QED  BY <1>3, <1>4, <1>5

-----------------------------------------------------------------------------
(* What the local pools do.                                                *)

(* The local variables with which an operation begins.                     *)
LEMMA OpReg ==
    ASSUME NEW l, NEW o
    PROVE  LET r == [NoReg EXCEPT !.pool = l, !.op = o] IN IsReg(r) /\ r.pool = l /\ r.op = o
  BY DEF IsReg, NoReg, Lifo, RegField

LEMMA AllocStep ==
    ASSUME PagesInv, NEW a \in Actor,
           AllocFast(a) \/ AllocLower(a) \/ AllocLast(a)
    PROVE  PagesInv'
<1>1. IsReg(reg[a]) /\ ActorOK(a) /\ mem_pc[a] = "idle"
  BY DEF MemTypes, ActorsOK, AllocFast, AllocLower, AllocLast, CallAlloc, IsAt
<1>2. HeldPages(a) = {}
  BY <1>1 DEF HeldPages, PushPoint
<1>3. SamePages
  BY DEF AllocFast, AllocLower, AllocLast, CallAlloc, WriteHeader, MemTypes, SamePages, Lifo
<1>4. CASE UNCHANGED <<mem_pc, reg>>
  <2>1. Moves(a) /\ HeldPages(a)' = HeldPages(a)
    BY <1>4 DEF Moves, MemTypes, HeldPages, OnPages
  <2>2. ActorOK(a)'
    BY <1>1, <1>4 DEF ActorOK, PushPoint
  <2>. QED  BY <1>3, <2>1, <2>2, QuietStep
<1>5. CASE AllocLast(a)
  <2>1. PopTo(a, [NoReg EXCEPT !.pool = a, !.op = "alloc"], "bucket")
    BY <1>5 DEF AllocLast
  <2>. QED  BY <1>2, <1>3, <2>1, OpReg, PopStart DEF Lifo
<1>. QED  BY <1>4, <1>5 DEF AllocFast, AllocLower

(* A block is pages_freed: it goes to the current bucket, or begins a new one,   *)
(* and if there was no room for that the full bucket below is pushed.      *)
LEMMA FreeIntoStep ==
    ASSUME PagesInv, NEW a \in Actor, NEW l, NEW h,
           NEW after \in {"idle", "ext_release"}, HeldPages(a) = {},
           FreeInto(a, l, h, after), SamePages
    PROVE  PagesInv'
<1>. DEFINE r == [NoReg EXCEPT !.pool = l, !.op = "free"]
<1>1. IsReg(r) /\ r.op = "free" /\ IsReg(NoReg) /\ NoReg.op = "none"
  BY OpReg, NoRegIsReg DEF NoReg
<1>2. \/ Go(a, after, IF after = "idle" THEN NoReg ELSE r)
      \/ PushTo(a, r, "bucket", Head(buckets[l]), after)
  BY DEF FreeInto, FreeReturns
<1>. HIDE DEF r
<1>3. CASE Go(a, after, IF after = "idle" THEN NoReg ELSE r)
  <2>1. CASE after = "idle"
    BY <1>1, <1>3, <2>1, AwayStep DEF MemPoint, PushPoint
  <2>2. CASE after = "ext_release"
    BY <1>1, <1>3, <2>2, AwayStep DEF MemPoint, PushPoint
  <2>. QED  BY <2>1, <2>2
<1>4. CASE PushTo(a, r, "bucket", Head(buckets[l]), after)
  BY <1>1, <1>4, PushStart
<1>. QED  BY <1>2, <1>3, <1>4

LEMMA FreeStep ==
    ASSUME PagesInv, NEW a \in Actor,
           (\E h \in Header : Free(a, h) \/ ExtAcquire(a, h)) \/ ExtFree(a) \/ ExtRelease(a)
    PROVE  PagesInv'
<1>1. HeldPages(a) = {}
  BY DEF Free, ExtAcquire, ExtFree, ExtRelease, IsAt, HeldPages, PushPoint
<1>2. ASSUME NEW h \in Header, Free(a, h)
      PROVE  PagesInv'
  <2>1. SamePages
    BY <1>2 DEF Free, FreeInto, WriteHeader, MemTypes, SamePages, Lifo
  <2>. QED  BY <1>1, <1>2, <2>1, FreeIntoStep DEF Free
<1>3. ASSUME NEW h \in Header, ExtAcquire(a, h)
      PROVE  PagesInv'
  <2>. DEFINE q == [NoReg EXCEPT !.pool = ext, !.op = "free", !.head = h, !.num = 1]
  <2>1. SamePages
    BY <1>3 DEF ExtAcquire, globalPoolVars, MemTypes, SamePages
  <2>2. IsReg(q) /\ q.op = "free" /\ q.lifo = "bucket" /\ Go(a, "ext_free", q)
    BY <1>3 DEF IsReg, NoReg, Lifo, RegField, ExtAcquire
  <2>. HIDE DEF q
  <2>3. Moves(a) /\ mem_pc'[a] = "ext_free" /\ reg'[a] = q
    BY <2>2, GoTo DEF MemPoint, PushPoint
  <2>4. ActorOK(a)' /\ HeldPages(a)' = {}
    BY <2>2, <2>3 DEF ActorOK, HeldPages, PushPoint, OnPages
  <2>. QED  BY <1>1, <2>1, <2>3, <2>4, QuietStep
<1>4. CASE ExtFree(a)
  <2>1. SamePages
    BY <1>4 DEF ExtFree, FreeInto, WriteHeader, MemTypes, SamePages, Lifo
  <2>. QED  BY <1>1, <1>4, <2>1, FreeIntoStep DEF ExtFree
<1>5. CASE ExtRelease(a)
  <2>1. SamePages
    BY <1>5 DEF ExtRelease, globalPoolVars, MemTypes, SamePages
  <2>2. Go(a, "idle", NoReg) /\ NoReg.op # "init"
    BY <1>5 DEF ExtRelease, NoReg
  <2>. QED  BY <1>1, <2>1, <2>2, AwayStep, NoRegIsReg DEF MemPoint, PushPoint
<1>. QED  BY <1>2, <1>3, <1>4, <1>5

LEMMA StartDestroyStep ==
    ASSUME PagesInv, NEW a \in Actor, NEW l \in LocalPool, StartDestroy(a, l)
    PROVE  PagesInv'
<1>1. HeldPages(a) = {}
  BY DEF StartDestroy, IsAt, HeldPages, PushPoint
<1>2. SamePages
  BY DEF StartDestroy, globalPoolVars, MemTypes, MemStatus, SamePages
<1>3. Go(a, "destroy", [NoReg EXCEPT !.pool = l, !.op = "destroy"])
  BY DEF StartDestroy
<1>. QED  BY <1>1, <1>2, <1>3, OpReg, AwayStep DEF MemPoint, PushPoint

LEMMA LocalPoolStep ==
    ASSUME PagesInv, NEW a \in Actor,
           \/ \E x \in MEM_ES : Create(a, x) \/ FreeXstream(a, x)
           \/ DestroyFull(a) \/ DestroyPartial(a)
    PROVE  PagesInv'
<1>1. IsReg(reg[a]) /\ (reg[a].op = "init" => reg[a].pool \in MEM_ES)
  BY DEF MemTypes, ActorsOK, ActorOK
<1>2. CASE \E x \in MEM_ES : FreeXstream(a, x)
  BY <1>2, StartDestroyStep DEF FreeXstream, LocalPool
<1>3. ASSUME NEW x \in MEM_ES, Create(a, x)
      PROVE  PagesInv'
  <2>1. HeldPages(a) = {}
    BY <1>3 DEF Create, IsAt, HeldPages, PushPoint
  <2>2. SamePages
    BY <1>3 DEF Create, globalPoolVars, MemTypes, MemStatus, SamePages
  <2>. DEFINE r == [NoReg EXCEPT !.pool = x, !.op = "init"]
  <2>3. PopTo(a, r, "bucket")
    BY <1>3 DEF Create
  <2>4. IsReg(r) /\ r.pool = x
    BY OpReg
  <2>. HIDE DEF r
  <2>. QED  BY <2>1, <2>2, <2>3, <2>4, PopStart DEF Lifo
<1>4. CASE DestroyFull(a)
  <2>1. HeldPages(a) = {}
    BY <1>4 DEF DestroyFull, IsAt, HeldPages, PushPoint
  <2>2. SamePages
    BY <1>4 DEF DestroyFull, globalPoolVars, MemTypes, SamePages
  <2>. DEFINE b == buckets[reg[a].pool]
  <2>3. PushTo(a, reg[a], "bucket", Head(b), IF Len(b) > 1 THEN "destroy" ELSE "idle")
    BY <1>4 DEF DestroyFull
  <2>. HIDE DEF b
  <2>. QED  BY <1>1, <2>1, <2>2, <2>3, PushStart
<1>5. CASE DestroyPartial(a)
  <2>. DEFINE b == buckets[reg[a].pool]
              q == [reg[a] EXCEPT !.head = b[1], !.num = Info(b[1])]
  <2>1. HeldPages(a) = {}
    BY <1>5 DEF DestroyPartial, IsAt, HeldPages, PushPoint
  <2>2. SamePages
    BY <1>5 DEF DestroyPartial, globalPoolVars, MemTypes, SamePages
  <2>3. Go(a, "partial", q)
    BY <1>5 DEF DestroyPartial
  <2>4. IsReg(q) /\ q.op = reg[a].op /\ q.pool = reg[a].pool
    BY <1>1 DEF IsReg, RegField
  <2>. HIDE DEF q
  <2>. QED  BY <1>1, <2>1, <2>2, <2>3, <2>4, AwayStep DEF MemPoint, PushPoint
<1>. QED  BY <1>2, <1>3, <1>4, <1>5

-----------------------------------------------------------------------------
(* The steps that change the LIFO of pages, or what a thread holds of it.  *)

(* From the pages S in the LIFO to T, with the pages N allocated: a gets   *)
(* no page that another thread holds.                                      *)
LEMMA Reaccount ==
    ASSUME NEW a \in Actor, Moves(a), NEW S, NEW T, NEW N, Accounted(S),
           pages' = pages \cup N, N \cap pages = {},
           T \cup p_mem_page_empty' \cup HeldPages(a)'
             = S \cup p_mem_page_empty \cup HeldPages(a) \cup N,
           HeldPages(a)' \cap T = {}, T \subseteq S \cup HeldPages(a),
           HeldPages(a)' \subseteq S \cup HeldPages(a) \cup N
    PROVE  Accounted(T)'
<1>1. \A b \in Actor \ {a} : HeldPages(b)' = HeldPages(b)
  BY DEF HeldPages, OnPages, Moves
<1>. DEFINE others == UNION {HeldPages(b) : b \in Actor \ {a}}
<1>2. UNION {HeldPages(b) : b \in Actor} = others \cup HeldPages(a)
  OBVIOUS
<1>3. UNION {HeldPages(b)' : b \in Actor} = others \cup HeldPages(a)'
  BY <1>1
<1>. HIDE DEF HeldPages
<1>4. \A b \in Actor \ {a} : HeldPages(b) \subseteq pages
  BY <1>2 DEF Accounted
<1>5. pages' = T \cup p_mem_page_empty' \cup (others \cup HeldPages(a)')
  <2>. HIDE DEF others
  <2>. QED  BY <1>2 DEF Accounted
<1>6. \A b \in Actor : HeldPages(b)' \cap T = {}
  BY <1>1 DEF Accounted
<1>7. \A b, c \in Actor : b # c => HeldPages(b)' \cap HeldPages(c)' = {}
  <2>1. \A b \in Actor \ {a} : HeldPages(b)' \cap HeldPages(a)' = {}
    BY <1>1, <1>4 DEF Accounted
  <2>. QED  BY <1>1, <2>1 DEF Accounted
<1>. QED  BY <1>3, <1>5, <1>6, <1>7 DEF Accounted

(* What the others know of the pages when the tag grows.                   *)
LEMMA TagStep ==
    ASSUME MemTypes, ActorsOK, NEW a \in Actor, Moves(a), ActorOK(a)',
           tag'["page"] = tag["page"] + 1, link' = link
    PROVE  ActorsOK'
<1>1. ASSUME NEW b \in Actor \ {a}
      PROVE  ActorOK(b)'
  <2>1. ActorOK(b) /\ mem_pc'[b] = mem_pc[b] /\ reg'[b] = reg[b] /\ tag["page"] \in Nat
    BY DEF ActorsOK, Moves, MemTypes, Lifo
  <2>. QED  BY <2>1 DEF ActorOK, OnPages
<1>. QED  BY <1>1 DEF ActorsOK

(* A page is popped: the link that was read is that of the top still.      *)
LEMMA PopCasPage ==
    ASSUME PagesInv, NEW a \in Actor, PopCas(a),
           reg[a].lifo = "page", ~ UNCHANGED <<p_top, tag>>
    PROVE  PagesInv'
<1>. DEFINE top == reg[a].top
            q == [reg[a] EXCEPT !.top = None, !.tag = 0, !.next = None]
            r == [q EXCEPT !.page = top]
<1>1. IsReg(reg[a]) /\ ActorOK(a) /\ mem_pc[a] = "pop_cas" /\ HeldPages(a) = {}
  BY DEF MemTypes, ActorsOK, PopCas, IsAt, HeldPages, PushPoint
<1>2. IsReg(q) /\ q.lifo = "page" /\ q.op = reg[a].op /\ q.pool = reg[a].pool
  BY <1>1 DEF IsReg, RegField
<1>3. IsReg(r) /\ r.op = reg[a].op /\ r.pool = reg[a].pool /\ r.page = top /\ r.lifo = "page"
  BY <1>2 DEF IsReg, RegField
<1>4. /\ p_top["page"] = top /\ tag["page"] = reg[a].tag
      /\ p_top' = [p_top EXCEPT !["page"] = reg[a].next]
      /\ tag' = [tag EXCEPT !["page"] = @ + 1]
      /\ Go(a, "carve", r)
      /\ link' = link /\ pages' = pages /\ p_mem_page_empty' = p_mem_page_empty
      /\ pages_freed' = pages_freed /\ status' = status
  BY <1>2 DEF PopCas, Popped, localPoolVars
<1>. HIDE DEF q, r
<1>5. top \in Page /\ reg[a].next = link["page"][top]
  BY <1>1, <1>4 DEF ActorOK, OnPages
<1>6. /\ p_top'["page"] = reg[a].next /\ tag'["page"] = tag["page"] + 1
      /\ DOMAIN p_top' = Lifo /\ tag' \in [Lifo -> Nat] /\ link["page"][top] \in Page \cup {None}
  BY <1>4, <1>5 DEF MemTypes, Lifo
<1>7. Moves(a) /\ mem_pc'[a] = "carve" /\ reg'[a] = r
  BY <1>3, <1>4, GoTo DEF MemPoint
<1>8. ActorOK(a)' /\ HeldPages(a)' = {top}
  BY <1>1, <1>3, <1>5, <1>7 DEF ActorOK, HeldPages, PushPoint
<1>9. MemTypes'
  BY <1>4, <1>5, <1>6, <1>7 DEF MemTypes, Moves
<1>10. ActorsOK'
  BY <1>4, <1>6, <1>7, <1>8, TagStep
<1>11. PICK s \in Seq(Page) : IsStack(s) /\ Accounted(Range(s))
  BY DEF StackInv
<1>12. s # <<>> /\ s[1] = top
  BY <1>4, <1>5, <1>11 DEF IsStack, Page, None
<1>. DEFINE t == Tail(s)
<1>13. t \in Seq(Page) /\ Len(t) = Len(s) - 1 /\ \A i \in 1 .. Len(t) : t[i] = s[i + 1]
  BY <1>12
<1>14. Range(t) = Range(s) \ {top} /\ top \in Range(s)
  <2>. HIDE DEF t
  <2>1. Range(s) = {s[i] : i \in 1 .. Len(s)} /\ Range(t) = {t[i] : i \in 1 .. Len(t)}
    BY <1>13 DEF Range
  <2>2. ASSUME NEW i \in 1 .. Len(t)
        PROVE  t[i] \in Range(s) /\ t[i] # top
    <3>1. i + 1 \in 1 .. Len(s) /\ i + 1 # 1 /\ 1 \in 1 .. Len(s) /\ t[i] = s[i + 1]
      BY <1>12, <1>13
    <3>2. s[i + 1] \in Range(s)
      BY <2>1, <3>1
    <3>3. s[i + 1] # s[1]
      BY <1>11, <3>1 DEF IsStack
    <3>. QED  BY <1>12, <3>1, <3>2, <3>3
  <2>3. ASSUME NEW i \in 1 .. Len(s), s[i] # top
        PROVE  s[i] \in Range(t)
    <3>1. i - 1 \in 1 .. Len(t) /\ t[i - 1] = s[i]
      BY <1>12, <1>13, <2>3
    <3>. QED  BY <2>1, <3>1
  <2>. QED  BY <1>12, <2>1, <2>2, <2>3
<1>15. IsStack(t)'
  <2>. HIDE DEF t
  <2>1. ASSUME NEW i \in 1 .. Len(t), NEW j \in 1 .. Len(t), t[i] = t[j]
        PROVE  i = j
    <3>1. i + 1 \in 1 .. Len(s) /\ j + 1 \in 1 .. Len(s) /\ s[i + 1] = s[j + 1]
          /\ i \in Nat /\ j \in Nat
      BY <1>13, <2>1
    <3>2. \A k, m \in 1 .. Len(s) : s[k] = s[m] => k = m
      BY <1>11 DEF IsStack
    <3>3. i + 1 = j + 1
      BY ONLY <3>1, <3>2
    <3>. QED  BY ONLY <3>1, <3>3
  <2>2. link["page"][top] = IF t = <<>> THEN None ELSE t[1]
    BY <1>11, <1>12, <1>13 DEF IsStack
  <2>3. \A i \in 1 .. Len(t) : link["page"][t[i]] = IF i = Len(t) THEN None ELSE t[i + 1]
    BY <1>11, <1>13 DEF IsStack
  <2>. QED  BY <1>4, <1>5, <1>6, <2>1, <2>2, <2>3 DEF IsStack
<1>16. Accounted(Range(t))'
  <2>. HIDE DEF t
  <2>1. pages' = pages \cup {} /\ {} \cap pages = {}
    BY <1>4
  <2>2. Range(t) \cup p_mem_page_empty' \cup HeldPages(a)'
          = Range(s) \cup p_mem_page_empty \cup HeldPages(a) \cup {}
    BY <1>1, <1>4, <1>8, <1>14
  <2>3. /\ HeldPages(a)' \cap Range(t) = {} /\ Range(t) \subseteq Range(s) \cup HeldPages(a)
        /\ HeldPages(a)' \subseteq Range(s) \cup HeldPages(a) \cup {}
    BY <1>8, <1>14
  <2>. QED  BY <1>7, <1>11, <2>1, <2>2, <2>3, Reaccount
<1>17. StackInv'
  BY <1>13, <1>15, <1>16 DEF StackInv
<1>. QED  BY <1>4, <1>9, <1>10, <1>17

(* A page is linked to the top that was read: it is not in the LIFO, and   *)
(* no other thread is about to push it.                                    *)
LEMMA PushTagPage ==
    ASSUME PagesInv, NEW a \in Actor, PushTag(a),
           reg[a].lifo = "page"
    PROVE  PagesInv'
<1>. DEFINE e == reg[a].elem
            r == [reg[a] EXCEPT !.tag = tag["page"]]
<1>1. IsReg(reg[a]) /\ ActorOK(a) /\ mem_pc[a] = "push_tag" /\ HeldPages(a) = {e}
  BY DEF MemTypes, ActorsOK, PushTag, IsAt, HeldPages, PushPoint, OnPages
<1>2. /\ IsReg(r) /\ r.lifo = "page" /\ r.op = reg[a].op /\ r.pool = reg[a].pool
      /\ r.elem = e /\ r.then = reg[a].then /\ r.top = reg[a].top
  BY <1>1 DEF IsReg, RegField
<1>3. /\ Go(a, "push_cas", r)
      /\ link' = [link EXCEPT !["page"] = [@ EXCEPT ![e] = reg[a].top]]
      /\ p_top' = p_top /\ tag' = tag /\ pages' = pages /\ p_mem_page_empty' = p_mem_page_empty
      /\ pages_freed' = pages_freed /\ status' = status
  BY DEF PushTag, localPoolVars
<1>. HIDE DEF r
<1>4. e \in Page /\ reg[a].top \in Page \cup {None} /\ reg[a].then = "carved"
  BY <1>1 DEF ActorOK, OnPages, PushPoint
<1>5. /\ DOMAIN link' = Lifo /\ link'["page"] \in [Page -> Page \cup {None}]
      /\ link'["page"][e] = reg[a].top
      /\ \A p \in Page \ {e} : link'["page"][p] = link["page"][p]
  BY <1>3, <1>4 DEF MemTypes, Lifo
<1>6. Moves(a) /\ mem_pc'[a] = "push_cas" /\ reg'[a] = r
  BY <1>2, <1>3, GoTo DEF MemPoint, PushPoint
<1>7. ActorOK(a)' /\ HeldPages(a)' = {e}
  BY <1>1, <1>2, <1>4, <1>5, <1>6 DEF ActorOK, HeldPages, PushPoint, OnPages
<1>8. MemTypes'
  BY <1>3, <1>5, <1>6 DEF MemTypes, Moves
<1>9. PICK s \in Seq(Page) : IsStack(s) /\ Accounted(Range(s))
  BY DEF StackInv
<1>10. \A i \in 1 .. Len(s) : s[i] \in Page \ {e}
  <2>1. e \notin Range(s)
    BY <1>1, <1>9 DEF Accounted
  <2>. QED  BY <2>1 DEF Range
<1>11. p_top["page"] # e
  BY <1>4, <1>9, <1>10 DEF IsStack, Page, None
<1>12. ASSUME NEW b \in Actor \ {a}
       PROVE  ActorOK(b)'
  <2>1. ActorOK(b) /\ mem_pc'[b] = mem_pc[b] /\ reg'[b] = reg[b]
    BY <1>6 DEF ActorsOK, Moves
  <2>2. HeldPages(b) \cap {e} = {}
    BY <1>1, <1>9 DEF Accounted
  <2>3. mem_pc[b] = "push_cas" /\ OnPages(b)
          => reg[b].elem \in Page \ {e} /\ link'["page"][reg[b].elem] = reg[b].top
    BY <1>5, <2>1, <2>2 DEF ActorOK, HeldPages, PushPoint
  <2>4. mem_pc[b] = "pop_cas" /\ OnPages(b) /\ p_top["page"] = reg[b].top /\ tag["page"] = reg[b].tag
          => reg[b].next = link'["page"][reg[b].top]
    BY <1>5, <1>11, <2>1 DEF ActorOK
  <2>. QED  BY <1>3, <2>1, <2>3, <2>4 DEF ActorOK, OnPages
<1>13. IsStack(s)'
  BY <1>3, <1>5, <1>9, <1>10 DEF IsStack
<1>14. Accounted(Range(s))'
  <2>1. pages' = pages \cup {} /\ {} \cap pages = {}
    BY <1>3
  <2>2. HeldPages(a)' \cap Range(s) = {}
    BY <1>1, <1>7, <1>9 DEF Accounted
  <2>. QED  BY <1>1, <1>3, <1>6, <1>7, <1>9, <2>1, <2>2, Reaccount
<1>15. StackInv'
  BY <1>13, <1>14 DEF StackInv
<1>. QED  BY <1>3, <1>7, <1>8, <1>12, <1>15 DEF ActorsOK

(* A page is pushed.                                                       *)
LEMMA PushCasPage ==
    ASSUME PagesInv, NEW a \in Actor, PushCas(a),
           reg[a].lifo = "page", ~ UNCHANGED <<p_top, tag>>
    PROVE  PagesInv'
<1>0. PICK e : e = reg[a].elem
  OBVIOUS
<1>. DEFINE q == [reg[a] EXCEPT !.top = None, !.tag = 0]
            r == [q EXCEPT !.elem = None, !.then = "idle"]
<1>1. IsReg(reg[a]) /\ ActorOK(a) /\ mem_pc[a] = "push_cas" /\ HeldPages(a) = {e}
  BY <1>0 DEF MemTypes, ActorsOK, PushCas, IsAt, HeldPages, PushPoint, OnPages
<1>2. IsReg(q) /\ q.lifo = "page" /\ q.op = reg[a].op /\ q.pool = reg[a].pool
      /\ q.elem = e /\ q.then = reg[a].then
  BY <1>0, <1>1 DEF IsReg, RegField
<1>3. IsReg(r) /\ r.op = reg[a].op /\ r.pool = reg[a].pool
  BY <1>2 DEF IsReg, RegField
<1>4. e \in Page /\ reg[a].then = "carved" /\ link["page"][e] = reg[a].top
  BY <1>0, <1>1 DEF ActorOK, OnPages, PushPoint
<1>5. /\ p_top["page"] = reg[a].top
      /\ p_top' = [p_top EXCEPT !["page"] = e]
      /\ tag' = [tag EXCEPT !["page"] = @ + 1]
      /\ Go(a, "carved", r)
      /\ link' = link /\ pages' = pages /\ p_mem_page_empty' = p_mem_page_empty
      /\ pages_freed' = pages_freed /\ status' = status
  BY <1>2, <1>4 DEF PushCas, localPoolVars
<1>. HIDE DEF q, r
<1>6. /\ p_top'["page"] = e /\ tag'["page"] = tag["page"] + 1
      /\ DOMAIN p_top' = Lifo /\ tag' \in [Lifo -> Nat]
  BY <1>5 DEF MemTypes, Lifo
<1>7. Moves(a) /\ mem_pc'[a] = "carved" /\ reg'[a] = r
  BY <1>3, <1>5, GoTo DEF MemPoint
<1>8. ActorOK(a)' /\ HeldPages(a)' = {}
  BY <1>1, <1>3, <1>7 DEF ActorOK, HeldPages, PushPoint
<1>9. MemTypes'
  BY <1>4, <1>5, <1>6, <1>7 DEF MemTypes, Moves
<1>10. ActorsOK'
  BY <1>5, <1>6, <1>7, <1>8, TagStep
<1>11. PICK s \in Seq(Page) : IsStack(s) /\ Accounted(Range(s))
  BY DEF StackInv
<1>. DEFINE t == <<e>> \o s
<1>12. t \in Seq(Page) /\ Len(t) = Len(s) + 1 /\ t[1] = e /\ \A i \in 1 .. Len(s) : t[i + 1] = s[i]
  BY <1>4
<1>. HIDE DEF t
<1>13. \A i \in 1 .. Len(t) : i # 1 => i - 1 \in 1 .. Len(s) /\ t[i] = s[i - 1]
  <2>1. ASSUME NEW i \in 1 .. Len(t), i # 1
        PROVE  i - 1 \in 1 .. Len(s) /\ t[(i - 1) + 1] = s[i - 1] /\ (i - 1) + 1 = i
    BY <1>12, <2>1
  <2>. QED  BY <2>1
<1>14. Range(t) = Range(s) \cup {e} /\ e \notin Range(s)
  <2>1. Range(s) = {s[i] : i \in 1 .. Len(s)} /\ Range(t) = {t[i] : i \in 1 .. Len(t)}
    BY <1>12 DEF Range
  <2>2. \A i \in 1 .. Len(s) : i + 1 \in 1 .. Len(t)
    BY <1>12
  <2>3. 1 \in 1 .. Len(t)
    BY <1>12
  <2>4. Range(s) \cup {e} \subseteq Range(t)
    BY <1>12, <2>1, <2>2, <2>3
  <2>5. Range(t) \subseteq Range(s) \cup {e}
    <3>1. ASSUME NEW i \in 1 .. Len(t)
          PROVE  t[i] = e \/ t[i] \in {s[j] : j \in 1 .. Len(s)}
      <4>1. CASE i = 1
        BY <1>12, <4>1
      <4>2. CASE i # 1
        BY <1>13, <4>2
      <4>. QED  BY <4>1, <4>2
    <3>. QED  BY <2>1, <3>1
  <2>6. e \notin Range(s)
    BY <1>1, <1>11 DEF Accounted
  <2>. QED  BY <2>4, <2>5, <2>6
<1>15. IsStack(t)'
  <2>0. \A i \in 1 .. Len(s) : s[i] # e
    BY <1>14 DEF Range
  <2>1. ASSUME NEW i \in 1 .. Len(t), NEW j \in 1 .. Len(t), t[i] = t[j]
        PROVE  i = j
    <3>1. CASE i # 1 /\ j # 1
      <4>1. i - 1 = j - 1 => i = j
        OBVIOUS
      <4>. QED  BY <1>11, <1>13, <2>1, <3>1, <4>1 DEF IsStack
    <3>2. CASE i = 1 \/ j = 1
      BY <1>12, <1>13, <2>0, <2>1, <3>2
    <3>. QED  BY <3>1, <3>2
  <2>2. ASSUME NEW i \in 1 .. Len(t)
        PROVE  link["page"][t[i]] = IF i = Len(t) THEN None ELSE t[i + 1]
    <3>1. CASE i = 1
      BY <1>4, <1>5, <1>11, <1>12, <3>1 DEF IsStack
    <3>2. CASE i # 1
      <4>1. i - 1 \in 1 .. Len(s) /\ t[i] = s[i - 1]
        BY <1>13, <3>2
      <4>2. i # Len(t) => i \in 1 .. Len(s) /\ t[i + 1] = s[i]
        BY <1>12, <4>1
      <4>3. link["page"][s[i - 1]] = IF i - 1 = Len(s) THEN None ELSE s[(i - 1) + 1]
        BY <1>11, <4>1 DEF IsStack
      <4>. QED  BY <1>12, <4>1, <4>2, <4>3
    <3>. QED  BY <3>1, <3>2
  <2>3. t # <<>>
    BY <1>12
  <2>. QED  BY <1>5, <1>6, <1>12, <2>1, <2>2, <2>3 DEF IsStack
<1>16. Accounted(Range(t))'
  <2>1. pages' = pages \cup {} /\ {} \cap pages = {}
    BY <1>5
  <2>2. Range(t) \cup p_mem_page_empty' \cup HeldPages(a)'
          = Range(s) \cup p_mem_page_empty \cup HeldPages(a) \cup {}
    BY <1>1, <1>5, <1>8, <1>14
  <2>. QED  BY <1>1, <1>7, <1>8, <1>11, <1>14, <2>1, <2>2, Reaccount
<1>17. StackInv'
  BY <1>12, <1>15, <1>16 DEF StackInv
<1>. QED  BY <1>5, <1>9, <1>10, <1>17

(* A page is allocated: it is one that was not.                            *)
LEMMA PageAllocStep ==
    ASSUME MemPoolConstants, PagesInv, NEW a \in Actor, PageAlloc(a)
    PROVE  PagesInv'
<1>0. PICK n : n = Cardinality(pages)
  OBVIOUS
<1>. DEFINE p == n + 1
            r == [reg[a] EXCEPT !.page = p]
<1>1. IsReg(reg[a]) /\ ActorOK(a) /\ HeldPages(a) = {}
  BY DEF MemTypes, ActorsOK, PageAlloc, IsAt, HeldPages, PushPoint
<1>2. /\ pages # Page /\ pages' = pages \cup {p} /\ Go(a, "carve", r)
      /\ p_top' = p_top /\ tag' = tag /\ link' = link /\ p_mem_page_empty' = p_mem_page_empty
      /\ pages_freed' = pages_freed /\ status' = status
  BY <1>0 DEF PageAlloc, localPoolVars
<1>3. IsReg(r) /\ r.lifo = reg[a].lifo /\ r.op = reg[a].op /\ r.pool = reg[a].pool /\ r.page = p
  BY <1>1 DEF IsReg, RegField
<1>. HIDE DEF r
<1>4. /\ p \in Page /\ p \notin pages
      /\ pages' = 1 .. Cardinality(pages') /\ pages' \subseteq Page
  <2>1. IsFiniteSet(Page) /\ Cardinality(Page) = MAXPAGE /\ MAXPAGE \in Nat
    BY FS_Interval DEF Page, MemPoolConstants
  <2>2. pages = 1 .. n /\ pages \subseteq Page /\ IsFiniteSet(pages)
    BY <1>0, <2>1, FS_Subset DEF MemTypes
  <2>3. n \in Nat /\ n <= MAXPAGE
    BY <1>0, <2>1, <2>2, FS_Subset, FS_CardinalityType
  <2>4. n # MAXPAGE
    BY <1>2, <2>2 DEF Page
  <2>5. 1 .. p = (1 .. n) \cup {p}
    BY <2>3
  <2>6. Cardinality(1 .. p) = p - 1 + 1
    BY <2>3, FS_Interval
  <2>7. pages' = 1 .. p /\ Cardinality(1 .. p) = p
    BY <1>2, <2>2, <2>3, <2>5, <2>6
  <2>8. p \in 1 .. MAXPAGE /\ p \notin 1 .. n /\ 1 .. p \subseteq 1 .. MAXPAGE
    BY <2>1, <2>3, <2>4
  <2>. HIDE DEF p
  <2>9. p \in Page /\ p \notin pages
    BY <2>2, <2>8 DEF Page
  <2>10. pages' = 1 .. Cardinality(pages')
    BY <2>7
  <2>. QED  BY <2>7, <2>8, <2>9, <2>10 DEF Page
<1>. HIDE DEF p
<1>5. Moves(a) /\ mem_pc'[a] = "carve" /\ reg'[a] = r
  BY <1>2, <1>3, GoTo DEF MemPoint
<1>6. HeldPages(a)' = {p}
  BY <1>3, <1>5 DEF HeldPages
<1>7. ActorOK(a)'
  BY <1>1, <1>3, <1>4, <1>5 DEF ActorOK, PushPoint
<1>8. MemTypes'
  BY <1>2, <1>4, <1>5 DEF MemTypes, Moves
<1>9. ASSUME NEW b \in Actor \ {a}
      PROVE  ActorOK(b)'
  BY <1>2, <1>5, <1>9 DEF ActorsOK, ActorOK, OnPages, Moves
<1>10. PICK s \in Seq(Page) : IsStack(s) /\ Accounted(Range(s))
  BY DEF StackInv
<1>11. IsStack(s)'
  BY <1>2, <1>10 DEF IsStack
<1>12. Accounted(Range(s))'
  <2>1. {p} \cap pages = {} /\ Range(s) \subseteq pages
    BY <1>4, <1>10 DEF Accounted
  <2>2. HeldPages(a)' \cap Range(s) = {} /\ HeldPages(a)' \subseteq Range(s) \cup HeldPages(a) \cup {p}
    BY <1>6, <2>1
  <2>3. Range(s) \cup p_mem_page_empty' \cup HeldPages(a)'
          = Range(s) \cup p_mem_page_empty \cup HeldPages(a) \cup {p}
    BY <1>1, <1>2, <1>6
  <2>. QED  BY <1>1, <1>2, <1>5, <1>10, <2>1, <2>2, <2>3, Reaccount
<1>. QED  BY <1>2, <1>7, <1>8, <1>9, <1>10, <1>11, <1>12 DEF StackInv, ActorsOK

(* A page is carved: it is kept to be pushed, or is on the list of the     *)
(* empty ones.                                                             *)
LEMMA CarveStep ==
    ASSUME PagesInv, NEW a \in Actor, Carve(a)
    PROVE  PagesInv'
<1>0. PICK p : p = reg[a].page
  OBVIOUS
<1>. DEFINE h == p * PPG - mem_extra[p] + 1 + Min({mem_extra[p], PER - reg[a].num}) - 1
            m == reg[a].num + Min({mem_extra[p], PER - reg[a].num})
            r == [reg[a] EXCEPT !.page = None, !.head = h, !.num = m]
            q == [r EXCEPT !.lifo = "page", !.elem = p, !.then = "carved"]
<1>1. /\ IsReg(reg[a]) /\ ActorOK(a) /\ mem_pc[a] = "carve" /\ HeldPages(a) = {p} /\ p \in Page
      /\ (reg[a].op = "init" => reg[a].pool \in MEM_ES)
  BY <1>0 DEF MemTypes, ActorsOK, ActorOK, Carve, IsAt, HeldPages
<1>2. /\ p_top' = p_top /\ tag' = tag /\ link' = link /\ pages' = pages
      /\ pages_freed' = pages_freed /\ status' = status
      /\ \/ Go(a, "push", q) /\ p_mem_page_empty' = p_mem_page_empty
         \/ Go(a, "carved", r) /\ p_mem_page_empty' = p_mem_page_empty \cup {p}
  BY <1>0 DEF Carve, PushTo, localPoolVars
<1>. HIDE DEF h, m
<1>3. IsReg(r) /\ r.op = reg[a].op /\ r.pool = reg[a].pool
  BY <1>1 DEF IsReg, RegField
<1>4. /\ IsReg(q) /\ q.op = reg[a].op /\ q.pool = reg[a].pool /\ q.lifo = "page" /\ q.elem = p
      /\ q.then = "carved"
  BY <1>1 DEF IsReg, RegField, Lifo
<1>. HIDE DEF r, q
<1>5. /\ Moves(a) /\ ActorOK(a)'
      /\ \/ HeldPages(a)' = {p} /\ p_mem_page_empty' = p_mem_page_empty
         \/ HeldPages(a)' = {} /\ p_mem_page_empty' = p_mem_page_empty \cup {p}
  <2>1. CASE Go(a, "push", q) /\ p_mem_page_empty' = p_mem_page_empty
    <3>1. Moves(a) /\ mem_pc'[a] = "push" /\ reg'[a] = q
      BY <1>4, <2>1, GoTo DEF MemPoint, PushPoint
    <3>. QED  BY <1>1, <1>4, <2>1, <3>1 DEF ActorOK, HeldPages, PushPoint, OnPages
  <2>2. CASE Go(a, "carved", r) /\ p_mem_page_empty' = p_mem_page_empty \cup {p}
    <3>1. Moves(a) /\ mem_pc'[a] = "carved" /\ reg'[a] = r
      BY <1>3, <2>2, GoTo DEF MemPoint
    <3>. QED  BY <1>1, <1>3, <2>2, <3>1 DEF ActorOK, HeldPages, PushPoint
  <2>. QED  BY <1>2, <2>1, <2>2
<1>6. MemTypes'
  BY <1>2, <1>5 DEF MemTypes, Moves
<1>7. ASSUME NEW b \in Actor \ {a}
      PROVE  ActorOK(b)'
  BY <1>2, <1>5, <1>7 DEF ActorsOK, ActorOK, OnPages, Moves
<1>8. PICK s \in Seq(Page) : IsStack(s) /\ Accounted(Range(s))
  BY DEF StackInv
<1>9. IsStack(s)'
  BY <1>2, <1>8 DEF IsStack
<1>10. Accounted(Range(s))'
  <2>1. {} \cap pages = {} /\ pages' = pages \cup {} /\ HeldPages(a) \cap Range(s) = {}
    BY <1>2, <1>8 DEF Accounted
  <2>2. /\ HeldPages(a)' \cap Range(s) = {} /\ HeldPages(a)' \subseteq Range(s) \cup HeldPages(a) \cup {}
        /\ Range(s) \cup p_mem_page_empty' \cup HeldPages(a)'
             = Range(s) \cup p_mem_page_empty \cup HeldPages(a) \cup {}
    BY <1>1, <1>5, <2>1
  <2>. QED  BY <1>5, <1>8, <2>1, <2>2, Reaccount
<1>. QED  BY <1>2, <1>5, <1>6, <1>7, <1>8, <1>9, <1>10 DEF StackInv, ActorsOK

-----------------------------------------------------------------------------
(* The end of ABT_finalize.                                                *)

(* What a thread does from now on is of the operation it executes, which   *)
(* begins when it runs.                                                    *)
Continues(a) ==
    /\ \A b \in Actor \ {a} : mem_pc'[b] = mem_pc[b] /\ reg'[b] = reg[b]
    /\ mem_pc[a] = "idle" => Working(a)
    /\ mem_pc[a] = "idle" \/ mem_pc'[a] = "idle" \/ reg'[a].op = reg[a].op
    /\ reg[a].op = "destroy" /\ mem_pc[a] # "idle" => status' = status
    /\ status'[ext] = "gone" => status[ext] = "gone"

LEMMA GoContinues ==
    ASSUME MemTypes, NEW a \in Actor, NEW l, NEW r, Go(a, l, r),
           l = "idle" \/ r.op = reg[a].op,
           mem_pc[a] # "idle", reg[a].op = "destroy" => status' = status,
           status'[ext] = "gone" => status[ext] = "gone"
    PROVE  Continues(a)
  BY DEF MemTypes, Go, Continues

LEMMA StepContinues ==
    ASSUME MemPoolConstants, MemTypes, ActorsOK, NEW a \in Actor, Step(a)
    PROVE  Continues(a)
<1>1. IsReg(reg[a]) /\ ActorOK(a) /\ ext \in LocalPool /\ status \in MemStatus
  BY DEF MemTypes, ActorsOK, LocalPool
<1>2. Return(a) => /\ Go(a, "idle", NoReg) /\ (reg[a].op = "destroy" => status' = status)
                   /\ (status'[ext] = "gone" => status[ext] = "gone")
  BY <1>1 DEF Return, ActorOK, MemPoolConstants, MemStatus
<1>3. CASE Pop(a)
  BY <1>1, <1>3, GoContinues DEF Pop, LifoEmpty, PopTop, PopTag, PopNext, PopCas, Popped, PopTo, IsAt,
        localPoolVars, IsReg, RegField
<1>4. CASE Push(a)
  BY <1>1, <1>4, GoContinues DEF Push, PushTop, PushTag, PushCas, IsAt, localPoolVars, IsReg, RegField
<1>5. CASE ReturnPartial(a)
  <2>1. CASE PartialNew(a) \/ PartialConnect(a) \/ PartialRelease(a)
    BY <1>2, <2>1, GoContinues DEF PartialNew, PartialConnect, PartialRelease, IsAt
  <2>2. CASE PartialComplete(a)
    BY <1>1, <2>2, GoContinues DEF PartialComplete, PushTo, IsAt, localPoolVars, IsReg, RegField
  <2>. QED  BY <1>5, <2>1, <2>2 DEF ReturnPartial
<1>6. CASE TakeBucket(a)
  <2>1. CASE PageAlloc(a) \/ Carved(a)
    BY <1>1, <2>1, GoContinues DEF PageAlloc, Carved, PopTo, IsAt, localPoolVars, IsReg, RegField
  <2>2. CASE PageAllocFails(a)
    BY <1>1, <1>2, <2>2, GoContinues DEF PageAllocFails, IsAt
  <2>3. CASE Carve(a)
    BY <1>1, <2>3, GoContinues DEF Carve, PushTo, IsAt, localPoolVars, IsReg, RegField
  <2>4. CASE Deliver(a)
    BY <1>1, <2>4, GoContinues DEF Deliver, IsAt, MemStatus
  <2>. QED  BY <1>6, <2>1, <2>2, <2>3, <2>4 DEF TakeBucket
<1>7. CASE AllocFast(a) \/ AllocLower(a) \/ AllocLast(a)
  BY <1>1, <1>7 DEF AllocFast, AllocLower, AllocLast, CallAlloc, IsAt, PopTo, Go, MemTypes, Continues
<1>8. CASE \E h \in Header : Free(a, h) \/ ExtAcquire(a, h)
  BY <1>1, <1>8 DEF Free, FreeInto, FreeReturns, PushTo, ExtAcquire, IsAt, Go, MemTypes, Continues
<1>9. CASE ExtFree(a) \/ ExtRelease(a)
  BY <1>1, <1>9 DEF ExtFree, FreeInto, FreeReturns, PushTo, ExtRelease, IsAt, Go, MemTypes, Continues,
        NoReg, ActorOK
<1>10. CASE \E x \in MEM_ES : Create(a, x) \/ FreeXstream(a, x)
  BY <1>1, <1>10 DEF Create, FreeXstream, StartDestroy, PopTo, IsAt, Go, MemTypes, Continues, MemStatus,
        MemPoolConstants
<1>11. CASE DestroyFull(a) \/ DestroyPartial(a)
  BY <1>1, <1>11, GoContinues DEF DestroyFull, DestroyPartial, PushTo, IsAt, IsReg, RegField
<1>. QED  BY <1>3, <1>4, <1>5, <1>6, <1>7, <1>8, <1>9, <1>10, <1>11 DEF Step

LEMMA StepFinal ==
    ASSUME MemPoolConstants, MemTypes, ActorsOK, FinalInv, NEW a \in Actor, Step(a)
    PROVE  FinalInv' /\ (status[ext] = "gone" => mem_pc[a] # "idle")
<1>1. Continues(a)
  BY StepContinues
<1>2. ASSUME status[ext] = "gone"
      PROVE  mem_pc[a] # "idle" /\ a = PRIMARY_ES /\ reg[a].op = "destroy"
  <2>1. ~ Working(a)
    BY <1>2 DEF FinalInv, Working, Actor
  <2>. QED  BY <1>1, <1>2, <2>1 DEF Continues, FinalInv
<1>3. FinalInv'
  BY <1>1, <1>2 DEF Continues, FinalInv
<1>. QED  BY <1>2, <1>3

(* The pages of the LIFO are no more than there are.                       *)
LEMMA StackFits ==
    ASSUME MemPoolConstants, NEW s \in Seq(Page), \A i, j \in 1 .. Len(s) : s[i] = s[j] => i = j
    PROVE  Len(s) <= MAXPAGE /\ MAXPAGE \in Nat
<1>1. IsFiniteSet(Page) /\ Cardinality(Page) = MAXPAGE /\ MAXPAGE \in Nat
  BY FS_Interval DEF Page, MemPoolConstants
<1>2. s \in Injection(1 .. Len(s), Page)
  BY DEF Injection, IsInjective
<1>3. Cardinality(1 .. Len(s)) = Len(s)
  BY FS_Interval
<1>. QED  BY <1>1, <1>2, <1>3, FS_Injection, FS_CardinalityType

(* All pages are pages_freed.                                                    *)
LEMMA DestroyGlobalStep ==
    ASSUME MemPoolConstants, MemInv, DestroyGlobalPool
    PROVE  MemInv'
<1>. USE DEF MemInv
<1>. DEFINE Follow(f) == [i \in 1 .. MAXPAGE |-> IF i = 1 THEN p_top["page"]
                             ELSE IF f[i - 1] = None THEN None ELSE link["page"][f[i - 1]]]
            w == CHOOSE f : f = Follow(f)
<1>1. /\ status[ext] = "gone" /\ (\A a \in Actor : mem_pc[a] = "idle") /\ pages_freed = {}
      /\ p_top' = [p_top EXCEPT !["page"] = None]
      /\ UNCHANGED <<tag, link, pages, p_mem_page_empty, status, mem_pc, reg>>
  BY DEF DestroyGlobalPool, IsAt, localPoolVars
<1>2. pages_freed' = ({w[i] : i \in 1 .. MAXPAGE} \ {None}) \cup p_mem_page_empty
  BY DEF DestroyGlobalPool
<1>3. PICK s \in Seq(Page) : IsStack(s) /\ Accounted(Range(s))
  BY <1>1 DEF StackInv
<1>4. Len(s) <= MAXPAGE /\ MAXPAGE \in Nat /\ Len(s) \in Nat /\ None \notin Page
  BY <1>3, StackFits DEF IsStack, Page, None
<1>5. \A i \in 1 .. MAXPAGE : w[i] = IF i <= Len(s) THEN s[i] ELSE None
  <2>1. ChainFrom(s, p_top["page"], link["page"], None)
    BY <1>3 DEF IsStack, ChainFrom
  <2>. DEFINE P(f) == IsWalk(f, MAXPAGE, p_top["page"], link["page"], None)
  <2>2. \E f : P(f)
    BY <1>4, <2>1, FollowList
  <2>3. w = CHOOSE f : P(f)
    BY DEF IsWalk
  <2>4. P(w)
    <3>. HIDE DEF P, w
    <3>. QED  BY <2>2, <2>3
  <2>. HIDE DEF w
  <2>. QED  BY <1>4, <2>1, <2>4, FollowList
<1>. HIDE DEF w
<1>6. {w[i] : i \in 1 .. MAXPAGE} \ {None} = Range(s)
  <2>1. Range(s) = {s[i] : i \in 1 .. Len(s)} /\ \A i \in 1 .. Len(s) : s[i] \in Page
    BY DEF Range
  <2>2. \A i \in 1 .. Len(s) : i \in 1 .. MAXPAGE /\ w[i] = s[i] /\ s[i] # None
    BY <1>4, <1>5, <2>1
  <2>3. \A i \in 1 .. MAXPAGE : w[i] # None => i \in 1 .. Len(s) /\ w[i] = s[i]
    BY <1>4, <1>5
  <2>. QED  BY <2>1, <2>2, <2>3
<1>7. pages = Range(s) \cup p_mem_page_empty
  <2>1. \A a \in Actor : HeldPages(a) = {}
    BY <1>1 DEF HeldPages, PushPoint
  <2>2. UNION {HeldPages(a) : a \in Actor} = {}
    BY <2>1
  <2>. QED  BY <1>3, <2>2 DEF Accounted
<1>8. pages_freed' = pages
  BY <1>2, <1>6, <1>7
<1>9. MemTypes'
  BY <1>1 DEF MemTypes, Lifo
<1>10. ActorsOK'
  BY <1>1 DEF ActorsOK, ActorOK, PushPoint
<1>11. FinalInv' /\ FreedInv'
  BY <1>1, <1>8 DEF FinalInv, FreedInv
<1>12. ASSUME pages_freed' = {}
       PROVE  \E t \in Seq(Page) : IsStack(t)' /\ Accounted(Range(t))'
  <2>0. PICK e : e = <<>>
    OBVIOUS
  <2>1. Range(e) = {} /\ e \in Seq(Page)
    BY <2>0 DEF Range
  <2>2. \A a \in Actor : HeldPages(a)' = {}
    BY <1>1 DEF HeldPages, PushPoint
  <2>3. UNION {HeldPages(a)' : a \in Actor} = {}
    BY <2>2
  <2>4. pages = {} /\ p_mem_page_empty = {}
    BY <1>7, <1>8, <1>12
  <2>5. IsStack(e)'
    BY <1>1, <2>0 DEF MemTypes, Lifo, IsStack
  <2>6. Accounted(Range(e))'
    BY <1>1, <2>1, <2>2, <2>3, <2>4 DEF Accounted
  <2>. QED  BY <2>1, <2>5, <2>6
<1>13. StackInv'
  BY <1>12 DEF StackInv
<1>. QED  BY <1>9, <1>10, <1>11, <1>13

(* The beginning: the page that was carved last is in the LIFO if it has   *)
(* memory left.                                                            *)
LEMMA MemInitial ==
    ASSUME MemPoolConstants, MemPoolInit
    PROVE  MemInv
<1>. DEFINE used == (3 + BUCKETS) * PER
            last == (used + PPG - 1) \div PPG
            rest == last * PPG - used
<1>0. /\ DOMAIN p_top = Lifo /\ p_top["page"] = IF rest > 0 THEN last ELSE None
      /\ tag = [l \in Lifo |-> 0]
      /\ DOMAIN link = Lifo /\ link["page"] = [p \in Page |-> None]
      /\ pages = 1 .. last
      /\ p_mem_page_empty = IF rest > 0 THEN 1 .. (last - 1) ELSE 1 .. last
      /\ status = [l \in LocalPool |-> IF l \in {ext, PRIMARY_ES} THEN "live" ELSE "none"]
      /\ ext \in LocalPool /\ pages_freed = {}
      /\ mem_pc = [a \in Actor |-> "idle"] /\ reg = [a \in Actor |-> NoReg]
  BY DEF MemPoolInit, Lifo, LocalPool
<1>1. /\ PER \in Nat \ {0} /\ PPG \in Nat \ {0} /\ MAXPAGE \in Nat /\ BUCKETS \in Nat
      /\ PPG * MAXPAGE >= used /\ used \in Nat \ {0}
  BY DEF MemPoolConstants
<1>. HIDE DEF used
<1>2. last \in Nat /\ PPG * last <= used + PPG - 1
  BY <1>1
<1>3. last <= MAXPAGE
  <2>1. SUFFICES ASSUME last >= MAXPAGE + 1 PROVE FALSE
    BY <1>1, <1>2
  <2>. HIDE DEF last
  <2>2. PPG * last >= PPG * (MAXPAGE + 1)
    BY <1>1, <1>2, <2>1
  <2>3. PPG * (MAXPAGE + 1) = PPG * MAXPAGE + PPG
    BY <1>1
  <2>. QED  BY <1>1, <1>2, <2>2, <2>3
<1>4. rest > 0 => last \in Page
  BY <1>1, <1>2, <1>3 DEF Page
<1>. HIDE DEF last, rest
<1>5. pages = 1 .. Cardinality(pages) /\ pages \subseteq Page
  <2>1. Cardinality(1 .. last) = last
    BY <1>2, FS_Interval
  <2>. QED  BY <1>0, <1>1, <1>2, <1>3, <2>1 DEF Page
<1>6. status \in MemStatus
  BY <1>0 DEF MemStatus
<1>7. MemTypes
  BY <1>0, <1>4, <1>5, <1>6, NoRegIsReg DEF MemTypes, MemPoint
<1>8. ActorsOK /\ (\A a \in Actor : HeldPages(a) = {})
  BY <1>0 DEF ActorsOK, ActorOK, HeldPages, PushPoint, NoReg
<1>9. FinalInv /\ FreedInv
  BY <1>0, <1>1 DEF FinalInv, FreedInv
<1>10. StackInv
  <2>1. UNION {HeldPages(a) : a \in Actor} = {}
    BY <1>8
  <2>2. CASE rest > 0
    <3>1. <<last>> \in Seq(Page) /\ Range(<<last>>) = {last} /\ Len(<<last>>) = 1
      BY <1>4, <2>2 DEF Range
    <3>2. IsStack(<<last>>)
      BY <1>0, <1>4, <2>2, <3>1 DEF IsStack
    <3>3. 1 .. last = {last} \cup 1 .. (last - 1)
      BY <1>4, <2>2 DEF Page
    <3>4. Accounted(Range(<<last>>))
      BY <1>0, <1>8, <2>1, <2>2, <3>1, <3>3 DEF Accounted
    <3>. QED  BY <3>1, <3>2, <3>4 DEF StackInv
  <2>3. CASE ~(rest > 0)
    <3>1. <<>> \in Seq(Page) /\ Range(<<>>) = {}
      BY DEF Range
    <3>2. IsStack(<<>>)
      BY <1>0, <2>3 DEF IsStack
    <3>3. Accounted(Range(<<>>))
      BY <1>0, <1>8, <2>1, <2>3, <3>1 DEF Accounted
    <3>. QED  BY <3>1, <3>2, <3>3 DEF StackInv
  <2>. QED  BY <2>2, <2>3
<1>. QED  BY <1>7, <1>8, <1>9, <1>10 DEF MemInv

LEMMA MemStepInv ==
    ASSUME MemPoolConstants, MemInv, [MemPoolNext]_memPoolVars
    PROVE  MemInv'
<1>. USE DEF MemInv
<1>1. ASSUME NEW a \in Actor, Step(a)
      PROVE  MemInv'
  <2>1. pages_freed = {} /\ FinalInv'
    BY <1>1, StepFinal DEF FreedInv
  <2>. SUFFICES PagesInv'
    BY <2>1 DEF FreedInv
  <2>0. reg[a].lifo = "bucket" \/ reg[a].lifo = "page"
    BY DEF MemTypes, IsReg, Lifo
  <2>3. CASE Pop(a)
    BY <2>0, <2>1, <2>3, PopReadStep, PopCasQuiet, PopCasPage DEF Pop
  <2>4. CASE Push(a)
    BY <2>0, <2>1, <2>4, PushTopStep, PushTagQuiet, PushTagPage, PushCasQuiet, PushCasPage DEF Push
  <2>5. CASE TakeBucket(a)
    BY <2>1, <2>5, PageAllocStep, CarveStep, TakeBucketStep DEF TakeBucket
  <2>6. CASE ~(Pop(a) \/ Push(a) \/ TakeBucket(a))
    BY <1>1, <2>1, <2>6, PartialStep, AllocStep, FreeStep, LocalPoolStep DEF Step
  <2>. QED  BY <2>3, <2>4, <2>5, <2>6
<1>2. CASE Finalize
  <2>1. PICK l \in LocalPool :
            StartDestroy(PRIMARY_ES, l) /\ (l = PRIMARY_ES \/ (l = ext /\ status[PRIMARY_ES] = "gone"))
    BY <1>2 DEF Finalize, LocalPool, MemPoolConstants
  <2>2. PRIMARY_ES \in Actor /\ ext \notin MEM_ES /\ PRIMARY_ES \in MEM_ES
    BY DEF MemPoolConstants, Actor
  <2>3. pages_freed = {}
    BY <1>2, <2>1, <2>2 DEF Finalize, StartDestroy, FinalInv, FreedInv
  <2>4. PagesInv'
    BY <2>1, <2>2, <2>3, StartDestroyStep
  <2>5. FinalInv'
    BY <1>2, <2>1, <2>2
       DEF Finalize, StartDestroy, FinalInv, IsAt, Go, MemTypes, MemStatus, LocalPool, NoReg
  <2>. QED  BY <2>4, <2>5 DEF FreedInv
<1>3. CASE DestroyGlobalPool
  BY <1>3, DestroyGlobalStep
<1>4. CASE UNCHANGED memPoolVars
  <2>1. UNCHANGED <<p_top, tag, link, pages, p_mem_page_empty, pages_freed, status, mem_pc, reg>>
    BY <1>4 DEF memPoolVars, globalPoolVars, localPoolVars
  <2>2. PRIMARY_ES \in Actor
    BY DEF MemPoolConstants, Actor
  <2>3. Moves(PRIMARY_ES) /\ SamePages /\ MemTypes'
    BY <2>1 DEF Moves, SamePages, MemTypes
  <2>4. HeldPages(PRIMARY_ES)' = HeldPages(PRIMARY_ES) /\ ActorOK(PRIMARY_ES)'
    BY <2>1, <2>2 DEF ActorsOK, ActorOK, HeldPages, OnPages
  <2>5. FinalInv' /\ FreedInv' /\ ActorsOK'
    BY <2>1 DEF FinalInv, FreedInv, ActorsOK, ActorOK, OnPages
  <2>6. CASE pages_freed = {}
    BY <2>2, <2>3, <2>4, <2>5, <2>6, QuietStep
  <2>7. CASE pages_freed # {}
    BY <2>1, <2>3, <2>5, <2>7 DEF StackInv
  <2>. QED  BY <2>6, <2>7
<1>. QED  BY <1>1, <1>2, <1>3, <1>4 DEF MemPoolNext, MemPoolWork

(* The pages that were allocated are given back to the system by           *)
(* ABT_finalize, all of them, whoever took and returned them and however   *)
(* their compare-and-swaps came to pass (abti_sync_lifo.h, mem_pool.c).    *)
THEOREM PageReturn ==
    ASSUME MemPoolConstants
    PROVE  MemPoolSpec => []PagesFreed
<1>1. MemPoolInit => MemInv
  BY MemInitial
<1>2. MemInv /\ [MemPoolNext]_memPoolVars => MemInv'
  BY MemStepInv
<1>3. MemInv => PagesFreed
  BY DEF MemInv, FreedInv, PagesFreed
<1>. QED  BY <1>1, <1>2, <1>3, PTL DEF MemPoolSpec
=============================================================================
