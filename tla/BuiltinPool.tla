----------------------------- MODULE BuiltinPool -----------------------------
(***************************************************************************)
(* The pools that come with the runtime, and thread_queue_t behind them: a *)
(* ring of units linked by p_next and p_prev.  A FIFO pool and a RANDWS    *)
(* pool, which uses both ends, have a spinlock; a pop reads is_empty       *)
(* without it and gives up at once when the pool is or becomes empty.  A   *)
(* FIFO_WAIT pool has a mutex and a condition variable of pthreads.  A     *)
(* pool with private access has one user and no mutex: its is always free. *)
(*                                                                         *)
(* What a thread can see without the mutex, is_empty and is_in_pool, is    *)
(* stored in steps of its own.  The time of a pop_wait may be over at any  *)
(* moment; pool_pop_timedwait, its older form, is left out.                *)
(***************************************************************************)
EXTENDS Naturals, FiniteSets, SequencesExt

CONSTANTS
    USER,     \* threads that use the pool
    WORK,     \* units
    NIL,      \* no unit, no thread
    POOLUSES  \* pairs of a kind of pool and what its users do: a function that
              \* gives each of them a sequence of calls

PoolKind == {"fifo", "randws", "fifo_wait", "private"}

(* Its name, the units of a push or a remove, the number of units of a pop,*)
(* the end of a RANDWS pool.                                               *)
PoolCall == STRING \X Seq(WORK) \X Nat \X STRING

(* A new unit is pushed by one call, at one place of it.                   *)
PushedOnce(p) ==
    \A s, t \in USER : \A j \in DOMAIN p[s] : \A k \in DOMAIN p[t] :
        p[s][j][1] = "push" /\ p[t][k][1] = "push" =>
            \A a \in DOMAIN p[s][j][2] : \A b \in DOMAIN p[t][k][2] :
                p[s][j][2][a] = p[t][k][2][b] => s = t /\ j = k /\ a = b

(* A user that pushes back what it got last gets something before it does  *)
(* so again.                                                               *)
PushedBackOnce(calls) ==
    \A j, k \in DOMAIN calls :
        j < k /\ calls[j][1] = "push_back" /\ calls[k][1] = "push_back" =>
            \E i \in j + 1 .. k - 1 : calls[i][1] = "pop"

(* A unit has one p_next: nobody pushes it while it is in a pool.          *)
LegalPoolUse(p) ==
    /\ p \in [USER -> Seq(PoolCall)]
    /\ PushedOnce(p)
    /\ \A t \in USER : PushedBackOnce(p[t])
    /\ \A t \in USER : \A k \in DOMAIN p[t] : p[t][k][1] = "remove" => Len(p[t][k][2]) = 1

ASSUME PoolAssumption ==
    /\ NIL \notin USER \cup WORK /\ IsFiniteSet(USER)
    /\ \A use \in POOLUSES : use[1] \in PoolKind /\ LegalPoolUse(use[2])

VARIABLES
    pool_kind,
    num_threads, p_head, p_tail, is_empty,  \* thread_queue_t
    p_prev, p_next, is_in_pool,             \* of each unit
    mutex,                                  \* its holder
    sleeping,                               \* users that wait on the condition variable
    point,                                  \* the point each user is at
    jobs,                                   \* the calls each user has left
    left,                                   \* units still to push or to pop in this call
    time,                                   \* of a pop_wait that spins
    got                                     \* results of pops and removals

queueVars == <<num_threads, p_head, p_tail, is_empty, p_prev, p_next, is_in_pool>>

userVars == <<point, jobs, left, time, got>>

builtinVars == <<pool_kind, queueVars, mutex, sleeping, userVars>>

PoolInit ==
    /\ \E use \in POOLUSES : pool_kind = use[1] /\ jobs = use[2]
    /\ num_threads = 0
    /\ p_head = NIL /\ p_tail = NIL
    /\ is_empty = TRUE
    /\ p_prev = [u \in WORK |-> NIL] /\ p_next = [u \in WORK |-> NIL]
    /\ is_in_pool = [u \in WORK |-> FALSE]
    /\ mutex = NIL
    /\ sleeping = {}
    /\ point = [t \in USER |-> "idle"]
    /\ left = [t \in USER |-> 0]
    /\ time = [t \in USER |-> "unset"]
    /\ got = [t \in USER |-> <<>>]

-----------------------------------------------------------------------------

Job(t, name) == jobs[t] # <<>> /\ Head(jobs[t])[1] = name

Units(t) == Head(jobs[t])[2]

Number(t) == Head(jobs[t])[3]

(* The contexts with which RANDWS pools push at the head and pop the tail. *)
UsesEnd(t, end) == pool_kind = "randws" /\ Head(jobs[t])[4] = end

(* What a call pushes: new units, or again the unit its user got last.     *)
Pushed(t) ==
    IF Job(t, "push") THEN Units(t)
    ELSE IF got[t] # <<>> /\ Last(got[t]) # NIL THEN <<Last(got[t])>> ELSE <<>>

Reach(t, from, next) == point[t] = from /\ point' = [point EXCEPT ![t] = next]

EndJob(t) ==
    /\ point' = [point EXCEPT ![t] = "idle"]
    /\ jobs' = [jobs EXCEPT ![t] = Tail(@)]
    /\ left' = [left EXCEPT ![t] = 0]
    /\ time' = [time EXCEPT ![t] = "unset"]

(* A call for some units begins.                                           *)
BeginJob(t, units, next) ==
    /\ Reach(t, "idle", next)
    /\ left' = [left EXCEPT ![t] = units]
    /\ UNCHANGED <<jobs, time, got>>

TakeMutex(t) == mutex = NIL /\ mutex' = t

Got(t, u) == got' = [got EXCEPT ![t] = Append(@, u)]

-----------------------------------------------------------------------------
(* Push, of one unit or of many.                                           *)

PushNothing(t) ==
    /\ point[t] = "idle"
    /\ Job(t, "push") \/ Job(t, "push_back")
    /\ Pushed(t) = <<>>
    /\ EndJob(t)
    /\ UNCHANGED <<pool_kind, queueVars, mutex, sleeping, got>>

PushLock(t) ==
    /\ Job(t, "push") \/ Job(t, "push_back")
    /\ Pushed(t) # <<>>
    /\ BeginJob(t, Len(Pushed(t)), "link")
    /\ TakeMutex(t)
    /\ UNCHANGED <<pool_kind, queueVars, sleeping>>

(* The unit that a push works on.                                          *)
PushedUnit(t) == Pushed(t)[Len(Pushed(t)) - left[t] + 1]

(* thread_queue_push_head or thread_queue_push_tail, up to the links.      *)
PushLink(t) ==
    /\ Reach(t, "link", IF num_threads = 0 THEN "nonempty" ELSE "in_pool")
    /\ LET u == PushedUnit(t)
           head == IF num_threads = 0 THEN u ELSE p_head
           tail == IF num_threads = 0 THEN u ELSE p_tail
       IN  /\ p_next' = [p_next EXCEPT ![tail] = u, ![u] = head]
           /\ p_prev' = [p_prev EXCEPT ![head] = u, ![u] = tail]
           /\ p_head' = IF num_threads = 0 \/ UsesEnd(t, "head") THEN u ELSE p_head
           /\ p_tail' = IF num_threads = 0 \/ ~UsesEnd(t, "head") THEN u ELSE p_tail
    /\ num_threads' = num_threads + 1
    /\ UNCHANGED <<pool_kind, is_empty, is_in_pool, mutex, sleeping, jobs, left, time, got>>

PushNonempty(t) ==
    /\ Reach(t, "nonempty", "in_pool")
    /\ is_empty' = FALSE
    /\ UNCHANGED <<pool_kind, num_threads, p_head, p_tail, p_prev, p_next, is_in_pool,
                   mutex, sleeping, jobs, left, time, got>>

PushInPool(t) ==
    /\ Reach(t, "in_pool", IF left[t] > 1 THEN "link"
                           ELSE IF pool_kind = "fifo_wait" THEN "signal" ELSE "unlock")
    /\ is_in_pool' = [is_in_pool EXCEPT ![PushedUnit(t)] = TRUE]
    /\ left' = [left EXCEPT ![t] = @ - 1]
    /\ UNCHANGED <<pool_kind, num_threads, p_head, p_tail, is_empty, p_prev, p_next,
                   mutex, sleeping, jobs, time, got>>

(* pthread_cond_signal and pthread_cond_broadcast for the set woken.       *)
Awake(t, woken) ==
    /\ point[t] = "signal"
    /\ sleeping' = sleeping \ woken
    /\ point' = [x \in USER |-> IF x \in woken THEN "relock"
                                ELSE IF x = t THEN "unlock" ELSE point[x]]
    /\ UNCHANGED <<pool_kind, queueVars, mutex, jobs, left, time, got>>

(* Mutant of SignalPool: many units wake one user.                         *)
SignalOneUser(t) ==
    IF sleeping = {} THEN Awake(t, {}) ELSE \E x \in sleeping : Awake(t, {x})

(* One unit wakes one user, many units wake all.                           *)
SignalPool(t) ==
    /\ point[t] = "signal"
    /\ IF Len(Pushed(t)) = 1 /\ sleeping # {}
       THEN \E x \in sleeping : Awake(t, {x})
       ELSE Awake(t, sleeping)

UnlockPool(t) ==
    /\ point[t] = "unlock"
    /\ mutex' = NIL
    /\ IF Job(t, "pop_wait") /\ left[t] > 0 /\ pool_kind # "fifo_wait"
       THEN Reach(t, "unlock", "elapsed") /\ UNCHANGED <<jobs, left, time>>
       ELSE EndJob(t)
    /\ UNCHANGED <<pool_kind, queueVars, sleeping, got>>

-----------------------------------------------------------------------------
(* A pop takes the mutex only when the pool is not empty.                  *)

Pops(t) == Job(t, "pop") \/ Job(t, "pop_wait")

(* The pool is empty: the pop returns nothing, a pop_wait looks at the     *)
(* clock.                                                                  *)
FindsEmpty(t) ==
    /\ is_empty
    /\ IF Job(t, "pop") THEN EndJob(t) /\ Got(t, NIL)
       ELSE point' = [point EXCEPT ![t] = "elapsed"] /\ UNCHANGED <<jobs, left, time, got>>
    /\ UNCHANGED <<pool_kind, queueVars, mutex, sleeping>>

PopBegin(t) ==
    /\ pool_kind # "private"
    /\ Job(t, "pop") \/ (Job(t, "pop_wait") /\ pool_kind # "fifo_wait")
    /\ BeginJob(t, Number(t), "test")
    /\ UNCHANGED <<pool_kind, queueVars, mutex, sleeping>>

PopEmpty(t) ==
    /\ point[t] \in {"test", "spin"}
    /\ FindsEmpty(t)

PopTest(t) ==
    /\ ~is_empty
    /\ Reach(t, "test", "try") \/ Reach(t, "spin", "peek")
    /\ UNCHANGED <<pool_kind, queueVars, mutex, sleeping, jobs, left, time, got>>

PopLock(t) ==
    /\ Reach(t, "try", "pop")
    /\ TakeMutex(t)
    /\ UNCHANGED <<pool_kind, queueVars, sleeping, jobs, left, time, got>>

(* ABTD_spinlock_try_acquire fails, or the lock is still taken.            *)
PopBusy(t) ==
    /\ pool_kind # "fifo_wait"
    /\ mutex # NIL
    /\ Reach(t, "try", "spin") \/ Reach(t, "peek", "spin")
    /\ UNCHANGED <<pool_kind, queueVars, mutex, sleeping, jobs, left, time, got>>

PopRetry(t) ==
    /\ mutex = NIL
    /\ Reach(t, "peek", "try")
    /\ UNCHANGED <<pool_kind, queueVars, mutex, sleeping, jobs, left, time, got>>

PopPrivate(t) ==
    /\ pool_kind = "private"
    /\ Job(t, "pop")
    /\ BeginJob(t, Number(t), "pop")
    /\ TakeMutex(t)
    /\ UNCHANGED <<pool_kind, queueVars, sleeping>>

(* Takes u out of the ring, up to the store of is_empty.                   *)
Unlink(t, u) ==
    /\ p_head' = IF num_threads = 1 THEN NIL ELSE IF u = p_head THEN p_next[u] ELSE p_head
    /\ p_tail' = IF num_threads = 1 THEN NIL ELSE IF u = p_tail THEN p_prev[u] ELSE p_tail
    /\ IF num_threads = 1 THEN UNCHANGED <<p_next, p_prev>>
       ELSE /\ p_next' = [p_next EXCEPT ![p_prev[u]] = p_next[u]]
            /\ p_prev' = [p_prev EXCEPT ![p_next[u]] = p_prev[u]]
    /\ num_threads' = num_threads - 1
    /\ point' = [point EXCEPT ![t] = IF num_threads = 1 THEN "empty" ELSE "clear"]
    /\ Got(t, u)
    /\ UNCHANGED <<pool_kind, is_empty, is_in_pool, mutex, sleeping, jobs, left, time>>

(* thread_queue_pop_head, or thread_queue_pop_tail of a RANDWS pool.       *)
PopUnit(t) ==
    /\ point[t] = "pop"
    /\ num_threads > 0
    /\ Unlink(t, IF UsesEnd(t, "tail") THEN p_tail ELSE p_head)

PopNothing(t) ==
    /\ num_threads = 0
    /\ Reach(t, "pop", "unlock")
    /\ IF Job(t, "pop") THEN Got(t, NIL) ELSE UNCHANGED got
    /\ UNCHANGED <<pool_kind, queueVars, mutex, sleeping, jobs, left, time>>

TakenEmpty(t) ==
    /\ Reach(t, "empty", "clear")
    /\ is_empty' = TRUE
    /\ UNCHANGED <<pool_kind, num_threads, p_head, p_tail, p_prev, p_next, is_in_pool,
                   mutex, sleeping, jobs, left, time, got>>

TakenClear(t) ==
    /\ Reach(t, "clear", IF left[t] > 1 THEN "pop" ELSE "unlock")
    /\ p_prev' = [p_prev EXCEPT ![Last(got[t])] = NIL]
    /\ p_next' = [p_next EXCEPT ![Last(got[t])] = NIL]
    /\ is_in_pool' = [is_in_pool EXCEPT ![Last(got[t])] = FALSE]
    /\ left' = [left EXCEPT ![t] = @ - 1]
    /\ UNCHANGED <<pool_kind, num_threads, p_head, p_tail, is_empty, mutex, sleeping,
                   jobs, time, got>>

-----------------------------------------------------------------------------
(* A pop_wait of a pool with a spinlock sleeps and tries again; its clock  *)
(* starts after the first try.                                             *)

WaitElapsed(t) ==
    /\ point[t] = "elapsed"
    /\ IF time[t] = "over" THEN EndJob(t)
       ELSE /\ Reach(t, "elapsed", "test")
            /\ time' = [time EXCEPT ![t] = IF @ = "unset" THEN "runs" ELSE @]
            /\ UNCHANGED <<jobs, left>>
    /\ UNCHANGED <<pool_kind, queueVars, mutex, sleeping, got>>

PoolClock(t) ==
    /\ time[t] = "runs"
    /\ time' = [time EXCEPT ![t] = "over"]
    /\ UNCHANGED <<pool_kind, queueVars, mutex, sleeping, point, jobs, left, got>>

(* A pop_wait of a FIFO_WAIT pool waits once, with the mutex, ...          *)
WaitLock(t) ==
    /\ pool_kind = "fifo_wait"
    /\ Job(t, "pop_wait")
    /\ BeginJob(t, 1, "wait")
    /\ TakeMutex(t)
    /\ UNCHANGED <<pool_kind, queueVars, sleeping>>

WaitNonempty(t) ==
    /\ ~is_empty
    /\ Reach(t, "wait", "pop")
    /\ UNCHANGED <<pool_kind, queueVars, mutex, sleeping, jobs, left, time, got>>

WaitSleep(t) ==
    /\ is_empty
    /\ Reach(t, "wait", "asleep")
    /\ sleeping' = sleeping \cup {t}
    /\ mutex' = NIL
    /\ UNCHANGED <<pool_kind, queueVars, jobs, left, time, got>>

(* ...unless tv_nsec is 10^9, which pthread_cond_timedwait refuses.        *)
WaitRefused(t) ==
    /\ is_empty
    /\ Reach(t, "wait", "pop")
    /\ UNCHANGED <<pool_kind, queueVars, mutex, sleeping, jobs, left, time, got>>

(* The time is over, or a spurious wake-up.                                *)
WaitOver(t) ==
    /\ Reach(t, "asleep", "relock")
    /\ sleeping' = sleeping \ {t}
    /\ UNCHANGED <<pool_kind, queueVars, mutex, jobs, left, time, got>>

WaitRelock(t) ==
    /\ Reach(t, "relock", "pop")
    /\ TakeMutex(t)
    /\ UNCHANGED <<pool_kind, queueVars, sleeping, jobs, left, time, got>>

-----------------------------------------------------------------------------
(* Remove, of a unit that is in the pool or was until somebody took it.    *)

RemoveBegin(t) ==
    /\ pool_kind = "fifo_wait"
    /\ Job(t, "remove")
    /\ ~is_empty
    /\ BeginJob(t, 1, "checked")
    /\ UNCHANGED <<pool_kind, queueVars, mutex, sleeping>>

RemoveChecked(t) ==
    /\ Reach(t, "checked", "lock")
    /\ is_in_pool[Units(t)[1]]
    /\ UNCHANGED <<pool_kind, queueVars, mutex, sleeping, jobs, left, time, got>>

(* The checks of a FIFO_WAIT pool fail without the mutex.                  *)
RemoveRefused(t) ==
    /\ pool_kind = "fifo_wait"
    /\ Job(t, "remove")
    /\ \/ point[t] = "idle" /\ is_empty
       \/ point[t] = "checked" /\ ~is_in_pool[Units(t)[1]]
    /\ EndJob(t)
    /\ UNCHANGED <<pool_kind, queueVars, mutex, sleeping, got>>

RemoveLock(t) ==
    /\ Job(t, "remove")
    /\ \/ pool_kind # "fifo_wait" /\ BeginJob(t, 1, "remove")
       \/ Reach(t, "lock", "remove") /\ UNCHANGED <<jobs, left, time, got>>
    /\ TakeMutex(t)
    /\ UNCHANGED <<pool_kind, queueVars, sleeping>>

(* Mutant of RemoveUnit: what was checked without the mutex is relied on.  *)
RemoveUnchecked(t) ==
    /\ point[t] = "remove"
    /\ num_threads > 0
    /\ Unlink(t, Units(t)[1])

RemoveUnit(t) ==
    /\ point[t] = "remove"
    /\ num_threads > 0 /\ is_in_pool[Units(t)[1]]
    /\ Unlink(t, Units(t)[1])

RemoveFails(t) ==
    /\ Reach(t, "remove", "unlock")
    /\ num_threads = 0 \/ ~is_in_pool[Units(t)[1]]
    /\ UNCHANGED <<pool_kind, queueVars, mutex, sleeping, jobs, left, time, got>>

-----------------------------------------------------------------------------

PoolStep(t) ==
    \/ PushNothing(t) \/ PushLock(t) \/ PushLink(t) \/ PushNonempty(t) \/ PushInPool(t)
    \/ SignalPool(t) \/ UnlockPool(t)
    \/ PopBegin(t) \/ PopEmpty(t) \/ PopTest(t) \/ PopLock(t) \/ PopBusy(t)
    \/ PopRetry(t) \/ PopPrivate(t) \/ PopUnit(t) \/ PopNothing(t)
    \/ TakenEmpty(t) \/ TakenClear(t)
    \/ WaitElapsed(t) \/ WaitLock(t) \/ WaitNonempty(t) \/ WaitSleep(t)
    \/ WaitRefused(t) \/ WaitRelock(t)
    \/ RemoveBegin(t) \/ RemoveChecked(t) \/ RemoveRefused(t) \/ RemoveLock(t)
    \/ RemoveUnit(t) \/ RemoveFails(t)

PoolTime(t) == PoolClock(t) \/ WaitOver(t)

PoolNext == \E t \in USER : PoolStep(t) \/ PoolTime(t)

PoolDone == \A t \in USER : jobs[t] = <<>>

PoolSpec == PoolInit /\ [][PoolNext]_builtinVars

-----------------------------------------------------------------------------
(* Properties.                                                             *)

(* The first n units from head on.                                         *)
Walk(n, head, next) ==
    LET unit[i \in 1..n] == IF i = 1 THEN head ELSE next[unit[i - 1]]
    IN  [i \in 1..n |-> unit[i]]

Queue == Walk(num_threads, p_head, p_next)

(* The units that a pop can find, in order.                                *)
Contents == IF is_empty THEN <<>> ELSE Queue

(* The units that users are about to remove.                               *)
Asked ==
    [t \in USER |-> IF point[t] \in {"checked", "lock", "remove"} THEN Units(t)[1] ELSE NIL]

AbstractP == INSTANCE AbstractPool
    WITH User <- USER, Unit <- WORK, None <- NIL,
         fifo <- pool_kind # "randws", units <- Contents, asked <- Asked

(* Pools of thread_queue.h keep the promises of AbstractPool: a pop finds  *)
(* nothing only when there is nothing, a unit is taken once and in order,  *)
(* and a remove takes the unit that it was asked for.                      *)
ImplementsAbstractPool == AbstractP!Spec

(* No user of a FIFO_WAIT pool sleeps beside a unit unless somebody is on  *)
(* the way who was woken for it.                                           *)
SleepersWoken ==
    mutex = NIL /\ sleeping # {} =>
        num_threads <= Cardinality({t \in USER : point[t] = "relock"})
=============================================================================
