# A TLA+ verification of ArgobotsReduction

The repository holds a copy of the Argobots runtime
(`argobots_framework/src`), a parallel *reduction* written on top of it
(`argobots_framework/examples/reduction/abt_reduction.c`, with identical copies
beside the CG and Jacobi benchmarks), two work-stealing schedulers, and benchmark
programs with their results. The modules here model the concurrent core of the
runtime, the reduction, the schedulers and the parallel loops of the two
benchmarks that run on Argobots, check them with TLC, and prove with TLAPS the
central facts about the mutex, the condition variable, the two barriers, the join of
work units, the reduction, the hash table of units, the reader-writer lock, eventuals and
futures, execution streams and their list, the built-in pools and the data of work units.

Paths below are relative to `argobots_framework/src/` unless they begin with
`examples/` or name another directory of the repository, such as
`cg_argobots_fixed/`.

## 1. The system

### How it works

An *execution stream* (ES) is a native thread with a *main scheduler*. The
scheduler is itself a user-level thread (ULT): it pops work units from its
*pools* and runs them until they yield, suspend or end. A unit is a ULT, which
has a stack and may be switched away from, or a *tasklet*, which runs on the
stack of the scheduler. *External threads* are pthreads that are no ES: they may
use the synchronisation objects and join.

A ULT that leaves its ES saves its context and lets the ES jump to the
scheduler; what else has to happen (push the ULT to its pool, mark it BLOCKED,
release a lock, publish a link) is a *callback* that runs on the context of the
scheduler. This gap between "decided to suspend" and "may be resumed by
somebody else" is what most of the code has to be careful about.

### Components

| component | state | operations | interacts with |
|---|---|---|---|
| ULTs (`abti_ythread.h`, `ythread.c`) | `state`, `p_pool`, `request`, `p_last_xstream`, context with `p_link` | schedule, yield, suspend callbacks, resume, exit | pools (push, `num_blocked`), ES (`p_thread`) |
| waiting list, futex (`abti_waitlist.h`, `abtd_futex.c`) | list of threads, value of the futex | wait, timed wait, signal, broadcast | every synchronisation object; called with the object's spinlock held |
| mutex (`mutex.c`, `abti_mutex.h`) | `lock`, `waiter_lock`, list, `owner_id`, `nesting_cnt` | lock, trylock, spinlock, unlock | waiting list |
| condition variable (`cond.c`, `abti_cond.h`) | `lock`, list, `p_waiter_mutex` | wait, timedwait, signal, broadcast | waiting list, mutex |
| join, exit, cancel, revive (`thread.c`, `abti_ythread.h`) | `request` bits, `p_link`, futex of an outside joiner | join in four ways, exit, cancel, revive | lock-free hand-shake of joiner and ULT; pools |
| barrier (`barrier.c`) | `counter`, list, `lock` | create, wait, free | waiting list |
| reduction (`examples/reduction`) | partial results, result | slices, one ULT per slice, tree of combinations | barrier, thread create and join |
| schedulers (`sched/`, `thread.c`, `stream.c`) | requests, pools, replacement scheduler and its waiter | run loop, has_to_stop, has_unit, replace, finish, exit | pools (`num_scheds`, `num_blocked`), ES |
| execution streams (`stream.c`, `arch/abtd_stream.c`) | state of the native thread, root ULT, main scheduler | create, join, cancel, revive, free | main scheduler |
| pools (`pool/`) | queue, `num_blocked`, `num_scheds` | push, pop, remove | everything |
| eventual, future (`eventual.c`, `futures.c`) | flag or counter, list, `lock` | create, wait, test, set, reset, free | waiting list |
| reader-writer lock (`rwlock.c`) | `reader_count`, `write_flag` | read and write lock, unlock | mutex, condition variable |
| ES barrier (`stream_barrier.c`) | counter and tag | create, wait, free | spins, needs an ES per waiter |
| memory pools (`mem/mem_pool.c`, `abti_sync_lifo.h`) | a local pool per ES without lock, a global lock-free LIFO of buckets, a partial bucket | alloc, free, take and return buckets, create and destroy pools | creation and end of units |
| work-unit-specific data (`abti_key.h`, `key.c`), unit map (`unit.c`) | hash tables | get, set, free; map, unmap | units, memory pools, migration, user-defined pools |
| work-stealing schedulers (`examples/workstealing_scheduler`) | pools of the victims, estimated costs | pop, steal, stop test | pools |
| cg and jac3d (`cg_argobots_fixed`, `jac3d_argobots_fixed`) | arrays, cut into slices | loops of one ULT per slice, created, joined or separated by a barrier | ULTs, barrier, reduction, every scheduler |
| self, info, tool, log, timer, error, global, env, affinity | queries and configuration | | all |

`PROJECT.json` lists every component with its status, and under `hazards` the
places in the code that are hard to test.

### What is hard

* **Suspension.** A waiter is visible to wakers before its context is saved. The
  lock of the object, or a link published late, keeps them apart.
* **Lost wake-ups.** mutex, condition variable, barrier, futex and join each
  have a window between "must wait" and "waits".
* **Unlocked decisions.** The scheduler decides to stop from unlocked reads of
  several pools and counters that others change meanwhile; `owner_id` is read
  without a lock; joiner and ULT meet on two words without a lock.
* **Lock-free structures.** The LIFO of the memory pools meets reuse between a
  read and a compare-and-swap; pools and key tables are read without their lock
  while others change them.
* **Life cycles.** ESs are created, joined, cancelled, revived, re-ranked and
  freed while their native threads go to sleep and wake up, also spuriously.
* **Order of loops.** A loop of OpenMP ends with a barrier. A loop of ULTs ends
  when they are joined, or with a barrier somebody wrote, or not at all.
* **Reuse.** A barrier is reused while woken waiters are still on their way out;
  a revived ULT gets a new life in the same structure; the reduction reuses one
  barrier for all levels.
* **Timeouts.** A signal meets a waiter whose time is up.

### What makes the components correct

* ULTs and waiting list: a ULT is in one place at a time; only BLOCKED waiters
  are resumed, each once; `num_blocked` never misses a ULT that will come back.
* Mutex: one owner; no waiter sleeps beside a free mutex; nesting and ownership
  agree; everybody gets it.
* Condition variable: unlock-and-wait is atomic; no spurious and no lost
  wake-ups; the timeout takes the waiter out of the list.
* Join: the joiner is remembered by a ULT that will still end; nobody spins for
  a joiner that needs the same ES; joins return, also with cancel and revive.
* Barrier: nobody passes before all have arrived, in every round.
* Reduction: every combination reads finished operands; the result has every
  element once and in order; the call returns and leaves nothing allocated.
* Schedulers: one that stops leaves no ULT behind; the primary ULT comes back to
  its ES; every join returns.
* Execution streams: list, ranks and count agree; no native thread is left
  asleep; a join leaves no unit behind.
* Eventual and future: a wait returns only when all has been set, and the
  callback is over by then. Reader-writer lock: writers exclude everybody.
* Pools: a unit is taken once, in order; a pop finds nothing only when there is
  nothing; nobody sleeps beside a unit.
* Work-unit-specific data: a get returns the last value that was set; everything
  is freed once.
* Unit map: whoever looks up a unit finds its thread; nothing stays mapped.
* Memory pools: a header is in one place; a bucket has the size it promises; all
  pages are freed.
* Applications: nothing is read or written before the phase it depends on is over.

## 2. The modules

| module | models | state and actions |
|---|---|---|
| `Ythread` | ULTs on ESs with one shared pool | `pc` of every thread; `state`, `p_thread` (per ES), `pool`, `num_blocked`; operators `Schedule`, `Yield`, `CallbackBlock`, `ResumePush`, `ResumeDecNumBlocked`, `Exit` |
| `Waitlist` (on `Ythread`) | `ABTI_waitlist` with its spinlock and futex | `p_lock`, `waitlist`, `futex` (the external threads that read its current value); wait and wake-up steps, with the names of the points they connect as parameters |
| `Mutex` (on `Waitlist`) | `ABTI_mutex` | `lock`, `owner_id`, `nesting_cnt`; one action per atomic access of lock, trylock, spinlock and unlock |
| `AbstractMutex` | one owner and a depth | implemented by `Mutex` |
| `Cond` (on `Waitlist`) | `ABTI_cond`, timed waits | `p_waiter_mutex`, owners of the mutexes (as `AbstractMutex` promises), clock of a timed wait |
| `AbstractCond` | unlock-and-wait in one step, waiting, woken and expired threads | implemented by `Cond` |
| `Join` (on `Ythread`) | `thread_join`, `ABTI_ythread_exit`, cancel, revive | `request`, `p_link`, `p_last_xstream`, `joiner_futex` |
| `Barrier` (on `Waitlist`) | `ABTI_barrier` | `counter`, `freed` |
| `AbstractBarrier` | rounds of `NUM_WAITERS` threads | implemented by `Barrier` and `XstreamBarrier`, used by `TreeReduction` |
| `XstreamBarrier` | create and wait of the ES barrier that has a counter and a tag | `counter`, `tag`, `lock`; per thread its point and the tag it has read |
| `TreeReduction` | `reduce_common`, `reduction_thread` | one thread per slice, `step`, `thread_results`, `live`, `result`; a value is the sequence of the indices it was reduced from |
| `Scheduler` | main schedulers of the kinds basic (and prio), basic_wait, randws and work-stealing over several pools | per pool: queue, `num_blocked`, `num_scheds`; per ES: point of the scheduler loop, pool it looks at, requests, pending replacement; the primary ULT and `ABT_finalize` |
| `Xstream` | create, set_rank, join, cancel, exit, revive and free of ESs | the list with both links, ranks; states of ES and native thread with its condition variable; root pool, scheduler ULT and its requests |
| `Eventual` (on `Waitlist`) | eventual and future | `ready` or `counter`, the callback of a future |
| `AbstractEventual` | a wait returns when all sets are made | implemented by `Eventual` |
| `RWLock` (on `AbstractCond`) | `ABTI_rwlock` | `reader_count`, `write_flag`, mutex and condition variable as `AbstractCond` promises them |
| `BuiltinPool` | the four kinds of built-in pools and `thread_queue_t` | head, tail, links, `is_empty`, `is_in_pool`, lock; sleepers of a fifo_wait pool |
| `AbstractPool` | a queue: every operation in one step; which end is popped, and that a remove takes only the unit asked for | implemented by `BuiltinPool` |
| `KeyTable` | `ABTI_ktable` and the migration data in it | `p_keytable`, chains, blocks with their origin; failing allocations; destructors |
| `UnitMap` | the hash table of units of user-defined pools, and the functions that bring a thread into, from one to another, and out of such pools | chains, locks; `unit`, `p_pool` of threads; units the pools have created; per worker its point and local variables |
| `AbstractKeys` | a map from keys to values | implemented by `KeyTable` |
| `MemPool` | local and global memory pools, the tagged LIFO, pages | headers with their two links, `p_top` and `tag`, local buckets, partial bucket |
| `Kernels` | the functions that the ULTs of cg and jac3d execute | no state: what each part of each function reads and writes, per thread |
| `Applications` (on `Kernels`) | how cg and jac3d create and join their ULTs, under each kind of scheduler; the cost-aware scheduler with its estimates | main's loop and index, part each ULT is at, pools, running ULTs, estimates |
| `ForkJoin` | `Barrier`, `XstreamBarrier`, `Join`, `TreeReduction`, `Applications` and `UnitMap` together | one of them moves in each behaviour, chosen by `scenario`; the others stutter |
| `WaitlistProofs` | lemmas about the operations of `Ythread` and `Waitlist`, for the proofs below | |
| `MutexProofs` | theorems about `Mutex`, `Eventual`, `RWLock` and `KeyTable` | |
| `CondProofs`, `SchedulerProofs` | theorems about the module of that name | |
| `JoinProofs` | theorems about `Join` and, in its second part, `Barrier` | |
| `SharedProofs` | theorems about `XstreamBarrier`, `UnitMap` and `TreeReduction`, whose threads meet in shared variables only | |
| `ObjectProofs` | theorems about `BuiltinPool`, `Xstream` and the pages of `MemPool` | |
| `ForkJoinProofs` | the theorems about `Barrier`, `Join`, `XstreamBarrier`, `UnitMap` and `TreeReduction` as theorems of `ForkJoin` | |
| `MCMutex`, `MCCond`, `MCForkJoin`, `MCScheduler` | instances for TLC of one module | |
| `MCObjects` | instance of `Eventual`, `RWLock`, `Xstream`, `BuiltinPool`, `KeyTable` and `MemPool` | one of them in each behaviour |
| `MCBarrierFree`, `MCOneStream`, `MCMemPool`, `MCKeyTable`, `MCApplications` | small instances for the findings | |

Every ULT, external thread and ES executes its own code; `pc[t]` (or `at[e]`)
is the point it is at, and a step is one access to shared state, or several when
a lock that the thread holds makes them one. A ULT takes steps only while an ES
runs it (`Running`): a suspending ULT keeps its ES until its callback is over,
which is when another thread may still see it on an ES although it is BLOCKED.
Threads outside a callback and inside a spinlock are interleaved freely.

`Waitlist` is a library with no next-state relation of its own: `Mutex`, `Cond`,
`Barrier` and `Eventual` give it their own points. Timed waits of a ULT put a *dummy
external thread* on the list, as the code does; `Cond` has a constant `DUMMY`
for it.

The composition is layered on the abstract specifications. `Mutex`, `Barrier`,
`Cond`, `Eventual`, `BuiltinPool` and `KeyTable` are checked to implement the
abstract module of the same name, and `XstreamBarrier` to implement `AbstractBarrier`; `Cond`, `RWLock`, `TreeReduction` and
`Applications` are built on those promises (of the mutex, the condition
variable, and the barrier) instead of on all the states behind them.

`Applications` is about the *order* of the work and not about its values: a
phase of a kernel is a set of reads and a set of writes, and a phase that is
executed before one it conflicts with, by another thread, is an error.

What the models abstract from everywhere: atomics are sequentially consistent, and
a weak compare-and-swap does not fail without a reason; outside `BuiltinPool` a
pool is FIFO and a push or pop is one step; outside `MemPool` memory is left out
(except for the buffers of the reduction and the blocks of `KeyTable`); so are
names, attributes, tool events and the error codes of invalid arguments. ULTs are
named and migratable, the default of `ABT_thread_create` with a handle. Error
checks that compare handles with NULL are taken as passed. In `Xstream` a
creation that fails does so in one step, whatever its error path undoes, and the
bit `JOIN` of a request, which only wakes a joiner, is part of the wait for the
scheduler's ULT.

## 3. The runs

| run | configuration | what it shows |
|---|---|---|
| `mutex` (`MCMutex`) | 2 ULTs on 2 ESs, an external thread, 2 rounds each, recursive or not, nesting up to 1, the external thread may spin | exclusion; no sleeping beside a free mutex; resumed waiters are BLOCKED; a ULT is in one place; `num_blocked`; `AbstractMutex` is implemented; every thread finishes |
| `cond` (`MCCond`) | three programs of 2 ULTs on 2 ESs and 2 external threads | list and waiters agree; `AbstractCond` is implemented; every consumer ends |
| `fork_join` (`MCForkJoin`) | *barrier*: 2 ULTs on 2 ESs and an external thread meet twice, the external thread frees; *xstream_barrier*: 3 threads, each on an ES, meet three times; *join*: 2 ULTs and a tasklet, an external thread, with cancel, revive, a tasklet as joiner; *reduction*: 5 threads, 12 elements; *application*: 3 threads on 2 ESs, makea, conj_grad, the norms and jac3d on three kinds of schedulers; *units*: 2 ESs, 2 threads, 2 user-defined pools with 3 units, 2 moves each | arrivals are counted, `AbstractBarrier` is implemented, by both barriers, the freed structure is not used; the hand-shake of joiner and ULT; undisturbed combinations, partial results and the complete result; phases in order wherever the code waits; units are mapped to their threads; everybody finishes |
| `scheduler` (`MCScheduler`) | 3 ULTs, 2 ESs, 10 schedulers of four kinds on 3 pools (one private, one shared); programs with suspend and resume, one or two replacements, cancellation, migration, join by a ULT, finalize by a primary ULT that may be stolen | no ULT is left behind; counts are exact; the primary ULT comes home; joins return |
| `objects` (`MCObjects`) | *eventual*: 2 ULTs and an external thread, 7 programs; *rwlock*: 4 threads, two of which change sides; *xstream*: the primary ES and 2 others, 2 callers, 3 programs; *pool*: 3 users, 3 units, each kind of pool; *keys*: 3 threads, 5 keys, 2 indices; *memory*: 2 ESs and an external thread | `AbstractEventual`, `AbstractPool` and `AbstractKeys` are implemented; readers exclude writers; ESs are consistent, and joins drain them; sleepers are woken; data are freed once; headers are in one place, buckets complete, pages freed; every thread finishes |
| `barrier_free` (`MCBarrierFree`) | the barrier with a ULT that frees | **violation**, see 6 |
| `basic_wait` (`MCScheduler`) | two ULTs in the pool of a basic_wait scheduler, suspended, and resumed while its ES is joined | **violation**, see 6 |
| `migration` (`MCOneStream`) | one ES with two pools, a ULT that asks for its own migration and suspends | **violation**, see 6 |
| `partial_bucket` (`MCMemPool`) | the *memory* instance | **violation**, see 6 |
| `keytable_migration` (`MCKeyTable`) | two threads migrate one unit | **violation**, see 6 |
| `conj_grad`, `sparse` (`MCApplications`) | cg with 2 threads on 2 stealing ESs, and on one ES | **violation**, see 6 |

`TypeOK` is the first conjunct of an invariant that needs it anyway
(`BlockedUltsCounted` of `Mutex`, `ArrivalsCounted`,
`PartialResults`, `ListedWhileWaiting`, `JoinerRemembered`, `BlockedUltsCounted` of
`Scheduler`).

*Are the bounds enough?*

* Two ESs give true parallelism of two ULTs and an external thread adds the
  futex paths; with three clients there is an owner, a waiter and somebody who
  arrives between the steps of the two, which is what the windows of the mutex
  and the barrier need. Two rounds let a waiter wait again in the same object
  while the wake-up of the first round is unfinished. Three waiters and a
  producer let a timed waiter leave the list at its head, its middle and its end.
* Five threads give the reduction three levels, a thread without a partner on
  two of them, and 12 elements a longer last slice.
* For the scheduler the interesting cases are two schedulers on a pool, a pool
  without another scheduler and a suspended ULT in either; the programs choose
  among them (32,636 states).
* A third ES makes the list of ESs have a middle; two callers are enough for one
  to act between the steps of the other on the native thread of an ES.
* A future with `NUM_COMPARTMENTS = 2` has a set that is not the last one.
  Four lockers: a reader, a writer and two that change sides, so that readers and
  writers wait at once for each of the two.
* Three users and three units: a pop, a removal and a push that meet at one unit,
  with a unit at the head, in the middle and at the end.
* `SIZE = 2`, `EXTRA = 1`, `PERDESC = 2`: chains of two elements, elements in the
  block of the table, in the first and the second descriptor; at most one
  failing allocation.
* `PER = 3`, `PPG = 4`, `MAXPAGE = 4`, `BUCKETS = 1`, operations 3, 3 and 1: a bucket is cut
  from parts of two pages, a page that cannot be allocated comes up when part of
  a bucket is carved, partial buckets of every size are gathered, and a bucket is
  popped, used and returned while another thread is in the middle of a pop.
  Tags are as many as there are pushes and pops: the code's counter of the width
  of a word is taken not to wrap around between two steps of a thread.
* `WAITS = 3` and `TAGS = 2` bring the tag of an ES barrier back to a value it had. The
  code wraps at the width of the tag; two are enough, as all threads are waiters
  and none can be more than one group behind.
* Two moves for each of two ESs: one thread is created in a pool, the other ES moves
  it away, and what the first ES maps next gets the element that was emptied, and
  is looked up by the second. Two of the three units share an index.
* `NA = 7` columns and `ROWS = 6` on three threads give slices that are uneven in each
  of the four ways the code cuts; no slice is empty. `CGITMAX = 2` of the 25
  iterations, as the data one leaves is what the next starts from.

`fork_join` has 250,397 states and `objects` 281,149, most of them of `UnitMap`
and of the memory pools. `MAXNEST`, `ROUND`, `WAITS`, `CGITMAX`, `MAXPAGE` and the lengths of the programs are the
only bounds on counters. Deadlock is checked in every passing run: the final
states have an explicit `AllDone`, `AllStopped` or `Returned` step. A behaviour of
`MCForkJoin` and `MCObjects` is about one component; the variables of the others keep
one initial value, so that the run is the union of the runs of its parts.

Each property of a passing run has a mutant in `PROJECT.json`: a definition of
the model changed the way a plausible bug would (a lock released one step early,
a second look left out, a futex not woken) that breaks the property. The mutated
forms stand before the definitions they replace and are called by nothing.

### Fairness

Liveness is checked under weak fairness of the steps of each thread and of each
scheduler. That is what the code has: every native thread is scheduled by the
operating system, external threads directly and ULTs through an ES that runs
their code; and the loop of a scheduler goes on popping, so that a unit in the
pool is popped. A spinlock is free again after finitely many steps of its
holder, who never waits while holding it, and every client takes a bounded
number of turns, so weak fairness of a thread's steps is enough for a spinner
too: when all the others have finished nobody takes the lock from it. A ULT that
spins keeps its ES, so `MCMutex` lets only the external thread use
`ABT_mutex_spinlock`. In `Cond` the clock of a timed wait also has weak
fairness: its time is over one day; so has that of a `pop_wait` (`PoolTime`). The
native threads of `Xstream` sleep without a limit: their spurious wake-ups have no
fairness, and every wake-up that liveness needs is a signal. A unit is
freed in the end (`TableFree`), which is what lets `FreedOnce` say that all was
freed. `MemPool` has no fairness, and no liveness: a thread may stop asking for
blocks, and the retry of its compare-and-swap is lock-free, not wait-free.

## 4. The proofs

All theorems hold for any number of ULTs, ESs and external threads, of rounds,
units, pools and indices of the table: for every value of the constants that the
assumptions below admit.

| theorem | statement |
|---|---|
| `MutexProofs!TypeCorrect` | `MutexSpec => []TypeOK` |
| `MutexProofs!Exclusion` | `MutexSpec => []MutualExclusion` |
| `MutexProofs!Wakeup` | `MutexSpec => []NoLostWakeup` |
| `MutexProofs!ResumeAssertion` | `MutexSpec => []ResumesBlockedWaiters`: the assertion of `ABTI_ythread_resume_and_push`, for every call the mutex makes |
| `MutexProofs!OnePlace` | `MutexSpec => []UltInOnePlace` |
| `MutexProofs!Counted` | `MutexSpec => []BlockedUltsCounted` |
| `MutexProofs!Implementation` | `MutexSpec => ImplementsAbstractMutex` |
| `MutexProofs!EventualImplementation` | `EventualSpec => ImplementsAbstractEventual` |
| `MutexProofs!ReadWriteExclusion` | `RWSpec => []ReadersExcludeWriters` |
| `MutexProofs!TableFreedOnce` | `KeySpec => []FreedOnce` |
| `MutexProofs!KeysImplementation` | `KeySpec => ImplementsAbstractKeys` |
| `CondProofs!TypeCorrect` | `CondSpec => []TypeOK` |
| `CondProofs!Listed` | `CondSpec => []ListedWhileWaiting` |
| `CondProofs!Implementation` | `CondSpec => ImplementsAbstractCond` |
| `ForkJoinProofs!Arrivals` | `Spec => []ArrivalsCounted` |
| `ForkJoinProofs!Freed` | `Spec => []FreedBarrierUnused` |
| `ForkJoinProofs!BarrierImplementation` | `Spec => ImplementsAbstractBarrier` |
| `ForkJoinProofs!XstreamBarrierImplementation` | `Spec => XstreamBarrierImplements` |
| `ForkJoinProofs!Resumes` | `Spec => []ResumesBlockedJoiner` |
| `ForkJoinProofs!Remembered` | `Spec => []JoinerRemembered` |
| `ForkJoinProofs!Spins` | `Spec => []SpinsForRunningJoiner` |
| `ForkJoinProofs!Counted` | `Spec => []BlockedUltsCounted` |
| `ForkJoinProofs!Units` | `Spec => []UnitsMapped` |
| `ForkJoinProofs!Undisturbed` | `Spec => []CombinesUndisturbed` |
| `ForkJoinProofs!Partial` | `Spec => []PartialResults` |
| `ForkJoinProofs!Complete` | `Spec => []ResultComplete` |
| `ObjectProofs!UnitsWake` | `PoolSpec => []SleepersWoken` |
| `ObjectProofs!PoolImplementation` | `PoolSpec => ImplementsAbstractPool` |
| `ObjectProofs!StreamsDrained` | `XstreamSpec => []JoinDrains` |
| `ObjectProofs!StreamAssertions` | `XstreamSpec => []ContextAssertions`: the assertions in `abtd_stream.c` and `xstream_join` |
| `ObjectProofs!StreamsConsistent` | `XstreamSpec => []XstreamsConsistent`: these, and the list of ESs with its links, order and count |
| `ObjectProofs!PageReturn` | `MemPoolSpec => []PagesFreed` |
| `SchedulerProofs!SchedInvariance` | `Spec => []SchedInv`, for the `Spec` of `Scheduler` here and below |
| `SchedulerProofs!ComesHome` | `Spec => []PrimaryComesHome` |
| `SchedulerProofs!SchedsCounted` | `Spec => []SchedsInv`: `num_scheds` |
| `SchedulerProofs!BlockedCounted` | `MovedStayAwake` implies `Spec => []BlockedUltsCounted` |
| `SchedulerProofs!NobodyLeftBehind` | `Settled` implies `Spec => NoUltLeftBehind` |

`Spec` is the specification of `ForkJoin`, which the run `fork_join` checks. Its
theorems are proved of the single components first, in
`JoinProofs` and `SharedProofs`, under the same names (`BarrierOfStreams` is the
refinement of the ES barrier).

*Assumptions.* `ThreadAssumption` (in `ForkJoin`: `ThreadsAssumption`): ULTs and
external threads are disjoint, the set of ULTs is finite. `MutexAssumption`,
`CondAssumption` (each ULT has a dummy of its own, and programs are sequences of
operations), `RWLockAssumption`, `JoinConstants`, `BarrierConstants`: the types of the parameters.
`XstreamBarrierConstants`: the waiters are a finite set of `NUM_WAITERS` threads, at
least two, and the tag has at least two values. `UnitMapConstants`: threads, units,
pools and the two special handles are different things. `KeyTableAssumption`, `PoolAssumption`: the types of the parameters and of
the calls, and that the users of a pool are finitely many. The second also asks the users
of a pool for `LegalPoolUse`: a unit has one `p_next`, so nobody pushes it while it is in a pool.
`MemPoolConstants`: one ES is the primary one, the pool of the external threads is no ES, a bucket holds at
least one header and the pages enough of them for the initial buckets.
A new unit is pushed by one call (`PushedOnce`), a unit that a user got it
pushes back once (`PushedBackOnce`), as a scheduler does with a unit that has yielded. `ReductionConstants`:
there is at least one thread. `XstreamAssumption`: the callers do what `stream.c` asks of
them (`LegalUse`). Create, join, revive and free of one ES are not thread-safe
(`stream.c:342`, `stream.c:488`), and as the callers of the model have nothing to take turns with,
one of them makes all of these calls; an ES that is revived "has been
terminated by `ABT_xstream_join()`" (`stream.c:321`), or it runs and the call is
refused; a structure is created once and a unit pushed once. Pushes, changes of rank and
cancellations may come from anybody at any time. There are finitely many structures, and calls
that are refused at once are left out (`Accepted`): most refuse the primary ES
(`stream.c:446`, `598`, `746`, `1859`), and all a rank below 0 (`stream.c:286`, `748`).
`EventualAssumption`: the users of an eventual or a future keep to its documentation
(`UsedLegally`). Results are undefined when the object is reset or freed while somebody waits
on it (`eventual.c:96` and `372`, `futures.c:113` and `332`), or accessed after it was freed
(`eventual.c:97`); as the users have nothing else to tell each other, one of them makes
these calls, resets right after a wait or a poll or after it made all
the sets itself, and frees last, where the others only set. Others may set while
it does, one set too many included. TLC evaluates all assumptions in the runs.
`Freed`, and it alone, also needs `BarrierFreeUse`: each wait is one of all the threads,
each thread waits as often as the others, and there is no external thread besides one
that frees. Without the last condition it is false, which is the finding
`barrier_free`.

`SchedulerAssumption` has the types of the parameters of `Scheduler`: finitely many ULTs, ESs and
external threads, at least one pool for each scheduler, no scheduler that is the main
scheduler of two ESs at the start, programs of calls that a thread may make
and, by `JoinsFirst`, an `ABT_finalize` whose caller has joined the other ESs before,
as `ABT_finalize` asks for. Two theorems need more, and are false without it:

* `BlockedCounted`: a ULT that somebody may ask to migrate does not suspend itself, join, or
  replace a scheduler (`MovedStayAwake`). Otherwise it is counted in one pool
  and taken off another, which is the finding `migration`. All set-ups of the run `scheduler`
  satisfy this.
* `NobodyLeftBehind`: no scheduler is of the kind basic_wait, and no thread migrates another or
  replaces a scheduler (`Settled`). A scheduler of basic_wait stops whatever its
  pools hold, which is the finding `basic_wait`. A ULT of a shared pool that is asked to
  migrate is pushed to its new pool by whatever scheduler pops it next, also after the
  only scheduler of the new pool has found that pool empty for the last time. And a
  replacement takes a pool from a scheduler: let the main schedulers of two ESs
  share a pool. The one that is to stop finds two schedulers there and goes on to its next
  pool; a ULT of the other ES replaces the other scheduler by one without the
  shared pool; the first one stops, and a suspended ULT of the shared pool is left to
  nobody. TLC finds the last two behaviours in set-ups of two ESs and three ULTs, which the run
  `scheduler` does not have; no comment or document promises anything about them. Six of the
  eleven set-ups of that run have no migration, replacement or basic_wait.

None of the properties is inductive alone. What follows are the invariants that are,
and why they are needed.

*Mutex.* `IInv` conjoins

* `TypeOK`;
* `LockInv`: `lock` is set exactly when one thread is at a point of ownership
  (`MutualExclusion`), and `p_lock` exactly when one thread is at a point that holds
  it (`PLockExclusion`); a non-empty list means that `lock` is set or that the
  thread which released it is still in its broadcast (`WaitersNeedOwner`); and
  `owner_id` names the owner of a recursive mutex from the time it is taken
  to its last unlock, and no nested lock is counted outside that time
  (`OwnerNamed`), without which the unlocked comparison in lock could not be shown
  harmless;
* `WaitInv` (from `WaitlistProofs`): `UltInOnePlace`, i.e. list, pool and ESs hold
  every ULT at most once, and `WaitersSuspended`, i.e. points, states and places of
  a thread agree.

`WaitlistProofs` has one lemma for each operation about what it does to types, to
places and to `num_blocked`; these mention none of the objects built on them, and serve
all. For `Counted` a step either leaves the sets of BLOCKED ULTs and of
those in `broadcast_dec` alone or puts one element into one of them, or takes it out,
together with the change of the counter.

For `Implementation` the invariant of the mutex suffices. Six steps change the owner or
the depth, and each is one of `AbstractMutex`: a test-and-set that succeeds, for
which `OwnerNamed` says that nothing nested is left over; a nested lock, which
takes the owner's name in `owner_id` to mean that it is the owner; and the two
unlocks. All others leave the points of ownership alone (`OtherSteps`).

*Condition variable.* A timed wait breaks what holds of the other objects: its thread
goes on while its dummy is on the list, is READY and runs while the list has it, and
leaves from the middle. `ListInv` therefore speaks of entries and not of threads: the list has
the entry of each thread that is `Asleep`, that is between joining the list and being made READY, once, and
nothing else. It needs that different threads have different entries (`Entries`, from
the dummies), that a thread is at a point of the operation it is about (`CallInv`),
which says whether its entry is its dummy, that a ULT that runs is BLOCKED only while it suspends (`PlaceInv`),
and that one thread holds `p_lock` (`PLockExclusion`). That `num_blocked` is never
negative, which `TypeOK` claims, takes `CountedInv`, for which the point between
push and decrement of a wake-up counts as one. For the refinement `OwnInv` adds that
whoever gives its mutex up owns it, and that no waiter has timed out before. Five steps are steps
of `AbstractCond` on the waiters: the unlock of the mutex inside the wait (`WaitRefined`), a
signal that finds a waiter, a broadcast at the moment it gets `p_lock`, a timed wait
whose dummy is not READY once its time is up and it has `p_lock`, and the return. All
others leave everybody as it was, `Same`: to show it for a thread that goes
to take its mutex is to show that its entry is not on the list any more
(`WaitMoves`), and for all others that each entry is of one thread. The turns of a
broadcast are among them, since they wake threads that do not wait any longer
for `AbstractCond`.

*Barrier.* The lock is held by one thread, or for ever by the one that freed the
barrier (`LockInv`). `counter` is the length of the list, and smaller than `NUM_WAITERS`,
except from the last arrival to the reset, where it is `NUM_WAITERS` and the list
shrinks (`ArrivalInv`); `WaitInv` says who is on it. For `Freed` the count of the list has
to become a count of threads: by `RoundInv` the threads that have arrived in this
round have one wait less left than all the others, and a group of `NUM_WAITERS` is
everybody, so that after somebody's last wait nobody is to come. The refinement maps
a waiter to one that has arrived until it is taken off the list.

*Barrier of ESs.* A waiter is *unreleased* while it spins on the tag that is
current, and `CountInv` says that `counter` is the number of these, except between the
last arrival and the store of the tag: there the counter is zero already and
everybody else is unreleased. So nobody can be a group behind when the tag
comes round, and any range of the tag from 2 will do.

*Join.* Joiner and ULT share no lock: they meet on the bit `JOIN` of `request` and on
`p_link`. `LinkInv` says how. At most one joiner is between its fetch-or and the store of
`p_link` (`BlockerAlone`), and until it has stored it the ULT does not go past its own fetch-or
(`BlockerOK`); a ULT whose bit is set and whose link is not has such a joiner to wait for,
unless it was the first and ends without one (`JoinerComes`); a joiner whose link is
stored stays where it is, BLOCKED or at its futex, until the ULT has resumed it
(`JoinerWaits`). This needs to know that a ULT is in the pool, on an ES, blocked or
terminated (`PlaceInv`), since a joiner must not be resumed while it is on an ES, and
what a thread at each point is and wants (`ProgInv`). `RememberInv` turns it around: from the joiner
to the link. A revival starts this over, which is why the bit, the link and the
point must be reset in one step of whoever revives. In `Counted` a joiner that the ending ULT jumps to is counted
twice for a moment, one that it pushes once too little; hence the two further sets.

*Hash table of units.* `UnitMap!Get` walks the chain of an index without the lock while
others empty elements and fill them again. `Owns(t, q, u)` says when unit `u` that pool
`q` created is that of thread `t`, or of its new one while a worker moves it; `Maps` is the
part of that time in which it is in the table. `LiveInv`: a unit is kept by its
pool exactly while one thread owns it. `ChainInv`: an element that is not empty has a unit
of its index that is mapped, and its thread, unless a worker is about to write
the thread, and no unit is in two elements. `FoundInv`: all that is mapped is there, and a worker that walks the chain is not
past it. The key step is `MapReuseStep`: the element that is filled was emptied by another
worker, perhaps under the feet of a reader. `WorkerInv` and `TakenInv` are what a worker knows of the
thread it has taken, which no other worker has. That a chain has a last element with
a property is the one place where induction is needed; see below.

*Eventuals and futures.* `ReadinessInv` ties the object to its list: the callback of a future
was called before the counter says that it is ready, and a ready object has waiters on its
list only while the setter that made it ready is still waking them. What breaks this is a
reset: a waiter that was woken, but has not returned, would return from an object
that is not ready, and one that is still on the list would stay there. So the invariant is also
about `o`, the one thread that resets and frees. `ResetInv` hands the legality of its program on from step to
step: where a reset comes after its own sets, the ones that are left
are counted against what the counter lacks (`SetsBefore`), so that the object is ready
whenever `o` gets to the reset (`ReadyThen`). `WokenInv`: an `o` that has been woken
finds the object as ready as it was, for nobody else resets it. `ReleaserInv`: beside a thread that frees the
others only set, and it gets the lock only when a setter is done with the object. The refinement takes
a set to take effect for all waiters when the flag or the counter is stored, though they are woken
one by one (`SetRefined`); the other steps of a wait change nothing for `AbstractEventual`
before its return (`WaitRefined`).

*Reader-writer lock.* `ReadersExcludeWriters` already says that
`reader_count` and `write_flag` count the holders; what is missing is that a thread
which holds the lock still has the call its unlock belongs to, since unlock does
not know whether it ends a read or a write and goes by the flag. With that, a
step changes the set of holders only where it changes the count or the flag
(`RdLockStep`, `WrLockStep`, `UnlockStep`), and every other step leaves it alone (`OutsideStep`).
The proof opens no definition of the condition variable: whatever it lets
through, `MustWait` is false in the step that takes the lock.

*Reduction.* Nobody is more than one barrier ahead: the level before which a thread waits, or
will wait next, is the same for all (`LevelInv`). So when a thread combines, everybody
else is in this level or has been through it, and the two operands are at rest. `ResultInv` says what a partial result holds: the
elements from the first of its own slice to the first of the slice `step` threads on,
or to the end (`Holds`, `End`); a combination puts two neighbours together
(`ElemsConcat`). What has to be known of slices and steps is arithmetic of quotients and
remainders for every number of threads and elements (the lemmas on `%` and `\div`); no induction
over levels is needed, since a behaviour goes through them one by one.

*Data of work units.* Chains only grow at their ends, and an element keeps its key
and its place (`Grows`). So what a thread has learned without the lock, that the elements it has
passed are of other keys (`Passed`) or that the one it stands at is of its key (`AtElement`),
stays true whatever others do (`SetterOK`). A thread that inserts has
passed the whole chain while it held the lock, hence at most one element of each
key (`UniqueInv`). The refinement takes a set to take effect when the value
is stored or the element linked, and a get when it reads, or finds the end of
a chain that has no element of the key. `MemoryInv`: the list of the table has
all blocks that are allocated, of each origin.

*Pools.* `SleepersWoken` speaks of the moments when the mutex is free. `SleepInv`
extends it to its holder: the units in the queue are not more than the users that are woken and
wait for the mutex, plus what the holder is *ahead* by (`Lead`): the units it has pushed and not
signaled, and one that it is about to take. A signal moves one user from the
sleepers to the woken; one that gets the mutex is no longer counted among these, but
ahead by the unit it takes. `EmptyInv` says when `is_empty` is out of date, `KindInv` what a push
has still to do, and that only a pool of kind FIFO_WAIT has sleepers.

For the refinement the links have to be a sequence. `RingInv` takes it from
`AbstractPool`: there is a sequence of different units whose neighbours are linked both ways, the last
with the first. Following `p_next` from `p_head` gives that sequence (`WalkOfRing`: the
first place where it did not would come after one where it does), so that `Contents` is
known before and after each change of the links (`RingGrows`, `RingShrinks`). That a unit to be pushed is not
in the queue is a matter of who has it: `OwnerInv` says that a unit which is still to be
pushed, or was got last by a user, is in no queue and nobody else's. `MarkInv` says
that `is_in_pool` is out of date only for the unit that the holder of the mutex has just
linked or unlinked, so a remove with the mutex can go by it. The steps that count are
the link of a unit, or, if it is the first one, the store of `is_empty`; the
unlink, or the read of `is_empty`, of a pop; and the begin and the end of a remove.

*Execution streams.* The state of an ES is spread over the native thread, the context,
the ES, the ULT of its scheduler and the root pool, and these are written by different
threads. `StageInv` lists the eight combinations they go through. Some of them one caller brings
about and ends: an ES is `Reviving` only while a caller is between the two halves of a
revival, and a context asked to join only while its joiner sleeps (`CallInv`). That no two such
calls meet (`AloneOnEs`) follows from what is left of the programs, so
`ProgramInv` says that the rest of a legal program is legal where the callers are now: whenever a call to revive comes,
the ES is at rest, or nobody has asked it, or ever will, to stop (`ReviveOK`), which a joining or
a reviving caller has to hand on from each call to the next. `DrainInv` is
`JoinDrains` from the moment the scheduler's ULT ends: it ends, unless it was cancelled,
only after it has seen the pool empty with the request to finish set
(`NativeDrains`), and whatever is pushed later is not owed. A ULT that had ended
before the join was called owes nothing: it was told to by an exit, or joined before.

*List of execution streams.* `RankList` speaks of the sequence one gets by following `p_next`. `ListInv` says
that there is such a sequence: it has each ES that exists once, linked both ways, with ascending
ranks, and `PRIMARY`, whose rank is 0 and never changes, is its first. The code does
not set `p_prev` of an ES that it inserts at the head (`stream.c:2045`); this does no
harm because every other rank is above 0. An insertion puts the ES between two neighbours in the
order of ranks, a removal joins its neighbours, and in both cases following
the links of the new list gives the new sequence, since otherwise there would be a first place where it does not.
`FirstFreeRank` exists, as there are more ranks in `0 .. Cardinality(STREAM)` than ESs. That
an ES is on the list until it is freed, and that nobody changes its rank afterwards, needs that the caller that frees it
is its only user by then (`UsersInv`).

*Schedulers.* `SchedInv` ties the pools to the threads. A ULT is in its pool, once,
exactly while it is `READY` (`PoolsInv`). What runs is on one ES, whose scheduler is
between a pop and the next look at its pools, and a ULT on no ES is between two calls
or waits in a join (`RunningInv`). Only who has just pushed a ULT owes a
decrement of `num_blocked` (`OwedInv`). Of an ES whose scheduler is to be replaced, the
request, `p_replace_sched` and `p_replace_waiter` are set and cleared in several
steps by the ULT that asks, a later ULT that asks again and discards the former scheduler, and
the ES; `ReplacesInv` says which combinations there are, and that the waiter is `BLOCKED`, or on its
way there, and awaited by no other ES. From these the counters follow: `num_scheds` counts main
schedulers, those set as the next ones, and those just created by a ULT that has not set them
yet (`SchedsInv`), each ES having one of the first two kinds at most; `num_blocked`
counts the ULTs that are `BLOCKED`, or have been counted and are not yet `BLOCKED`, and the
decrements owed (`BlockedInv`). Both are differences of cardinalities, so that they
are natural numbers only by these invariants. `FinalizeInv` follows the primary ULT through its
program: before each call there is a join of the ES, or the ES has stopped.

`StopInv` is what a scheduler knows while it stops. It goes through its pools to ask whether
something is left, then looks at its requests, and then goes through the pools again.
For a pool that no other scheduler has: after the first look, every ULT of the pool
is `READY` or has ended, because `num_blocked` is 0, and only the scheduler itself
could run and so suspend one (`Awake`); this lasts while it does not pop. After the second,
each of them has ended, as none is in the queue (`Over`). The second look is needed: a ULT that is resumed
after the scheduler has found the queue empty and before it reads `num_blocked` is missed by
the first. `Seen` is the part of the
pools that the scheduler has been through.

*Pages of the memory pools.* `PagesFreed` is about the end, but nothing is known then unless no page was
lost before. `StackInv` says where the pages are while the pools are in use: there is a sequence of
distinct pages, linked from `p_top`, and each page is in it, on the list of empty pages, or held
by one thread, which carves it or is about to push it. What a thread that pops knows is in
`ActorOK`: it read the tag before the link, so if `p_top` and the tag are still those it read, the
link it read is still the link of the top page. A page that was popped and pushed again meanwhile may have
another link under the same `p_top`; only the tag, which every
successful compare-and-swap increases, tells the two apart. At the end
`ABT_finalize` is alone (`FinalInv`), nobody holds a page, and following the links from `p_top` meets the
whole sequence. That following links meets a sequence is the lemma `FollowList`, which the
list of ESs needs as well.

*Composition.* A behaviour of `ForkJoin` is about one component: a step of it is one of
that component, or leaves all of its variables alone (`BarrierBehaviour`,
`JoinBehaviour`, and so on). `ForkJoinProofs` instantiates each proof module with
the variables that `ForkJoin` gives that component, shows that the definitions of the two instances
are the same, and carries the theorems over.

*Model-checked only:* liveness (TLAPS has no rules for fairness and ENABLED
here); of `MemPool`, where each header and each bucket is (`HeaderInOnePlace`, `BucketsComplete`);
of `Scheduler`, that joins return, and `NoUltLeftBehind` in the set-ups with a migration, a replacement
or basic_wait; all properties of `Applications`. What a
recursive definition computes for every input could not be proved, since the library's
induction theorems take an operator as a parameter, which no installed prover can
instantiate; no module uses RECURSIVE operators. A minimal element of a set of numbers
can be had without one: `SharedProofs` and `ObjectProofs` take the order on `Nat` as a set of pairs
(`LessThanWellFounded`) and the library's `WFMin`.

## 5. What is not modelled, and the plan

*Whole parts.* Direct switches between ULTs (`yield_to`, `suspend_to`,
`resume_yield_to`, `exit_to`), schedulers stacked in pools, the pthread variant of
the futex, weak memory, user-defined pools other than the units
they create, the variant of the ES barrier that calls pthreads, set-up, affinity and queries are not modelled; the stack switch itself and the
atomics are assembly or intrinsics and are assumed to work. Most of the lines of
the repository are none of the runtime's concurrent core: the tool and
information interfaces and a profiler, the tests and examples, parsing of the
environment, inline wrappers of atomics, and benchmarks in OpenMP and BOLT that
the Argobots versions are compared with. They have no state a model checker
would tell apart, which is why the share of lines in the map is small.

*In the modelled parts:*

* `Xstream`: affinity; a revival of an ES that was cancelled and not joined, after
  which the native thread may still be in the end of its former run (the check at
  `stream.c:360` looks at the scheduler's ULT only). An ES that is inserted at the head of the
  list keeps its old `p_prev`; the model does the same, and the primary ES is always the head.
* Join: an ES that is joined by one of its own ULTs (`stream.c:1862`): the ULT is counted
  as blocked in a pool of the scheduler it waits for, which does not stop. The
  documentation (`stream.c:482`) promises an error; the code has no such check.
* `Scheduler`: a scheduler that is replaced waits for `num_blocked` of a private pool
  to become 0 (`sched/sched.c:962`), which counts the ULT that waits for the
  replacement, so with a private pool in both schedulers neither goes on; replacing
  ULTs are given other pools. With a shared pool the counts are not looked at while
  it has more schedulers. `basic_wait` leaves its loop after a pop that waits,
  whatever its pools hold (`sched/basic_wait.c:145`), and is called again (see the finding
  `basic_wait`; in the run `scheduler` one ULT at most is suspended in such a pool).
* `BuiltinPool`: `pop_timedwait`, printing, and the size queries. The time of a fifo_wait pop with
  `tv_nsec` of exactly 1e9, which is not carried over (`pool/fifo_wait.c:176`), is an
  invalid argument that returns at once (`WaitRefused`).
* `KeyTable`: `SetSpin` goes on with whatever replaces `LOCKED`, as the code does, also
  with the NULL of a creation that failed (`abti_key.h:256-262`); the programs with a
  failing allocation have one thread that sets, so nobody waits there. Keys are
  given.
* `UnitMap`: the hash function, which is a parameter, and the end of the table. A user's pool
  gives each unit an address of its own, as `include/abt.h.in:1791` asks for, and may
  refuse at any time; a thread is moved by one worker at a time.
* `MemPool`: page protection, the lock-based LIFO of builds without a wide
  compare-and-swap, which kind of page is allocated. That a local pool is used by
  one native thread only is an assumption: a unit cancelled by another ES is
  terminated with the ES it ran on last (`abti_thread.h:97`).
* `Applications`: values, times and the statistics of the cost-aware scheduler. Its
  estimates are counts; a search for the heaviest pool is one step and takes any
  pool with an estimate. Each scheduler reads its rank when it is created, by the
  ES that creates all, so that all have rank 0; and a ULT that is resumed is pushed without an
  estimate, so the estimates (`sum_estimated`, in the comment at line 21) are not
  those of what is in the queue. The arrays of arguments that main fills, and
  threads with empty slices, are left out.
* `XstreamBarrier`: free, which the caller keeps away from a wait. The waiters are
  `NUM_WAITERS` threads, each on an ES of its own, as the documentation asks for.
* `Cond`: the documentation (`cond.c:124`) associates the mutex with the condition variable
  "until this routine returns"; the code never ends the association (`cond.c:274`) and
  refuses another mutex for ever. The model does the same.
* The reduction: a failing `malloc` or `ABT_thread_create` is not checked by the code
  (`abt_reduction.c:97`); with one thread missing the barrier would never open.
* Memory of a reader-writer lock or a mutex that is freed while it is used: the
  documentation forbids it.

*Next, in this order:*

1. The LIFO of buckets of `MemPool`, after that of pages, proved to lose no header; the set-ups with
   migrations and replacements under which `NoUltLeftBehind` holds.
2. `WaitPointers`: the pointers `p_head`, `p_tail`, `p_next` and `p_prev` of the
   waiting list, which timed waits keep only partly, shown to implement the
   sequence of `Waitlist`.

## 6. Findings

* **`barrier_free`** (`barrier.c:156`). The comment at `barrier.c:153` says that the
  lock is acquired to free the structure safely. It waits for the last arrival
  only: a woken external thread reads the futex in the structure without any lock,
  so a ULT that has returned from its own wait and frees the barrier frees it under
  that read. When the external thread itself frees it (`barrier`), or all waiters
  are ULTs, the free is safe.
* **`basic_wait`** (`sched/basic_wait.c:145`). After a unit it had to wait for, the run
  function leaves its loop without `ABTI_sched_has_to_stop`, whose second look at the
  pools is what keeps the unlocked reads of pool and `num_blocked` safe. With a join
  requested, `thread_main_sched_func` looks once: it reads that the pool is empty, a
  suspended ULT of the pool is resumed, it reads that nobody is blocked, and the ES ends
  with that ULT in its pool.
* **`migration`** (`abti_ythread.h:56`). A ULT that asked for its own migration and
  suspends is counted in `num_blocked` of its old pool and discounted in the new
  one: the old pool keeps a count of 1, its scheduler never stops, and the join
  of the ES never returns.
* **`partial_bucket`** (`mem/mem_pool.c:76`). The number of headers left over after a
  bucket was completed from two partial ones is computed with the wrong sign:
  the rest is stored as holding zero or fewer headers, and the next bucket is
  linked behind its first one. The others are lost until `ABT_finalize`, which frees
  all pages (`PagesFreed` holds).
* **`keytable_migration`** (`thread.c:2642`). The migration data of a unit are looked up
  and added in two calls. Of two threads that ask a unit to migrate at once, one
  stores its pool in data the other has replaced, and the request is set while
  the data that the unit finds have no pool.
* **`conj_grad`** (`cg_argobots_fixed/CG/cg.c:933`). The first loop of conj_grad is not
  joined before the second one is created. With a scheduler that steals, `rho` is
  computed from an `r` that is not set yet. Without stealing, the order of the
  pools keeps the loops apart as long as the slices of both begin alike, which
  `fork_join` checks.
* **`sparse`** (`cg_argobots_fixed/CG/cg.c:1385`). The last two loops of sparse have no
  wait between them, and each thread's second loop changes the first row pointer
  of the next thread. With two ULTs on one ES the order in which the barriers
  release them makes it happen in every run.
