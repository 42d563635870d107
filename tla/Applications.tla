---------------------------- MODULE Applications -----------------------------
(***************************************************************************)
(* How cg and jac3d run their parallel loops: the primary ULT creates a    *)
(* ULT per thread and loop, dealing them out to the pools of the execution *)
(* streams (ESs), and joins them.  ABT_WS_SCHEDULER says who takes units   *)
(* from which pools: each ES from its own only ("default"); from the other *)
(* pools too, if its own is empty ("ws"); or from the pool whose estimated *)
(* cost is highest ("cost_aware").                                         *)
(*                                                                         *)
(* What OpenMP's loops promised, the source of these programs              *)
(* (cg_openmp_fixed), is that everything of a loop has been done before    *)
(* anything of the next one starts.                                        *)
(***************************************************************************)
EXTENDS Kernels, Functions, FiniteSets

CONSTANTS
    NUM_XSTREAMS,  \* ESs, and as many pools
    JOBS,          \* what may be given: <<mode, name of a program>>
    NOBODY

XS == 0 .. NUM_XSTREAMS - 1

(* A loop that main joins, or one that it leaves.                          *)
Loop(kernel) == [kernel |-> kernel, joined |-> TRUE]
Left(kernel) == [kernel |-> kernel, joined |-> FALSE]

(* CGITMAX: two of the 25 iterations of the loop of conj_grad, as the data *)
(* that one iteration leaves is what the next starts from.                 *)
CGITMAX == 2

ConjGradLoop == <<Loop("q"), Loop("d"), Loop("update"), Loop("p")>>

ConjGrad ==
    <<Left("init"), Loop("rho")>> \o ConjGradLoop \o ConjGradLoop \o <<Loop("final")>>

(* The parts of the main functions, and two iterations of that of jac3d.   *)
Program == [
    makea |-> <<Loop("makea")>>,
    conj_grad |-> ConjGrad,
    norms |-> <<Loop("norm_temps"), Loop("normalize_z"), Loop("ones")>>,
    jac3d |-> <<Loop("update_A"), Loop("update_B"), Loop("update_A"), Loop("update_B")>>]

ApplicationConstants ==
    /\ KernelConstants
    /\ NUM_XSTREAMS \in Nat \ {0}
    /\ JOBS \subseteq {"default", "ws", "cost_aware"} \X DOMAIN Program
    /\ CGITMAX = 2

VARIABLES
    job,        \* the mode and the program of this run
    main,       \* the point the primary ULT is at...
    loop,       \* ...the number of its current loop...
    index,      \* ...its loop variable...
    last,       \* ...and the ES it ran on last
    threads,    \* reduction_context.threads
    part,       \* the part of its function each ULT is at
    waiting,    \* ULTs in the barrier, in the order they arrived
    running,    \* what each ES runs
    picked,     \* the unit its scheduler has popped, its estimate not yet
    victim,     \* which of its pools the scheduler tries
    pools,      \* units, oldest first
    estimates   \* g_pool_meta[].count

appVars == <<job, main, loop, index, last, threads, part, waiting, running, picked,
             victim, pools, estimates>>

mode == job[1]
Loops == Program[job[2]]

MAIN == <<0, 0>>

(* The ULT that is created for thread t in loop n.                         *)
Ult(n, t) == <<n, t>>

KernelOf(n) == Loops[n].kernel

NumParts(n) == Len(Kernel[KernelOf(n)])

Terminated(u) == part[u] > NumParts(u[1])

-----------------------------------------------------------------------------

(* main begins to create the ULTs of a loop.                               *)
FirstStep == IF mode = "cost_aware" THEN "register" ELSE "create"

AppInit ==
    /\ job \in JOBS
    /\ main = FirstStep /\ loop = 1 /\ index = 0 /\ last = 0
    /\ threads = [t \in Id |-> NOBODY]
    /\ part = [u \in (DOMAIN Loops) \X Id |-> 1]
    /\ waiting = <<>>
    /\ running = [e \in XS |-> IF e = 0 THEN MAIN ELSE NOBODY]
    /\ picked = [e \in XS |-> NOBODY]
    /\ victim = [e \in XS |-> 0]
    /\ pools = [k \in XS |-> <<>>]
    /\ estimates = [k \in XS |-> 0]

(* The pool of thread t.                                                   *)
PoolId(t) == t % NUM_XSTREAMS

Push(u, k) == pools' = [pools EXCEPT ![k] = Append(@, u)]

Give(e, u) == running' = [running EXCEPT ![e] = u]

MainAt(e, l) == running[e] = MAIN /\ main = l

schedulerVars == <<picked, victim>>
ultVars == <<part, waiting>>

-----------------------------------------------------------------------------
(* The primary ULT, on ES e.                                               *)

Register(e) ==
    /\ MainAt(e, "register")
    /\ estimates' = [estimates EXCEPT ![PoolId(index)] = @ + 1]
    /\ main' = "create"
    /\ UNCHANGED <<job, loop, index, last, threads, ultVars, running, schedulerVars, pools>>

(* It goes on with the next thread, and after the last one at l.           *)
NextThread(again, l) ==
    IF index < NUM_THREADS - 1 THEN main' = again /\ index' = index + 1
                               ELSE main' = l /\ index' = 0

(* The handle of the ULT that was created for this thread before is lost,  *)
(* if that ULT was not joined.                                             *)
Create(e) ==
    /\ MainAt(e, "create")
    /\ Push(Ult(loop, index), PoolId(index))
    /\ threads' = [threads EXCEPT ![index] = Ult(loop, index)]
    /\ NextThread(FirstStep, IF Loops[loop].joined THEN "join" ELSE "after")
    /\ UNCHANGED <<job, loop, last, ultVars, running, schedulerVars, estimates>>

(* Mutant of Join: the ULT of the last thread is not waited for.           *)
JoinNotLast(e) ==
    /\ MainAt(e, "join")
    /\ index = NUM_THREADS - 1 \/ Terminated(threads[index])
    /\ threads' = [threads EXCEPT ![index] = NOBODY]
    /\ NextThread("join", "after")
    /\ UNCHANGED <<job, loop, last, ultVars, running, schedulerVars, pools, estimates>>

(* ABT_thread_join and ABT_thread_free of a ULT that has terminated...     *)
Join(e) ==
    /\ MainAt(e, "join")
    /\ Terminated(threads[index])
    /\ threads' = [threads EXCEPT ![index] = NOBODY]
    /\ NextThread("join", "after")
    /\ UNCHANGED <<job, loop, last, ultVars, running, schedulerVars, pools, estimates>>

(* ...or one that has not: the primary ULT suspends.                       *)
JoinSuspend(e) ==
    /\ MainAt(e, "join")
    /\ ~Terminated(threads[index])
    /\ main' = "suspended"
    /\ Give(e, NOBODY)
    /\ UNCHANGED <<job, loop, index, last, threads, ultVars, schedulerVars, pools, estimates>>

(* It does what comes after the loop.                                      *)
AfterLoop(e) ==
    /\ MainAt(e, "after")
    /\ IF loop < Len(Loops) THEN main' = FirstStep /\ loop' = loop + 1
                            ELSE main' = "done" /\ UNCHANGED loop
    /\ UNCHANGED <<job, index, last, threads, ultVars, running, schedulerVars, pools,
                   estimates>>

-----------------------------------------------------------------------------
(* The ULT u that ES e runs.                                               *)

Runs(e, u) == running[e] = u /\ u \notin {MAIN, NOBODY}

Advance(u) == part' = [part EXCEPT ![u] = @ + 1]

(* From one loop to the next.                                              *)
NextPart(e) == \E u \in DOMAIN part :
    /\ Runs(e, u)
    /\ part[u] < NumParts(u[1]) /\ part[u] \notin WaitsAfter(KernelOf(u[1]))
    /\ Advance(u)
    /\ UNCHANGED <<job, main, loop, index, last, threads, waiting, running, schedulerVars,
                   pools, estimates>>

AtBarrier(e, u) == Runs(e, u) /\ part[u] \in WaitsAfter(KernelOf(u[1]))

(* ABT_barrier_wait suspends the ULT...                                    *)
BarrierWait(e) == \E u \in DOMAIN part :
    /\ AtBarrier(e, u)
    /\ Len(waiting) < NUM_THREADS - 1
    /\ Advance(u)
    /\ waiting' = Append(waiting, u)
    /\ Give(e, NOBODY)
    /\ UNCHANGED <<job, main, loop, index, last, threads, schedulerVars, pools, estimates>>

(* ...until the last one pushes the others to their pools.                 *)
BarrierRelease(e) == \E u \in DOMAIN part :
    /\ AtBarrier(e, u)
    /\ Len(waiting) >= NUM_THREADS - 1
    /\ Advance(u)
    /\ pools' = [k \in XS |->
                    pools[k] \o SelectSeq(waiting, LAMBDA w : PoolId(w[2]) = k)]
    /\ waiting' = <<>>
    /\ UNCHANGED <<job, main, loop, index, last, threads, running, schedulerVars, estimates>>

(* It terminates, and resumes the primary ULT if that one joins it: it     *)
(* jumps to it on its own ES, or pushes it to its pool.                    *)
Terminate(e) == \E u \in DOMAIN part :
    /\ Runs(e, u)
    /\ part[u] = NumParts(u[1]) /\ part[u] \notin WaitsAfter(KernelOf(u[1]))
    /\ Advance(u)
    /\ IF main = "suspended" /\ threads[index] = u
       THEN /\ main' = "join"
            /\ IF last = e THEN Give(e, MAIN) /\ UNCHANGED pools
                           ELSE Give(e, NOBODY) /\ Push(MAIN, 0)
       ELSE Give(e, NOBODY) /\ UNCHANGED <<main, pools>>
    /\ UNCHANGED <<job, loop, index, last, threads, waiting, schedulerVars, estimates>>

-----------------------------------------------------------------------------
(* The scheduler of ES e.  Those for work-stealing have all pools, their   *)
(* own first: pools[(i + k) % num].                                        *)

Idle(e) == running[e] = NOBODY /\ picked[e] = NOBODY

PoolAt(e) == (e + victim[e]) % NUM_XSTREAMS

Try(e, k) == victim' = [victim EXCEPT ![e] = k]

(* u runs on e from now on.                                                *)
Dispatch(e, u) ==
    /\ Give(e, u)
    /\ last' = IF u = MAIN THEN e ELSE last
    /\ Try(e, 0)

Pop(e) ==
    /\ Idle(e) /\ mode # "cost_aware"
    /\ pools[PoolAt(e)] # <<>>
    /\ Dispatch(e, Head(pools[PoolAt(e)]))
    /\ pools' = [pools EXCEPT ![PoolAt(e)] = Tail(@)]
    /\ UNCHANGED <<job, main, loop, index, threads, ultVars, picked, estimates>>

(* The pool is empty: it tries the next one.                               *)
TryNext(e) ==
    /\ Idle(e) /\ mode = "ws"
    /\ pools[PoolAt(e)] = <<>>
    /\ Try(e, (victim[e] + 1) % NUM_XSTREAMS)
    /\ UNCHANGED <<job, main, loop, index, last, threads, ultVars, running, picked, pools,
                   estimates>>

(* The heaviest of the others: among those with an estimate, that is any,  *)
(* for what the estimates say.  The rank of all these schedulers is 0: the *)
(* data of pool v is looked up for the v-th of the pools of this ES.       *)
TryVictim(e) ==
    /\ Idle(e) /\ mode = "cost_aware"
    /\ pools[PoolAt(e)] = <<>>
    /\ IF victim[e] = 0
       THEN \E v \in XS \ {0} : estimates[v] > 0 /\ Try(e, v)
       ELSE Try(e, 0)
    /\ UNCHANGED <<job, main, loop, index, last, threads, ultVars, running, picked, pools,
                   estimates>>

CostAwarePop(e) ==
    /\ Idle(e) /\ mode = "cost_aware"
    /\ pools[PoolAt(e)] # <<>>
    /\ picked' = [picked EXCEPT ![e] = Head(pools[PoolAt(e)])]
    /\ pools' = [pools EXCEPT ![PoolAt(e)] = Tail(@)]
    /\ UNCHANGED <<job, main, loop, index, last, threads, ultVars, running, victim, estimates>>

PopEstimate(e) ==
    /\ picked[e] # NOBODY
    /\ estimates' = [estimates EXCEPT ![victim[e]] = IF @ > 0 THEN @ - 1 ELSE 0]
    /\ picked' = [picked EXCEPT ![e] = NOBODY]
    /\ Dispatch(e, picked[e])
    /\ UNCHANGED <<job, main, loop, index, threads, ultVars, pools>>

-----------------------------------------------------------------------------

XstreamStep(e) ==
    \/ Register(e) \/ Create(e) \/ Join(e) \/ JoinSuspend(e) \/ AfterLoop(e)
    \/ NextPart(e) \/ BarrierWait(e) \/ BarrierRelease(e) \/ Terminate(e)
    \/ Pop(e) \/ TryNext(e) \/ TryVictim(e) \/ CostAwarePop(e) \/ PopEstimate(e)

AppNext == \E e \in XS : XstreamStep(e)

AppDone == main = "done"

-----------------------------------------------------------------------------
(* Properties.                                                             *)

(* A phase is a part of the ULTs of a loop, all of them; main is last.     *)
MainPart == 100

(* The activities: <<n, part, thread>>, those of main in the place of a    *)
(* thread.                                                                 *)
Active ==
    {<<u[1], part[u], u[2]>> : u \in Range(running) \ {MAIN, NOBODY}}
    \cup {<<loop, MainPart, 0>> : e \in {x \in XS : MainAt(x, "after")}}

Unfinished ==
    UNION {{<<u[1], s, u[2]>> : s \in part[u] .. NumParts(u[1])} :
               u \in {v \in DOMAIN part : v[1] <= loop}}

Before(a, b) == a[1] < b[1] \/ (a[1] = b[1] /\ a[2] < b[2])

UseIn(a) == IF a[2] = MainPart THEN Afterwards(KernelOf(a[1]))
                               ELSE Kernel[KernelOf(a[1])][a[2]][a[3]]

(* The program waits somewhere between the phases of a and b.              *)
Separated(a, b) ==
    IF a[1] = b[1]
    THEN \/ b[2] = MainPart /\ Loops[a[1]].joined
         \/ \E s \in WaitsAfter(KernelOf(a[1])) : a[2] <= s /\ s < b[2]
    ELSE \E n \in a[1] .. b[1] - 1 : Loops[n].joined

(* What a ULT, or main, reads or writes is neither written nor, if written,*)
(* read by a ULT of the same phase, nor by one that has yet to do it in an *)
(* earlier phase.                                                          *)
PhasesOrdered ==
    \A b \in Active :
        /\ \A a \in Unfinished : Before(a, b) => ~Conflict(UseIn(a), UseIn(b))
        /\ \A a \in Active :
              a # b /\ ~Before(a, b) /\ ~Before(b, a) => ~Conflict(UseIn(a), UseIn(b))

(* The same, for the phases between which the program waits: the joins and *)
(* the barriers that the code has do what they are for.                    *)
WaitsOrder ==
    \A b \in Active :
        /\ \A a \in Unfinished :
              Before(a, b) /\ Separated(a, b) => ~Conflict(UseIn(a), UseIn(b))
        /\ \A a \in Active :
              a # b /\ ~Before(a, b) /\ ~Before(b, a) => ~Conflict(UseIn(a), UseIn(b))
=============================================================================
