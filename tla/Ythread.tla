------------------------------- MODULE Ythread -------------------------------
(***************************************************************************)
(* User-level threads (ULTs) multiplexed on execution streams (ESs), and   *)
(* external threads that are not.  Every execution stream runs a scheduler *)
(* on the one pool the ULTs are associated with.  A ULT that suspends      *)
(* leaves the rest of the suspension to a callback, which its ES executes  *)
(* on the context of the scheduler after the ULT's own context was saved:  *)
(* until that callback is over the ES is still occupied by the ULT.        *)
(*                                                                         *)
(* The module holds the state and the operations that the synchronisation  *)
(* objects (waiting lists, mutex, barrier, join...) are built from; it has *)
(* no Next of its own.  No ULT has a cancellation or a migration request   *)
(* here, so ABTI_thread_handle_request returns NONE.                       *)
(***************************************************************************)
EXTENDS Integers, Sequences, FiniteSets, Functions

CONSTANTS
    ULT,        \* yieldable threads
    EXT,        \* external threads: pthreads that run no ULT scheduler
    XSTREAM,    \* execution streams
    NULL        \* no thread

ASSUME ThreadAssumption == /\ ULT \cap EXT = {}
                            /\ NULL \notin ULT \cup EXT
                            /\ IsFiniteSet(ULT)

Thread == ULT \cup EXT

VARIABLES
    pc,          \* the point of its program each thread is at
    state,       \* ABTI_thread.state (of the dummy ABTI_thread for EXT)
    p_thread,    \* ABTI_xstream.p_thread: the ULT the ES runs; NULL: scheduler
    pool,        \* units of the pool, oldest first
    num_blocked  \* ABTI_pool.num_blocked

ythreadVars == <<pc, state, p_thread, pool, num_blocked>>

State == {"READY", "RUNNING", "BLOCKED", "TERMINATED"}

(* The ULTs that occupy an ES, their suspension callbacks included.        *)
OnXstream == Range(p_thread) \ {NULL}

-----------------------------------------------------------------------------

(* t executes, and is at point l.                                          *)
Running(t) == t \in EXT \cup OnXstream

At(t, l) == Running(t) /\ pc[t] = l

GoTo(t, l) == pc' = [pc EXCEPT ![t] = l]

(* The ES of ULT t goes back to its scheduler.                             *)
SwitchToParent(t) ==
    p_thread' = [e \in XSTREAM |-> IF p_thread[e] = t THEN NULL
                                                      ELSE p_thread[e]]

(* ABTI_pool_add_thread: the state first, then the push.                   *)
AddThread(t) ==
    /\ state' = [state EXCEPT ![t] = "READY"]
    /\ pool' = Append(pool, t)

(* The scheduler of e pops a unit and runs it (ABTI_ythread_schedule).     *)
Schedule(e) ==
    /\ p_thread[e] = NULL
    /\ pool # <<>>
    /\ p_thread' = [p_thread EXCEPT ![e] = Head(pool)]
    /\ pool' = Tail(pool)
    /\ state' = [state EXCEPT ![Head(pool)] = "RUNNING"]
    /\ UNCHANGED <<pc, num_blocked>>

(* ULT t yields: back to the pool, the ES to its scheduler.                *)
Yield(t, next) ==
    /\ t \in ULT
    /\ GoTo(t, next)
    /\ SwitchToParent(t)
    /\ AddThread(t)
    /\ UNCHANGED num_blocked

(* Mutant of CallbackBlock: the blocked ULT is not counted.                *)
CallbackBlockUncounted(t, next) ==
    /\ GoTo(t, next)
    /\ state' = [state EXCEPT ![t] = "BLOCKED"]
    /\ UNCHANGED <<p_thread, pool, num_blocked>>

(* The first part of a suspension callback: the pool counts a blocked ULT, *)
(* then the state of the ULT becomes BLOCKED.                              *)
CallbackBlock(t, next) ==
    /\ GoTo(t, next)
    /\ num_blocked' = num_blocked + 1
    /\ state' = [state EXCEPT ![t] = "BLOCKED"]
    /\ UNCHANGED <<p_thread, pool>>

(* ABTI_ythread_resume_and_push(u) by t, up to the push of u...            *)
ResumePush(t, u, next) ==
    /\ GoTo(t, next)
    /\ AddThread(u)
    /\ UNCHANGED <<p_thread, num_blocked>>

(* ...and the rest of it: the pool counts one blocked ULT less.            *)
ResumeDecNumBlocked(t, next) ==
    /\ GoTo(t, next)
    /\ num_blocked' = num_blocked - 1
    /\ UNCHANGED <<state, p_thread, pool>>

(* t returns from its function; callback_exit terminates a ULT.            *)
Exit(t, next) ==
    /\ GoTo(t, next)
    /\ state' = [state EXCEPT ![t] = "TERMINATED"]
    /\ SwitchToParent(t)
    /\ UNCHANGED <<pool, num_blocked>>

-----------------------------------------------------------------------------

(* The types of the variables, for threads whose points are Points.        *)
YthreadTypeOK(Points) ==
    /\ pc \in [Thread -> Points]
    /\ state \in [Thread -> State]
    /\ p_thread \in [XSTREAM -> ULT \cup {NULL}]
    /\ pool \in Seq(ULT)
    /\ num_blocked \in Int

(* All ULTs wait in the pool, all ESs are in their schedulers.             *)
YthreadInit(start) ==
    /\ pc = [t \in Thread |-> start]
    /\ state = [t \in Thread |-> IF t \in ULT THEN "READY" ELSE "RUNNING"]
    /\ p_thread = [e \in XSTREAM |-> NULL]
    /\ pool \in {s \in [1..Cardinality(ULT) -> ULT] :
                    Range(s) = ULT}
    /\ num_blocked = 0
=============================================================================
