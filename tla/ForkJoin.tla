------------------------------- MODULE ForkJoin ------------------------------
(***************************************************************************)
(* Threads that wait for other threads: at a barrier, of ULTs or of ESs;   *)
(* for the end of a unit; in a tree reduction, which relies on what        *)
(* AbstractBarrier promises; and between the loops of the applications.    *)
(* And threads that are created, moved between pools and freed by others.  *)
(* Each behaviour is about one of them.                                    *)
(***************************************************************************)
EXTENDS Integers, Sequences, FiniteSets, SequencesExt

CONSTANTS
    (* The threads at the barriers, and how often they wait. *)
    ULT, EXT, XSTREAM, NULL, NUM_WAITERS, ROUND, FREER, WAITS, TAGS,
    (* The units that are joined, tasklets among them, and what they do. *)
    UNIT, TASKLET, PROGRAMS,
    (* The reduction. *)
    NUM_THREADS, NUM_ELEMS,
    (* The applications. *)
    APP_THREADS, NUM_XSTREAMS, NA, ROWS, NOBODY, JOBS,
    (* The pools, the units of the user-defined ones, and the moves. *)
    USERPOOL, BUILTIN, UNITID, Hash, MOVES

Thread == ULT \cup EXT

Joinable == UNIT \cup EXT

ASSUME ThreadsAssumption ==
    /\ ULT \cap EXT = {} /\ NULL \notin ULT \cup EXT /\ IsFiniteSet(ULT)
    /\ UNIT \cap EXT = {} /\ NULL \notin UNIT \cup EXT /\ IsFiniteSet(UNIT)

VARIABLES
    scenario,  \* what this behaviour is about
    (* of Barrier *)
    pc, state, p_thread, pool, num_blocked, p_lock, waitlist, futex, counter, freed,
    todo,
    (* of Join *)
    joiner_pc, joiner_state, joiner_thread, joiner_pool, joiner_blocked, request,
    p_link, p_last_xstream, joiner_futex, cancelled, program,
    (* of TreeReduction *)
    reducer, step, operand, thread_results, live, result, created, joined,
    returned, inside, released,
    (* of Applications *)
    job, main, loop, index, last, threads, part, waiting, running, picked, victim,
    pools, estimates,
    (* of XstreamBarrier *)
    es_counter, tag, es_lock, cur_tag, at, waits_left,
    (* of UnitMap *)
    list, unit_lock, unit, unit_pool, units, worker_at, taken, old_unit, unit_thread,
    target, new_unit, p_cur, moves_left

B == INSTANCE Barrier

J == INSTANCE Join WITH
        ULT <- UNIT, TASK <- TASKLET,
        pc <- joiner_pc, state <- joiner_state, p_thread <- joiner_thread,
        pool <- joiner_pool, num_blocked <- joiner_blocked

R == INSTANCE TreeReduction WITH pc <- reducer, freed <- returned

A == INSTANCE Applications WITH NUM_THREADS <- APP_THREADS

X == INSTANCE XstreamBarrier WITH
        WAITER <- Thread, counter <- es_counter, lock <- es_lock

U == INSTANCE UnitMap WITH
        WORKER <- XSTREAM, TASK <- ULT, NONE <- NULL, pool <- unit_pool,
        p_thread <- unit_thread

ASSUME BarrierAssumption == B!BarrierConstants /\ B!BarrierFreeUse
ASSUME JoinAssumption == J!JoinConstants
ASSUME ReductionAssumption == R!ReductionConstants
ASSUME ApplicationAssumption == A!ApplicationConstants
ASSUME XstreamBarrierAssumption == X!XstreamBarrierConstants
ASSUME UnitMapAssumption == U!UnitMapConstants

barrierVars == <<pc, state, p_thread, pool, num_blocked, p_lock, waitlist, futex,
                 counter, freed, todo>>

joinVars == <<joiner_pc, joiner_state, joiner_thread, joiner_pool, joiner_blocked,
              request, p_link, p_last_xstream, joiner_futex, cancelled, program>>

reductionVars == <<reducer, step, operand, thread_results, live, result, created,
                   joined, returned, inside, released>>

applicationVars == <<job, main, loop, index, last, threads, part, waiting, running,
                     picked, victim, pools, estimates>>

esBarrierVars == <<es_counter, tag, es_lock, cur_tag, at, waits_left>>

unitVars == <<list, unit_lock, unit, unit_pool, units, worker_at, taken, old_unit,
              unit_thread, target, new_unit, p_cur, moves_left>>

all == <<scenario, barrierVars, joinVars, reductionVars, applicationVars,
         esBarrierVars, unitVars>>

-----------------------------------------------------------------------------

(* What the behaviour is not about has one initial state.                  *)
Init ==
    /\ scenario \in {"barrier", "join", "reduction", "application", "xstream_barrier",
                    "units"}
    /\ B!BarrierInit /\ J!JoinInit /\ R!Init /\ A!AppInit /\ X!XstreamBarrierInit
    /\ U!UnitMapInit
    /\ scenario = "barrier" \/ pool = SetToSeq(ULT)
    /\ scenario = "join" \/ /\ joiner_pool = SetToSeq(UNIT)
                            /\ program = CHOOSE p \in PROGRAMS : TRUE
    /\ scenario = "application" \/ job = CHOOSE j \in JOBS : TRUE

InBarrier(Step) ==
    scenario = "barrier" /\ Step
        /\ UNCHANGED <<scenario, joinVars, reductionVars, applicationVars, esBarrierVars,
                       unitVars>>

InJoin(Step) ==
    scenario = "join" /\ Step
        /\ UNCHANGED <<scenario, barrierVars, reductionVars, applicationVars, esBarrierVars,
                       unitVars>>

InReduction(Step) ==
    scenario = "reduction" /\ Step
        /\ UNCHANGED <<scenario, barrierVars, joinVars, applicationVars, esBarrierVars,
                       unitVars>>

InApplication(Step) ==
    scenario = "application" /\ Step
        /\ UNCHANGED <<scenario, barrierVars, joinVars, reductionVars, esBarrierVars,
                       unitVars>>

InXstreamBarrier(Step) ==
    scenario = "xstream_barrier" /\ Step
        /\ UNCHANGED <<scenario, barrierVars, joinVars, reductionVars, applicationVars,
                       unitVars>>

InUnitMap(Step) ==
    scenario = "units" /\ Step
        /\ UNCHANGED <<scenario, barrierVars, joinVars, reductionVars, applicationVars,
                       esBarrierVars>>

Finished ==
    CASE scenario = "barrier" -> \A t \in Thread : pc[t] = "done"
      [] scenario = "join" -> \A t \in Joinable : joiner_pc[t] = "done"
      [] scenario = "reduction" -> returned
      [] scenario = "application" -> A!AppDone
      [] scenario = "xstream_barrier" -> X!XstreamBarrierDone
      [] scenario = "units" -> U!UnitMapDone

Returned == Finished /\ UNCHANGED all

Next ==
    \/ \E t \in Thread : InBarrier(B!BarrierStep(t))
    \/ \E e \in XSTREAM : InBarrier(B!BarrierSchedule(e))
    \/ \E t \in Joinable : InJoin(J!JoinStep(t))
    \/ \E e \in XSTREAM : InJoin(J!JoinSchedule(e))
    \/ \E t \in R!Id : InReduction(R!ThreadStep(t))
    \/ InReduction(R!CallerStep)
    \/ \E e \in A!XS : InApplication(A!XstreamStep(e))
    \/ \E t \in Thread : InXstreamBarrier(X!XstreamBarrierStep(t))
    \/ \E e \in XSTREAM : InUnitMap(U!UnitMapStep(e))
    \/ Returned

(* Every processor goes on executing the code it is in, every scheduler    *)
(* that finds a unit pops it, and created ULTs are scheduled.              *)
Fairness ==
    /\ \A t \in Thread : WF_all(InBarrier(B!BarrierStep(t)))
    /\ \A e \in XSTREAM : WF_all(InBarrier(B!BarrierSchedule(e)))
    /\ \A t \in Joinable : WF_all(InJoin(J!JoinStep(t)))
    /\ \A e \in XSTREAM : WF_all(InJoin(J!JoinSchedule(e)))
    /\ WF_all(InReduction(R!CallerStep))
    /\ \A t \in R!Id : WF_all(InReduction(R!ThreadStep(t)))
    /\ \A e \in A!XS : WF_all(InApplication(A!XstreamStep(e)))
    /\ \A t \in Thread : WF_all(InXstreamBarrier(X!XstreamBarrierStep(t)))
    /\ \A e \in XSTREAM : WF_all(InUnitMap(U!UnitMapStep(e)))

Spec == Init /\ [][Next]_all /\ Fairness

(* Whenever the lock of the barrier is free, its counter is the number of  *)
(* waiters on the list.                                                    *)
ArrivalsCounted == B!ArrivalsCounted

(* The barrier is freed when nobody is about to use it.                    *)
FreedBarrierUnused == B!FreedBarrierUnused

(* The barrier keeps the promises of AbstractBarrier: nobody leaves before *)
(* all of its group have arrived.                                          *)
ImplementsAbstractBarrier == B!ImplementsAbstractBarrier

(* So does the barrier of ESs, whose waiters spin on a tag.                *)
XstreamBarrierImplements == X!XstreamBarrierImplements

(* The ULT a unit resumes when it ends has been suspended for it.          *)
ResumesBlockedJoiner == J!ResumesBlockedJoiner

(* A unit that somebody joins knows its joiner when it ends.               *)
JoinerRemembered == J!JoinerRemembered

(* No ES spins for a joiner that needs that ES to run.                     *)
SpinsForRunningJoiner == J!SpinsForRunningJoiner

(* The pool of the joiners counts its blocked ULTs.                        *)
BlockedUltsCounted == J!BlockedUltsCounted

(* No combination of the reduction reads or writes a buffer that another   *)
(* thread works on.                                                        *)
CombinesUndisturbed == R!CombinesUndisturbed

(* From level to level of the reduction, threads hold the slices they      *)
(* should.                                                                 *)
PartialResults == R!PartialResults

(* reduce_common returns the whole array in order, with nothing allocated. *)
ResultComplete == R!ResultComplete

(* Between the phases of the applications where their code waits, nothing  *)
(* is read or written out of order.                                        *)
WaitsOrder == A!WaitsOrder

(* Whoever looks up the unit of a thread finds that thread, and no unit is *)
(* mapped or kept that is not of a thread.                                 *)
UnitsMapped == U!UnitsMapped

(* Every wait on the barrier returns, and so do ABT_thread_join, also of   *)
(* units that are cancelled or were revived, reduce_common, the            *)
(* applications, and the moves of threads from pool to pool.               *)
EverybodyFinishes == <>Finished
=============================================================================
