---------------------------- MODULE ForkJoinProofs ----------------------------
(***************************************************************************)
(* What is proved of the components of ForkJoin holds in the composition:  *)
(* its steps are steps of one component, by which the others stutter.      *)
(***************************************************************************)
EXTENDS ForkJoin, TLAPS

BP == INSTANCE JoinProofs WITH TASK <- TASKLET

SP == INSTANCE SharedProofs WITH
        WAITER <- Thread, counter <- es_counter, lock <- es_lock,
        WORKER <- XSTREAM, TASK <- ULT, NONE <- NULL, pool <- unit_pool,
        p_thread <- unit_thread, pc <- reducer, freed <- returned

JP == INSTANCE JoinProofs WITH
        ULT <- UNIT, TASK <- TASKLET,
        pc <- joiner_pc, state <- joiner_state, p_thread <- joiner_thread,
        pool <- joiner_pool, num_blocked <- joiner_blocked

-----------------------------------------------------------------------------
(* The barrier.                                                            *)

LEMMA BarrierStepSame ==
    \A t : B!BarrierStep(t) <=> BP!BarrierStep(t)
<1>. USE DEF B!SpinAcquire, BP!SpinAcquire, B!At, BP!At, B!GoTo, BP!GoTo, B!Running,
            BP!Running, B!OnXstream, BP!OnXstream, B!Range, BP!Range, B!WaitAppend,
            BP!WaitAppend, B!waitlistVars, BP!waitlistVars, B!Broadcast, BP!Broadcast,
            B!barrierVars, BP!barrierVars, B!BroadcastOne, BP!BroadcastOne,
            B!BroadcastDec, BP!BroadcastDec, B!BroadcastEnd, BP!BroadcastEnd,
            B!ResumePush, BP!ResumePush, B!ResumeDecNumBlocked, BP!ResumeDecNumBlocked,
            B!AddThread, BP!AddThread, B!SpinRelease, BP!SpinRelease, B!WaitStep,
            BP!WaitStep, B!SuspendBlock, BP!SuspendBlock, B!SuspendUnlock,
            BP!SuspendUnlock, B!WaitResumed, BP!WaitResumed, B!ExtReady, BP!ExtReady,
            B!ExtFutexWait, BP!ExtFutexWait, B!ExtFutexWake, BP!ExtFutexWake,
            B!ExtRelock, BP!ExtRelock, B!CallbackBlock, BP!CallbackBlock,
            B!SwitchToParent, BP!SwitchToParent, B!Exit, BP!Exit, B!Schedule,
            BP!Schedule
<1>1. \A t : B!BarrierWait(t) <=> BP!BarrierWait(t)
  BY DEF B!BarrierWait, BP!BarrierWait
<1>2. \A t : B!ArriveWait(t) <=> BP!ArriveWait(t)
  BY DEF B!ArriveWait, BP!ArriveWait
<1>3. \A t : B!ArriveLast(t) <=> BP!ArriveLast(t)
  BY DEF B!ArriveLast, BP!ArriveLast
<1>4. \A t : B!WakeWaiters(t) <=> BP!WakeWaiters(t)
  BY DEF B!WakeWaiters, BP!WakeWaiters
<1>5. \A t : B!ResetCounter(t) <=> BP!ResetCounter(t)
  BY DEF B!ResetCounter, BP!ResetCounter
<1>6. \A t : B!LastUnlock(t) <=> BP!LastUnlock(t)
  BY DEF B!LastUnlock, BP!LastUnlock
<1>7. \A t : B!Wait(t) <=> BP!Wait(t)
  BY DEF B!Wait, BP!Wait
<1>8. \A t : B!BarrierFree(t) <=> BP!BarrierFree(t)
  BY DEF B!BarrierFree, BP!BarrierFree
<1>9. \A t : B!ThreadExit(t) <=> BP!ThreadExit(t)
  BY DEF B!ThreadExit, BP!ThreadExit
<1>. QED  BY <1>1, <1>2, <1>3, <1>4, <1>5, <1>6, <1>7, <1>8, <1>9
          DEF B!BarrierStep, BP!BarrierStep

LEMMA BarrierScheduleSame ==
    \A e : B!BarrierSchedule(e) <=> BP!BarrierSchedule(e)
  BY DEF B!BarrierSchedule, BP!BarrierSchedule, B!Schedule, BP!Schedule, B!waitlistVars,
         BP!waitlistVars, B!barrierVars, BP!barrierVars

LEMMA BarrierInitSame == B!BarrierInit <=> BP!BarrierInit
  BY DEF B!BarrierInit, BP!BarrierInit, B!YthreadInit, BP!YthreadInit, B!Cardinality,
         BP!Cardinality, B!Range, BP!Range, B!WaitlistInit, BP!WaitlistInit, B!Thread,
         BP!Thread

LEMMA BarrierBehaviour == Spec => BP!BarrierSpec
<1>1. Init => BP!BarrierInit
  BY BarrierInitSame DEF Init
<1>2. [Next]_all => [BP!BarrierNext]_(BP!allVars)
  <2>. SUFFICES ASSUME Next \/ UNCHANGED all
                PROVE  BP!BarrierNext \/ UNCHANGED BP!allVars
    OBVIOUS
  <2>1. CASE \E t \in Thread : InBarrier(B!BarrierStep(t))
    BY <2>1, BarrierStepSame DEF InBarrier, BP!BarrierNext, BP!Thread, Thread
  <2>2. CASE \E e \in XSTREAM : InBarrier(B!BarrierSchedule(e))
    BY <2>2, BarrierScheduleSame DEF InBarrier, BP!BarrierNext
  <2>3. CASE UNCHANGED barrierVars
    BY <2>3 DEF barrierVars, BP!allVars, BP!ythreadVars, BP!waitlistVars, BP!barrierVars
  <2>. QED
    BY <2>1, <2>2, <2>3 DEF Next, InJoin, InReduction, InApplication, InXstreamBarrier,
                            InUnitMap, Returned, all
<1>. QED  BY <1>1, <1>2, PTL DEF Spec, BP!BarrierSpec

LEMMA BarrierHypotheses == BP!BarrierConstants /\ BP!BarrierFreeUse
  BY BarrierAssumption
  DEF B!BarrierConstants, BP!BarrierConstants, B!BarrierFreeUse, BP!BarrierFreeUse,
      B!Thread, BP!Thread, B!IsFiniteSet, BP!IsFiniteSet, B!Cardinality, BP!Cardinality

LEMMA BarrierThreads ==
    ULT \cap EXT = {} /\ NULL \notin ULT \cup EXT /\ BP!IsFiniteSet(ULT)
  BY ThreadsAssumption DEF IsFiniteSet, BP!IsFiniteSet

(* Whenever the lock of the barrier is free, its counter is the number of  *)
(* waiters on the list.                                                    *)
THEOREM Arrivals == Spec => []ArrivalsCounted
<1>1. BP!BarrierSpec => []BP!ArrivalsCounted
  BY BP!Arrivals, BarrierHypotheses, BarrierThreads
<1>2. BP!ArrivalsCounted => ArrivalsCounted
  BY DEF ArrivalsCounted, B!ArrivalsCounted, BP!ArrivalsCounted, B!BarrierTypeOK, BP!BarrierTypeOK,
         B!Thread, BP!Thread,
         B!YthreadTypeOK, BP!YthreadTypeOK, B!BarrierPoint, BP!BarrierPoint, B!WaitlistTypeOK,
         BP!WaitlistTypeOK, B!State, BP!State, B!WaitPoint, BP!WaitPoint, B!PLockPoint,
         BP!PLockPoint, B!WaitLockPoint, BP!WaitLockPoint
<1>. QED  BY <1>1, <1>2, BarrierBehaviour, PTL

(* The barrier is freed when nobody is about to use it.                    *)
THEOREM Freed == Spec => []FreedBarrierUnused
<1>1. BP!BarrierSpec => []BP!FreedBarrierUnused
  BY BP!Freed, BarrierHypotheses, BarrierThreads
<1>2. BP!FreedBarrierUnused => FreedBarrierUnused
  BY DEF FreedBarrierUnused, B!FreedBarrierUnused, BP!FreedBarrierUnused, B!Thread,
         BP!Thread, B!UsePoint,
         BP!UsePoint, B!BarrierPoint, BP!BarrierPoint, B!WaitPoint, BP!WaitPoint, B!PLockPoint,
         BP!PLockPoint, B!WaitLockPoint, BP!WaitLockPoint
<1>. QED  BY <1>1, <1>2, BarrierBehaviour, PTL

(* The barrier keeps the promises of AbstractBarrier: nobody leaves before *)
(* all of its group have arrived.                                          *)
THEOREM BarrierImplementation == Spec => ImplementsAbstractBarrier
<1>. USE DEF B!Inside, BP!Inside, B!Waiters, BP!Waiters, B!Range, BP!Range, B!Arrived,
         BP!Arrived, B!Thread, BP!Thread, B!WaitPoint, BP!WaitPoint,
         B!Abstract!Cardinality, BP!Abstract!Cardinality
<1>1. BP!BarrierSpec => BP!ImplementsAbstractBarrier
  BY BP!Implementation, BarrierHypotheses, BarrierThreads
<1>2. BP!Abstract!Init => B!Abstract!Init
  BY DEF BP!Abstract!Init, B!Abstract!Init
<1>3. [BP!Abstract!Next]_(BP!Abstract!barrierVars) => [B!Abstract!Next]_(B!Abstract!barrierVars)
  BY DEF B!Abstract!Next, BP!Abstract!Next, B!Abstract!Enter, BP!Abstract!Enter,
         B!Abstract!Leave, BP!Abstract!Leave, B!Abstract!barrierVars,
         BP!Abstract!barrierVars
<1>. QED
  BY <1>1, <1>2, <1>3, BarrierBehaviour, PTL
  DEF ImplementsAbstractBarrier, B!ImplementsAbstractBarrier,
      BP!ImplementsAbstractBarrier, B!Abstract!Spec, BP!Abstract!Spec

-----------------------------------------------------------------------------
(* The barrier of ESs.                                                     *)

LEMMA XstreamBarrierStepSame ==
    \A t : X!XstreamBarrierStep(t) <=> SP!XstreamBarrierStep(t)
<1>. USE DEF X!Move, SP!Move, X!Returns, SP!Returns
<1>1. \A t : X!ArriveEarly(t) <=> SP!ArriveEarly(t)
  BY DEF X!ArriveEarly, SP!ArriveEarly
<1>2. \A t : X!ArriveFinal(t) <=> SP!ArriveFinal(t)
  BY DEF X!ArriveFinal, SP!ArriveFinal
<1>3. \A t : X!StoreTag(t) <=> SP!StoreTag(t)
  BY DEF X!StoreTag, SP!StoreTag
<1>4. \A t : X!ReleaseLock(t) <=> SP!ReleaseLock(t)
  BY DEF X!ReleaseLock, SP!ReleaseLock
<1>5. \A t : X!SpinOver(t) <=> SP!SpinOver(t)
  BY DEF X!SpinOver, SP!SpinOver
<1>. QED  BY <1>1, <1>2, <1>3, <1>4, <1>5
          DEF X!XstreamBarrierStep, SP!XstreamBarrierStep

LEMMA XstreamBarrierInitSame == X!XstreamBarrierInit <=> SP!XstreamBarrierInit
  BY DEF X!XstreamBarrierInit, SP!XstreamBarrierInit

LEMMA XstreamBarrierBehaviour == Spec => SP!XstreamBarrierSpec
<1>1. Init => SP!XstreamBarrierInit
  BY XstreamBarrierInitSame DEF Init
<1>2. [Next]_all => [\E t \in Thread : SP!XstreamBarrierStep(t)]_(SP!xstreamBarrierVars)
  <2>. SUFFICES ASSUME Next \/ UNCHANGED all
                PROVE  \/ \E t \in Thread : SP!XstreamBarrierStep(t)
                       \/ UNCHANGED SP!xstreamBarrierVars
    OBVIOUS
  <2>1. CASE \E t \in Thread : InXstreamBarrier(X!XstreamBarrierStep(t))
    BY <2>1, XstreamBarrierStepSame DEF InXstreamBarrier
  <2>2. CASE UNCHANGED esBarrierVars
    BY <2>2 DEF esBarrierVars, SP!xstreamBarrierVars
  <2>. QED
    BY <2>1, <2>2 DEF Next, InBarrier, InJoin, InReduction, InApplication, InUnitMap,
                      Returned, all
<1>. QED  BY <1>1, <1>2, PTL DEF Spec, SP!XstreamBarrierSpec

LEMMA XstreamBarrierHypotheses == SP!XstreamBarrierConstants
  BY XstreamBarrierAssumption
  DEF X!XstreamBarrierConstants, SP!XstreamBarrierConstants, X!IsFiniteSet,
      SP!IsFiniteSet,
      X!Cardinality, SP!Cardinality

(* So does the barrier of ESs, whose waiters spin on a tag.                *)
THEOREM XstreamBarrierImplementation == Spec => XstreamBarrierImplements
<1>. USE DEF X!Unreleased, SP!Unreleased, X!Spinning, SP!Spinning, X!Released, SP!Released,
         X!Abstract!Cardinality, SP!Abstract!Cardinality
<1>1. SP!XstreamBarrierSpec => SP!XstreamBarrierImplements
  BY SP!BarrierOfStreams, XstreamBarrierHypotheses
<1>2. SP!Abstract!Init => X!Abstract!Init
  BY DEF SP!Abstract!Init, X!Abstract!Init
<1>3. [SP!Abstract!Next]_(SP!Abstract!barrierVars) => [X!Abstract!Next]_(X!Abstract!barrierVars)
  BY DEF X!Abstract!Next, SP!Abstract!Next, X!Abstract!Enter, SP!Abstract!Enter,
         X!Abstract!Leave, SP!Abstract!Leave, X!Abstract!barrierVars,
         SP!Abstract!barrierVars
<1>. QED
  BY <1>1, <1>2, <1>3, XstreamBarrierBehaviour, PTL
  DEF XstreamBarrierImplements, X!XstreamBarrierImplements, SP!XstreamBarrierImplements,
      X!Abstract!Spec, SP!Abstract!Spec

-----------------------------------------------------------------------------
(* Joining.                                                                *)

LEMMA JoinStepSame ==
    \A t : J!JoinStep(t) <=> JP!JoinStep(t)
<1>. USE DEF J!At, JP!At, J!Wants, JP!Wants, J!Yieldable, JP!Yieldable, J!YieldOrCancel,
            JP!YieldOrCancel, J!Running, JP!Running, J!HandleCancel, JP!HandleCancel,
            J!Yield, JP!Yield, J!OnXstream, JP!OnXstream, J!Range, JP!Range, J!GoTo,
            JP!GoTo, J!SwitchToParent, JP!SwitchToParent, J!AddThread, JP!AddThread,
            J!Operand, JP!Operand, J!OperationDone, JP!OperationDone, J!CallbackBlock,
            JP!CallbackBlock, J!joinVars, JP!joinVars, J!JumpsToJoiner,
            JP!JumpsToJoiner, J!ResumePush, JP!ResumePush, J!ResumeDecNumBlocked,
            JP!ResumeDecNumBlocked, J!Exit, JP!Exit, J!Schedule, JP!Schedule
<1>1. \A t : J!SelfYield(t) <=> JP!SelfYield(t)
  BY DEF J!SelfYield, JP!SelfYield
<1>2. \A t : J!Cancel(t) <=> JP!Cancel(t)
  BY DEF J!Cancel, JP!Cancel
<1>3. \A t : J!Revive(t) <=> JP!Revive(t)
  BY DEF J!Revive, JP!Revive
<1>4. \A t : J!JoinCall(t) <=> JP!JoinCall(t)
  BY DEF J!JoinCall, JP!JoinCall
<1>5. \A t : J!JoinRequest(t) <=> JP!JoinRequest(t)
  BY DEF J!JoinRequest, JP!JoinRequest
<1>6. \A t : J!JoinBlock(t) <=> JP!JoinBlock(t)
  BY DEF J!JoinBlock, JP!JoinBlock
<1>7. \A t : J!JoinLink(t) <=> JP!JoinLink(t)
  BY DEF J!JoinLink, JP!JoinLink
<1>8. \A t : J!JoinResumed(t) <=> JP!JoinResumed(t)
  BY DEF J!JoinResumed, JP!JoinResumed
<1>9. \A t : J!JoinYield(t) <=> JP!JoinYield(t)
  BY DEF J!JoinYield, JP!JoinYield
<1>10. \A t : J!JoinPublish(t) <=> JP!JoinPublish(t)
  BY DEF J!JoinPublish, JP!JoinPublish
<1>11. \A t : J!JoinFutex(t) <=> JP!JoinFutex(t)
  BY DEF J!JoinFutex, JP!JoinFutex
<1>12. \A t : J!JoinBusywait(t) <=> JP!JoinBusywait(t)
  BY DEF J!JoinBusywait, JP!JoinBusywait
<1>13. \A t : J!ExitCall(t) <=> JP!ExitCall(t)
  BY DEF J!ExitCall, JP!ExitCall
<1>14. \A t : J!ExitLink(t) <=> JP!ExitLink(t)
  BY DEF J!ExitLink, JP!ExitLink
<1>15. \A t : J!ExitRequest(t) <=> JP!ExitRequest(t)
  BY DEF J!ExitRequest, JP!ExitRequest
<1>16. \A t : J!ExitSpin(t) <=> JP!ExitSpin(t)
  BY DEF J!ExitSpin, JP!ExitSpin
<1>17. \A t : J!ExitResume(t) <=> JP!ExitResume(t)
  BY DEF J!ExitResume, JP!ExitResume
<1>18. \A t : J!ExitDec(t) <=> JP!ExitDec(t)
  BY DEF J!ExitDec, JP!ExitDec
<1>19. \A t : J!ExitJump(t) <=> JP!ExitJump(t)
  BY DEF J!ExitJump, JP!ExitJump
<1>20. \A t : J!Terminate(t) <=> JP!Terminate(t)
  BY DEF J!Terminate, JP!Terminate
<1>. QED  BY <1>1, <1>2, <1>3, <1>4, <1>5, <1>6, <1>7, <1>8, <1>9, <1>10, <1>11, <1>12,
         <1>13, <1>14, <1>15, <1>16, <1>17, <1>18, <1>19, <1>20
          DEF J!JoinStep, JP!JoinStep

LEMMA JoinScheduleSame ==
    \A e : J!JoinSchedule(e) <=> JP!JoinSchedule(e)
  BY DEF J!JoinSchedule, JP!JoinSchedule, J!Schedule, JP!Schedule, J!HandleCancel,
         JP!HandleCancel, J!GoTo, JP!GoTo, J!Yieldable, JP!Yieldable

LEMMA JoinInitSame == J!JoinInit <=> JP!JoinInit
  BY DEF J!JoinInit, JP!JoinInit, J!YthreadInit, JP!YthreadInit, J!Cardinality,
         JP!Cardinality, J!Range, JP!Range, J!Thread, JP!Thread

LEMMA JoinBehaviour == Spec => JP!JoinSpec
<1>1. Init => JP!JoinInit
  BY JoinInitSame DEF Init
<1>2. [Next]_all => [JP!JoinNext]_(JP!vars)
  <2>. SUFFICES ASSUME Next \/ UNCHANGED all
                PROVE  JP!JoinNext \/ UNCHANGED JP!vars
    OBVIOUS
  <2>1. CASE \E t \in Joinable : InJoin(J!JoinStep(t))
    BY <2>1, JoinStepSame DEF InJoin, JP!JoinNext, JP!Thread, Joinable
  <2>2. CASE \E e \in XSTREAM : InJoin(J!JoinSchedule(e))
    BY <2>2, JoinScheduleSame DEF InJoin, JP!JoinNext
  <2>3. CASE UNCHANGED joinVars
    BY <2>3 DEF joinVars, JP!vars, JP!ythreadVars, JP!joinVars
  <2>. QED
    BY <2>1, <2>2, <2>3 DEF Next, InBarrier, InReduction, InApplication, InXstreamBarrier,
                            InUnitMap, Returned, all
<1>. QED  BY <1>1, <1>2, PTL DEF Spec, JP!JoinSpec

LEMMA JoinHypotheses == JP!JoinConstants
  BY JoinAssumption DEF J!JoinConstants, JP!JoinConstants, J!Operation, JP!Operation,
                        J!Thread, JP!Thread

LEMMA JoinThreads ==
    UNIT \cap EXT = {} /\ NULL \notin UNIT \cup EXT /\ JP!IsFiniteSet(UNIT)
  BY ThreadsAssumption DEF IsFiniteSet, JP!IsFiniteSet

(* The ULT a unit resumes when it ends has been suspended for it.          *)
THEOREM Resumes == Spec => []ResumesBlockedJoiner
<1>1. JP!JoinSpec => []JP!ResumesBlockedJoiner
  BY JP!Resumes, JoinHypotheses, JoinThreads
<1>2. JP!ResumesBlockedJoiner => ResumesBlockedJoiner
  BY DEF ResumesBlockedJoiner, J!ResumesBlockedJoiner, JP!ResumesBlockedJoiner,
         J!Yieldable, JP!Yieldable,
         J!OnXstream, JP!OnXstream, J!Range, JP!Range
<1>. QED  BY <1>1, <1>2, JoinBehaviour, PTL

(* A unit that somebody joins knows its joiner when it ends.               *)
THEOREM Remembered == Spec => []JoinerRemembered
<1>1. JP!JoinSpec => []JP!JoinerRemembered
  BY JP!Remembered, JoinHypotheses, JoinThreads
<1>2. JP!JoinerRemembered => JoinerRemembered
  BY DEF JoinerRemembered, J!JoinerRemembered, JP!JoinerRemembered, J!TypeOK, JP!TypeOK,
         J!Thread, JP!Thread,
         J!Operand, JP!Operand, J!YthreadTypeOK, JP!YthreadTypeOK, J!Point, JP!Point,
         J!Operation, JP!Operation, J!State, JP!State
<1>. QED  BY <1>1, <1>2, JoinBehaviour, PTL

(* No ES spins for a joiner that needs that ES to run.                     *)
THEOREM Spins == Spec => []SpinsForRunningJoiner
<1>1. JP!JoinSpec => []JP!SpinsForRunningJoiner
  BY JP!Spins, JoinHypotheses, JoinThreads
<1>2. JP!SpinsForRunningJoiner => SpinsForRunningJoiner
  BY DEF SpinsForRunningJoiner, J!SpinsForRunningJoiner, JP!SpinsForRunningJoiner,
         J!Thread, JP!Thread, J!Operand,
         JP!Operand, J!Running, JP!Running, J!OnXstream, JP!OnXstream, J!Range, JP!Range
<1>. QED  BY <1>1, <1>2, JoinBehaviour, PTL

(* The pool of the joiners counts its blocked ULTs.                        *)
THEOREM Counted == Spec => []BlockedUltsCounted
<1>1. JP!JoinSpec => []JP!BlockedUltsCounted
  BY JP!Counted, JoinHypotheses, JoinThreads
<1>2. JP!BlockedUltsCounted => BlockedUltsCounted
  BY DEF BlockedUltsCounted, J!BlockedUltsCounted, JP!BlockedUltsCounted, J!Cardinality,
         JP!Cardinality
<1>. QED  BY <1>1, <1>2, JoinBehaviour, PTL

-----------------------------------------------------------------------------
(* The units of user-defined pools.                                        *)

LEMMA UnitMapStepSame ==
    \A w : U!UnitMapStep(w) <=> SP!UnitMapStep(w)
<1>. USE DEF U!Take, SP!Take, U!Step, SP!Step, U!Begin, SP!Begin, U!tableVars,
            SP!tableVars, U!threadVars, SP!threadVars, U!localVars, SP!localVars,
            U!Return, SP!Return, U!Max, SP!Max, U!Holding, SP!Holding, U!Mapped,
            SP!Mapped
<1>1. \A w : U!MoveThread(w) <=> SP!MoveThread(w)
  BY DEF U!MoveThread, SP!MoveThread
<1>2. \A w : U!MoveUnit(w) <=> SP!MoveUnit(w)
  BY DEF U!MoveUnit, SP!MoveUnit
<1>3. \A w : U!CreateUnit(w) <=> SP!CreateUnit(w)
  BY DEF U!CreateUnit, SP!CreateUnit
<1>4. \A w : U!CreateUnitFails(w) <=> SP!CreateUnitFails(w)
  BY DEF U!CreateUnitFails, SP!CreateUnitFails
<1>5. \A w : U!FreeNewUnit(w) <=> SP!FreeNewUnit(w)
  BY DEF U!FreeNewUnit, SP!FreeNewUnit
<1>6. \A w : U!FreeUnit(w) <=> SP!FreeUnit(w)
  BY DEF U!FreeUnit, SP!FreeUnit
<1>7. \A w : U!Assign(w) <=> SP!Assign(w)
  BY DEF U!Assign, SP!Assign
<1>8. \A w : U!GetThread(w) <=> SP!GetThread(w)
  BY DEF U!GetThread, SP!GetThread
<1>9. \A w : U!MapReuse(w) <=> SP!MapReuse(w)
  BY DEF U!MapReuse, SP!MapReuse
<1>10. \A w : U!MapThread(w) <=> SP!MapThread(w)
  BY DEF U!MapThread, SP!MapThread
<1>11. \A w : U!MapNew(w) <=> SP!MapNew(w)
  BY DEF U!MapNew, SP!MapNew
<1>12. \A w : U!MapFails(w) <=> SP!MapFails(w)
  BY DEF U!MapFails, SP!MapFails
<1>13. \A w : U!Unmap(w) <=> SP!Unmap(w)
  BY DEF U!Unmap, SP!Unmap
<1>. QED  BY <1>1, <1>2, <1>3, <1>4, <1>5, <1>6, <1>7, <1>8, <1>9, <1>10, <1>11, <1>12,
         <1>13
          DEF U!UnitMapStep, SP!UnitMapStep

LEMMA UnitMapInitSame == U!UnitMapInit <=> SP!UnitMapInit
  BY DEF U!UnitMapInit, SP!UnitMapInit

LEMMA UnitMapBehaviour == Spec => SP!UnitMapSpec
<1>1. Init => SP!UnitMapInit
  BY UnitMapInitSame DEF Init
<1>2. [Next]_all => [\E w \in XSTREAM : SP!UnitMapStep(w)]_(SP!unitMapVars)
  <2>. SUFFICES ASSUME Next \/ UNCHANGED all
                PROVE  \/ \E w \in XSTREAM : SP!UnitMapStep(w)
                       \/ UNCHANGED SP!unitMapVars
    OBVIOUS
  <2>1. CASE \E e \in XSTREAM : InUnitMap(U!UnitMapStep(e))
    BY <2>1, UnitMapStepSame DEF InUnitMap
  <2>2. CASE UNCHANGED unitVars
    BY <2>2 DEF unitVars, SP!unitMapVars, SP!tableVars, SP!threadVars, SP!localVars
  <2>. QED
    BY <2>1, <2>2 DEF Next, InBarrier, InJoin, InReduction, InApplication,
                      InXstreamBarrier,
                      Returned, all
<1>. QED  BY <1>1, <1>2, PTL DEF Spec, SP!UnitMapSpec

LEMMA UnitMapHypotheses == SP!UnitMapConstants
  BY UnitMapAssumption DEF U!UnitMapConstants, SP!UnitMapConstants

(* Whoever looks up the unit of a thread finds that thread, and no unit is *)
(* mapped or kept that is not of a thread.                                 *)
THEOREM Units == Spec => []UnitsMapped
<1>1. SP!UnitMapSpec => []SP!UnitsMapped
  BY SP!Units, UnitMapHypotheses
<1>2. SP!UnitsMapped => UnitsMapped
  BY DEF UnitsMapped, U!UnitsMapped, SP!UnitsMapped, U!Resting, SP!Resting, U!ThreadsOf,
         SP!ThreadsOf, U!Holding, SP!Holding
<1>. QED  BY <1>1, <1>2, UnitMapBehaviour, PTL

-----------------------------------------------------------------------------
(* The tree reduction.                                                     *)

LEMMA ReductionStepSame ==
    /\ R!Id = SP!Id
    /\ \A t : R!ThreadStep(t) <=> SP!ThreadStep(t)
    /\ R!CallerStep <=> SP!CallerStep
<1>. USE DEF R!Id, SP!Id, R!GoTo, SP!GoTo, R!callerVars, SP!callerVars, R!barrierVars,
            SP!barrierVars, R!Elems, SP!Elems, R!elems_per_thread, SP!elems_per_thread,
            R!First, SP!First, R!Count, SP!Count, R!Slice, SP!Slice,
            R!partner_thread_id, SP!partner_thread_id, R!Combines, SP!Combines
<1>1. \A t : R!Publish(t) <=> SP!Publish(t)
  BY DEF R!Publish, SP!Publish
<1>2. \A t : R!BarrierEnter(t) <=> SP!BarrierEnter(t)
  BY DEF R!BarrierEnter, SP!BarrierEnter, R!Barrier!Enter, SP!Barrier!Enter,
         R!Barrier!Cardinality, SP!Barrier!Cardinality
<1>3. \A t : R!BarrierLeave(t) <=> SP!BarrierLeave(t)
  BY DEF R!BarrierLeave, SP!BarrierLeave, R!Barrier!Leave, SP!Barrier!Leave
<1>4. \A t : R!ReadPartner(t) <=> SP!ReadPartner(t)
  BY DEF R!ReadPartner, SP!ReadPartner
<1>5. \A t : R!Combine(t) <=> SP!Combine(t)
  BY DEF R!Combine, SP!Combine
<1>6. \A t : R!SkipLevel(t) <=> SP!SkipLevel(t)
  BY DEF R!SkipLevel, SP!SkipLevel
<1>7. \A t : R!Store(t) <=> SP!Store(t)
  BY DEF R!Store, SP!Store
<1>8. \A t : R!Free(t) <=> SP!Free(t)
  BY DEF R!Free, SP!Free
<1>9. R!CallerStep <=> SP!CallerStep
  BY DEF R!CallerStep, SP!CallerStep, R!Create, SP!Create, R!Join, SP!Join, R!Finish,
         SP!Finish
<1>10. \A t : R!ThreadStep(t) <=> SP!ThreadStep(t)
  BY <1>1, <1>2, <1>3, <1>4, <1>5, <1>6, <1>7, <1>8 DEF R!ThreadStep, SP!ThreadStep
<1>. QED  BY <1>9, <1>10

LEMMA ReductionInitSame == R!Init <=> SP!Init
  BY DEF R!Init, SP!Init, R!Id, SP!Id, R!Barrier!Init, SP!Barrier!Init

LEMMA ReductionBehaviour == Spec => SP!Spec
<1>1. Init => SP!Init
  BY ReductionInitSame DEF Init
<1>2. [Next]_all => [SP!Next]_(SP!vars)
  <2>. SUFFICES ASSUME Next \/ UNCHANGED all
                PROVE  SP!Next \/ UNCHANGED SP!vars
    OBVIOUS
  <2>1. CASE \E t \in R!Id : InReduction(R!ThreadStep(t))
    BY <2>1, ReductionStepSame DEF InReduction, SP!Next
  <2>2. CASE InReduction(R!CallerStep)
    BY <2>2, ReductionStepSame DEF InReduction, SP!Next
  <2>3. CASE UNCHANGED reductionVars
    BY <2>3 DEF reductionVars, SP!vars, SP!callerVars, SP!barrierVars
  <2>. QED
    BY <2>1, <2>2, <2>3 DEF Next, InBarrier, InJoin, InApplication, InXstreamBarrier,
                            InUnitMap, Returned, all
<1>. QED  BY <1>1, <1>2, PTL DEF Spec, SP!Spec

LEMMA ReductionHypotheses == SP!ReductionConstants
  BY ReductionAssumption DEF R!ReductionConstants, SP!ReductionConstants

(* No combination of the reduction reads or writes a buffer that another   *)
(* thread works on.                                                        *)
THEOREM Undisturbed == Spec => []CombinesUndisturbed
<1>1. SP!Spec => []SP!CombinesUndisturbed
  BY SP!Undisturbed, ReductionHypotheses
<1>2. SP!CombinesUndisturbed => CombinesUndisturbed
  BY DEF CombinesUndisturbed, R!CombinesUndisturbed, SP!CombinesUndisturbed, R!Id, SP!Id,
         R!partner_thread_id, SP!partner_thread_id
<1>. QED  BY <1>1, <1>2, ReductionBehaviour, PTL

(* From level to level of the reduction, threads hold the slices they      *)
(* should.                                                                 *)
THEOREM Partial == Spec => []PartialResults
<1>1. SP!Spec => []SP!PartialResults
  BY SP!Partial, ReductionHypotheses
<1>2. SP!PartialResults => PartialResults
  BY DEF PartialResults, R!PartialResults, SP!PartialResults, R!TypeOK, SP!TypeOK, R!Id,
         SP!Id, R!First, SP!First, R!elems_per_thread, SP!elems_per_thread, R!Elems,
         SP!Elems
<1>. QED  BY <1>1, <1>2, ReductionBehaviour, PTL

(* reduce_common returns the whole array in order, with nothing allocated. *)
THEOREM Complete == Spec => []ResultComplete
<1>1. SP!Spec => []SP!ResultComplete
  BY SP!Complete, ReductionHypotheses
<1>2. SP!ResultComplete => ResultComplete
  BY DEF ResultComplete, R!ResultComplete, SP!ResultComplete, R!Elems, SP!Elems
<1>. QED  BY <1>1, <1>2, ReductionBehaviour, PTL
===============================================================================
