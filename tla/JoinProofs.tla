------------------------------ MODULE JoinProofs ------------------------------
(***************************************************************************)
(* Proofs about Join, for any number of units, ESs and external threads,   *)
(* whatever they join, cancel and revive; and, in the second part, about   *)
(* Barrier, for any number of ULTs, ESs, external threads and waits.       *)
(***************************************************************************)
EXTENDS Join, Barrier, WaitlistProofs

USE DEF Thread, State, YthreadTypeOK, ythreadVars, joinVars

(* The points of a joiner before it publishes p_link; and the ones of a    *)
(* ULT that may have resumed its joiner, or that has none.                 *)
BlockPoint == {"join_block", "join_link", "join_publish"}
PastPoint == {"exit_dec", "terminate", "done"}

JoinPoint == BlockPoint \cup {"join_request", "join_resumed", "join_yield",
                              "join_futex", "join_busywait"}

YieldPoint == {"join_block", "join_link", "join_resumed", "join_yield",
               "exit_link", "exit_request", "exit_spin", "exit_resume",
               "exit_dec", "exit_jump"}

(* Where a thread can be, as a ULT or as another thread, and that of a     *)
(* ULT or of another unit it joins.                                        *)
ProgOK(t) ==
    /\ pc[t] \in JoinPoint => Wants(t, "join")
    /\ pc[t] \in YieldPoint => Yieldable(t)
    /\ pc[t] \in {"join_publish", "join_futex", "join_busywait"} => ~Yieldable(t)
    /\ pc[t] \in BlockPoint \cup {"join_request", "join_resumed", "join_futex"}
         => Yieldable(Operand(t))

ProgInv == \A t \in Thread : ProgOK(t)

(* A unit is in the pool or on an ES, or has TERMINATED, or is a joiner    *)
(* that is BLOCKED.                                                        *)
PlaceInv ==
    /\ IsInjective(pool)
    /\ \A d, e \in XSTREAM : p_thread[d] = p_thread[e] /\ p_thread[d] # NULL => d = e
    /\ \A u \in Range(pool) : state[u] = "READY" /\ u \notin OnXstream
    /\ \A u \in OnXstream : state[u] = "BLOCKED" <=> pc[u] = "join_link"
    /\ \A u \in OnXstream : pc[u] # "done"
    /\ \A u \in ULT \ (Range(pool) \cup OnXstream) :
          state[u] = "TERMINATED" \/ (state[u] = "BLOCKED" /\ pc[u] = "join_resumed")
    /\ \A t \in Thread : state[t] = "TERMINATED" <=> pc[t] = "done"
    /\ \A u \in ULT \ OnXstream : pc[u] \in {"idle", "join_yield", "join_resumed", "done"}

(* REQ_JOIN and p_link of a ULT: one joiner at most is about to publish    *)
(* the link, and from REQ_JOIN on there is that joiner, or the link, or a  *)
(* ULT that ends without a joiner.  A joiner whose link was published is   *)
(* blocked until the ULT has resumed it.                                   *)
BlockerOK(t) ==
    pc[t] \in BlockPoint =>
        /\ "JOIN" \in request[Operand(t)]
        /\ p_link[Operand(t)] = NULL
        /\ pc[Operand(t)] \notin PastPoint \cup {"exit_resume", "exit_jump"}

BlockerAlone(t, v) ==
    pc[t] \in BlockPoint /\ pc[v] \in BlockPoint /\ Operand(t) = Operand(v) => t = v

RequestOK(u) ==
    Yieldable(u) =>
        /\ pc[u] \in {"exit_spin", "exit_resume", "exit_jump"} \cup PastPoint
             => "JOIN" \in request[u]
        /\ p_link[u] # NULL => "JOIN" \in request[u]

JoinerComes(u) ==
    Yieldable(u) /\ "JOIN" \in request[u] /\ p_link[u] = NULL /\ pc[u] \notin PastPoint
        => \E t \in Thread : pc[t] \in BlockPoint /\ Operand(t) = u

LinkOK(u) ==
    /\ pc[u] \in {"exit_resume", "exit_dec", "exit_jump"} => p_link[u] # NULL
    /\ pc[u] = "exit_jump" => Yieldable(p_link[u])

JoinerWaits(u) ==
    p_link[u] # NULL /\ pc[u] \notin PastPoint =>
        /\ Operand(p_link[u]) = u
        /\ Yieldable(p_link[u]) => pc[p_link[u]] = "join_resumed" /\ state[p_link[u]] = "BLOCKED"
        /\ ~Yieldable(p_link[u]) => pc[p_link[u]] = "join_futex" /\ ~joiner_futex[p_link[u]]

LinkInv ==
    /\ \A t \in Thread : BlockerOK(t)
    /\ \A t, v \in Thread : BlockerAlone(t, v)
    /\ \A u \in ULT : RequestOK(u) /\ JoinerComes(u) /\ LinkOK(u) /\ JoinerWaits(u)

USE DEF BlockPoint, PastPoint, JoinPoint, YieldPoint, ProgOK,
        BlockerOK, BlockerAlone, RequestOK, JoinerComes, LinkOK, JoinerWaits

-----------------------------------------------------------------------------
(* Types.                                                                  *)

(* A thread that wants to join, cancel or revive names a unit.             *)
LEMMA OperandType ==
    ASSUME TypeOK, NEW t \in Thread, NEW op \in {"join", "cancel", "revive"}, Wants(t, op)
    PROVE  Operand(t) \in ULT
<1>1. Head(program[t]) \in Operation
  BY DEF TypeOK, Wants
<1>. QED  BY <1>1 DEF Operation, Wants, Operand

(* The end of an operation.                                                *)
LEMMA DoneTypes ==
    ASSUME TypeOK, NEW t \in Thread, program[t] # <<>>
    PROVE  [program EXCEPT ![t] = Tail(@)] \in [Thread -> Seq(Operation)]
<1>1. Tail(program[t]) \in Seq(Operation)
  BY TailRange DEF TypeOK
<1>. QED  BY <1>1 DEF TypeOK

LEMMA InitTypeOK ==
    ASSUME JoinConstants, JoinInit
    PROVE  TypeOK
<1>. USE DEF JoinInit, JoinConstants, YthreadInit, Point
<1>1. YthreadTypeOK(Point)
  BY YthreadInitTypes
<1>5. request \in [ULT -> SUBSET {"JOIN", "CANCEL"}]
  OBVIOUS
<1>6. p_link \in [ULT -> Thread \cup {NULL}] /\ p_last_xstream \in [ULT -> XSTREAM \cup {NULL}]
  OBVIOUS
<1>7. joiner_futex \in [Thread -> BOOLEAN] /\ cancelled \in [ULT -> BOOLEAN]
  OBVIOUS
<1>8. program \in [Thread -> Seq(Operation)]
  OBVIOUS
<1>. QED  BY <1>1, <1>5, <1>6, <1>7, <1>8 DEF TypeOK

(* A yield, which may turn out to be the end of the ULT.                   *)
LEMMA YieldTypes ==
    ASSUME TypeOK, NEW t \in ULT, NEW next \in Point, YieldOrCancel(t, next)
    PROVE  YthreadTypeOK(Point)' /\ cancelled' \in [ULT -> BOOLEAN]
<1>. USE DEF TypeOK, Point, GoTo
<1>1. CASE Yield(t, next) /\ UNCHANGED cancelled
  <2>1. pool' \in Seq(ULT)
    BY <1>1, AppendRange DEF Yield, AddThread
  <2>2. p_thread' \in [XSTREAM -> ULT \cup {NULL}]
    BY <1>1 DEF Yield, SwitchToParent
  <2>. QED  BY <1>1, <2>1, <2>2 DEF Yield, AddThread
<1>2. CASE HandleCancel(t) /\ UNCHANGED <<state, p_thread, pool, num_blocked>>
  BY <1>2 DEF HandleCancel
<1>. QED  BY <1>1, <1>2 DEF YieldOrCancel

(* The variables keep their types.                                         *)
LEMMA StepTypeOK ==
    ASSUME JoinConstants, TypeOK, ProgInv, LinkInv, [JoinNext]_vars
    PROVE  TypeOK'
<1>. USE DEF TypeOK, Point, GoTo, At, JoinConstants
<1>1. ASSUME NEW t \in Thread, SelfYield(t) PROVE TypeOK'
  <2>1. YthreadTypeOK(Point)' /\ cancelled' \in [ULT -> BOOLEAN]
    BY <1>1, YieldTypes DEF SelfYield, Yieldable
  <2>2. program' \in [Thread -> Seq(Operation)]
    BY <1>1, DoneTypes DEF SelfYield, Wants
  <2>. QED  BY <1>1, <2>1, <2>2 DEF SelfYield
<1>2. ASSUME NEW t \in Thread, Cancel(t) PROVE TypeOK'
  <2>1. program' \in [Thread -> Seq(Operation)]
    BY <1>2, DoneTypes DEF Cancel, OperationDone, Wants
  <2>2. request' \in [ULT -> SUBSET {"JOIN", "CANCEL"}]
    BY <1>2 DEF Cancel
  <2>. QED  BY <1>2, <2>1, <2>2 DEF Cancel, OperationDone
<1>3. ASSUME NEW t \in Thread, Revive(t) PROVE TypeOK'
  <2>. DEFINE u == Operand(t)
  <2>1. u \in ULT
    BY <1>3, OperandType DEF Revive
  <2>2. program' \in [Thread -> Seq(Operation)]
    <3>1. Tail(program[t]) \in Seq(Operation) /\ <<>> \in Seq(Operation)
      BY <1>3, TailRange DEF Revive, Wants
    <3>2. program' = [program EXCEPT ![u] = <<>>, ![t] = Tail(@)]
      BY <1>3 DEF Revive
    <3>3. ASSUME NEW v \in Thread PROVE program'[v] \in Seq(Operation)
      BY <3>1, <3>2
    <3>. QED  BY <3>2, <3>3
  <2>3. pool' \in Seq(ULT)
    BY <1>3, <2>1, AppendRange DEF Revive, AddThread
  <2>. QED  BY <1>3, <2>1, <2>2, <2>3 DEF Revive, AddThread
<1>4. ASSUME NEW t \in Thread, JoinCall(t) PROVE TypeOK'
  <2>1. CASE OperationDone(t)
    <3>1. program' \in [Thread -> Seq(Operation)]
      BY <1>4, <2>1, DoneTypes DEF JoinCall, OperationDone, Wants
    <3>. QED  BY <1>4, <2>1, <3>1 DEF JoinCall, OperationDone
  <2>2. CASE ~OperationDone(t)
    BY <1>4, <2>2 DEF JoinCall
  <2>. QED  BY <2>1, <2>2
<1>5. ASSUME NEW t \in Thread, JoinRequest(t) PROVE TypeOK'
  BY <1>5 DEF JoinRequest
<1>6. ASSUME NEW t \in Thread, JoinBlock(t) PROVE TypeOK'
  BY <1>6 DEF JoinBlock, CallbackBlock
<1>7. ASSUME NEW t \in Thread, JoinLink(t) PROVE TypeOK'
  BY <1>7 DEF JoinLink, SwitchToParent
<1>8. ASSUME NEW t \in Thread, JoinResumed(t) PROVE TypeOK'
  BY <1>8 DEF JoinResumed
<1>9. ASSUME NEW t \in Thread, JoinYield(t) PROVE TypeOK'
  <2>1. CASE OperationDone(t) /\ UNCHANGED <<state, p_thread, pool, num_blocked, cancelled>>
    <3>1. program' \in [Thread -> Seq(Operation)]
      BY <1>9, <2>1, DoneTypes DEF OperationDone, JoinYield, ProgInv, JoinPoint, Wants
    <3>. QED  BY <1>9, <2>1, <3>1 DEF JoinYield, OperationDone
  <2>2. CASE YieldOrCancel(t, "join_yield") /\ UNCHANGED program
    <3>1. t \in ULT
      BY <1>9 DEF JoinYield, ProgInv, YieldPoint, Yieldable
    <3>2. YthreadTypeOK(Point)' /\ cancelled' \in [ULT -> BOOLEAN]
      BY <2>2, <3>1, YieldTypes
    <3>. QED  BY <1>9, <2>2, <3>2 DEF JoinYield
  <2>. QED  BY <1>9, <2>1, <2>2 DEF JoinYield
<1>10. ASSUME NEW t \in Thread, JoinPublish(t) PROVE TypeOK'
  BY <1>10 DEF JoinPublish
<1>11. ASSUME NEW t \in Thread, JoinFutex(t) PROVE TypeOK'
  BY <1>11 DEF JoinFutex
<1>12. ASSUME NEW t \in Thread, JoinBusywait(t) PROVE TypeOK'
  BY <1>12, DoneTypes DEF JoinBusywait, OperationDone, ProgInv, JoinPoint, Wants
<1>13. ASSUME NEW t \in Thread, ExitCall(t) PROVE TypeOK'
  BY <1>13 DEF ExitCall
<1>14. ASSUME NEW t \in Thread, ExitLink(t) PROVE TypeOK'
  BY <1>14 DEF ExitLink
<1>15. ASSUME NEW t \in Thread, ExitRequest(t) PROVE TypeOK'
  BY <1>15 DEF ExitRequest
<1>16. ASSUME NEW t \in Thread, ExitSpin(t) PROVE TypeOK'
  BY <1>16 DEF ExitSpin
<1>17. ASSUME NEW t \in Thread, ExitResume(t) PROVE TypeOK'
  <2>1. CASE Yieldable(p_link[t]) /\ ResumePush(t, p_link[t], "exit_dec")
    <3>1. pool' \in Seq(ULT)
      BY <2>1, AppendRange DEF Yieldable, ResumePush, AddThread
    <3>. QED  BY <1>17, <2>1, <3>1 DEF ExitResume, Yieldable, ResumePush, AddThread
  <2>2. CASE GoTo(t, "terminate") /\ UNCHANGED <<state, p_thread, pool, num_blocked>>
    BY <1>17, <2>2 DEF ExitResume
  <2>3. CASE ResumeDecNumBlocked(t, "exit_jump") /\ UNCHANGED joiner_futex
    BY <1>17, <2>3 DEF ExitResume, ResumeDecNumBlocked
  <2>. QED  BY <1>17, <2>1, <2>2, <2>3 DEF ExitResume
<1>18. ASSUME NEW t \in Thread, ExitDec(t) PROVE TypeOK'
  BY <1>18 DEF ExitDec, ResumeDecNumBlocked
<1>19. ASSUME NEW t \in Thread, ExitJump(t) PROVE TypeOK'
  <2>1. t \in ULT /\ p_link[t] \in ULT
    BY <1>19 DEF ExitJump, LinkInv, ProgInv, YieldPoint, Yieldable
  <2>. QED  BY <1>19, <2>1 DEF ExitJump
<1>20. ASSUME NEW t \in Thread, Terminate(t) PROVE TypeOK'
  BY <1>20 DEF Terminate, Exit, SwitchToParent
<1>21. ASSUME NEW e \in XSTREAM, JoinSchedule(e) PROVE TypeOK'
  <2>1. pool # <<>> /\ Head(pool) \in ULT /\ Tail(pool) \in Seq(ULT)
    BY <1>21, TailRange DEF JoinSchedule
  <2>2. CASE "CANCEL" \notin request[Head(pool)]
    <3>1. p_last_xstream' \in [ULT -> XSTREAM \cup {NULL}]
      BY <1>21, <2>2 DEF JoinSchedule
    <3>2. p_thread' \in [XSTREAM -> ULT \cup {NULL}]
      <4>1. p_thread' = [p_thread EXCEPT ![e] = Head(pool)]
        BY <1>21, <2>2 DEF JoinSchedule, Schedule
      <4>. QED  BY <2>1, <4>1
    <3>3. state' \in [Thread -> State] /\ pool' \in Seq(ULT)
      BY <1>21, <2>1, <2>2 DEF JoinSchedule, Schedule
    <3>. QED  BY <1>21, <2>2, <3>1, <3>2, <3>3 DEF JoinSchedule, Schedule
  <2>3. CASE "CANCEL" \in request[Head(pool)]
    <3>1. HandleCancel(Head(pool)) /\ pool' = Tail(pool)
      BY <1>21, <2>3 DEF JoinSchedule
    <3>2. pc' \in [Thread -> Point]
      BY <2>1, <3>1 DEF HandleCancel
    <3>3. cancelled' \in [ULT -> BOOLEAN]
      BY <3>1 DEF HandleCancel
    <3>4. p_thread' \in [XSTREAM -> ULT \cup {NULL}]
      BY <1>21, <2>1, <2>3 DEF JoinSchedule
    <3>. QED  BY <1>21, <2>1, <2>3, <3>1, <3>2, <3>3, <3>4 DEF JoinSchedule
  <2>. QED  BY <2>2, <2>3
<1>22. CASE UNCHANGED vars
  BY <1>22 DEF vars
<1>. QED
  BY <1>1, <1>2, <1>3, <1>4, <1>5, <1>6, <1>7, <1>8, <1>9, <1>10, <1>11, <1>12,
     <1>13, <1>14, <1>15, <1>16, <1>17, <1>18, <1>19, <1>20, <1>21, <1>22
  DEF JoinNext, JoinStep, AllDone
-----------------------------------------------------------------------------
(* The points.                                                             *)

(* A step in which no other thread moves.                                  *)
LEMMA ProgFrame ==
    ASSUME ProgInv, NEW t \in Thread, ProgOK(t)',
           \A u \in Thread \ {t} : pc'[u] = pc[u] /\ program'[u] = program[u]
    PROVE  ProgInv'
  BY DEF ProgInv, Wants, Operand, Yieldable

LEMMA InitProgInv ==
    ASSUME JoinInit
    PROVE  ProgInv
  BY DEF JoinInit, YthreadInit, ProgInv

LEMMA StepProgInv ==
    ASSUME JoinConstants, TypeOK, ProgInv, PlaceInv, [JoinNext]_vars
    PROVE  ProgInv'
<1>. USE DEF TypeOK, At, GoTo, Yieldable
<1>1. ASSUME NEW t \in Thread, SelfYield(t) PROVE ProgInv'
  <2>1. ProgOK(t)'
    BY <1>1 DEF ProgInv, SelfYield, YieldOrCancel, Yield, HandleCancel, Wants
  <2>2. \A u \in Thread \ {t} : pc'[u] = pc[u] /\ program'[u] = program[u]
    BY <1>1 DEF SelfYield, YieldOrCancel, Yield, HandleCancel, Wants
  <2>. QED  BY <2>1, <2>2, ProgFrame
<1>2. ASSUME NEW t \in Thread, Cancel(t) PROVE ProgInv'
  <2>1. ProgOK(t)'
    BY <1>2 DEF ProgInv, Cancel, OperationDone
  <2>2. \A u \in Thread \ {t} : pc'[u] = pc[u] /\ program'[u] = program[u]
    BY <1>2 DEF Cancel, OperationDone
  <2>. QED  BY <2>1, <2>2, ProgFrame
<1>3. ASSUME NEW t \in Thread, JoinCall(t) PROVE ProgInv'
  <2>1. ProgOK(t)'
    BY <1>3 DEF ProgInv, JoinCall, OperationDone, Wants, Operand
  <2>2. \A u \in Thread \ {t} : pc'[u] = pc[u] /\ program'[u] = program[u]
    BY <1>3 DEF JoinCall, OperationDone, Wants
  <2>. QED  BY <2>1, <2>2, ProgFrame
<1>4. ASSUME NEW t \in Thread, JoinRequest(t) PROVE ProgInv'
  <2>1. ProgOK(t)'
    BY <1>4 DEF ProgInv, JoinRequest, Wants, Operand
  <2>2. \A u \in Thread \ {t} : pc'[u] = pc[u] /\ program'[u] = program[u]
    BY <1>4 DEF JoinRequest, Wants, Operand
  <2>. QED  BY <2>1, <2>2, ProgFrame
<1>5. ASSUME NEW t \in Thread, JoinBlock(t) PROVE ProgInv'
  <2>1. ProgOK(t)'
    BY <1>5 DEF ProgInv, JoinBlock, CallbackBlock, Wants, Operand
  <2>2. \A u \in Thread \ {t} : pc'[u] = pc[u] /\ program'[u] = program[u]
    BY <1>5 DEF JoinBlock, CallbackBlock, Wants, Operand
  <2>. QED  BY <2>1, <2>2, ProgFrame
<1>6. ASSUME NEW t \in Thread, JoinLink(t) PROVE ProgInv'
  <2>1. ProgOK(t)'
    BY <1>6 DEF ProgInv, JoinLink, Wants, Operand
  <2>2. \A u \in Thread \ {t} : pc'[u] = pc[u] /\ program'[u] = program[u]
    BY <1>6 DEF JoinLink, Wants, Operand
  <2>. QED  BY <2>1, <2>2, ProgFrame
<1>7. ASSUME NEW t \in Thread, JoinResumed(t) PROVE ProgInv'
  <2>1. ProgOK(t)'
    BY <1>7 DEF ProgInv, JoinResumed, Wants, Operand
  <2>2. \A u \in Thread \ {t} : pc'[u] = pc[u] /\ program'[u] = program[u]
    BY <1>7 DEF JoinResumed, Wants, Operand
  <2>. QED  BY <2>1, <2>2, ProgFrame
<1>8. ASSUME NEW t \in Thread, JoinYield(t) PROVE ProgInv'
  <2>1. ProgOK(t)'
    BY <1>8 DEF ProgInv, JoinYield, OperationDone, YieldOrCancel, Yield, HandleCancel, Wants
  <2>2. \A u \in Thread \ {t} : pc'[u] = pc[u] /\ program'[u] = program[u]
    BY <1>8 DEF JoinYield, OperationDone, YieldOrCancel, Yield, HandleCancel, Wants
  <2>. QED  BY <2>1, <2>2, ProgFrame
<1>9. ASSUME NEW t \in Thread, JoinPublish(t) PROVE ProgInv'
  <2>1. ProgOK(t)'
    BY <1>9 DEF ProgInv, JoinPublish, Wants, Operand
  <2>2. \A u \in Thread \ {t} : pc'[u] = pc[u] /\ program'[u] = program[u]
    BY <1>9 DEF JoinPublish, Wants, Operand
  <2>. QED  BY <2>1, <2>2, ProgFrame
<1>10. ASSUME NEW t \in Thread, JoinFutex(t) PROVE ProgInv'
  <2>1. ProgOK(t)'
    BY <1>10 DEF ProgInv, JoinFutex, Wants, Operand
  <2>2. \A u \in Thread \ {t} : pc'[u] = pc[u] /\ program'[u] = program[u]
    BY <1>10 DEF JoinFutex, Wants, Operand
  <2>. QED  BY <2>1, <2>2, ProgFrame
<1>11. ASSUME NEW t \in Thread, JoinBusywait(t) PROVE ProgInv'
  <2>1. ProgOK(t)'
    BY <1>11 DEF ProgInv, JoinBusywait, OperationDone
  <2>2. \A u \in Thread \ {t} : pc'[u] = pc[u] /\ program'[u] = program[u]
    BY <1>11 DEF JoinBusywait, OperationDone
  <2>. QED  BY <2>1, <2>2, ProgFrame
<1>12. ASSUME NEW t \in Thread, ExitCall(t) PROVE ProgInv'
  <2>1. ProgOK(t)'
    BY <1>12 DEF ProgInv, ExitCall
  <2>2. \A u \in Thread \ {t} : pc'[u] = pc[u] /\ program'[u] = program[u]
    BY <1>12 DEF ExitCall
  <2>. QED  BY <2>1, <2>2, ProgFrame
<1>13. ASSUME NEW t \in Thread, ExitLink(t) PROVE ProgInv'
  <2>1. ProgOK(t)'
    BY <1>13 DEF ProgInv, ExitLink
  <2>2. \A u \in Thread \ {t} : pc'[u] = pc[u] /\ program'[u] = program[u]
    BY <1>13 DEF ExitLink
  <2>. QED  BY <2>1, <2>2, ProgFrame
<1>14. ASSUME NEW t \in Thread, ExitRequest(t) PROVE ProgInv'
  <2>1. ProgOK(t)'
    BY <1>14 DEF ProgInv, ExitRequest
  <2>2. \A u \in Thread \ {t} : pc'[u] = pc[u] /\ program'[u] = program[u]
    BY <1>14 DEF ExitRequest
  <2>. QED  BY <2>1, <2>2, ProgFrame
<1>15. ASSUME NEW t \in Thread, ExitSpin(t) PROVE ProgInv'
  <2>1. ProgOK(t)'
    BY <1>15 DEF ProgInv, ExitSpin
  <2>2. \A u \in Thread \ {t} : pc'[u] = pc[u] /\ program'[u] = program[u]
    BY <1>15 DEF ExitSpin
  <2>. QED  BY <2>1, <2>2, ProgFrame
<1>16. ASSUME NEW t \in Thread, ExitResume(t) PROVE ProgInv'
  <2>1. ProgOK(t)'
    BY <1>16 DEF ProgInv, ExitResume, ResumePush, ResumeDecNumBlocked
  <2>2. \A u \in Thread \ {t} : pc'[u] = pc[u] /\ program'[u] = program[u]
    BY <1>16 DEF ExitResume, ResumePush, ResumeDecNumBlocked
  <2>. QED  BY <2>1, <2>2, ProgFrame
<1>17. ASSUME NEW t \in Thread, ExitDec(t) PROVE ProgInv'
  <2>1. ProgOK(t)'
    BY <1>17 DEF ProgInv, ExitDec, ResumeDecNumBlocked
  <2>2. \A u \in Thread \ {t} : pc'[u] = pc[u] /\ program'[u] = program[u]
    BY <1>17 DEF ExitDec, ResumeDecNumBlocked
  <2>. QED  BY <2>1, <2>2, ProgFrame
<1>18. ASSUME NEW t \in Thread, ExitJump(t) PROVE ProgInv'
  <2>1. ProgOK(t)'
    BY <1>18 DEF ProgInv, ExitJump
  <2>2. \A u \in Thread \ {t} : pc'[u] = pc[u] /\ program'[u] = program[u]
    BY <1>18 DEF ExitJump
  <2>. QED  BY <2>1, <2>2, ProgFrame
<1>19. ASSUME NEW t \in Thread, Terminate(t) PROVE ProgInv'
  <2>1. ProgOK(t)'
    BY <1>19 DEF ProgInv, Terminate, Exit
  <2>2. \A u \in Thread \ {t} : pc'[u] = pc[u] /\ program'[u] = program[u]
    BY <1>19 DEF Terminate, Exit
  <2>. QED  BY <2>1, <2>2, ProgFrame
<1>20. ASSUME NEW t \in Thread, Revive(t) PROVE ProgInv'
  <2>. DEFINE u == Operand(t)
  <2>1. u \in ULT
    BY <1>20, OperandType DEF Revive
  <2>2. /\ pc' = [pc EXCEPT ![u] = "idle"] /\ pc[t] = "idle"
        /\ \A v \in Thread \ {t, u} : program'[v] = program[v]
    BY <1>20 DEF Revive
  <2>. QED  BY <2>1, <2>2 DEF ProgInv, Wants, Operand
<1>21. ASSUME NEW e \in XSTREAM, JoinSchedule(e) PROVE ProgInv'
  <2>1. CASE UNCHANGED <<pc, program>>
    BY <2>1 DEF ProgInv, Wants, Operand
  <2>2. ASSUME NEW u \in ULT, HandleCancel(u), UNCHANGED program PROVE ProgInv'
    <3>1. pc' = [pc EXCEPT ![u] = IF Yieldable(u) THEN "exit_link" ELSE "terminate"]
      BY <2>2 DEF HandleCancel
    <3>2. ProgOK(u)'
      BY <3>1
    <3>3. \A v \in Thread \ {u} : pc'[v] = pc[v] /\ program'[v] = program[v]
      BY <2>2, <3>1
    <3>. QED  BY <3>2, <3>3, ProgFrame
  <2>3. pool # <<>> /\ Head(pool) \in ULT
    BY <1>21, TailRange DEF JoinSchedule
  <2>. QED  BY <1>21, <2>1, <2>2, <2>3 DEF JoinSchedule, Schedule
<1>22. CASE UNCHANGED vars
  BY <1>22 DEF vars, ProgInv, Wants, Operand
<1>. QED
  BY <1>1, <1>2, <1>3, <1>4, <1>5, <1>6, <1>7, <1>8, <1>9, <1>10, <1>11, <1>12,
     <1>13, <1>14, <1>15, <1>16, <1>17, <1>18, <1>19, <1>20, <1>21, <1>22
  DEF JoinNext, JoinStep, AllDone
-----------------------------------------------------------------------------
(* The places.                                                             *)

LEMMA UnitPlaces ==
    ASSUME TypeOK
    PROVE  OnXstream \subseteq ULT /\ Range(pool) \subseteq ULT
<1>1. OnXstream \subseteq ULT
  BY DEF TypeOK, OnXstream, Range
<1>2. Range(pool) \subseteq ULT
  BY DEF TypeOK, Range
<1>. QED  BY <1>1, <1>2

(* A running ULT is on an ES.                                              *)
LEMMA RunningUlt ==
    ASSUME NEW t \in ULT, Running(t)
    PROVE  t \in OnXstream
  BY ThreadAssumption DEF Running

LEMMA InitPlaceInv ==
    ASSUME JoinInit
    PROVE  PlaceInv
<1>. USE DEF JoinInit, YthreadInit
<1>1. Cardinality(ULT) \in Nat
  BY FS_CardinalityType, ThreadAssumption
<1>2. OnXstream = {} /\ Range(pool) = ULT
  BY DEF OnXstream, Range
<1>3. IsInjective(pool)
  <2>1. pool \in Surjection(1 .. Cardinality(ULT), ULT)
    BY DEF Range, Surjection
  <2>2. /\ IsFiniteSet(1 .. Cardinality(ULT))
        /\ Cardinality(1 .. Cardinality(ULT)) = Cardinality(ULT)
    BY <1>1, FS_Interval
  <2>3. pool \in Injection(1 .. Cardinality(ULT), ULT)
    BY <2>1, <2>2, ThreadAssumption, FS_SurjSameCardinalityImpliesInj
  <2>. QED  BY <2>3 DEF Injection, IsInjective
<1>4. \A d, e \in XSTREAM : p_thread[d] = p_thread[e] /\ p_thread[d] # NULL => d = e
  OBVIOUS
<1>5. \A u \in Range(pool) : state[u] = "READY" /\ u \notin OnXstream
  BY <1>2
<1>6. \A t \in Thread : state[t] # "TERMINATED" /\ pc[t] = "idle"
  OBVIOUS
<1>. QED  BY <1>2, <1>3, <1>4, <1>5, <1>6 DEF PlaceInv

(* A running thread moves.                                                 *)
LEMMA MovePlace ==
    ASSUME TypeOK, PlaceInv, NEW t \in Thread, Running(t), pc[t] \notin {"join_link", "done"},
           NEW l, l \notin {"join_link", "done"}, GoTo(t, l),
           UNCHANGED <<state, p_thread, pool>>
    PROVE  PlaceInv'
<1>1. /\ \A u \in Thread : u # t => pc'[u] = pc[u]
      /\ pc'[t] = l
  BY DEF GoTo, TypeOK
<1>2. UNCHANGED OnXstream
  BY DEF OnXstream
<1>3. t \in ULT => t \in OnXstream
  BY RunningUlt
<1>. QED  BY <1>1, <1>2, <1>3, UnitPlaces DEF PlaceInv

(* A ULT yields.                                                           *)
LEMMA YieldPlace ==
    ASSUME TypeOK, PlaceInv, NEW t \in ULT, Running(t),
           NEW l \in {"idle", "join_yield"}, Yield(t, l)
    PROVE  PlaceInv'
<1>1. t \in OnXstream /\ t \notin Range(pool)
  BY RunningUlt DEF PlaceInv
<1>2. /\ \A u \in Thread : u # t => pc'[u] = pc[u] /\ state'[u] = state[u]
      /\ pc'[t] = l /\ state'[t] = "READY"
      /\ pool' = Append(pool, t)
  BY DEF Yield, AddThread, GoTo, TypeOK
<1>3. /\ OnXstream' = OnXstream \ {t}
      /\ \A d, e \in XSTREAM :
           p_thread'[d] = p_thread'[e] /\ p_thread'[d] # NULL => d = e
  BY SwitchOnXstream DEF Yield, PlaceInv, TypeOK
<1>4. Range(pool') = Range(pool) \cup {t} /\ IsInjective(pool')
  BY <1>1, <1>2, AppendRange, AppendInjective DEF TypeOK, PlaceInv
<1>. QED  BY <1>1, <1>2, <1>3, <1>4, UnitPlaces DEF PlaceInv

(* The suspension of a joiner: BLOCKED first...                            *)
LEMMA BlockPlace ==
    ASSUME TypeOK, PlaceInv, NEW t \in ULT, Running(t), CallbackBlock(t, "join_link")
    PROVE  PlaceInv'
<1>1. t \in OnXstream /\ t \notin Range(pool)
  BY RunningUlt DEF PlaceInv
<1>2. /\ \A u \in Thread : u # t => pc'[u] = pc[u] /\ state'[u] = state[u]
      /\ pc'[t] = "join_link" /\ state'[t] = "BLOCKED"
      /\ UNCHANGED <<p_thread, pool>>
  BY DEF CallbackBlock, GoTo, TypeOK
<1>3. UNCHANGED OnXstream
  BY <1>2 DEF OnXstream
<1>. QED  BY <1>1, <1>2, <1>3, UnitPlaces DEF PlaceInv

(* ...then off its ES.                                                     *)
LEMMA LinkPlace ==
    ASSUME TypeOK, PlaceInv, NEW t \in ULT, At(t, "join_link"),
           SwitchToParent(t), GoTo(t, "join_resumed"), UNCHANGED <<state, pool>>
    PROVE  PlaceInv'
<1>1. t \in OnXstream /\ t \notin Range(pool) /\ state[t] = "BLOCKED"
  BY RunningUlt DEF PlaceInv, At
<1>2. /\ \A u \in Thread : u # t => pc'[u] = pc[u]
      /\ pc'[t] = "join_resumed"
  BY DEF GoTo, TypeOK
<1>3. /\ OnXstream' = OnXstream \ {t}
      /\ \A d, e \in XSTREAM :
           p_thread'[d] = p_thread'[e] /\ p_thread'[d] # NULL => d = e
  BY SwitchOnXstream DEF PlaceInv, TypeOK
<1>. QED  BY <1>1, <1>2, <1>3, UnitPlaces DEF PlaceInv

(* A joiner is pushed back to the pool.                                    *)
LEMMA ResumePlace ==
    ASSUME TypeOK, PlaceInv, NEW t \in Thread, Running(t), pc[t] = "exit_resume",
           NEW j \in ULT, state[j] = "BLOCKED", pc[j] = "join_resumed",
           ResumePush(t, j, "exit_dec")
    PROVE  PlaceInv'
<1>1. j \notin OnXstream /\ j \notin Range(pool) /\ j # t
  BY DEF PlaceInv
<1>2. /\ \A u \in Thread : u # t => pc'[u] = pc[u]
      /\ pc'[t] = "exit_dec"
      /\ \A u \in Thread : u # j => state'[u] = state[u]
      /\ state'[j] = "READY"
      /\ pool' = Append(pool, j)
      /\ UNCHANGED p_thread
  BY DEF ResumePush, AddThread, GoTo, TypeOK
<1>3. UNCHANGED OnXstream
  BY <1>2 DEF OnXstream
<1>4. Range(pool') = Range(pool) \cup {j} /\ IsInjective(pool')
  BY <1>1, <1>2, AppendRange, AppendInjective DEF TypeOK, PlaceInv
<1>5. t \in ULT => t \in OnXstream
  BY RunningUlt
<1>. QED  BY <1>1, <1>2, <1>3, <1>4, <1>5, UnitPlaces DEF PlaceInv

(* A thread ends.                                                          *)
LEMMA ExitPlace ==
    ASSUME TypeOK, PlaceInv, NEW t \in Thread, At(t, "terminate"), Exit(t, "done")
    PROVE  PlaceInv'
<1>1. /\ \A u \in Thread : u # t => pc'[u] = pc[u] /\ state'[u] = state[u]
      /\ pc'[t] = "done" /\ state'[t] = "TERMINATED"
      /\ UNCHANGED pool
  BY DEF Exit, GoTo, TypeOK
<1>2. CASE t \in ULT
  <2>1. t \in OnXstream /\ t \notin Range(pool)
    BY <1>2, RunningUlt DEF PlaceInv, At
  <2>2. /\ OnXstream' = OnXstream \ {t}
        /\ \A d, e \in XSTREAM :
             p_thread'[d] = p_thread'[e] /\ p_thread'[d] # NULL => d = e
    BY <1>2, SwitchOnXstream DEF Exit, PlaceInv, TypeOK
  <2>. QED  BY <1>1, <2>1, <2>2, UnitPlaces DEF PlaceInv
<1>3. CASE t \notin ULT
  <2>1. p_thread' = p_thread
    BY <1>3, ThreadAssumption DEF Exit, SwitchToParent, TypeOK
  <2>2. UNCHANGED OnXstream
    BY <2>1 DEF OnXstream
  <2>. QED  BY <1>1, <1>3, <2>1, <2>2, UnitPlaces DEF PlaceInv
<1>. QED  BY <1>2, <1>3

(* A joiner takes the place of the ULT it joined.                          *)
LEMMA JumpPlace ==
    ASSUME TypeOK, PlaceInv, NEW t \in ULT, Running(t), pc[t] = "exit_jump",
           NEW j \in ULT, state[j] = "BLOCKED", pc[j] = "join_resumed",
           state' = [state EXCEPT ![j] = "RUNNING", ![t] = "TERMINATED"],
           p_thread' = [e \in XSTREAM |-> IF p_thread[e] = t THEN j ELSE p_thread[e]],
           GoTo(t, "done"), UNCHANGED pool
    PROVE  PlaceInv'
<1>1. /\ t \in OnXstream /\ t \notin Range(pool)
      /\ j \notin OnXstream /\ j \notin Range(pool) /\ j # t
  BY RunningUlt DEF PlaceInv
<1>2. /\ \A u \in Thread : u # t => pc'[u] = pc[u]
      /\ pc'[t] = "done"
      /\ \A u \in Thread : u \notin {j, t} => state'[u] = state[u]
      /\ state'[j] = "RUNNING" /\ state'[t] = "TERMINATED"
  BY <1>1 DEF GoTo, TypeOK
<1>3. OnXstream' = (OnXstream \ {t}) \cup {j}
  <2>1. DOMAIN p_thread = XSTREAM /\ DOMAIN p_thread' = XSTREAM /\ j # NULL
    BY ThreadAssumption DEF TypeOK
  <2>2. \A e \in XSTREAM : p_thread'[e] = IF p_thread[e] = t THEN j ELSE p_thread[e]
    OBVIOUS
  <2>3. PICK e \in XSTREAM : p_thread[e] = t
    BY <1>1, <2>1 DEF OnXstream, Range
  <2>. QED  BY <1>1, <2>1, <2>2, <2>3 DEF OnXstream, Range
<1>4. \A d, e \in XSTREAM : p_thread'[d] = p_thread'[e] /\ p_thread'[d] # NULL => d = e
  <2>1. \A e \in XSTREAM : p_thread[e] # j
    BY <1>1, ThreadAssumption DEF OnXstream, Range, TypeOK
  <2>2. t # NULL
    BY ThreadAssumption
  <2>. QED  BY <2>1, <2>2 DEF PlaceInv
<1>5. IsInjective(pool')
  BY DEF PlaceInv
<1>6. ASSUME NEW u \in Range(pool') PROVE state'[u] = "READY" /\ u \notin OnXstream'
  <2>1. u \in Range(pool) /\ u \in Thread /\ u # j /\ u # t
    BY <1>1, UnitPlaces
  <2>2. state[u] = "READY" /\ u \notin OnXstream
    BY <2>1 DEF PlaceInv
  <2>. QED  BY <1>2, <1>3, <2>1, <2>2
<1>7. ASSUME NEW u \in OnXstream'
      PROVE  (state'[u] = "BLOCKED" <=> pc'[u] = "join_link") /\ pc'[u] # "done"
  <2>1. CASE u = j
    BY <1>1, <1>2, <2>1
  <2>2. CASE u # j
    <3>1. u \in OnXstream /\ u # t /\ u \in Thread
      BY <1>3, <2>2, UnitPlaces
    <3>2. (state[u] = "BLOCKED" <=> pc[u] = "join_link") /\ pc[u] # "done"
      BY <3>1 DEF PlaceInv
    <3>3. state'[u] = state[u] /\ pc'[u] = pc[u]
      BY <1>2, <2>2, <3>1
    <3>. QED  BY <3>2, <3>3
  <2>. QED  BY <2>1, <2>2
<1>8. \A u \in ULT \ (Range(pool') \cup OnXstream') :
        state'[u] = "TERMINATED" \/ (state'[u] = "BLOCKED" /\ pc'[u] = "join_resumed")
  <2>1. SUFFICES ASSUME NEW u \in ULT, u \notin Range(pool'), u \notin OnXstream'
                 PROVE  state'[u] = "TERMINATED" \/ (state'[u] = "BLOCKED" /\ pc'[u] = "join_resumed")
    OBVIOUS
  <2>2. CASE u = t
    BY <1>2, <2>2
  <2>3. CASE u # t
    <3>1. u # j /\ u \notin OnXstream /\ u \notin Range(pool)
      BY <1>3, <2>1, <2>3
    <3>2. state'[u] = state[u] /\ pc'[u] = pc[u]
      BY <1>2, <2>3, <3>1 DEF Thread
    <3>. QED  BY <2>1, <3>1, <3>2 DEF PlaceInv
  <2>. QED  BY <2>2, <2>3
<1>9. ASSUME NEW u \in Thread PROVE state'[u] = "TERMINATED" <=> pc'[u] = "done"
  <2>1. state[u] = "TERMINATED" <=> pc[u] = "done"
    BY DEF PlaceInv
  <2>2. CASE u \in {j, t}
    BY <1>1, <1>2, <2>2
  <2>3. CASE u \notin {j, t}
    BY <1>2, <2>1, <2>3
  <2>. QED  BY <2>2, <2>3
<1>10. \A u \in ULT \ OnXstream' : pc'[u] \in {"idle", "join_yield", "join_resumed", "done"}
  BY <1>1, <1>2, <1>3 DEF PlaceInv
<1>. QED  BY <1>4, <1>5, <1>6, <1>7, <1>8, <1>9, <1>10 DEF PlaceInv

(* A scheduler takes a unit from the pool, to run it...                    *)
LEMMA PopPlace ==
    ASSUME TypeOK, PlaceInv, NEW e \in XSTREAM, p_thread[e] = NULL, pool # <<>>,
           p_thread' = [p_thread EXCEPT ![e] = Head(pool)], pool' = Tail(pool),
           NEW u \in ULT, u = Head(pool),
           state'[u] \in {"READY", "RUNNING"}, pc'[u] \notin {"join_link", "done"},
           \A v \in Thread : v # u => state'[v] = state[v] /\ pc'[v] = pc[v]
    PROVE  PlaceInv'
<1>1. /\ Range(pool') \subseteq Range(pool) /\ u \in Range(pool)
      /\ Range(pool) \subseteq Range(pool') \cup {u}
      /\ u \notin Range(pool') /\ IsInjective(pool')
  BY TailRange, TailInjective DEF TypeOK, PlaceInv
<1>2. u \notin OnXstream /\ u # NULL
  BY <1>1, ThreadAssumption DEF PlaceInv
<1>3. OnXstream' = OnXstream \cup {u}
  <2>1. DOMAIN p_thread = XSTREAM /\ DOMAIN p_thread' = XSTREAM
    BY DEF TypeOK
  <2>2. \A d \in XSTREAM : p_thread'[d] = IF d = e THEN u ELSE p_thread[d]
    BY DEF TypeOK
  <2>. QED  BY <1>2, <2>1, <2>2 DEF OnXstream, Range
<1>4. \A c, d \in XSTREAM : p_thread'[c] = p_thread'[d] /\ p_thread'[c] # NULL => c = d
  <2>1. \A d \in XSTREAM : p_thread[d] # u
    BY <1>2 DEF OnXstream, Range, TypeOK
  <2>. QED  BY <2>1 DEF PlaceInv, TypeOK
<1>. QED  BY <1>1, <1>2, <1>3, <1>4, UnitPlaces DEF PlaceInv

(* A unit that has TERMINATED is back in the pool.                         *)
LEMMA RevivePlace ==
    ASSUME TypeOK, PlaceInv, NEW u \in ULT, state[u] = "TERMINATED", AddThread(u),
           GoTo(u, "idle"), UNCHANGED p_thread
    PROVE  PlaceInv'
<1>1. u \notin OnXstream /\ u \notin Range(pool)
  BY DEF PlaceInv
<1>2. /\ \A v \in Thread : v # u => pc'[v] = pc[v] /\ state'[v] = state[v]
      /\ pc'[u] = "idle" /\ state'[u] = "READY"
      /\ pool' = Append(pool, u)
  BY DEF AddThread, GoTo, TypeOK
<1>3. UNCHANGED OnXstream
  BY DEF OnXstream
<1>4. Range(pool') = Range(pool) \cup {u} /\ IsInjective(pool')
  BY <1>1, <1>2, AppendRange, AppendInjective DEF TypeOK, PlaceInv
<1>. QED  BY <1>1, <1>2, <1>3, <1>4, UnitPlaces DEF PlaceInv

LEMMA StepPlaceInv ==
    ASSUME JoinConstants, TypeOK, ProgInv, PlaceInv, LinkInv, [JoinNext]_vars
    PROVE  PlaceInv'
<1>. USE DEF At
<1>1. ASSUME NEW t \in Thread, SelfYield(t) \/ JoinYield(t) PROVE PlaceInv'
  <2>1. t \in ULT /\ Running(t) /\ pc[t] \in {"idle", "join_yield"}
    BY <1>1 DEF SelfYield, JoinYield, Yieldable, ProgInv
  <2>2. CASE \E l \in {"idle", "join_yield"} : Yield(t, l)
    BY <2>1, <2>2, YieldPlace
  <2>3. CASE HandleCancel(t) /\ UNCHANGED <<state, p_thread, pool>>
    BY <2>1, <2>3, MovePlace DEF HandleCancel
  <2>4. CASE OperationDone(t) /\ UNCHANGED <<state, p_thread, pool>>
    BY <2>1, <2>4, MovePlace DEF OperationDone
  <2>. QED  BY <1>1, <2>2, <2>3, <2>4 DEF SelfYield, JoinYield, YieldOrCancel
<1>2. ASSUME NEW t \in Thread, Cancel(t) PROVE PlaceInv'
  BY <1>2, MovePlace DEF Cancel, OperationDone
<1>3. ASSUME NEW t \in Thread, JoinCall(t) PROVE PlaceInv'
  BY <1>3, MovePlace DEF JoinCall, OperationDone
<1>4. ASSUME NEW t \in Thread, JoinRequest(t) PROVE PlaceInv'
  BY <1>4, MovePlace DEF JoinRequest
<1>5. ASSUME NEW t \in Thread, JoinResumed(t) PROVE PlaceInv'
  BY <1>5, MovePlace DEF JoinResumed
<1>6. ASSUME NEW t \in Thread, JoinPublish(t) PROVE PlaceInv'
  BY <1>6, MovePlace DEF JoinPublish
<1>7. ASSUME NEW t \in Thread, JoinFutex(t) PROVE PlaceInv'
  BY <1>7, MovePlace DEF JoinFutex
<1>8. ASSUME NEW t \in Thread, JoinBusywait(t) PROVE PlaceInv'
  BY <1>8, MovePlace DEF JoinBusywait, OperationDone
<1>9. ASSUME NEW t \in Thread, ExitCall(t) PROVE PlaceInv'
  BY <1>9, MovePlace DEF ExitCall
<1>10. ASSUME NEW t \in Thread, ExitLink(t) PROVE PlaceInv'
  BY <1>10, MovePlace DEF ExitLink
<1>11. ASSUME NEW t \in Thread, ExitRequest(t) PROVE PlaceInv'
  BY <1>11, MovePlace DEF ExitRequest
<1>12. ASSUME NEW t \in Thread, ExitSpin(t) PROVE PlaceInv'
  BY <1>12, MovePlace DEF ExitSpin
<1>13. ASSUME NEW t \in Thread, ExitDec(t) PROVE PlaceInv'
  BY <1>13, MovePlace DEF ExitDec, ResumeDecNumBlocked
<1>14. ASSUME NEW t \in Thread, JoinBlock(t) PROVE PlaceInv'
  <2>1. t \in ULT
    BY <1>14 DEF JoinBlock, ProgInv, Yieldable
  <2>. QED  BY <1>14, <2>1, BlockPlace DEF JoinBlock
<1>15. ASSUME NEW t \in Thread, JoinLink(t) PROVE PlaceInv'
  <2>1. t \in ULT
    BY <1>15 DEF JoinLink, ProgInv, Yieldable
  <2>. QED  BY <1>15, <2>1, LinkPlace DEF JoinLink
<1>16. ASSUME NEW t \in Thread, ExitResume(t) PROVE PlaceInv'
  <2>. DEFINE j == p_link[t]
  <2>1. t \in ULT /\ j # NULL /\ Running(t) /\ pc[t] = "exit_resume"
    BY <1>16 DEF ExitResume, ProgInv, Yieldable, LinkInv
  <2>2. Yieldable(j) => j \in ULT /\ pc[j] = "join_resumed" /\ state[j] = "BLOCKED"
    BY <2>1 DEF LinkInv, Yieldable
  <2>3. CASE Yieldable(j) /\ ResumePush(t, j, "exit_dec")
    BY <2>1, <2>2, <2>3, ResumePlace
  <2>4. CASE \E l \in {"terminate", "exit_jump"} :
               GoTo(t, l) /\ UNCHANGED <<state, p_thread, pool>>
    BY <2>1, <2>4, MovePlace
  <2>. QED  BY <1>16, <2>3, <2>4 DEF ExitResume, ResumeDecNumBlocked
<1>17. ASSUME NEW t \in Thread, ExitJump(t) PROVE PlaceInv'
  <2>. DEFINE j == p_link[t]
  <2>1. t \in ULT /\ j # NULL /\ Running(t) /\ pc[t] = "exit_jump"
    BY <1>17 DEF ExitJump, ProgInv, Yieldable, LinkInv
  <2>2. j \in ULT /\ pc[j] = "join_resumed" /\ state[j] = "BLOCKED"
    BY <2>1 DEF LinkInv, Yieldable
  <2>. QED  BY <1>17, <2>1, <2>2, JumpPlace DEF ExitJump
<1>18. ASSUME NEW t \in Thread, Terminate(t) PROVE PlaceInv'
  BY <1>18, ExitPlace DEF Terminate
<1>19. ASSUME NEW t \in Thread, Revive(t) PROVE PlaceInv'
  <2>1. Operand(t) \in ULT
    BY <1>19, OperandType DEF Revive
  <2>. QED  BY <1>19, <2>1, RevivePlace DEF Revive, GoTo
<1>20. ASSUME NEW e \in XSTREAM, JoinSchedule(e) PROVE PlaceInv'
  <2>1. PICK u \in ULT : u = Head(pool) /\ u \in Range(pool)
    BY <1>20, TailRange DEF JoinSchedule, TypeOK
  <2>2. state[u] = "READY" /\ u \notin OnXstream /\ pc[u] \notin {"join_link", "done"}
    BY <2>1 DEF PlaceInv
  <2>3. /\ p_thread[e] = NULL /\ pool # <<>>
        /\ p_thread' = [p_thread EXCEPT ![e] = Head(pool)] /\ pool' = Tail(pool)
    BY <1>20 DEF JoinSchedule, Schedule
  <2>4. CASE state' = [state EXCEPT ![u] = "RUNNING"] /\ UNCHANGED pc
    BY <2>1, <2>2, <2>3, <2>4, PopPlace DEF TypeOK
  <2>5. CASE HandleCancel(u) /\ UNCHANGED state
    <3>1. /\ pc'[u] \notin {"join_link", "done"}
          /\ \A v \in Thread : v # u => pc'[v] = pc[v]
      BY <2>5 DEF HandleCancel, GoTo, TypeOK
    <3>. QED  BY <2>1, <2>2, <2>3, <2>5, <3>1, PopPlace
  <2>. QED  BY <1>20, <2>1, <2>4, <2>5 DEF JoinSchedule, Schedule
<1>21. CASE UNCHANGED vars
  BY <1>21 DEF vars, PlaceInv, OnXstream
<1>. QED
  BY <1>1, <1>2, <1>3, <1>4, <1>5, <1>6, <1>7, <1>8, <1>9, <1>10, <1>11, <1>12,
     <1>13, <1>14, <1>15, <1>16, <1>17, <1>18, <1>19, <1>20, <1>21
  DEF JoinNext, JoinStep, AllDone
-----------------------------------------------------------------------------
(* The meeting of a joiner and its ULT.                                    *)

(* A thread in the pool, or off its ES, is not about to publish a link.    *)
LEMMA BlockerRuns ==
    ASSUME PlaceInv, NEW t \in Thread, pc[t] \in BlockPoint
    PROVE  Running(t)
  BY DEF PlaceInv, Running

(* Nobody is about to resume a thread that runs, or waits in the pool.     *)
LEMMA Unlinked ==
    ASSUME PlaceInv, LinkInv, NEW t \in Thread, NEW u \in ULT,
           p_link[u] = t, t # NULL, pc[u] \notin PastPoint
    PROVE  /\ pc[t] \in {"join_resumed", "join_futex"}
           /\ Yieldable(t) => t \notin OnXstream
  BY DEF PlaceInv, LinkInv, Yieldable

(* A thread moves that is not about to publish a link, nor about to be     *)
(* resumed, and, if it is a ULT, is before the last steps of its end.      *)
LEMMA LinkFrame ==
    ASSUME TypeOK, ProgInv, LinkInv, NEW t \in Thread, UNCHANGED p_link,
           \A u \in ULT : "JOIN" \in request'[u] <=> "JOIN" \in request[u],
           \A v \in Thread \ {t} : /\ pc'[v] = pc[v] /\ program'[v] = program[v]
                                   /\ state'[v] = state[v]
                                   /\ joiner_futex'[v] = joiner_futex[v],
           pc[t] \notin BlockPoint, pc'[t] \notin BlockPoint,
           \A u \in ULT : p_link[u] = t => pc[u] \in PastPoint,
           pc'[t] \notin {"exit_spin", "exit_resume", "exit_dec", "exit_jump"},
           Yieldable(t) => pc[t] \notin PastPoint /\ pc'[t] \notin PastPoint,
           pc[t] \in PastPoint => pc'[t] \in PastPoint
    PROVE  LinkInv'
<1>. USE DEF Operand
<1>1. \A u \in ULT : p_link[u] # NULL => p_link[u] \in Thread
  BY DEF TypeOK
<1>2. \A v \in Thread : pc[v] \in BlockPoint => Yieldable(Operand(v)) /\ Operand(v) \in ULT
  BY DEF ProgInv, Yieldable
<1>3. \A v \in Thread : pc'[v] \in BlockPoint <=> pc[v] \in BlockPoint /\ v # t
  OBVIOUS
<1>4. ASSUME NEW v \in Thread PROVE BlockerOK(v)'
  BY <1>2, <1>3, <1>4 DEF LinkInv
<1>5. ASSUME NEW v \in Thread, NEW w \in Thread PROVE BlockerAlone(v, w)'
  BY <1>3, <1>5 DEF LinkInv
<1>6. ASSUME NEW u \in ULT PROVE RequestOK(u)'
  BY <1>6 DEF LinkInv
<1>7. ASSUME NEW u \in ULT PROVE JoinerComes(u)'
  <2>. SUFFICES ASSUME Yieldable(u), "JOIN" \in request'[u], p_link'[u] = NULL,
                       pc'[u] \notin PastPoint
                PROVE  JoinerComes(u)'
    OBVIOUS
  <2>1. pc[u] \notin PastPoint
    BY <1>7
  <2>2. PICK v \in Thread : pc[v] \in BlockPoint /\ Operand(v) = u
    BY <1>7, <2>1 DEF LinkInv
  <2>. QED  BY <1>3, <2>2
<1>8. ASSUME NEW u \in ULT PROVE LinkOK(u)'
  BY <1>8 DEF LinkInv
<1>9. ASSUME NEW u \in ULT PROVE JoinerWaits(u)'
  <2>. SUFFICES ASSUME p_link'[u] # NULL, pc'[u] \notin PastPoint
                PROVE  JoinerWaits(u)'
    OBVIOUS
  <2>1. pc[u] \notin PastPoint /\ p_link[u] # t /\ p_link[u] \in Thread
    BY <1>1, <1>9
  <2>. QED  BY <1>9, <2>1 DEF LinkInv
<1>. HIDE DEF BlockerOK, BlockerAlone, RequestOK, JoinerComes, LinkOK, JoinerWaits
<1>. QED  BY <1>4, <1>5, <1>6, <1>7, <1>8, <1>9 DEF LinkInv

LEMMA InitLinkInv ==
    ASSUME JoinInit
    PROVE  LinkInv
  BY DEF JoinInit, YthreadInit, LinkInv, BlockerOK, BlockerAlone, RequestOK, JoinerComes, LinkOK,
         JoinerWaits

(* The end of a ULT: it may resume the joiner whose link is published, and *)
(* ends without one only when it was the first to set REQ_JOIN.            *)
LEMMA EndFrame ==
    ASSUME TypeOK, ProgInv, LinkInv, NEW t \in ULT, Yieldable(t),
           UNCHANGED <<p_link, program>>,
           \A v \in Thread \ {t} : pc'[v] = pc[v],
           \A v \in ULT \ {t} : request'[v] = request[v],
           "JOIN" \in request[t] => "JOIN" \in request'[t],
           pc[t] \in {"exit_link", "exit_request", "exit_spin", "exit_resume", "exit_jump"}
                      \cup PastPoint,
           pc'[t] \in {"exit_request", "exit_spin", "exit_resume", "exit_jump"} \cup PastPoint,
           pc[t] \in PastPoint => pc'[t] \in PastPoint,
           pc'[t] \in {"exit_resume", "exit_dec", "exit_jump"} => p_link[t] # NULL,
           pc'[t] \in PastPoint /\ pc[t] \notin PastPoint
             => p_link[t] # NULL \/ "JOIN" \notin request[t],
           pc'[t] # "exit_request" => "JOIN" \in request'[t],
           "JOIN" \in request'[t] /\ "JOIN" \notin request[t] => pc'[t] \in PastPoint,
           pc'[t] = "exit_jump" => Yieldable(p_link[t]),
           \A v \in Thread : \/ v = p_link[t] /\ pc'[t] \in PastPoint /\ pc[t] \notin PastPoint
                             \/ /\ joiner_futex'[v] = joiner_futex[v]
                                /\ state[v] = "BLOCKED" => state'[v] = "BLOCKED"
    PROVE  LinkInv'
<1>. USE DEF Operand
<1>1. \A v \in Thread : Operand(v)' = Operand(v) /\ (pc'[v] \in BlockPoint <=> pc[v] \in BlockPoint)
  OBVIOUS
<1>2. \A v \in Thread : pc[v] \in BlockPoint => Operand(v) \in ULT
  BY DEF ProgInv, Yieldable
<1>3. \A v \in ULT : "JOIN" \in request[v] => "JOIN" \in request'[v]
  OBVIOUS
<1>4. ASSUME NEW v \in Thread PROVE BlockerOK(v)'
  <2>. SUFFICES ASSUME pc'[v] \in BlockPoint PROVE BlockerOK(v)'
    OBVIOUS
  <2>1. /\ pc[v] \in BlockPoint /\ Operand(v) \in ULT
        /\ "JOIN" \in request[Operand(v)] /\ p_link[Operand(v)] = NULL
        /\ pc[Operand(v)] \notin PastPoint \cup {"exit_resume", "exit_jump"}
    BY <1>1, <1>2, <1>4 DEF LinkInv
  <2>2. CASE Operand(v) = t
    BY <2>1, <2>2, <1>3
  <2>3. CASE Operand(v) # t
    BY <2>1, <2>3, <1>3
  <2>. QED  BY <2>2, <2>3
<1>5. ASSUME NEW v \in Thread, NEW w \in Thread PROVE BlockerAlone(v, w)'
  BY <1>1, <1>5 DEF LinkInv
<1>6. ASSUME NEW u \in ULT PROVE RequestOK(u)'
  BY <1>3, <1>6 DEF LinkInv
<1>7. ASSUME NEW u \in ULT PROVE JoinerComes(u)'
  <2>. SUFFICES ASSUME Yieldable(u), "JOIN" \in request'[u], p_link'[u] = NULL,
                       pc'[u] \notin PastPoint
                PROVE  JoinerComes(u)'
    OBVIOUS
  <2>1. pc[u] \notin PastPoint /\ "JOIN" \in request[u]
    BY <1>7
  <2>2. PICK v \in Thread : pc[v] \in BlockPoint /\ Operand(v) = u
    BY <1>7, <2>1 DEF LinkInv
  <2>. QED  BY <1>1, <2>2
<1>8. ASSUME NEW u \in ULT PROVE LinkOK(u)'
  BY <1>8 DEF LinkInv
<1>9. ASSUME NEW u \in ULT PROVE JoinerWaits(u)'
  <2>. SUFFICES ASSUME p_link'[u] # NULL, pc'[u] \notin PastPoint
                PROVE  JoinerWaits(u)'
    OBVIOUS
  <2>. DEFINE j == p_link[u]
  <2>0. pc[u] \notin PastPoint /\ j \in Thread
    BY DEF TypeOK
  <2>1. /\ pc[u] \notin PastPoint /\ j \in Thread /\ Operand(j) = u
        /\ Yieldable(j) => pc[j] = "join_resumed" /\ state[j] = "BLOCKED"
        /\ ~Yieldable(j) => pc[j] = "join_futex" /\ ~joiner_futex[j]
    BY <2>0 DEF LinkInv
  <2>2. j # t /\ pc'[j] = pc[j]
    BY <2>1
  <2>3. joiner_futex'[j] = joiner_futex[j] /\ (state[j] = "BLOCKED" => state'[j] = "BLOCKED")
    <3>1. CASE u = t
      BY <1>9, <2>1, <3>1
    <3>2. CASE u # t
      <4>1. j = p_link[t] => pc[t] \in PastPoint
        BY <2>1, <3>2 DEF LinkInv
      <4>. QED  BY <2>1, <4>1
    <3>. QED  BY <3>1, <3>2
  <2>. QED  BY <1>1, <2>1, <2>2, <2>3
<1>. HIDE DEF BlockerOK, BlockerAlone, RequestOK, JoinerComes, LinkOK, JoinerWaits
<1>. QED  BY <1>1, <1>4, <1>5, <1>6, <1>7, <1>8, <1>9 DEF LinkInv

(* A joiner is the first to set REQ_JOIN: its ULT has yet to end.          *)
LEMMA RequestLink ==
    ASSUME TypeOK, ProgInv, LinkInv, NEW t \in Thread, pc[t] = "join_request",
           NEW u \in ULT, u = Operand(t), Yieldable(u), "JOIN" \notin request[u],
           request' = [request EXCEPT ![u] = @ \cup {"JOIN"}],
           pc'[t] \in {"join_block", "join_publish"},
           \A v \in Thread \ {t} : pc'[v] = pc[v],
           UNCHANGED <<p_link, program, state, joiner_futex>>
    PROVE  LinkInv'
<1>1. \A v \in Thread : Operand(v)' = Operand(v)
  BY DEF Operand
<1>2. /\ "JOIN" \in request'[u]
      /\ \A v \in ULT : "JOIN" \in request[v] => "JOIN" \in request'[v]
      /\ \A v \in ULT \ {u} : request'[v] = request[v]
  BY DEF TypeOK
<1>3. p_link[u] = NULL /\ pc[u] \notin PastPoint \cup {"exit_resume", "exit_jump"}
  BY DEF LinkInv
<1>4. \A v \in Thread : /\ pc[v] \in BlockPoint => Operand(v) # u /\ Operand(v) \in ULT
                        /\ pc'[v] \in BlockPoint <=> pc[v] \in BlockPoint \/ v = t
  BY DEF LinkInv, ProgInv, Yieldable
<1>5. ASSUME NEW v \in Thread PROVE BlockerOK(v)'
  <2>. SUFFICES ASSUME pc'[v] \in BlockPoint PROVE BlockerOK(v)'
    OBVIOUS
  <2>1. CASE v = t
    BY <1>1, <1>2, <1>3, <2>1
  <2>2. CASE v # t
    <3>1. pc[v] \in BlockPoint /\ Operand(v) \in ULT \ {u}
      BY <1>4, <2>2
    <3>2. pc'[Operand(v)] \in {pc[Operand(v)], "join_block", "join_publish"}
      BY <3>1
    <3>. QED  BY <1>1, <1>2, <3>1, <3>2 DEF LinkInv
  <2>. QED  BY <2>1, <2>2
<1>6. ASSUME NEW v \in Thread, NEW w \in Thread PROVE BlockerAlone(v, w)'
  BY <1>1, <1>4, <1>6 DEF LinkInv
<1>7. ASSUME NEW v \in ULT PROVE RequestOK(v)'
  BY <1>2, <1>7 DEF LinkInv
<1>8. ASSUME NEW v \in ULT PROVE JoinerComes(v)'
  <2>. SUFFICES ASSUME Yieldable(v), "JOIN" \in request'[v], p_link'[v] = NULL,
                       pc'[v] \notin PastPoint
                PROVE  JoinerComes(v)'
    OBVIOUS
  <2>1. CASE v = u
    BY <1>1, <1>4, <2>1
  <2>2. CASE v # u
    <3>1. pc[v] \notin PastPoint /\ "JOIN" \in request[v]
      BY <1>2, <1>8, <2>2
    <3>2. PICK w \in Thread : pc[w] \in BlockPoint /\ Operand(w) = v
      BY <1>8, <3>1 DEF LinkInv
    <3>. QED  BY <1>1, <1>4, <3>2
  <2>. QED  BY <2>1, <2>2
<1>9. ASSUME NEW v \in ULT PROVE LinkOK(v)'
  BY <1>9 DEF LinkInv
<1>10. ASSUME NEW v \in ULT PROVE JoinerWaits(v)'
  <2>. SUFFICES ASSUME p_link'[v] # NULL, pc'[v] \notin PastPoint
                PROVE  JoinerWaits(v)'
    OBVIOUS
  <2>0. pc[v] \notin PastPoint /\ p_link[v] \in Thread
    BY DEF TypeOK
  <2>1. pc[v] \notin PastPoint /\ p_link[v] \in Thread /\ p_link[v] # t
    BY <2>0 DEF LinkInv
  <2>. QED  BY <1>1, <1>10, <2>1 DEF LinkInv
<1>. HIDE DEF BlockerOK, BlockerAlone, RequestOK, JoinerComes, LinkOK, JoinerWaits
<1>. QED  BY <1>1, <1>5, <1>6, <1>7, <1>8, <1>9, <1>10 DEF LinkInv

(* The callback of a joiner blocks it, or the joiner publishes its link.   *)
LEMMA BlockLink ==
    ASSUME TypeOK, ProgInv, LinkInv, NEW t \in Thread, pc[t] = "join_block",
           pc'[t] = "join_link", state'[t] = "BLOCKED",
           \A v \in Thread \ {t} : pc'[v] = pc[v] /\ state'[v] = state[v],
           UNCHANGED <<p_link, program, request, joiner_futex>>
    PROVE  LinkInv'
<1>1. \A v \in Thread : /\ Operand(v)' = Operand(v)
                        /\ pc'[v] \in BlockPoint <=> pc[v] \in BlockPoint
                        /\ pc[v] \in BlockPoint => Operand(v) \in ULT
  BY DEF Operand, ProgInv, Yieldable
<1>2. ASSUME NEW v \in Thread PROVE BlockerOK(v)'
  BY <1>1, <1>2 DEF LinkInv
<1>3. ASSUME NEW v \in Thread, NEW w \in Thread PROVE BlockerAlone(v, w)'
  BY <1>1, <1>3 DEF LinkInv
<1>4. ASSUME NEW v \in ULT PROVE RequestOK(v)'
  BY <1>4 DEF LinkInv
<1>5. ASSUME NEW v \in ULT PROVE JoinerComes(v)'
  <2>. SUFFICES ASSUME Yieldable(v), "JOIN" \in request'[v], p_link'[v] = NULL,
                       pc'[v] \notin PastPoint
                PROVE  JoinerComes(v)'
    OBVIOUS
  <2>1. pc[v] \notin PastPoint
    BY <1>5
  <2>2. PICK w \in Thread : pc[w] \in BlockPoint /\ Operand(w) = v
    BY <1>5, <2>1 DEF LinkInv
  <2>. QED  BY <1>1, <2>2
<1>6. ASSUME NEW v \in ULT PROVE LinkOK(v)'
  BY <1>6 DEF LinkInv
<1>7. ASSUME NEW v \in ULT PROVE JoinerWaits(v)'
  <2>. SUFFICES ASSUME p_link'[v] # NULL, pc'[v] \notin PastPoint
                PROVE  JoinerWaits(v)'
    OBVIOUS
  <2>1. pc[v] \notin PastPoint /\ p_link[v] \in Thread /\ p_link[v] # t
    BY <1>7 DEF TypeOK, LinkInv
  <2>. QED  BY <1>1, <1>7, <2>1 DEF LinkInv
<1>. HIDE DEF BlockerOK, BlockerAlone, RequestOK, JoinerComes, LinkOK, JoinerWaits
<1>. QED  BY <1>1, <1>2, <1>3, <1>4, <1>5, <1>6, <1>7 DEF LinkInv

(* A joiner publishes its link: it alone was about to.                     *)
LEMMA PublishLink ==
    ASSUME TypeOK, ProgInv, LinkInv, NEW t \in Thread, pc[t] \in BlockPoint,
           NEW u \in ULT, u = Operand(t), p_link' = [p_link EXCEPT ![u] = t],
           \/ Yieldable(t) /\ pc'[t] = "join_resumed" /\ state'[t] = "BLOCKED"
           \/ ~Yieldable(t) /\ pc'[t] = "join_futex" /\ ~joiner_futex'[t],
           \A v \in Thread \ {t} : /\ pc'[v] = pc[v] /\ state'[v] = state[v]
                                   /\ joiner_futex'[v] = joiner_futex[v],
           UNCHANGED <<program, request>>
    PROVE  LinkInv'
<1>1. \A v \in Thread : /\ Operand(v)' = Operand(v)
                        /\ pc'[v] \in BlockPoint <=> pc[v] \in BlockPoint /\ v # t
                        /\ pc[v] \in BlockPoint => Operand(v) \in ULT
  BY DEF Operand, ProgInv, Yieldable
<1>2. /\ t # NULL /\ p_link'[u] = t
      /\ \A v \in ULT \ {u} : p_link'[v] = p_link[v]
      /\ "JOIN" \in request[u]
      /\ pc[u] \notin PastPoint \cup {"exit_resume", "exit_jump"}
  BY ThreadAssumption DEF TypeOK, LinkInv
<1>3. ASSUME NEW v \in Thread PROVE BlockerOK(v)'
  <2>. SUFFICES ASSUME pc'[v] \in BlockPoint PROVE BlockerOK(v)'
    OBVIOUS
  <2>1. v # t /\ pc[v] \in BlockPoint /\ Operand(v) # u /\ Operand(v) \in ULT
    BY <1>1, <1>3 DEF LinkInv
  <2>2. pc'[Operand(v)] = pc[Operand(v)] \/ Operand(v) = t
    BY <2>1
  <2>. QED  BY <1>1, <1>2, <2>1, <2>2 DEF LinkInv
<1>4. ASSUME NEW v \in Thread, NEW w \in Thread PROVE BlockerAlone(v, w)'
  BY <1>1, <1>4 DEF LinkInv
<1>5. ASSUME NEW v \in ULT PROVE RequestOK(v)'
  BY <1>2, <1>5 DEF LinkInv
<1>6. ASSUME NEW v \in ULT PROVE JoinerComes(v)'
  <2>. SUFFICES ASSUME Yieldable(v), "JOIN" \in request'[v], p_link'[v] = NULL,
                       pc'[v] \notin PastPoint
                PROVE  JoinerComes(v)'
    OBVIOUS
  <2>1. v # u /\ pc[v] \notin PastPoint /\ p_link[v] = NULL
    BY <1>2, <1>6
  <2>2. PICK w \in Thread : pc[w] \in BlockPoint /\ Operand(w) = v
    BY <1>6, <2>1 DEF LinkInv
  <2>. QED  BY <1>1, <2>1, <2>2
<1>7. ASSUME NEW v \in ULT PROVE LinkOK(v)'
  <2>. SUFFICES ASSUME pc'[v] \in {"exit_resume", "exit_dec", "exit_jump"} PROVE LinkOK(v)'
    OBVIOUS
  <2>1. v # t /\ pc'[v] = pc[v]
    BY <1>7
  <2>2. CASE v = u
    BY <1>2, <2>1, <2>2, <1>7
  <2>3. CASE v # u
    BY <1>2, <1>7, <2>1, <2>3 DEF LinkInv
  <2>. QED  BY <2>2, <2>3
<1>8. ASSUME NEW v \in ULT PROVE JoinerWaits(v)'
  <2>. SUFFICES ASSUME p_link'[v] # NULL, pc'[v] \notin PastPoint
                PROVE  JoinerWaits(v)'
    OBVIOUS
  <2>1. CASE v = u
    BY <1>1, <1>2, <2>1
  <2>2. CASE v # u
    <3>1. pc[v] \notin PastPoint /\ p_link'[v] = p_link[v] /\ p_link[v] # NULL
      BY <1>2, <1>8, <2>2
    <3>2. p_link[v] \in Thread
      BY <1>8, <3>1 DEF TypeOK
    <3>3. Operand(p_link[v]) = v
      BY <1>8, <3>1 DEF LinkInv
    <3>4. p_link[v] # t
      BY <2>2, <3>3
    <3>. QED  BY <1>1, <1>8, <3>1, <3>2, <3>4 DEF LinkInv
  <2>. QED  BY <2>1, <2>2
<1>. HIDE DEF BlockerOK, BlockerAlone, RequestOK, JoinerComes, LinkOK, JoinerWaits
<1>. QED  BY <1>1, <1>3, <1>4, <1>5, <1>6, <1>7, <1>8 DEF LinkInv

(* A unit that has TERMINATED starts again, without a joiner.              *)
LEMMA ReviveLink ==
    ASSUME TypeOK, ProgInv, LinkInv, NEW t \in Thread, NEW u \in ULT, u # t,
           pc[u] = "done", pc[t] = "idle",
           request' = [request EXCEPT ![u] = {}], p_link' = [p_link EXCEPT ![u] = NULL],
           pc' = [pc EXCEPT ![u] = "idle"], state' = [state EXCEPT ![u] = "READY"],
           UNCHANGED joiner_futex,
           \A v \in Thread \ {t, u} : program'[v] = program[v]
    PROVE  LinkInv'
<1>1. /\ request'[u] = {} /\ p_link'[u] = NULL /\ pc'[u] = "idle"
      /\ \A v \in ULT \ {u} : request'[v] = request[v] /\ p_link'[v] = p_link[v]
      /\ \A v \in Thread \ {u} : pc'[v] = pc[v] /\ state'[v] = state[v]
  BY DEF TypeOK
<1>2. \A v \in Thread : /\ pc'[v] \in BlockPoint <=> pc[v] \in BlockPoint
                        /\ v \notin {t, u} => Operand(v)' = Operand(v)
                        /\ pc[v] \in BlockPoint => /\ v \notin {t, u}
                                                   /\ Operand(v) \in ULT \ {u}
  BY <1>1 DEF Operand, ProgInv, LinkInv, Yieldable
<1>3. ASSUME NEW v \in Thread PROVE BlockerOK(v)'
  <2>. SUFFICES ASSUME pc'[v] \in BlockPoint PROVE BlockerOK(v)'
    OBVIOUS
  <2>1. pc[v] \in BlockPoint /\ Operand(v)' = Operand(v) /\ Operand(v) \in ULT \ {u}
    BY <1>2, <1>3
  <2>. QED  BY <1>1, <2>1 DEF LinkInv
<1>4. ASSUME NEW v \in Thread, NEW w \in Thread PROVE BlockerAlone(v, w)'
  BY <1>2, <1>4 DEF LinkInv
<1>5. ASSUME NEW v \in ULT PROVE RequestOK(v)'
  BY <1>1, <1>5 DEF LinkInv
<1>6. ASSUME NEW v \in ULT PROVE JoinerComes(v)'
  <2>. SUFFICES ASSUME Yieldable(v), "JOIN" \in request'[v], p_link'[v] = NULL,
                       pc'[v] \notin PastPoint
                PROVE  JoinerComes(v)'
    OBVIOUS
  <2>1. v # u /\ pc[v] \notin PastPoint /\ p_link[v] = NULL /\ "JOIN" \in request[v]
    BY <1>1, <1>6
  <2>2. PICK w \in Thread : pc[w] \in BlockPoint /\ Operand(w) = v
    BY <1>6, <2>1 DEF LinkInv
  <2>. QED  BY <1>2, <2>2
<1>7. ASSUME NEW v \in ULT PROVE LinkOK(v)'
  BY <1>1, <1>7 DEF LinkInv
<1>8. ASSUME NEW v \in ULT PROVE JoinerWaits(v)'
  <2>. SUFFICES ASSUME p_link'[v] # NULL, pc'[v] \notin PastPoint
                PROVE  JoinerWaits(v)'
    OBVIOUS
  <2>1. v # u /\ pc[v] \notin PastPoint /\ p_link'[v] = p_link[v] /\ p_link[v] \in Thread
    BY <1>1, <1>8 DEF TypeOK
  <2>2. p_link[v] \notin {t, u}
    BY <1>8, <2>1 DEF LinkInv
  <2>. QED  BY <1>1, <1>2, <1>8, <2>1, <2>2 DEF LinkInv
<1>. HIDE DEF BlockerOK, BlockerAlone, RequestOK, JoinerComes, LinkOK, JoinerWaits
<1>. QED  BY <1>3, <1>4, <1>5, <1>6, <1>7, <1>8 DEF LinkInv

(* Nobody is about to resume a thread that runs at one of these points.    *)
LEMMA NotResumed ==
    ASSUME ProgInv, PlaceInv, LinkInv, NEW t \in Thread, Running(t),
           pc[t] = "join_futex" => joiner_futex[t]
    PROVE  \A u \in ULT : p_link[u] = t => pc[u] \in PastPoint
<1>1. t # NULL
  BY ThreadAssumption
<1>2. t \in ULT => t \in OnXstream
  BY RunningUlt
<1>3. ASSUME NEW u \in ULT, p_link[u] = t, pc[u] \notin PastPoint PROVE FALSE
  <2>1. pc[t] \in {"join_resumed", "join_futex"} /\ (Yieldable(t) => t \notin OnXstream)
    BY <1>1, <1>3, Unlinked
  <2>2. pc[t] = "join_futex" /\ ~Yieldable(t)
    BY <1>2, <2>1 DEF Yieldable, ProgInv
  <2>. QED  BY <1>1, <1>3, <2>2 DEF LinkInv
<1>. QED  BY <1>3

LEMMA StepLinkInv ==
    ASSUME JoinConstants, TypeOK, ProgInv, PlaceInv, LinkInv, [JoinNext]_vars
    PROVE  LinkInv'
<1>. USE DEF At, GoTo
<1>1. ASSUME NEW t \in Thread,
             \/ SelfYield(t) \/ Cancel(t) \/ JoinCall(t) \/ JoinResumed(t) \/ JoinYield(t)
             \/ JoinFutex(t) \/ JoinBusywait(t) \/ ExitCall(t)
      PROVE  LinkInv'
  <2>. USE DEF SelfYield, Cancel, JoinCall, JoinResumed, JoinYield, JoinFutex, JoinBusywait,
               ExitCall
  <2>1. /\ pc[t] \in {"idle", "join_resumed", "join_yield", "join_futex", "join_busywait"}
        /\ Running(t)
        /\ pc[t] = "join_futex" => joiner_futex[t]
    BY <1>1
  <2>2. \A u \in ULT : p_link[u] = t => pc[u] \in PastPoint
    BY <2>1, NotResumed
  <2>3. /\ UNCHANGED p_link
        /\ \A v \in Thread \ {t} : /\ pc'[v] = pc[v] /\ program'[v] = program[v]
                                   /\ state'[v] = state[v]
                                   /\ joiner_futex'[v] = joiner_futex[v]
    BY <1>1 DEF OperationDone, YieldOrCancel, Yield, AddThread, HandleCancel, TypeOK
  <2>4. \A u \in ULT : "JOIN" \in request'[u] <=> "JOIN" \in request[u]
    <3>1. CASE Cancel(t)
      BY <3>1 DEF TypeOK
    <3>2. CASE ~Cancel(t)
      BY <1>1, <3>2
    <3>. QED  BY <3>1, <3>2
  <2>5. \/ pc'[t] \in {"idle", "join_request", "join_yield", "join_busywait", "exit_link"}
        \/ pc'[t] = "terminate" /\ ~Yieldable(t)
    BY <1>1 DEF OperationDone, YieldOrCancel, Yield, HandleCancel, TypeOK
  <2>. QED  BY <2>1, <2>2, <2>3, <2>4, <2>5, LinkFrame
<1>2. ASSUME NEW t \in Thread, JoinRequest(t) PROVE LinkInv'
  <2>. DEFINE u == Operand(t)
  <2>1. /\ pc[t] = "join_request" /\ Running(t) /\ u \in ULT /\ Yieldable(u)
        /\ request' = [request EXCEPT ![u] = @ \cup {"JOIN"}]
        /\ UNCHANGED <<p_link, program, state, joiner_futex>>
        /\ \A v \in Thread \ {t} : pc'[v] = pc[v]
    BY <1>2 DEF JoinRequest, ProgInv, Yieldable, TypeOK
  <2>2. CASE "JOIN" \in request[u]
    <3>1. pc'[t] \in {"join_yield", "join_busywait"}
      BY <1>2, <2>2 DEF JoinRequest, TypeOK
    <3>2. \A v \in ULT : "JOIN" \in request'[v] <=> "JOIN" \in request[v]
      BY <2>1, <2>2 DEF TypeOK
    <3>3. \A v \in ULT : p_link[v] = t => pc[v] \in PastPoint
      BY <2>1, NotResumed
    <3>. QED  BY <2>1, <3>1, <3>2, <3>3, LinkFrame
  <2>3. CASE "JOIN" \notin request[u]
    <3>1. pc'[t] \in {"join_block", "join_publish"}
      BY <1>2, <2>3 DEF JoinRequest, TypeOK
    <3>. QED  BY <2>1, <2>3, <3>1, RequestLink
  <2>. QED  BY <2>2, <2>3
<1>3. ASSUME NEW t \in Thread, JoinBlock(t) PROVE LinkInv'
  <2>1. /\ pc[t] = "join_block" /\ pc'[t] = "join_link" /\ state'[t] = "BLOCKED"
        /\ \A v \in Thread \ {t} : pc'[v] = pc[v] /\ state'[v] = state[v]
        /\ UNCHANGED <<p_link, program, request, joiner_futex>>
    BY <1>3 DEF JoinBlock, CallbackBlock, TypeOK
  <2>. QED  BY <2>1, BlockLink
<1>4. ASSUME NEW t \in Thread, JoinLink(t) \/ JoinPublish(t) PROVE LinkInv'
  <2>1. /\ pc[t] \in BlockPoint /\ Running(t)
        /\ p_link' = [p_link EXCEPT ![Operand(t)] = t]
        /\ UNCHANGED <<program, request, state>>
        /\ \A v \in Thread \ {t} : pc'[v] = pc[v] /\ joiner_futex'[v] = joiner_futex[v]
    BY <1>4 DEF JoinLink, JoinPublish, TypeOK
  <2>2. Operand(t) \in ULT
    BY <2>1 DEF ProgInv, Yieldable
  <2>3. \/ Yieldable(t) /\ pc'[t] = "join_resumed" /\ state'[t] = "BLOCKED"
        \/ ~Yieldable(t) /\ pc'[t] = "join_futex" /\ ~joiner_futex'[t]
    <3>1. CASE JoinLink(t)
      <4>1. pc[t] = "join_link" /\ pc'[t] = "join_resumed" /\ Yieldable(t) /\ t \in ULT
        BY <3>1 DEF JoinLink, ProgInv, TypeOK, Yieldable
      <4>2. state[t] = "BLOCKED"
        BY <2>1, <4>1, RunningUlt DEF PlaceInv
      <4>. QED  BY <2>1, <4>1, <4>2
    <3>2. CASE JoinPublish(t)
      BY <3>2 DEF JoinPublish, ProgInv, TypeOK
    <3>. QED  BY <1>4, <3>1, <3>2
  <2>. QED  BY <2>1, <2>2, <2>3, PublishLink
<1>5. ASSUME NEW t \in Thread, Revive(t) PROVE LinkInv'
  <2>. DEFINE u == Operand(t)
  <2>1. /\ u \in ULT /\ pc[u] = "done" /\ pc[t] = "idle" /\ u # t
        /\ request' = [request EXCEPT ![u] = {}]
        /\ p_link' = [p_link EXCEPT ![u] = NULL]
        /\ pc' = [pc EXCEPT ![u] = "idle"]
        /\ state' = [state EXCEPT ![u] = "READY"]
        /\ UNCHANGED joiner_futex
        /\ \A v \in Thread \ {t, u} : program'[v] = program[v]
    <3>1. u \in ULT
      BY <1>5, OperandType DEF Revive
    <3>2. pc[u] = "done" /\ pc[t] = "idle"
      BY <1>5, <3>1 DEF Revive, PlaceInv
    <3>3. \A v \in Thread \ {t, u} : program'[v] = program[v]
      BY <1>5 DEF Revive, TypeOK
    <3>. QED  BY <1>5, <3>1, <3>2, <3>3 DEF Revive, AddThread
  <2>. QED  BY <2>1, ReviveLink
<1>6. ASSUME NEW t \in Thread, ExitLink(t) \/ ExitRequest(t) \/ ExitSpin(t) PROVE LinkInv'
  <2>. USE DEF ExitLink, ExitRequest, ExitSpin
  <2>1. pc[t] \in {"exit_link", "exit_request", "exit_spin"}
    BY <1>6
  <2>2. t \in ULT /\ Yieldable(t)
    BY <2>1 DEF ProgInv, Yieldable
  <2>3. p_link[t] # NULL => "JOIN" \in request[t]
    BY <2>2 DEF LinkInv
  <2>4. /\ UNCHANGED <<p_link, program, state, joiner_futex>>
        /\ \A v \in Thread \ {t} : pc'[v] = pc[v]
        /\ \A v \in ULT \ {t} : request'[v] = request[v]
        /\ "JOIN" \in request[t] => "JOIN" \in request'[t]
    BY <1>6, <2>2 DEF TypeOK
  <2>5. \/ pc'[t] = "exit_resume" /\ p_link[t] # NULL /\ request' = request
        \/ pc'[t] = "exit_request" /\ request' = request
        \/ pc'[t] = "exit_spin" /\ "JOIN" \in request[t]
        \/ pc'[t] = "terminate" /\ "JOIN" \notin request[t] /\ "JOIN" \in request'[t]
    BY <1>6, <2>2 DEF TypeOK
  <2>. QED  BY <2>1, <2>2, <2>3, <2>4, <2>5, EndFrame
<1>7. ASSUME NEW t \in Thread, ExitResume(t) PROVE LinkInv'
  <2>. DEFINE j == p_link[t]
  <2>1. pc[t] = "exit_resume" /\ t \in ULT /\ Yieldable(t)
    BY <1>7 DEF ExitResume, ProgInv, Yieldable
  <2>2. j # NULL /\ "JOIN" \in request[t]
    BY <2>1 DEF LinkInv
  <2>3. UNCHANGED <<p_link, program, request>> /\ \A v \in Thread \ {t} : pc'[v] = pc[v]
    BY <1>7 DEF ExitResume, ResumePush, ResumeDecNumBlocked, TypeOK
  <2>4. \/ /\ pc'[t] \in {"terminate", "exit_dec"}
           /\ \A v \in Thread : v # j => /\ state'[v] = state[v]
                                        /\ joiner_futex'[v] = joiner_futex[v]
        \/ pc'[t] = "exit_jump" /\ Yieldable(j) /\ UNCHANGED <<state, joiner_futex>>
    BY <1>7 DEF ExitResume, ResumePush, AddThread, ResumeDecNumBlocked, TypeOK
  <2>. QED  BY <2>1, <2>2, <2>3, <2>4, EndFrame
<1>8. ASSUME NEW t \in Thread, ExitJump(t) PROVE LinkInv'
  <2>. DEFINE j == p_link[t]
  <2>1. pc[t] = "exit_jump" /\ t \in ULT /\ Yieldable(t) /\ Running(t)
    BY <1>8 DEF ExitJump, ProgInv, Yieldable
  <2>2. j # NULL /\ "JOIN" \in request[t]
    BY <2>1 DEF LinkInv
  <2>3. /\ UNCHANGED <<p_link, program, request, joiner_futex>>
        /\ pc'[t] = "done"
        /\ \A v \in Thread \ {t} : pc'[v] = pc[v]
        /\ \A v \in Thread \ {j, t} : state'[v] = state[v]
    BY <1>8 DEF ExitJump, TypeOK
  <2>4. state[t] # "BLOCKED"
    BY <2>1, RunningUlt DEF PlaceInv
  <2>. QED  BY <2>1, <2>2, <2>3, <2>4, EndFrame
<1>9. ASSUME NEW t \in Thread, ExitDec(t) \/ Terminate(t) PROVE LinkInv'
  <2>1. /\ pc[t] \in {"exit_dec", "terminate"} /\ Running(t)
        /\ pc'[t] \in {"terminate", "done"}
        /\ UNCHANGED <<p_link, program, request, joiner_futex>>
        /\ \A v \in Thread \ {t} : pc'[v] = pc[v] /\ state'[v] = state[v]
    BY <1>9 DEF ExitDec, ResumeDecNumBlocked, Terminate, Exit, TypeOK
  <2>2. CASE Yieldable(t)
    <3>1. t \in ULT /\ state[t] # "BLOCKED"
      BY <2>1, <2>2, RunningUlt DEF PlaceInv, Yieldable
    <3>2. "JOIN" \in request[t] /\ (pc'[t] = "exit_dec" => p_link[t] # NULL)
      BY <2>1, <2>2, <3>1 DEF LinkInv
    <3>. QED  BY <2>1, <2>2, <3>1, <3>2, EndFrame
  <2>3. CASE ~Yieldable(t)
    <3>1. \A v \in ULT : p_link[v] = t => pc[v] \in PastPoint
      BY <2>1, NotResumed
    <3>. QED  BY <2>1, <2>3, <3>1, LinkFrame
  <2>. QED  BY <2>2, <2>3
<1>10. ASSUME NEW e \in XSTREAM, JoinSchedule(e) PROVE LinkInv'
  <2>1. PICK u \in ULT : u = Head(pool) /\ u \in Range(pool)
    BY <1>10, TailRange DEF JoinSchedule, TypeOK
  <2>2. /\ state[u] = "READY" /\ u \notin OnXstream /\ u # NULL
        /\ pc[u] \in {"idle", "join_yield", "join_resumed"}
    BY <2>1, ThreadAssumption DEF PlaceInv
  <2>3. \A v \in ULT : p_link[v] = u => pc[v] \in PastPoint
    BY <2>2 DEF LinkInv
  <2>4. /\ UNCHANGED <<p_link, request, joiner_futex, program>>
        /\ \A v \in Thread \ {u} : pc'[v] = pc[v] /\ state'[v] = state[v]
        /\ \/ pc'[u] = pc[u]
           \/ pc'[u] = "exit_link"
           \/ pc'[u] = "terminate" /\ ~Yieldable(u)
    BY <1>10, <2>1 DEF JoinSchedule, Schedule, HandleCancel, TypeOK
  <2>. QED  BY <2>2, <2>3, <2>4, LinkFrame
<1>11. CASE UNCHANGED vars
  BY <1>11 DEF vars, LinkInv, Operand
<1>. QED
  BY <1>1, <1>2, <1>3, <1>4, <1>5, <1>6, <1>7, <1>8, <1>9, <1>10, <1>11
  DEF JoinNext, JoinStep, AllDone
-----------------------------------------------------------------------------
(* The joiner that waits for its link to be followed.                      *)

(* t is BLOCKED, or sleeps on its futex.                                   *)
Asleep(t) ==
    \/ pc[t] = "join_resumed" /\ state[t] = "BLOCKED"
    \/ pc[t] = "join_futex" /\ ~joiner_futex[t]

RememberInv ==
    \A t \in Thread : Asleep(t) =>
        p_link[Operand(t)] = t /\ pc[Operand(t)] \notin PastPoint

(* No step of another thread t makes one fall asleep, or be forgotten.     *)
LEMMA RememberFrame ==
    ASSUME TypeOK, ProgInv, RememberInv, NEW t \in Thread,
           \A v \in Thread \ {t} : /\ pc'[v] = pc[v] /\ program'[v] = program[v]
                                   /\ state'[v] = "BLOCKED" => state[v] = "BLOCKED"
                                   /\ ~joiner_futex'[v] => ~joiner_futex[v],
           Asleep(t)' => FALSE,
           UNCHANGED p_link,
           \A v \in Thread : /\ Asleep(v) /\ Operand(v) = t /\ pc[t] \notin PastPoint
                             /\ p_link[t] = v /\ Yieldable(t) /\ pc'[t] \in PastPoint
                            => ~Asleep(v)'
    PROVE  RememberInv'
<1>1. SUFFICES ASSUME NEW v \in Thread, Asleep(v)'
      PROVE  (p_link[Operand(v)] = v /\ pc[Operand(v)] \notin PastPoint)'
  BY DEF RememberInv
<1>2. v # t
  BY <1>1
<1>3. Asleep(v) /\ Operand(v)' = Operand(v)
  BY <1>1, <1>2 DEF Asleep, Operand
<1>4. p_link[Operand(v)] = v /\ pc[Operand(v)] \notin PastPoint
  BY <1>3 DEF RememberInv
<1>5. Yieldable(Operand(v))
  BY <1>3 DEF Asleep, ProgInv
<1>6. pc'[Operand(v)] \notin PastPoint
  <2>1. CASE Operand(v) = t
    BY <1>1, <1>3, <1>4, <1>5, <2>1
  <2>2. CASE Operand(v) # t
    BY <1>4, <1>5, <2>2 DEF Yieldable
  <2>. QED  BY <2>1, <2>2
<1>. QED  BY <1>3, <1>4, <1>6

LEMMA StepRememberInv ==
    ASSUME JoinConstants, TypeOK, ProgInv, PlaceInv, LinkInv, RememberInv, [JoinNext]_vars
    PROVE  RememberInv'
<1>. USE DEF At, GoTo
(* A joiner falls asleep with its link published.                          *)
<1>1. ASSUME NEW t \in Thread, JoinLink(t) \/ JoinPublish(t) PROVE RememberInv'
  <2>1. /\ pc[t] \in BlockPoint /\ pc'[t] \notin PastPoint
        /\ p_link' = [p_link EXCEPT ![Operand(t)] = t]
        /\ UNCHANGED <<program, request, state>>
        /\ \A v \in Thread \ {t} : pc'[v] = pc[v] /\ joiner_futex'[v] = joiner_futex[v]
    BY <1>1 DEF JoinLink, JoinPublish, TypeOK
  <2>2. Operand(t) \in ULT /\ p_link[Operand(t)] = NULL /\ pc[Operand(t)] \notin PastPoint
    BY <2>1 DEF ProgInv, Yieldable, LinkInv
  <2>3. \A v \in Thread : Operand(v)' = Operand(v)
    BY <2>1 DEF Operand
  <2>4. ASSUME NEW v \in Thread, Asleep(v)'
        PROVE  p_link'[Operand(v)] = v /\ pc'[Operand(v)] \notin PastPoint
    <3>1. CASE v = t
      BY <2>1, <2>2, <3>1 DEF TypeOK
    <3>2. CASE v # t
      <4>1. Asleep(v)
        BY <2>1, <2>4, <3>2 DEF Asleep
      <4>2. p_link[Operand(v)] = v /\ pc[Operand(v)] \notin PastPoint /\ Operand(v) \in ULT
        BY <4>1 DEF RememberInv, Asleep, ProgInv, Yieldable
      <4>3. v # NULL /\ Operand(v) # Operand(t)
        BY <2>2, <4>2, ThreadAssumption
      <4>. QED  BY <2>1, <4>2, <4>3 DEF TypeOK
    <3>. QED  BY <3>1, <3>2
  <2>. QED  BY <2>3, <2>4 DEF RememberInv
(* The ones about to be revived have TERMINATED.                           *)
<1>2. ASSUME NEW t \in Thread, Revive(t) PROVE RememberInv'
  <2>. DEFINE u == Operand(t)
  <2>1. /\ u \in ULT /\ pc[u] = "done" /\ pc[t] = "idle" /\ u # t
        /\ p_link' = [p_link EXCEPT ![u] = NULL]
        /\ pc' = [pc EXCEPT ![u] = "idle"]
        /\ state' = [state EXCEPT ![u] = "READY"]
        /\ UNCHANGED joiner_futex
        /\ \A v \in Thread \ {t, u} : program'[v] = program[v]
    <3>1. u \in ULT
      BY <1>2, OperandType DEF Revive
    <3>2. pc[u] = "done" /\ pc[t] = "idle"
      BY <1>2, <3>1 DEF Revive, PlaceInv
    <3>3. \A v \in Thread \ {t, u} : program'[v] = program[v]
      BY <1>2 DEF Revive, TypeOK
    <3>. QED  BY <1>2, <3>1, <3>2, <3>3 DEF Revive, AddThread
  <2>2. ASSUME NEW v \in Thread, Asleep(v)'
        PROVE  /\ Operand(v)' = Operand(v)
               /\ p_link'[Operand(v)] = v /\ pc'[Operand(v)] \notin PastPoint
    <3>1. v \notin {t, u} /\ Asleep(v)
      BY <2>1, <2>2 DEF Asleep, TypeOK
    <3>2. p_link[Operand(v)] = v /\ pc[Operand(v)] \notin PastPoint /\ Operand(v) \in ULT
      BY <3>1 DEF RememberInv, Asleep, ProgInv, Yieldable
    <3>. QED  BY <2>1, <3>1, <3>2 DEF TypeOK, Operand
  <2>. QED  BY <2>2 DEF RememberInv
(* A ULT ends that has a joiner: it wakes it, or had resumed it.           *)
<1>3. ASSUME NEW t \in Thread, ExitResume(t) PROVE RememberInv'
  <2>. DEFINE j == p_link[t]
  <2>1. pc[t] = "exit_resume" /\ t \in ULT /\ Yieldable(t)
    BY <1>3 DEF ExitResume, ProgInv, Yieldable
  <2>2. j # NULL /\ j \in Thread /\ (Yieldable(j) => pc[j] = "join_resumed")
                 /\ (~Yieldable(j) => pc[j] = "join_futex")
    BY <2>1 DEF LinkInv, TypeOK
  <2>3. UNCHANGED <<p_link, program>> /\ \A v \in Thread \ {t} : pc'[v] = pc[v]
    BY <1>3 DEF ExitResume, ResumePush, ResumeDecNumBlocked, TypeOK
  <2>4. /\ \A v \in Thread : /\ state'[v] = "BLOCKED" => state[v] = "BLOCKED"
                             /\ ~joiner_futex'[v] => ~joiner_futex[v]
        /\ \/ Yieldable(j) /\ state'[j] = "READY"
           \/ ~Yieldable(j) /\ joiner_futex'[j]
           \/ pc'[t] = "exit_jump"
        /\ pc'[t] \in {"terminate", "exit_dec", "exit_jump"}
    BY <1>3, <2>2 DEF ExitResume, ResumePush, AddThread, ResumeDecNumBlocked, TypeOK, Yieldable
  <2>5. ~Asleep(t)'
    BY <2>4 DEF Asleep
  <2>6. ASSUME NEW v \in Thread, p_link[t] = v, pc'[t] \in PastPoint PROVE ~Asleep(v)'
    BY <2>1, <2>2, <2>3, <2>4, <2>6 DEF Asleep
  <2>. QED  BY <2>3, <2>4, <2>5, <2>6, RememberFrame
<1>4. ASSUME NEW t \in Thread, ExitJump(t) PROVE RememberInv'
  <2>. DEFINE j == p_link[t]
  <2>1. pc[t] = "exit_jump" /\ t \in ULT
    BY <1>4 DEF ExitJump, ProgInv, Yieldable
  <2>2. j # NULL /\ j \in Thread /\ pc[j] = "join_resumed" /\ j # t
    BY <2>1 DEF LinkInv, TypeOK, Yieldable
  <2>3. /\ UNCHANGED <<p_link, program, joiner_futex>>
        /\ pc'[t] = "done"
        /\ \A v \in Thread \ {t} : pc'[v] = pc[v]
        /\ state'[j] = "RUNNING"
        /\ \A v \in Thread \ {j, t} : state'[v] = state[v]
    BY <1>4, <2>2 DEF ExitJump, TypeOK
  <2>4. ~Asleep(t)' /\ ~Asleep(j)'
    BY <2>2, <2>3 DEF Asleep
  <2>5. \A v \in Thread \ {t} : state'[v] = "BLOCKED" => state[v] = "BLOCKED"
    BY <2>3
  <2>. QED  BY <2>3, <2>4, <2>5, RememberFrame
<1>5. ASSUME NEW t \in Thread,
             \/ ExitLink(t) \/ ExitRequest(t) \/ ExitSpin(t) \/ ExitDec(t) \/ Terminate(t)
      PROVE  RememberInv'
  <2>. USE DEF ExitLink, ExitRequest, ExitSpin, ExitDec, ResumeDecNumBlocked, Terminate, Exit
  <2>1. /\ UNCHANGED <<p_link, program, joiner_futex>>
        /\ pc'[t] \notin {"join_resumed", "join_futex"}
        /\ \A v \in Thread \ {t} : pc'[v] = pc[v] /\ state'[v] = state[v]
    BY <1>5 DEF TypeOK
  <2>2. ~Asleep(t)'
    BY <2>1 DEF Asleep
  <2>3. pc'[t] \in PastPoint /\ pc[t] \notin PastPoint
          => pc[t] = "exit_request" /\ "JOIN" \notin request[t]
    BY <1>5 DEF TypeOK
  <2>4. ASSUME NEW v \in Thread, pc[t] \notin PastPoint, p_link[t] = v, Yieldable(t),
               pc'[t] \in PastPoint
        PROVE  FALSE
    BY <2>3, <2>4, ThreadAssumption DEF LinkInv, Yieldable
  <2>. QED  BY <2>1, <2>2, <2>4, RememberFrame
<1>6. ASSUME NEW t \in Thread,
             \/ SelfYield(t) \/ Cancel(t) \/ JoinCall(t) \/ JoinResumed(t) \/ JoinYield(t)
             \/ JoinFutex(t) \/ JoinBusywait(t) \/ ExitCall(t) \/ JoinRequest(t) \/ JoinBlock(t)
      PROVE  RememberInv'
  <2>. USE DEF SelfYield, Cancel, JoinCall, JoinResumed, JoinYield, JoinFutex, JoinBusywait,
               ExitCall, JoinRequest, JoinBlock, CallbackBlock
  <2>1. /\ UNCHANGED <<p_link, joiner_futex>>
        /\ \A v \in Thread \ {t} : /\ pc'[v] = pc[v] /\ program'[v] = program[v]
                                   /\ state'[v] = state[v]
    BY <1>6 DEF OperationDone, YieldOrCancel, Yield, AddThread, HandleCancel, TypeOK
  <2>2. /\ pc'[t] \notin {"join_resumed", "join_futex"}
        /\ pc'[t] \in PastPoint => ~Yieldable(t)
    BY <1>6 DEF OperationDone, YieldOrCancel, Yield, HandleCancel, TypeOK
  <2>3. ~Asleep(t)'
    BY <2>2 DEF Asleep
  <2>. QED  BY <2>1, <2>2, <2>3, RememberFrame
<1>7. ASSUME NEW e \in XSTREAM, JoinSchedule(e) PROVE RememberInv'
  <2>1. PICK u \in ULT : u = Head(pool) /\ u \in Range(pool)
    BY <1>7, TailRange DEF JoinSchedule, TypeOK
  <2>2. state[u] = "READY" /\ pc[u] \in {"idle", "join_yield", "join_resumed"}
    BY <2>1 DEF PlaceInv
  <2>3. /\ UNCHANGED <<p_link, joiner_futex, program>>
        /\ \A v \in Thread \ {u} : pc'[v] = pc[v] /\ state'[v] = state[v]
        /\ state'[u] \in {"READY", "RUNNING"}
        /\ \/ pc'[u] = pc[u]
           \/ pc'[u] = "exit_link"
           \/ pc'[u] = "terminate" /\ ~Yieldable(u)
    BY <1>7, <2>1, <2>2 DEF JoinSchedule, Schedule, HandleCancel, TypeOK
  <2>4. ~Asleep(u)'
    BY <2>2, <2>3 DEF Asleep
  <2>. QED  BY <2>2, <2>3, <2>4, RememberFrame
<1>8. CASE UNCHANGED vars
  BY <1>8 DEF vars, RememberInv, Asleep, Operand
<1>. QED
  BY <1>1, <1>2, <1>3, <1>4, <1>5, <1>6, <1>7, <1>8 DEF JoinNext, JoinStep, AllDone

-----------------------------------------------------------------------------
(* The count of the pool.                                                  *)

Pushed == {u \in ULT : pc[u] = "exit_dec"}

Jumping == {u \in ULT : pc[u] = "exit_jump"}

LEMMA CountFinite ==
    /\ IsFiniteSet(Pushed) /\ Cardinality(Pushed) \in Nat
    /\ IsFiniteSet(Jumping) /\ Cardinality(Jumping) \in Nat
    /\ IsFiniteSet(Blocked) /\ Cardinality(Blocked) \in Nat
<1>1. Pushed \subseteq ULT /\ Jumping \subseteq ULT
  BY DEF Pushed, Jumping
<1>. QED  BY <1>1, FS_Subset, FS_CardinalityType, ThreadAssumption, BlockedFinite

(* What the count is, with names.                                          *)
LEMMA CountNamed ==
    BlockedUltsCounted
      <=> num_blocked = Cardinality(Blocked) + Cardinality(Pushed) - Cardinality(Jumping)
  BY DEF BlockedUltsCounted, Blocked, Pushed, Jumping

(* A step of one thread that blocks nobody, resumes nobody, and is not     *)
(* about to count.                                                         *)
LEMMA CountUnchanged ==
    ASSUME BlockedUltsCounted, UNCHANGED num_blocked,
           \A u \in ULT : /\ state'[u] = "BLOCKED" <=> state[u] = "BLOCKED"
                          /\ pc'[u] = "exit_dec" <=> pc[u] = "exit_dec"
                          /\ pc'[u] = "exit_jump" <=> pc[u] = "exit_jump"
    PROVE  BlockedUltsCounted'
<1>1. Blocked' = Blocked /\ Pushed' = Pushed /\ Jumping' = Jumping
  BY DEF Blocked, Pushed, Jumping
<1>. QED  BY <1>1 DEF BlockedUltsCounted, Blocked, Pushed, Jumping

LEMMA StepCounted ==
    ASSUME JoinConstants, TypeOK, ProgInv, PlaceInv, LinkInv, BlockedUltsCounted,
           [JoinNext]_vars
    PROVE  BlockedUltsCounted'
<1>. USE DEF At, GoTo
<1>1. /\ num_blocked = Cardinality(Blocked) + Cardinality(Pushed) - Cardinality(Jumping)
      /\ IsFiniteSet(Pushed) /\ Cardinality(Pushed) \in Nat
      /\ IsFiniteSet(Jumping) /\ Cardinality(Jumping) \in Nat
      /\ IsFiniteSet(Blocked) /\ Cardinality(Blocked) \in Nat
  BY CountNamed, CountFinite
<1>2. SUFFICES num_blocked' = Cardinality(Blocked') + Cardinality(Pushed')
                              - Cardinality(Jumping')
  BY DEF BlockedUltsCounted, Blocked, Pushed, Jumping
(* A running unit is BLOCKED only in its callback.                         *)
<1>3. \A t \in ULT : Running(t) /\ pc[t] # "join_link" => state[t] # "BLOCKED"
  BY RunningUlt DEF PlaceInv
<1>4. ASSUME NEW t \in Thread, JoinBlock(t)
      PROVE  num_blocked' = Cardinality(Blocked') + Cardinality(Pushed') - Cardinality(Jumping')
  <2>1. t \in ULT /\ state[t] # "BLOCKED"
    BY <1>3, <1>4 DEF JoinBlock, ProgInv, Yieldable
  <2>2. Blocked' = Blocked \cup {t} /\ t \notin Blocked
    BY <1>4, <2>1 DEF JoinBlock, CallbackBlock, Blocked, TypeOK
  <2>3. Pushed' = Pushed /\ Jumping' = Jumping
    BY <1>4 DEF JoinBlock, CallbackBlock, Pushed, Jumping, TypeOK
  <2>4. Cardinality(Blocked') = Cardinality(Blocked) + 1
    BY <1>1, <2>2, FS_AddElement
  <2>5. num_blocked' = num_blocked + 1
    BY <1>4 DEF JoinBlock, CallbackBlock
  <2>. QED  BY <1>1, <2>3, <2>4, <2>5
<1>5. ASSUME NEW t \in Thread, ExitResume(t)
      PROVE  num_blocked' = Cardinality(Blocked') + Cardinality(Pushed') - Cardinality(Jumping')
  <2>. DEFINE j == p_link[t]
  <2>1. pc[t] = "exit_resume" /\ t \in ULT /\ j # NULL
    BY <1>5 DEF ExitResume, ProgInv, Yieldable, LinkInv
  <2>2. Yieldable(j) => j \in ULT /\ state[j] = "BLOCKED"
    BY <2>1 DEF LinkInv, Yieldable
  <2>3. CASE GoTo(t, "terminate") /\ UNCHANGED <<state, p_thread, pool, num_blocked>>
    <3>1. Blocked' = Blocked /\ Pushed' = Pushed /\ Jumping' = Jumping
      BY <2>1, <2>3 DEF Blocked, Pushed, Jumping, TypeOK
    <3>. QED  BY <1>1, <2>3, <3>1
  <2>4. CASE Yieldable(j) /\ ResumePush(t, j, "exit_dec")
    <3>1. Blocked' = Blocked \ {j} /\ j \in Blocked
      BY <2>2, <2>4 DEF ResumePush, AddThread, Blocked, TypeOK
    <3>2. Pushed' = Pushed \cup {t} /\ t \notin Pushed /\ Jumping' = Jumping
      BY <2>1, <2>4 DEF ResumePush, Pushed, Jumping, TypeOK
    <3>3. Cardinality(Blocked') = Cardinality(Blocked) - 1
      BY <1>1, <3>1, FS_RemoveElement
    <3>4. Cardinality(Pushed') = Cardinality(Pushed) + 1
      BY <1>1, <3>2, FS_AddElement
    <3>5. num_blocked' = num_blocked
      BY <2>4 DEF ResumePush
    <3>. QED  BY <1>1, <3>2, <3>3, <3>4, <3>5
  <2>5. CASE ResumeDecNumBlocked(t, "exit_jump")
    <3>1. Blocked' = Blocked /\ Pushed' = Pushed
      BY <2>1, <2>5 DEF ResumeDecNumBlocked, Blocked, Pushed, TypeOK
    <3>2. Jumping' = Jumping \cup {t} /\ t \notin Jumping
      BY <2>1, <2>5 DEF ResumeDecNumBlocked, Jumping, TypeOK
    <3>3. Cardinality(Jumping') = Cardinality(Jumping) + 1
      BY <1>1, <3>2, FS_AddElement
    <3>4. num_blocked' = num_blocked - 1
      BY <2>5 DEF ResumeDecNumBlocked
    <3>. QED  BY <1>1, <3>1, <3>3, <3>4
  <2>. QED  BY <1>5, <2>3, <2>4, <2>5 DEF ExitResume
<1>6. ASSUME NEW t \in Thread, ExitDec(t)
      PROVE  num_blocked' = Cardinality(Blocked') + Cardinality(Pushed') - Cardinality(Jumping')
  <2>1. t \in ULT /\ pc[t] = "exit_dec"
    BY <1>6 DEF ExitDec, ProgInv, Yieldable
  <2>2. Blocked' = Blocked /\ Jumping' = Jumping
    BY <1>6 DEF ExitDec, ResumeDecNumBlocked, Blocked, Jumping, TypeOK
  <2>3. Pushed' = Pushed \ {t} /\ t \in Pushed
    BY <1>6, <2>1 DEF ExitDec, ResumeDecNumBlocked, Pushed, TypeOK
  <2>4. Cardinality(Pushed') = Cardinality(Pushed) - 1
    BY <1>1, <2>3, FS_RemoveElement
  <2>5. num_blocked' = num_blocked - 1
    BY <1>6 DEF ExitDec, ResumeDecNumBlocked
  <2>. QED  BY <1>1, <2>2, <2>4, <2>5
<1>7. ASSUME NEW t \in Thread, ExitJump(t)
      PROVE  num_blocked' = Cardinality(Blocked') + Cardinality(Pushed') - Cardinality(Jumping')
  <2>. DEFINE j == p_link[t]
  <2>1. pc[t] = "exit_jump" /\ t \in ULT /\ state[t] # "BLOCKED"
    BY <1>3, <1>7 DEF ExitJump, ProgInv, Yieldable
  <2>2. j \in ULT /\ state[j] = "BLOCKED" /\ j # t
    BY <2>1 DEF LinkInv, Yieldable
  <2>3. Blocked' = Blocked \ {j} /\ j \in Blocked
    BY <1>7, <2>1, <2>2 DEF ExitJump, Blocked, TypeOK
  <2>4. Jumping' = Jumping \ {t} /\ t \in Jumping /\ Pushed' = Pushed
    BY <1>7, <2>1 DEF ExitJump, Jumping, Pushed, TypeOK
  <2>5. Cardinality(Blocked') = Cardinality(Blocked) - 1
    BY <1>1, <2>3, FS_RemoveElement
  <2>6. Cardinality(Jumping') = Cardinality(Jumping) - 1
    BY <1>1, <2>4, FS_RemoveElement
  <2>7. num_blocked' = num_blocked
    BY <1>7 DEF ExitJump
  <2>. QED  BY <1>1, <2>4, <2>5, <2>6, <2>7
<1>8. ASSUME NEW t \in Thread,
             \/ SelfYield(t) \/ Cancel(t) \/ JoinCall(t) \/ JoinResumed(t) \/ JoinYield(t)
             \/ JoinFutex(t) \/ JoinBusywait(t) \/ ExitCall(t) \/ JoinRequest(t) \/ JoinLink(t)
             \/ JoinPublish(t) \/ ExitLink(t) \/ ExitRequest(t) \/ ExitSpin(t) \/ Terminate(t)
      PROVE  BlockedUltsCounted'
  <2>. USE DEF SelfYield, Cancel, JoinCall, JoinResumed, JoinYield, JoinFutex, JoinBusywait,
               ExitCall, JoinRequest, JoinLink, JoinPublish, ExitLink, ExitRequest, ExitSpin,
               Terminate, Exit
  <2>1. /\ Running(t)
        /\ \A u \in Thread \ {t} : pc'[u] = pc[u] /\ state'[u] = state[u]
        /\ UNCHANGED num_blocked
    BY <1>8 DEF OperationDone, YieldOrCancel, Yield, AddThread, HandleCancel, TypeOK
  <2>2. /\ pc[t] \notin {"exit_dec", "exit_jump"}
        /\ pc'[t] \notin {"exit_dec", "exit_jump"}
    BY <1>8 DEF OperationDone, YieldOrCancel, Yield, HandleCancel, TypeOK
  <2>3. UNCHANGED state \/ (pc[t] # "join_link" /\ state'[t] # "BLOCKED")
    BY <1>8 DEF OperationDone, YieldOrCancel, Yield, AddThread, HandleCancel, TypeOK
  <2>. QED  BY <1>3, <2>1, <2>2, <2>3, CountUnchanged
<1>9. ASSUME NEW t \in Thread, Revive(t) PROVE BlockedUltsCounted'
  <2>1. /\ Operand(t) \in ULT /\ state[Operand(t)] = "TERMINATED" /\ pc[Operand(t)] = "done"
        /\ pc' = [pc EXCEPT ![Operand(t)] = "idle"]
        /\ state' = [state EXCEPT ![Operand(t)] = "READY"]
        /\ UNCHANGED num_blocked
    BY <1>9, OperandType DEF Revive, PlaceInv, AddThread
  <2>. QED  BY <2>1, CountUnchanged DEF TypeOK
<1>10. ASSUME NEW e \in XSTREAM, JoinSchedule(e) PROVE BlockedUltsCounted'
  <2>1. PICK u \in ULT : u = Head(pool) /\ u \in Range(pool)
    BY <1>10, TailRange DEF JoinSchedule, TypeOK
  <2>2. state[u] = "READY" /\ pc[u] \in {"idle", "join_yield", "join_resumed"}
    BY <2>1 DEF PlaceInv
  <2>3. /\ UNCHANGED num_blocked
        /\ \A v \in Thread \ {u} : pc'[v] = pc[v] /\ state'[v] = state[v]
        /\ state'[u] \in {"READY", "RUNNING"}
        /\ pc'[u] \in {pc[u], "exit_link", "terminate"}
    BY <1>10, <2>1, <2>2 DEF JoinSchedule, Schedule, HandleCancel, TypeOK
  <2>. QED  BY <2>2, <2>3, CountUnchanged
<1>11. ASSUME UNCHANGED vars PROVE BlockedUltsCounted'
  <2>1. UNCHANGED <<pc, state, num_blocked>>
    BY <1>11 DEF vars
  <2>2. \A u \in ULT : state'[u] = state[u] /\ pc'[u] = pc[u]
    BY <2>1
  <2>. QED  BY <2>1, <2>2, CountUnchanged
<1>12. BlockedUltsCounted' => num_blocked' = Cardinality(Blocked') + Cardinality(Pushed')
                                            - Cardinality(Jumping')
  BY DEF BlockedUltsCounted, Blocked, Pushed, Jumping
<1>. QED
  BY <1>4, <1>5, <1>6, <1>7, <1>8, <1>9, <1>10, <1>11, <1>12 DEF JoinNext, JoinStep, AllDone

-----------------------------------------------------------------------------
(* The theorems.                                                           *)

IInv == TypeOK /\ ProgInv /\ PlaceInv /\ LinkInv /\ RememberInv /\ BlockedUltsCounted

LEMMA InitInv ==
    ASSUME JoinConstants, JoinInit
    PROVE  IInv
<1>1. RememberInv
  BY DEF JoinInit, YthreadInit, RememberInv, Asleep
<1>2. BlockedUltsCounted
  <2>1. Blocked = {} /\ Pushed = {} /\ Jumping = {} /\ num_blocked = 0
    BY DEF JoinInit, YthreadInit, Blocked, Pushed, Jumping
  <2>. QED  BY <2>1, CountNamed, FS_EmptySet
<1>. QED
  BY <1>1, <1>2, InitTypeOK, InitProgInv, InitPlaceInv, InitLinkInv DEF IInv

LEMMA StepInv ==
    ASSUME JoinConstants, IInv, [JoinNext]_vars
    PROVE  IInv'
<1>1. TypeOK' /\ ProgInv'
  BY StepTypeOK, StepProgInv DEF IInv
<1>2. PlaceInv' /\ LinkInv'
  BY StepPlaceInv, StepLinkInv DEF IInv
<1>3. RememberInv' /\ BlockedUltsCounted'
  BY StepRememberInv, StepCounted DEF IInv
<1>. QED  BY <1>1, <1>2, <1>3 DEF IInv

(* The inductive invariant: from the points and the places of the units to *)
(* the two words on which a joiner and its ULT meet.                       *)
THEOREM Invariance ==
    ASSUME JoinConstants
    PROVE  JoinSpec => []IInv
<1>1. JoinInit => IInv
  BY InitInv
<1>2. IInv /\ [JoinNext]_vars => IInv'
  BY StepInv
<1>. QED  BY <1>1, <1>2, PTL DEF JoinSpec

(* A ULT resumes or jumps to a joiner that is BLOCKED and off its ES.      *)
THEOREM Resumes ==
    ASSUME JoinConstants
    PROVE  JoinSpec => []ResumesBlockedJoiner
<1>1. IInv => ResumesBlockedJoiner
  <2>1. SUFFICES ASSUME IInv, NEW u \in ULT, pc[u] \in {"exit_resume", "exit_jump"},
                        Yieldable(p_link[u])
                 PROVE  state[p_link[u]] = "BLOCKED" /\ p_link[u] \notin OnXstream
    BY DEF ResumesBlockedJoiner
  <2>2. p_link[u] # NULL
    BY <2>1 DEF IInv, LinkInv
  <2>3. pc[p_link[u]] = "join_resumed" /\ state[p_link[u]] = "BLOCKED"
    BY <2>1, <2>2 DEF IInv, LinkInv
  <2>4. p_link[u] \notin OnXstream
    BY <2>1, <2>3 DEF IInv, PlaceInv
  <2>. QED  BY <2>3, <2>4
<1>. QED  BY <1>1, Invariance, PTL

(* A joiner that is BLOCKED, or asleep on its futex, will be resumed: its  *)
(* ULT has its link, and has not gone past it.                             *)
THEOREM Remembered ==
    ASSUME JoinConstants
    PROVE  JoinSpec => []JoinerRemembered
<1>1. IInv => JoinerRemembered
  BY DEF IInv, RememberInv, Asleep, JoinerRemembered
<1>. QED  BY <1>1, Invariance, PTL

(* A ULT spins only for a joiner that runs.                                *)
THEOREM Spins ==
    ASSUME JoinConstants
    PROVE  JoinSpec => []SpinsForRunningJoiner
<1>1. IInv => SpinsForRunningJoiner
  <2>1. SUFFICES ASSUME IInv, NEW u \in ULT, pc[u] = "exit_spin", p_link[u] = NULL
                 PROVE  \E t \in Thread : /\ pc[t] \in BlockPoint
                                          /\ Operand(t) = u
                                          /\ Running(t)
    BY DEF SpinsForRunningJoiner
  <2>2. Yieldable(u) /\ "JOIN" \in request[u]
    BY <2>1 DEF IInv, ProgInv, LinkInv
  <2>3. PICK t \in Thread : pc[t] \in BlockPoint /\ Operand(t) = u
    BY <2>1, <2>2 DEF IInv, LinkInv
  <2>. QED  BY <2>1, <2>3, BlockerRuns DEF IInv
<1>. QED  BY <1>1, Invariance, PTL

(* num_blocked is the number of BLOCKED ULTs, but for the ones on their    *)
(* way out of it.                                                          *)
THEOREM Counted ==
    ASSUME JoinConstants
    PROVE  JoinSpec => []BlockedUltsCounted
<1>1. IInv => BlockedUltsCounted
  BY DEF IInv
<1>. QED  BY <1>1, Invariance, PTL

-----------------------------------------------------------------------------
(* The barrier.                                                            *)

HIDE DEF joinVars, BlockPoint, PastPoint, JoinPoint, YieldPoint, ProgOK,
         BlockerOK, BlockerAlone, RequestOK, JoinerComes, LinkOK, JoinerWaits

USE DEF WaitlistTypeOK, waitlistVars

WakePoint == {"broadcast", "broadcast_dec", "reset"}

(* The lock is held by one thread, or for ever by the one that freed the   *)
(* barrier.                                                                *)
LockInv ==
    /\ \A t, u \in Thread : pc[t] \in PLockPoint /\ pc[u] \in PLockPoint => t = u
    /\ p_lock <=> freed \/ \E t \in Thread : pc[t] \in PLockPoint
    /\ freed => \A t \in Thread : pc[t] \notin PLockPoint

(* The counter is the length of the list, but while the last arrival wakes *)
(* the others.                                                             *)
ArrivalInv ==
    /\ (\A t \in Thread : pc[t] \notin WakePoint)
         => counter = Len(waitlist) /\ counter < NUM_WAITERS
    /\ \A t \in Thread : pc[t] \in WakePoint => counter = NUM_WAITERS
    /\ \A t \in Thread : pc[t] = "reset" => waitlist = <<>>

BarrierInv == BarrierTypeOK /\ LockInv /\ ArrivalInv /\ WaitInv

USE DEF PLockPoint, WaitLockPoint, WaitPoint, BarrierPoint, WakePoint

(* Initially nobody is at the barrier.                                     *)
LEMMA BarrierInitInv ==
    ASSUME BarrierConstants, BarrierInit
    PROVE  BarrierInv
<1>. USE DEF BarrierInit, BarrierConstants
<1>1. BarrierTypeOK
  <2>1. YthreadTypeOK(BarrierPoint) /\ WaitlistTypeOK
    BY InitTypes
  <2>2. counter \in 0 .. NUM_WAITERS
    OBVIOUS
  <2>3. freed \in BOOLEAN /\ todo \in [Thread -> Nat]
    OBVIOUS
  <2>. QED  BY <2>1, <2>2, <2>3 DEF BarrierTypeOK
<1>2. LockInv
  BY DEF LockInv, YthreadInit, WaitlistInit
<1>3. ArrivalInv
  BY DEF ArrivalInv, YthreadInit, WaitlistInit
<1>4. WaitInv
  BY WaitInitInv
<1>. QED  BY <1>1, <1>2, <1>3, <1>4 DEF BarrierInv

(* The variables keep their types.                                         *)
LEMMA StepBarrierTypeOK ==
    ASSUME BarrierConstants, BarrierTypeOK, LockInv, ArrivalInv, [BarrierNext]_allVars
    PROVE  BarrierTypeOK'
<1>. USE DEF BarrierTypeOK, waitlistVars, barrierVars, ythreadVars, GoTo, At, BarrierConstants
<1>1. ASSUME NEW t \in Thread, BarrierWait(t) PROVE BarrierTypeOK'
  BY <1>1 DEF BarrierWait, SpinAcquire
<1>2. ASSUME NEW t \in Thread, ArriveWait(t) PROVE BarrierTypeOK'
  <2>1. YthreadTypeOK(BarrierPoint)' /\ WaitlistTypeOK'
    BY <1>2, WaitAppendTypes DEF ArriveWait
  <2>2. counter' \in 0 .. NUM_WAITERS /\ UNCHANGED <<freed, todo>>
    BY <1>2 DEF ArriveWait
  <2>. QED  BY <2>1, <2>2
<1>3. ASSUME NEW t \in Thread, ArriveLast(t) PROVE BarrierTypeOK'
  <2>1. \A u \in Thread : pc[u] \notin WakePoint
    BY <1>3 DEF ArriveLast, LockInv
  <2>2. counter' \in 0 .. NUM_WAITERS
    BY <1>3, <2>1 DEF ArriveLast, ArrivalInv
  <2>. QED  BY <1>3, <2>2 DEF ArriveLast
<1>4. ASSUME NEW t \in Thread, WakeWaiters(t) PROVE BarrierTypeOK'
  <2>1. Broadcast(t, "broadcast", "broadcast_dec", "reset")
    BY <1>4 DEF WakeWaiters
  <2>2. {"broadcast", "broadcast_dec", "reset"} \subseteq BarrierPoint
    OBVIOUS
  <2>. HIDE DEF BarrierPoint, YthreadTypeOK, WaitlistTypeOK
  <2>3. YthreadTypeOK(BarrierPoint)' /\ WaitlistTypeOK'
    BY <2>1, <2>2, BroadcastTypes
  <2>. QED  BY <1>4, <2>3 DEF WakeWaiters
<1>5. ASSUME NEW t \in Thread, ResetCounter(t) PROVE BarrierTypeOK'
  BY <1>5 DEF ResetCounter
<1>6. ASSUME NEW t \in Thread, LastUnlock(t) PROVE BarrierTypeOK'
  BY <1>6 DEF LastUnlock, SpinRelease
<1>7. ASSUME NEW t \in Thread, Wait(t) PROVE BarrierTypeOK'
  BY <1>7, WaitStepTypes DEF Wait
<1>8. ASSUME NEW t \in Thread, BarrierFree(t) PROVE BarrierTypeOK'
  BY <1>8 DEF BarrierFree, SpinAcquire
<1>9. ASSUME NEW t \in Thread, ThreadExit(t) PROVE BarrierTypeOK'
  BY <1>9, SwitchTypes DEF ThreadExit
<1>10. ASSUME NEW e \in XSTREAM, BarrierSchedule(e) PROVE BarrierTypeOK'
  BY <1>10, SwitchTypes DEF BarrierSchedule
<1>11. CASE UNCHANGED allVars
  BY <1>11 DEF allVars
<1>. QED
  BY <1>1, <1>2, <1>3, <1>4, <1>5, <1>6, <1>7, <1>8, <1>9, <1>10, <1>11
  DEF BarrierNext, BarrierStep, BarrierDone

(* The steps of a wait move p_lock with its holder, and leave the list and *)
(* the points of the barrier alone.                                        *)
LEMMA WaitLocks ==
    ASSUME BarrierTypeOK, LockInv, NEW t \in Thread, Wait(t)
    PROVE  /\ LockInv'
           /\ UNCHANGED <<waitlist, counter, freed, todo>>
           /\ \A u \in Thread \ {t} : pc'[u] = pc[u]
           /\ pc[t] \in WaitPoint
           /\ pc'[t] \in WaitPoint \cup {"idle"}
<1>. USE DEF BarrierTypeOK, LockInv, barrierVars, waitlistVars, GoTo, At, Wait
<1>1. CASE SuspendBlock(t)
  BY <1>1 DEF SuspendBlock, CallbackBlock
<1>2. CASE SuspendUnlock(t)
  BY <1>2 DEF SuspendUnlock
<1>3. CASE WaitResumed(t, "idle")
  BY <1>3 DEF WaitResumed
<1>4. CASE ExtReady(t, "idle")
  BY <1>4 DEF ExtReady, SpinRelease
<1>5. CASE ExtFutexWait(t)
  BY <1>5 DEF ExtFutexWait
<1>6. CASE ExtFutexWake(t, "idle")
  BY <1>6 DEF ExtFutexWake
<1>7. CASE ExtRelock(t)
  BY <1>7 DEF ExtRelock, SpinAcquire
<1>. QED  BY <1>1, <1>2, <1>3, <1>4, <1>5, <1>6, <1>7 DEF WaitStep

(* One thread holds the lock at a time.                                    *)
LEMMA StepLockInv ==
    ASSUME BarrierTypeOK, LockInv, [BarrierNext]_allVars
    PROVE  LockInv'
<1>. USE DEF BarrierTypeOK, LockInv, waitlistVars, barrierVars, GoTo, At
<1>1. ASSUME NEW t \in Thread, BarrierWait(t) PROVE LockInv'
  BY <1>1 DEF BarrierWait, SpinAcquire
<1>2. ASSUME NEW t \in Thread, ArriveWait(t) PROVE LockInv'
  BY <1>2 DEF ArriveWait, WaitAppend
<1>3. ASSUME NEW t \in Thread, ArriveLast(t) PROVE LockInv'
  BY <1>3 DEF ArriveLast
<1>4. ASSUME NEW t \in Thread, WakeWaiters(t) PROVE LockInv'
  <2>1. CASE BroadcastOne(t, "broadcast", "broadcast_dec")
    BY <1>4, <2>1 DEF WakeWaiters, BroadcastOne, ResumePush
  <2>2. CASE BroadcastDec(t, "broadcast_dec", "broadcast")
    BY <1>4, <2>2 DEF WakeWaiters, BroadcastDec, ResumeDecNumBlocked
  <2>3. CASE BroadcastEnd(t, "broadcast", "reset")
    BY <1>4, <2>3 DEF WakeWaiters, BroadcastEnd
  <2>. QED  BY <1>4, <2>1, <2>2, <2>3 DEF WakeWaiters, Broadcast
<1>5. ASSUME NEW t \in Thread, ResetCounter(t) PROVE LockInv'
  BY <1>5 DEF ResetCounter
<1>6. ASSUME NEW t \in Thread, LastUnlock(t) PROVE LockInv'
  BY <1>6 DEF LastUnlock, SpinRelease
<1>7. ASSUME NEW t \in Thread, Wait(t) PROVE LockInv'
  BY <1>7, WaitLocks
<1>8. ASSUME NEW t \in Thread, BarrierFree(t) PROVE LockInv'
  BY <1>8 DEF BarrierFree, SpinAcquire
<1>9. ASSUME NEW t \in Thread, ThreadExit(t) PROVE LockInv'
  BY <1>9 DEF ThreadExit, Exit
<1>10. ASSUME NEW e \in XSTREAM, BarrierSchedule(e) PROVE LockInv'
  BY <1>10 DEF BarrierSchedule, Schedule
<1>11. CASE UNCHANGED allVars
  BY <1>11 DEF allVars
<1>. QED
  BY <1>1, <1>2, <1>3, <1>4, <1>5, <1>6, <1>7, <1>8, <1>9, <1>10, <1>11
  DEF BarrierNext, BarrierStep, BarrierDone

(* The counter follows the list.                                           *)
LEMMA StepArrivalInv ==
    ASSUME BarrierConstants, BarrierTypeOK, LockInv, ArrivalInv, [BarrierNext]_allVars
    PROVE  ArrivalInv'
<1>. USE DEF BarrierTypeOK, LockInv, ArrivalInv, waitlistVars, barrierVars, GoTo, At,
             BarrierConstants
<1>1. ASSUME NEW t \in Thread, BarrierWait(t) PROVE ArrivalInv'
  BY <1>1 DEF BarrierWait, SpinAcquire
<1>2. ASSUME NEW t \in Thread, ArriveWait(t) PROVE ArrivalInv'
  <2>1. \A u \in Thread : pc[u] \notin WakePoint /\ pc'[u] \notin WakePoint
    BY <1>2 DEF ArriveWait, WaitAppend
  <2>2. waitlist' = Append(waitlist, t) /\ Len(waitlist') = Len(waitlist) + 1
    BY <1>2 DEF ArriveWait, WaitAppend
  <2>3. counter' = Len(waitlist') /\ counter' < NUM_WAITERS
    BY <1>2, <2>1, <2>2 DEF ArriveWait
  <2>. QED  BY <2>1, <2>3
<1>3. ASSUME NEW t \in Thread, ArriveLast(t) PROVE ArrivalInv'
  BY <1>3 DEF ArriveLast
<1>4. ASSUME NEW t \in Thread, WakeWaiters(t) PROVE ArrivalInv'
  <2>1. CASE BroadcastOne(t, "broadcast", "broadcast_dec")
    <3>1. \A u \in Thread : pc[u] # "reset" /\ pc'[u] # "reset"
      BY <1>4, <2>1 DEF WakeWaiters, BroadcastOne, ResumePush
    <3>2. pc[t] \in WakePoint /\ pc'[t] \in WakePoint /\ counter' = counter
      BY <1>4, <2>1 DEF WakeWaiters, BroadcastOne, ResumePush
    <3>. QED  BY <3>1, <3>2
  <2>2. CASE BroadcastDec(t, "broadcast_dec", "broadcast")
    BY <1>4, <2>2 DEF WakeWaiters, BroadcastDec, ResumeDecNumBlocked
  <2>3. CASE BroadcastEnd(t, "broadcast", "reset")
    BY <1>4, <2>3 DEF WakeWaiters, BroadcastEnd
  <2>. QED  BY <1>4, <2>1, <2>2, <2>3 DEF WakeWaiters, Broadcast
<1>5. ASSUME NEW t \in Thread, ResetCounter(t) PROVE ArrivalInv'
  BY <1>5 DEF ResetCounter
<1>6. ASSUME NEW t \in Thread, LastUnlock(t) PROVE ArrivalInv'
  BY <1>6 DEF LastUnlock, SpinRelease
<1>7. ASSUME NEW t \in Thread, Wait(t) PROVE ArrivalInv'
  BY <1>7, WaitLocks
<1>8. ASSUME NEW t \in Thread, BarrierFree(t) PROVE ArrivalInv'
  BY <1>8 DEF BarrierFree, SpinAcquire
<1>9. ASSUME NEW t \in Thread, ThreadExit(t) PROVE ArrivalInv'
  BY <1>9 DEF ThreadExit, Exit
<1>10. ASSUME NEW e \in XSTREAM, BarrierSchedule(e) PROVE ArrivalInv'
  BY <1>10 DEF BarrierSchedule, Schedule
<1>11. CASE UNCHANGED allVars
  BY <1>11 DEF allVars
<1>. QED
  BY <1>1, <1>2, <1>3, <1>4, <1>5, <1>6, <1>7, <1>8, <1>9, <1>10, <1>11
  DEF BarrierNext, BarrierStep, BarrierDone

(* A step of a running thread that is outside the waits, and stays outside.*)
LEMMA MoveStep ==
    ASSUME BarrierTypeOK, WaitInv, NEW t \in Thread, Running(t), pc[t] \notin WaitPoint,
           NEW l \in BarrierPoint \ WaitPoint, GoTo(t, l),
           UNCHANGED <<state, p_thread, pool, waitlist>>
    PROVE  WaitInv'
<1>1. t \notin Waiters
  BY RunningNotWaiter DEF BarrierTypeOK
<1>. QED  BY <1>1, LocalStep DEF BarrierTypeOK

(* Every thread stays in one place.                                        *)
LEMMA StepWaitInv ==
    ASSUME BarrierTypeOK, LockInv, WaitInv, [BarrierNext]_allVars
    PROVE  WaitInv'
<1>. USE DEF barrierVars, At
<1>1. ASSUME NEW t \in Thread, BarrierWait(t) PROVE WaitInv'
  BY <1>1, MoveStep DEF BarrierWait, SpinAcquire
<1>2. ASSUME NEW t \in Thread, ArriveWait(t) PROVE WaitInv'
  BY <1>2, WaitAppendStep DEF ArriveWait, BarrierTypeOK
<1>3. ASSUME NEW t \in Thread, ArriveLast(t) PROVE WaitInv'
  BY <1>3, MoveStep DEF ArriveLast
<1>4. ASSUME NEW t \in Thread, WakeWaiters(t) PROVE WaitInv'
  <2>1. CASE BroadcastOne(t, "broadcast", "broadcast_dec")
    <3>1. \A u \in Thread : pc[u] \notin {"suspend", "suspend_unlock"}
      BY <2>1 DEF LockInv, BroadcastOne
    <3>2. t \notin Waiters
      BY <2>1, RunningNotWaiter DEF BarrierTypeOK, BroadcastOne
    <3>3. waitlist # <<>> /\ waitlist' = Tail(waitlist)
      BY <2>1 DEF BroadcastOne
    <3>4. /\ \A u \in Thread : u # t => pc'[u] = pc[u]
          /\ pc'[t] \notin WaitPoint
      BY <2>1, <3>1 DEF BroadcastOne, ResumePush, GoTo, BarrierTypeOK
    <3>5. \/ Head(waitlist) \in ULT /\ AddThread(Head(waitlist)) /\ UNCHANGED p_thread
          \/ /\ Head(waitlist) \in EXT
             /\ state' = [state EXCEPT ![Head(waitlist)] = "READY"]
             /\ UNCHANGED <<p_thread, pool>>
      BY <2>1 DEF BroadcastOne, ResumePush
    <3>. QED  BY <3>1, <3>2, <3>3, <3>4, <3>5, WakeHeadStep DEF BarrierTypeOK
  <2>2. CASE BroadcastDec(t, "broadcast_dec", "broadcast")
    BY <2>2, MoveStep DEF BroadcastDec, ResumeDecNumBlocked
  <2>3. CASE BroadcastEnd(t, "broadcast", "reset")
    BY <2>3, MoveStep DEF BroadcastEnd
  <2>. QED  BY <1>4, <2>1, <2>2, <2>3 DEF WakeWaiters, Broadcast
<1>5. ASSUME NEW t \in Thread, ResetCounter(t) PROVE WaitInv'
  BY <1>5, MoveStep DEF ResetCounter
<1>6. ASSUME NEW t \in Thread, LastUnlock(t) PROVE WaitInv'
  BY <1>6, MoveStep DEF LastUnlock, SpinRelease
<1>7. ASSUME NEW t \in Thread, Wait(t) PROVE WaitInv'
  BY <1>7, WaitStepStep DEF Wait, BarrierTypeOK
<1>8. ASSUME NEW t \in Thread, BarrierFree(t) PROVE WaitInv'
  BY <1>8, MoveStep DEF BarrierFree, SpinAcquire
<1>9. ASSUME NEW t \in Thread, ThreadExit(t) PROVE WaitInv'
  BY <1>9, ExitStep DEF ThreadExit, BarrierTypeOK
<1>10. ASSUME NEW e \in XSTREAM, BarrierSchedule(e) PROVE WaitInv'
  BY <1>10, ScheduleStep DEF BarrierSchedule, BarrierTypeOK
<1>11. CASE UNCHANGED allVars
  BY <1>11 DEF allVars, WaitInv, UltInOnePlace, WaitersSuspended, OnXstream, Waiters
<1>. QED
  BY <1>1, <1>2, <1>3, <1>4, <1>5, <1>6, <1>7, <1>8, <1>9, <1>10, <1>11
  DEF BarrierNext, BarrierStep, BarrierDone

LEMMA Inductive ==
    ASSUME BarrierConstants
    PROVE  /\ BarrierInit => BarrierInv
           /\ BarrierInv /\ [BarrierNext]_allVars => BarrierInv'
  BY BarrierInitInv, StepBarrierTypeOK, StepLockInv, StepArrivalInv, StepWaitInv DEF BarrierInv

(* The list, the counter and the count fit together at every step, for any *)
(* waiters and rounds.                                                     *)
THEOREM BarrierInvariance == ASSUME BarrierConstants PROVE BarrierSpec => []BarrierInv
  BY Inductive, PTL DEF BarrierSpec

(* Whenever the lock is free, or its owner has just arrived, the counter   *)
(* is the number of waiters on the list, fewer than num_waiters.           *)
THEOREM Arrivals == ASSUME BarrierConstants PROVE BarrierSpec => []ArrivalsCounted
<1>1. BarrierInv => ArrivalsCounted
  BY DEF BarrierInv, LockInv, ArrivalInv, ArrivalsCounted
<1>. QED  BY <1>1, BarrierInvariance, PTL

-----------------------------------------------------------------------------
(* Freeing the barrier: when every wait is everybody's, all threads have   *)
(* as many waits left, but for the one they are waiting in.                *)

(* The threads of the group that is not complete.                          *)
Group == IF counter = NUM_WAITERS THEN {} ELSE Waiters \cup {t \in Thread : pc[t] = "arrive"}

RoundInv ==
    \E k \in Nat : \A t \in Thread : todo[t] = IF t \in Group THEN k - 1 ELSE k

(* The last arrival completes a group of everybody.                        *)
LEMMA GroupComplete ==
    ASSUME BarrierConstants, BarrierFreeUse, BarrierInv, NEW t \in Thread, ArriveLast(t)
    PROVE  Group = Thread /\ counter' = NUM_WAITERS
<1>. USE DEF BarrierConstants, BarrierFreeUse
<1>1. pc[t] = "arrive" /\ \A u \in Thread : u # t => pc[u] \notin PLockPoint
  BY DEF ArriveLast, At, BarrierInv, LockInv
<1>2. counter = Len(waitlist) /\ counter < NUM_WAITERS /\ counter \in Nat
  BY <1>1 DEF BarrierInv, ArrivalInv, BarrierTypeOK
<1>3. Group = Waiters \cup {t}
  BY <1>1, <1>2 DEF Group
<1>4. t \notin Waiters
  BY RunningNotWaiter DEF ArriveLast, At, BarrierInv, BarrierTypeOK
<1>5. IsFiniteSet(Waiters) /\ Cardinality(Waiters) = counter
  BY <1>2, RangeCardinality DEF BarrierInv, BarrierTypeOK, WaitInv, WaitersSuspended, Waiters
<1>6. IsFiniteSet(Group) /\ Cardinality(Group) = counter + 1
  BY <1>3, <1>4, <1>5, FS_AddElement
<1>7. counter + 1 = NUM_WAITERS
  BY <1>2 DEF ArriveLast
<1>8. Group \subseteq Thread
  BY <1>3, ThreadSets DEF BarrierInv, BarrierTypeOK
<1>9. Group = Thread
  BY <1>6, <1>7, <1>8, FS_Subset
<1>. QED  BY <1>7, <1>9 DEF ArriveLast

(* A step that leaves the group and the waits as they are.                 *)
LEMMA SameRound ==
    ASSUME RoundInv, UNCHANGED <<Group, todo>>
    PROVE  RoundInv'
  BY DEF RoundInv

(* Every step keeps the threads in the same round.                         *)
LEMMA StepRoundInv ==
    ASSUME BarrierConstants, BarrierFreeUse, BarrierInv, RoundInv, [BarrierNext]_allVars
    PROVE  RoundInv'
<1>. USE DEF barrierVars, waitlistVars, At, GoTo, BarrierConstants
<1>0. BarrierTypeOK /\ LockInv /\ ArrivalInv
  BY DEF BarrierInv
<1>1. ASSUME NEW t \in Thread, BarrierWait(t) PROVE RoundInv'
  <2>1. \A u \in Thread : pc[u] \notin WakePoint
    BY <1>0, <1>1 DEF BarrierWait, SpinAcquire, LockInv
  <2>2. counter # NUM_WAITERS
    BY <1>0, <2>1 DEF ArrivalInv, BarrierTypeOK
  <2>3. t \notin Waiters
    BY <1>1, RunningNotWaiter DEF BarrierWait, SpinAcquire, BarrierInv, BarrierTypeOK
  <2>4. Group' = Group \cup {t} /\ t \notin Group
    BY <1>0, <1>1, <2>2, <2>3 DEF BarrierWait, SpinAcquire, Group, Waiters, BarrierTypeOK
  <2>5. /\ \A u \in Thread : u # t => todo'[u] = todo[u]
        /\ todo'[t] = todo[t] - 1
    BY <1>0, <1>1 DEF BarrierWait, BarrierTypeOK
  <2>. QED  BY <2>4, <2>5 DEF RoundInv
<1>2. ASSUME NEW t \in Thread, ArriveWait(t) PROVE RoundInv'
  <2>1. counter # NUM_WAITERS /\ counter' # NUM_WAITERS
    BY <1>0, <1>2 DEF ArriveWait, BarrierTypeOK
  <2>2. Waiters' = Waiters \cup {t}
    BY <1>0, <1>2, AppendRange DEF ArriveWait, WaitAppend, BarrierTypeOK, Waiters
  <2>3. /\ pc[t] = "arrive" /\ pc'[t] # "arrive"
        /\ \A u \in Thread : u # t => pc'[u] = pc[u]
    BY <1>0, <1>2 DEF ArriveWait, WaitAppend, BarrierTypeOK
  <2>4. UNCHANGED Group
    BY <2>1, <2>2, <2>3 DEF Group
  <2>. QED  BY <1>2, <2>4, SameRound DEF ArriveWait
<1>3. ASSUME NEW t \in Thread, ArriveLast(t) PROVE RoundInv'
  <2>1. Group = Thread /\ Group' = {} /\ todo' = todo
    BY <1>3, GroupComplete DEF Group, ArriveLast
  <2>2. todo[t] \in Nat
    BY <1>0 DEF BarrierTypeOK
  <2>. QED  BY <2>1, <2>2 DEF RoundInv
<1>4. ASSUME NEW t \in Thread, WakeWaiters(t) PROVE RoundInv'
  <2>1. pc[t] \in WakePoint /\ UNCHANGED <<counter, todo>>
    BY <1>4 DEF WakeWaiters, Broadcast, BroadcastOne, BroadcastDec, BroadcastEnd
  <2>2. Group = {} /\ Group' = {}
    BY <1>0, <2>1 DEF ArrivalInv, Group
  <2>. QED  BY <2>1, <2>2, SameRound
<1>5. ASSUME NEW t \in Thread, ResetCounter(t) PROVE RoundInv'
  <2>1. pc[t] = "reset" /\ waitlist = <<>> /\ counter = NUM_WAITERS
    BY <1>0, <1>5 DEF ResetCounter, ArrivalInv
  <2>2. \A u \in Thread : pc'[u] # "arrive"
    BY <1>0, <1>5 DEF ResetCounter, LockInv, BarrierTypeOK
  <2>3. Waiters' = {}
    BY <1>5, <2>1 DEF ResetCounter, Waiters, Range
  <2>4. Group = {} /\ Group' = {}
    BY <2>1, <2>2, <2>3 DEF Group
  <2>. QED  BY <1>5, <2>4, SameRound DEF ResetCounter
<1>6. ASSUME NEW t \in Thread, LastUnlock(t) PROVE RoundInv'
  <2>. UNCHANGED <<Group, todo>>
    BY <1>0, <1>6 DEF LastUnlock, SpinRelease, Group, Waiters, BarrierTypeOK
  <2>. QED  BY SameRound
<1>7. ASSUME NEW t \in Thread, Wait(t) PROVE RoundInv'
  <2>1. \A u \in Thread : pc'[u] = "arrive" <=> pc[u] = "arrive"
    BY <1>0, <1>7, WaitLocks
  <2>2. UNCHANGED <<waitlist, counter, todo>>
    BY <1>0, <1>7, WaitLocks
  <2>3. UNCHANGED Group
    BY <2>1, <2>2 DEF Group, Waiters
  <2>. QED  BY <2>2, <2>3, SameRound
<1>8. ASSUME NEW t \in Thread, BarrierFree(t) PROVE RoundInv'
  <2>. UNCHANGED <<Group, todo>>
    BY <1>0, <1>8 DEF BarrierFree, SpinAcquire, Group, Waiters, BarrierTypeOK
  <2>. QED  BY SameRound
<1>9. ASSUME NEW t \in Thread, ThreadExit(t) PROVE RoundInv'
  <2>. UNCHANGED <<Group, todo>>
    BY <1>0, <1>9 DEF ThreadExit, Exit, Group, Waiters, BarrierTypeOK
  <2>. QED  BY SameRound
<1>10. ASSUME NEW e \in XSTREAM, BarrierSchedule(e) PROVE RoundInv'
  <2>. UNCHANGED <<Group, todo>>
    BY <1>10 DEF BarrierSchedule, Schedule, Group, Waiters
  <2>. QED  BY SameRound
<1>11. CASE UNCHANGED allVars
  <2>. UNCHANGED <<Group, todo>>
    BY <1>11 DEF allVars, Group, Waiters
  <2>. QED  BY SameRound
<1>. QED
  BY <1>1, <1>2, <1>3, <1>4, <1>5, <1>6, <1>7, <1>8, <1>9, <1>10, <1>11
  DEF BarrierNext, BarrierStep, BarrierDone

(* Who has no wait left and takes the lock is the only one that may still  *)
(* be at the barrier.                                                      *)
LEMMA FreeAlone ==
    ASSUME BarrierConstants, BarrierFreeUse, BarrierInv, RoundInv,
           NEW t \in Thread, BarrierFree(t)
    PROVE  \A u \in Thread : pc[u] \notin UsePoint
<1>. USE DEF BarrierConstants, BarrierFree, SpinAcquire, At
<1>1. \A u \in Thread : pc[u] \notin PLockPoint
  BY DEF BarrierInv, LockInv
<1>2. Group = Waiters
  BY <1>1 DEF BarrierInv, ArrivalInv, BarrierTypeOK, Group
<1>3. t \notin Waiters
  BY RunningNotWaiter DEF BarrierInv, BarrierTypeOK
<1>4. Waiters = {}
  <2>1. PICK k \in Nat : \A u \in Thread : todo[u] = IF u \in Waiters THEN k - 1 ELSE k
    BY <1>2 DEF RoundInv
  <2>2. k = 0
    BY <1>3, <2>1
  <2>3. ASSUME NEW u \in Waiters PROVE FALSE
    <3>1. u \in Thread
      BY ThreadSets DEF BarrierInv, BarrierTypeOK
    <3>2. todo[u] \in Nat
      BY <3>1 DEF BarrierInv, BarrierTypeOK
    <3>3. todo[u] = 0 - 1
      BY <2>1, <2>2, <3>1
    <3>. QED  BY <3>2, <3>3
  <2>. QED  BY <2>3
<1>5. EXT \subseteq {t}
  BY DEF BarrierFreeUse
<1>6. \A u \in Thread : pc[u] \notin {"ext_futex", "ext_relock"}
  BY <1>5 DEF BarrierInv, WaitInv, WaitersSuspended
<1>. QED  BY <1>1, <1>6 DEF UsePoint

(* Nobody gets to the barrier once it was freed.                           *)
LEMMA StepUnused ==
    ASSUME BarrierConstants, BarrierFreeUse, BarrierInv, RoundInv, FreedBarrierUnused,
           [BarrierNext]_allVars
    PROVE  FreedBarrierUnused'
<1>. SUFFICES ASSUME freed'
              PROVE  \A u \in Thread : pc'[u] \notin UsePoint
  BY DEF FreedBarrierUnused
<1>. USE DEF UsePoint, At, GoTo
<1>0. BarrierTypeOK
  BY DEF BarrierInv
<1>1. ASSUME NEW t \in Thread, BarrierFree(t)
      PROVE  \A u \in Thread : pc'[u] \notin UsePoint
  <2>1. \A u \in Thread : pc'[u] = pc[u]
    BY <1>0, <1>1 DEF BarrierFree, SpinAcquire, BarrierTypeOK
  <2>. QED  BY <1>1, <2>1, FreeAlone
<1>2. CASE UNCHANGED freed
  <2>1. p_lock /\ \A u \in Thread : pc[u] \in {"idle", "waiting", "done"}
    BY <1>0, <1>2 DEF FreedBarrierUnused, BarrierInv, LockInv, BarrierTypeOK
  <2>2. ASSUME NEW t \in Thread, BarrierStep(t), ~BarrierFree(t)
        PROVE  \A u \in Thread : pc'[u] \notin UsePoint
    <3>1. CASE ThreadExit(t)
      BY <1>0, <2>1, <3>1 DEF ThreadExit, Exit, BarrierTypeOK
    <3>2. CASE Wait(t)
      <4>1. WaitResumed(t, "idle")
        BY <2>1, <3>2
        DEF Wait, WaitStep, SuspendBlock, SuspendUnlock, ExtReady, ExtFutexWait, ExtFutexWake,
            ExtRelock, SpinAcquire
      <4>. QED  BY <1>0, <2>1, <4>1 DEF WaitResumed, BarrierTypeOK
    <3>. QED
      BY <2>1, <2>2, <3>1, <3>2
      DEF BarrierStep, BarrierWait, SpinAcquire, ArriveWait, ArriveLast, WakeWaiters, Broadcast,
          BroadcastOne, BroadcastDec, BroadcastEnd, ResetCounter, LastUnlock, SpinRelease
  <2>3. ASSUME NEW e \in XSTREAM, BarrierSchedule(e)
        PROVE  \A u \in Thread : pc'[u] \notin UsePoint
    BY <2>1, <2>3 DEF BarrierSchedule, Schedule
  <2>4. CASE UNCHANGED allVars
    BY <2>1, <2>4 DEF allVars
  <2>. QED  BY <1>1, <2>2, <2>3, <2>4 DEF BarrierNext, BarrierDone
<1>3. CASE ~UNCHANGED freed
  <2>. SUFFICES ASSUME NEW t \in Thread, BarrierStep(t), ~BarrierFree(t)
                PROVE  UNCHANGED freed
    BY <1>1, <1>3 DEF BarrierNext, BarrierDone, allVars, barrierVars, BarrierSchedule
  <2>. QED
    BY DEF BarrierStep, BarrierWait, ArriveWait, ArriveLast, WakeWaiters, ResetCounter,
           LastUnlock, Wait, ThreadExit, barrierVars
<1>. QED  BY <1>2, <1>3

(* A thread that frees the barrier after its last wait frees it when       *)
(* nobody reads or writes the structure any more: the lock it takes is     *)
(* what makes it wait for the last arrival (barrier.c:153).                *)
THEOREM Freed ==
    ASSUME BarrierConstants, BarrierFreeUse
    PROVE  BarrierSpec => []FreedBarrierUnused
<1>1. BarrierInit => RoundInv /\ FreedBarrierUnused
  <2>. SUFFICES ASSUME BarrierInit PROVE RoundInv /\ FreedBarrierUnused
    OBVIOUS
  <2>1. FreedBarrierUnused
    BY DEF BarrierInit, FreedBarrierUnused
  <2>2. Group = {}
    BY DEF BarrierInit, WaitlistInit, YthreadInit, Group, Waiters, Range
  <2>3. CASE Thread = {}
    <3>1. 0 \in Nat
      OBVIOUS
    <3>. QED  BY <2>1, <2>3, <3>1 DEF RoundInv
  <2>4. CASE Thread # {}
    <3>1. PICK t \in Thread : TRUE
      BY <2>4
    <3>2. ROUND[t] \in Nat /\ \A u \in Thread : todo[u] = ROUND[t]
      BY DEF BarrierInit, BarrierConstants, BarrierFreeUse
    <3>. QED  BY <2>1, <2>2, <3>2 DEF RoundInv
  <2>. QED  BY <2>1, <2>3, <2>4
<1>2. BarrierInv /\ RoundInv /\ FreedBarrierUnused /\ [BarrierNext]_allVars
         => RoundInv' /\ FreedBarrierUnused'
  BY StepRoundInv, StepUnused
<1>. QED  BY <1>1, <1>2, BarrierInvariance, PTL DEF BarrierSpec

-----------------------------------------------------------------------------
(* The barrier implements AbstractBarrier.                                 *)

(* AbstractBarrier means the same by it.                                   *)
LEMMA SameCardinality == \A S : Abstract!Cardinality(S) = Cardinality(S)
BY Zenon DEF Abstract!Cardinality, Cardinality

(* The threads on the list are waiting.                                    *)
LEMMA WaitersArrived == ASSUME BarrierInv PROVE Waiters \subseteq Arrived
  BY ThreadSets DEF BarrierInv, BarrierTypeOK, WaitInv, WaitersSuspended, UltInOnePlace, Arrived

(* A step that moves nobody into the barrier or out of it.                 *)
LEMMA SameInside ==
    ASSUME UNCHANGED Inside,
           \A t \in Thread : /\ pc'[t] \in WaitPoint <=> pc[t] \in WaitPoint
                             /\ pc'[t] \in WakePoint \cup {"unlock"}
                                  <=> pc[t] \in WakePoint \cup {"unlock"}
    PROVE  UNCHANGED Abstract!barrierVars
  BY DEF Abstract!barrierVars, Arrived

(* Not the last one: it enters.                                            *)
LEMMA EnterStep ==
    ASSUME BarrierConstants, BarrierInv, NEW t \in Thread, ArriveWait(t)
    PROVE  Abstract!Enter(t)
<1>. USE DEF BarrierConstants, At
<1>1. pc[t] = "arrive" /\ \A u \in Thread : u # t => pc[u] \notin PLockPoint
  BY DEF ArriveWait, BarrierInv, LockInv
<1>2. /\ counter = Len(waitlist) /\ counter \in Nat
      /\ counter # NUM_WAITERS /\ counter' # NUM_WAITERS
      /\ counter + 1 < NUM_WAITERS
  BY <1>1 DEF BarrierInv, ArrivalInv, BarrierTypeOK, ArriveWait
<1>3. t \notin Waiters
  BY RunningNotWaiter DEF ArriveWait, BarrierInv, BarrierTypeOK
<1>4. Waiters' = Waiters \cup {t}
  <2>1. waitlist \in Seq(Thread) /\ waitlist' = Append(waitlist, t)
    BY DEF ArriveWait, WaitAppend, BarrierInv, BarrierTypeOK
  <2>. QED  BY <2>1, AppendRange DEF Waiters
<1>5. Cardinality(Waiters) = counter
  BY <1>2, RangeCardinality DEF BarrierInv, BarrierTypeOK, WaitInv, WaitersSuspended, Waiters
<1>6. Inside = Waiters /\ Inside' = Waiters \cup {t}
  BY <1>2, <1>4 DEF Inside
<1>7. pc'[t] \in WaitPoint /\ \A u \in Thread : u # t => pc'[u] = pc[u]
  BY DEF ArriveWait, WaitAppend, GoTo, BarrierInv, BarrierTypeOK
<1>8. t \notin Arrived /\ Arrived' = Arrived \cup {t}
  BY <1>1, <1>7 DEF Arrived
<1>. QED
  BY <1>1, <1>2, <1>3, <1>5, <1>6, <1>7, <1>8, SameCardinality DEF Abstract!Enter

(* The last one: everybody inside may leave.                               *)
LEMMA LastStep ==
    ASSUME BarrierConstants, BarrierInv, NEW t \in Thread, ArriveLast(t)
    PROVE  Abstract!Enter(t)
<1>. USE DEF BarrierConstants, At
<1>1. pc[t] = "arrive" /\ \A u \in Thread : u # t => pc[u] \notin PLockPoint
  BY DEF ArriveLast, BarrierInv, LockInv
<1>2. /\ counter = Len(waitlist) /\ counter \in Nat
      /\ counter # NUM_WAITERS /\ counter' = NUM_WAITERS
      /\ ~(counter + 1 < NUM_WAITERS)
  BY <1>1 DEF BarrierInv, ArrivalInv, BarrierTypeOK, ArriveLast
<1>3. t \notin Waiters
  BY RunningNotWaiter DEF ArriveLast, BarrierInv, BarrierTypeOK
<1>4. Cardinality(Waiters) = counter
  BY <1>2, RangeCardinality DEF BarrierInv, BarrierTypeOK, WaitInv, WaitersSuspended, Waiters
<1>5. Inside = Waiters /\ Inside' = {}
  BY <1>2 DEF Inside
<1>6. pc'[t] = "broadcast" /\ \A u \in Thread : u # t => pc'[u] = pc[u]
  BY DEF ArriveLast, GoTo, BarrierInv, BarrierTypeOK
<1>7. t \notin Arrived /\ Arrived' = Arrived /\ Waiters \subseteq Arrived
  BY <1>1, <1>6, WaitersArrived DEF Arrived
<1>. QED
  BY <1>1, <1>2, <1>3, <1>4, <1>5, <1>6, <1>7, SameCardinality DEF Abstract!Enter

(* A wait: nothing the abstract barrier knows of, or t leaves.             *)
LEMMA LeaveStep ==
    ASSUME BarrierConstants, BarrierInv, NEW t \in Thread, Wait(t)
    PROVE  Abstract!Leave(t) \/ UNCHANGED Abstract!barrierVars
<1>1. /\ UNCHANGED <<waitlist, counter>>
      /\ \A u \in Thread \ {t} : pc'[u] = pc[u]
      /\ pc[t] \in WaitPoint
      /\ pc'[t] \in WaitPoint \cup {"idle"}
  BY WaitLocks DEF BarrierInv
<1>2. Inside' = Inside
  BY <1>1 DEF Inside, Waiters
<1>3. CASE pc'[t] \in WaitPoint
  BY <1>1, <1>2, <1>3, SameInside
<1>4. CASE pc'[t] = "idle"
  <2>1. t \notin Waiters
    <3>1. /\ Running(t)
          /\ pc[t] = "waiting" \/ (pc[t] \in {"ext_check", "ext_futex"} /\ state[t] = "READY")
      BY <1>4
      DEF Wait, WaitStep, SuspendBlock, CallbackBlock, SuspendUnlock, WaitResumed, ExtReady,
          ExtFutexWait, ExtFutexWake, ExtRelock, SpinAcquire, At, GoTo, BarrierInv, BarrierTypeOK
    <3>. QED  BY <3>1, RunningNotWaiter DEF BarrierInv, BarrierTypeOK
  <2>2. t \notin Inside
    BY <2>1 DEF Inside
  <2>3. t \in Arrived /\ Arrived' = Arrived \ {t}
    BY <1>1, <1>4 DEF Arrived
  <2>. QED  BY <1>1, <1>2, <1>4, <2>2, <2>3 DEF Abstract!Leave
<1>. QED  BY <1>1, <1>3, <1>4

(* Every step of the barrier is one of AbstractBarrier, or leaves what it  *)
(* speaks of as it is.                                                     *)
LEMMA AbstractStep ==
    ASSUME BarrierConstants, BarrierInv, [BarrierNext]_allVars
    PROVE  [Abstract!Next]_(Abstract!barrierVars)
<1>. USE DEF barrierVars, waitlistVars, At, GoTo, BarrierConstants
<1>0. BarrierTypeOK /\ LockInv /\ ArrivalInv
  BY DEF BarrierInv
<1>1. ASSUME NEW t \in Thread, BarrierWait(t)
      PROVE  UNCHANGED Abstract!barrierVars
  <2>. UNCHANGED Inside
    BY <1>1 DEF BarrierWait, SpinAcquire, Inside, Waiters
  <2>. QED  BY <1>0, <1>1, SameInside DEF BarrierWait, SpinAcquire, BarrierTypeOK
<1>2. ASSUME NEW t \in Thread, ArriveWait(t) \/ ArriveLast(t)
      PROVE  Abstract!Next
  BY <1>2, EnterStep, LastStep DEF Abstract!Next
<1>3. ASSUME NEW t \in Thread, WakeWaiters(t)
      PROVE  UNCHANGED Abstract!barrierVars
  <2>1. pc[t] \in WakePoint /\ UNCHANGED <<counter, todo>>
    BY <1>3 DEF WakeWaiters, Broadcast, BroadcastOne, BroadcastDec, BroadcastEnd
  <2>2. Inside = {} /\ Inside' = {}
    BY <1>0, <2>1 DEF ArrivalInv, Inside
  <2>3. pc'[t] \in WakePoint /\ \A u \in Thread : u # t => pc'[u] = pc[u]
    <3>1. CASE BroadcastOne(t, "broadcast", "broadcast_dec")
      BY <1>0, <3>1 DEF BroadcastOne, ResumePush, BarrierTypeOK
    <3>2. CASE BroadcastDec(t, "broadcast_dec", "broadcast")
      BY <1>0, <3>2 DEF BroadcastDec, ResumeDecNumBlocked, BarrierTypeOK
    <3>3. CASE BroadcastEnd(t, "broadcast", "reset")
      BY <1>0, <3>3 DEF BroadcastEnd, BarrierTypeOK
    <3>. QED  BY <1>3, <3>1, <3>2, <3>3 DEF WakeWaiters, Broadcast
  <2>. QED  BY <2>1, <2>2, <2>3, SameInside
<1>4. ASSUME NEW t \in Thread, ResetCounter(t)
      PROVE  UNCHANGED Abstract!barrierVars
  <2>1. pc[t] = "reset" /\ waitlist = <<>> /\ counter = NUM_WAITERS
    BY <1>0, <1>4 DEF ResetCounter, ArrivalInv
  <2>2. Waiters' = {}
    BY <1>4, <2>1 DEF ResetCounter, Waiters, Range
  <2>3. UNCHANGED Inside
    BY <2>1, <2>2 DEF Inside
  <2>. QED  BY <1>0, <1>4, <2>3, SameInside DEF ResetCounter, BarrierTypeOK
<1>5. ASSUME NEW t \in Thread, LastUnlock(t)
      PROVE  Abstract!Leave(t)
  <2>1. Inside' = Inside
    BY <1>5 DEF LastUnlock, SpinRelease, Inside, Waiters
  <2>2. /\ pc[t] = "unlock" /\ pc'[t] = "idle"
        /\ \A u \in Thread : u # t => pc'[u] = pc[u]
    BY <1>0, <1>5 DEF LastUnlock, SpinRelease, BarrierTypeOK
  <2>3. t \notin Arrived /\ Arrived' = Arrived
    BY <2>2 DEF Arrived
  <2>. QED  BY <2>1, <2>2, <2>3 DEF Abstract!Leave
<1>6. ASSUME NEW t \in Thread, Wait(t)
      PROVE  Abstract!Next \/ UNCHANGED Abstract!barrierVars
  BY <1>6, LeaveStep DEF Abstract!Next
<1>7. ASSUME NEW t \in Thread, BarrierFree(t) \/ ThreadExit(t)
      PROVE  UNCHANGED Abstract!barrierVars
  <2>. UNCHANGED Inside
    BY <1>7 DEF BarrierFree, SpinAcquire, ThreadExit, Inside, Waiters
  <2>. QED  BY <1>0, <1>7, SameInside DEF BarrierFree, SpinAcquire, ThreadExit, Exit, BarrierTypeOK
<1>8. ASSUME NEW e \in XSTREAM, BarrierSchedule(e)
      PROVE  UNCHANGED Abstract!barrierVars
  <2>. UNCHANGED Inside /\ UNCHANGED pc
    BY <1>8 DEF BarrierSchedule, Schedule, Inside, Waiters
  <2>. QED  BY SameInside
<1>9. CASE UNCHANGED allVars
  <2>. UNCHANGED Inside /\ UNCHANGED pc
    BY <1>9 DEF allVars, Inside, Waiters
  <2>. QED  BY SameInside
<1>10. ASSUME NEW t \in Thread, BarrierStep(t)
       PROVE  Abstract!Next \/ UNCHANGED Abstract!barrierVars
  BY <1>1, <1>2, <1>3, <1>4, <1>5, <1>6, <1>7, <1>10 DEF BarrierStep, Abstract!Next
<1>. QED  BY <1>8, <1>9, <1>10 DEF BarrierNext, BarrierDone

(* The barrier of barrier.c keeps the promises of AbstractBarrier: nobody  *)
(* leaves before num_waiters threads have arrived, and exactly these may,  *)
(* although they are woken one by one while others arrive again.           *)
THEOREM Implementation ==
    ASSUME BarrierConstants
    PROVE  BarrierSpec => ImplementsAbstractBarrier
<1>1. BarrierInit => Abstract!Init
  <2>. SUFFICES ASSUME BarrierInit PROVE Abstract!Init
    OBVIOUS
  <2>1. Waiters = {} /\ Arrived = {}
    BY DEF BarrierInit, YthreadInit, WaitlistInit, Waiters, Arrived, Range
  <2>2. \A t \in Thread : pc[t] = "idle"
    BY DEF BarrierInit, YthreadInit
  <2>. QED  BY <2>1, <2>2 DEF Abstract!Init, Inside
<1>2. BarrierInv /\ [BarrierNext]_allVars => [Abstract!Next]_(Abstract!barrierVars)
  BY AbstractStep
<1>. QED
  BY <1>1, <1>2, BarrierInvariance, PTL DEF BarrierSpec, ImplementsAbstractBarrier, Abstract!Spec
=============================================================================
