-------------------------------- MODULE Join ---------------------------------
(***************************************************************************)
(* The end of a work unit: ABT_thread_join, ABT_thread_exit, the request   *)
(* ABT_thread_cancel makes, and ABT_thread_revive.                         *)
(*                                                                         *)
(* A joiner and the ULT it joins meet without a lock, on two words of the  *)
(* ULT: request, on which both set REQ_JOIN with an atomic fetch-or, and   *)
(* p_link.  Whoever sets REQ_JOIN first decides: the joiner may block and  *)
(* must then publish p_link, or the ULT terminates without a joiner.       *)
(* p_link is published by the suspension callback of the joiner, once the  *)
(* joiner is BLOCKED.  A ULT that ends on the ES its joiner blocked on     *)
(* jumps to the joiner, which does not pass through the pool.              *)
(***************************************************************************)
EXTENDS Ythread

CONSTANTS
    TASK,      \* work units without a context of their own (tasklets)
    PROGRAMS   \* what the threads may be about to do: functions that give
               \* each thread a sequence of operations

Operation == {"yield"} \X {NULL} \cup {"join", "cancel", "revive"} \X ULT

(* What this module relies on, for who instantiates it to assume.          *)
JoinConstants ==
    /\ TASK \subseteq ULT
    /\ PROGRAMS \subseteq [Thread -> Seq(Operation)]

VARIABLES
    request,         \* ABTI_thread.request
    p_link,          \* ctx.p_link of a ULT, NULL or its joiner
    p_last_xstream,  \* ABTI_thread.p_last_xstream
    joiner_futex,    \* the futex_single of a joiner that is not a ULT is 1
    cancelled,       \* the unit ends in ABTI_thread_handle_request_cancel
    program          \* the operations each thread has left

joinVars == <<request, p_link, p_last_xstream, joiner_futex, cancelled, program>>

vars == <<ythreadVars, joinVars>>

JoinInit ==
    /\ YthreadInit("idle")
    /\ request = [u \in ULT |-> {}]
    /\ p_link = [u \in ULT |-> NULL]
    /\ p_last_xstream = [u \in ULT |-> NULL]
    /\ joiner_futex = [t \in Thread |-> FALSE]
    /\ cancelled = [u \in ULT |-> FALSE]
    /\ program \in PROGRAMS

-----------------------------------------------------------------------------

Yieldable(t) == t \in ULT \ TASK

(* The next operation of t is op.                                          *)
Wants(t, op) == program[t] # <<>> /\ Head(program[t])[1] = op

Operand(t) == Head(program[t])[2]

(* The operation is over; what the caller left alone stays.                *)
OperationDone(t) ==
    /\ program' = [program EXCEPT ![t] = Tail(@)]
    /\ GoTo(t, "idle")

(* ABTI_thread_handle_request_cancel(u): a ULT looks for a joiner first.   *)
HandleCancel(u) ==
    /\ cancelled' = [cancelled EXCEPT ![u] = TRUE]
    /\ GoTo(u, IF Yieldable(u) THEN "exit_link" ELSE "terminate")

(* A yield of ULT t to its scheduler.  Its callback handles a cancellation *)
(* request, on the context of the scheduler, or pushes t to the pool.      *)
YieldOrCancel(t, next) ==
    IF "CANCEL" \in request[t]
    THEN HandleCancel(t) /\ UNCHANGED <<state, p_thread, pool, num_blocked>>
    ELSE Yield(t, next) /\ UNCHANGED cancelled

(* ABT_self_yield.                                                         *)
SelfYield(t) ==
    /\ At(t, "idle")
    /\ Wants(t, "yield")
    /\ Yieldable(t)
    /\ program' = [program EXCEPT ![t] = Tail(@)]
    /\ YieldOrCancel(t, "idle")
    /\ UNCHANGED <<request, p_link, p_last_xstream, joiner_futex>>

(* ABT_thread_cancel: a request, which whoever schedules the ULT handles.  *)
Cancel(t) ==
    /\ At(t, "idle")
    /\ Wants(t, "cancel")
    /\ request' = [request EXCEPT ![Operand(t)] = @ \cup {"CANCEL"}]
    /\ OperationDone(t)
    /\ UNCHANGED <<state, p_thread, pool, num_blocked, p_link, p_last_xstream,
                   joiner_futex, cancelled>>

(* ABT_thread_revive of a unit that has TERMINATED; its new function       *)
(* returns at once.                                                        *)
Revive(t) ==
    /\ At(t, "idle")
    /\ Wants(t, "revive")
    /\ LET u == Operand(t) IN
         /\ state[u] = "TERMINATED"
         /\ request' = [request EXCEPT ![u] = {}]
         /\ p_link' = [p_link EXCEPT ![u] = NULL]
         /\ p_last_xstream' = [p_last_xstream EXCEPT ![u] = NULL]
         /\ cancelled' = [cancelled EXCEPT ![u] = FALSE]
         /\ pc' = [pc EXCEPT ![u] = "idle"]
         /\ program' = [program EXCEPT ![u] = <<>>, ![t] = Tail(@)]
         /\ AddThread(u)
    /\ UNCHANGED <<p_thread, num_blocked, joiner_futex>>

-----------------------------------------------------------------------------
(* thread_join.                                                            *)

(* The first look at the state of the unit, and which way of waiting the   *)
(* caller and the unit admit.                                              *)
JoinCall(t) ==
    /\ At(t, "idle")
    /\ Wants(t, "join")
    /\ LET u == Operand(t) IN
         \/ state[u] = "TERMINATED" /\ OperationDone(t)
         \/ /\ state[u] # "TERMINATED"
            /\ GoTo(t, CASE Yieldable(u) -> "join_request"
                         [] ~Yieldable(u) /\ Yieldable(t) -> "join_yield"
                         [] OTHER -> "join_busywait")
            /\ UNCHANGED program
    /\ UNCHANGED <<state, p_thread, pool, num_blocked, request, p_link,
                   p_last_xstream, joiner_futex, cancelled>>

(* Mutant of JoinRequest: the joiner blocks whatever the old value says.   *)
JoinRequestAlwaysFirst(t) ==
    /\ At(t, "join_request")
    /\ request' = [request EXCEPT ![Operand(t)] = @ \cup {"JOIN"}]
    /\ GoTo(t, IF Yieldable(t) THEN "join_block" ELSE "join_publish")
    /\ UNCHANGED <<state, p_thread, pool, num_blocked, p_link, p_last_xstream,
                   joiner_futex, cancelled, program>>

(* The fetch-or of REQ_JOIN: whoever comes second may not block.           *)
JoinRequest(t) ==
    /\ At(t, "join_request")
    /\ LET u == Operand(t)
           first == "JOIN" \notin request[u] IN
         /\ request' = [request EXCEPT ![u] = @ \cup {"JOIN"}]
         /\ GoTo(t, CASE first /\ Yieldable(t) -> "join_block"
                      [] first /\ ~Yieldable(t) -> "join_publish"
                      [] ~first /\ Yieldable(t) -> "join_yield"
                      [] OTHER -> "join_busywait")
    /\ UNCHANGED <<state, p_thread, pool, num_blocked, p_link, p_last_xstream,
                   joiner_futex, cancelled, program>>

(* ABTI_ythread_callback_suspend_join: BLOCKED first...                    *)
JoinBlock(t) ==
    /\ At(t, "join_block")
    /\ CallbackBlock(t, "join_link")
    /\ UNCHANGED joinVars

(* Mutant of JoinLink: p_link is published before the joiner is BLOCKED... *)
JoinLinkEarly(t) ==
    /\ pc[t] \in {"join_block", "join_link"} /\ Running(t)
    /\ p_link' = [p_link EXCEPT ![Operand(t)] = t]
    /\ IF pc[t] = "join_block"
       THEN UNCHANGED <<pc, p_thread>>
       ELSE SwitchToParent(t) /\ GoTo(t, "join_resumed")
    /\ UNCHANGED <<state, pool, num_blocked, request, p_last_xstream, joiner_futex,
                   cancelled, program>>

(* Mutant of JoinLink: p_link is not published.                            *)
JoinLinkForgotten(t) ==
    /\ At(t, "join_link")
    /\ SwitchToParent(t)
    /\ GoTo(t, "join_resumed")
    /\ UNCHANGED <<state, pool, num_blocked, joinVars>>

(* ...and p_link last: from now on the ULT may resume its joiner.          *)
JoinLink(t) ==
    /\ At(t, "join_link")
    /\ p_link' = [p_link EXCEPT ![Operand(t)] = t]
    /\ SwitchToParent(t)
    /\ GoTo(t, "join_resumed")
    /\ UNCHANGED <<state, pool, num_blocked, request, p_last_xstream, joiner_futex,
                   cancelled, program>>

(* The joiner runs again.  The ULT that resumed it may not be over yet.    *)
JoinResumed(t) ==
    /\ At(t, "join_resumed")
    /\ GoTo(t, "join_yield")
    /\ UNCHANGED <<state, p_thread, pool, num_blocked, joinVars>>

(* thread_join_yield_thread.                                               *)
JoinYield(t) ==
    /\ At(t, "join_yield")
    /\ \/ /\ state[Operand(t)] = "TERMINATED"
          /\ OperationDone(t)
          /\ UNCHANGED <<state, p_thread, pool, num_blocked, cancelled>>
       \/ /\ state[Operand(t)] # "TERMINATED"
          /\ YieldOrCancel(t, "join_yield")
          /\ UNCHANGED program
    /\ UNCHANGED <<request, p_link, p_last_xstream, joiner_futex>>

(* thread_join_futexwait: the link to a dummy ULT that holds a futex...    *)
JoinPublish(t) ==
    /\ At(t, "join_publish")
    /\ joiner_futex' = [joiner_futex EXCEPT ![t] = FALSE]
    /\ p_link' = [p_link EXCEPT ![Operand(t)] = t]
    /\ GoTo(t, "join_futex")
    /\ UNCHANGED <<state, p_thread, pool, num_blocked, request, p_last_xstream,
                   cancelled, program>>

(* ...on which the joiner sleeps...                                        *)
JoinFutex(t) ==
    /\ At(t, "join_futex")
    /\ joiner_futex[t]
    /\ GoTo(t, "join_busywait")
    /\ UNCHANGED <<state, p_thread, pool, num_blocked, joinVars>>

(* ...and thread_join_busywait.                                            *)
JoinBusywait(t) ==
    /\ At(t, "join_busywait")
    /\ state[Operand(t)] = "TERMINATED"
    /\ OperationDone(t)
    /\ UNCHANGED <<state, p_thread, pool, num_blocked, request, p_link,
                   p_last_xstream, joiner_futex, cancelled>>

-----------------------------------------------------------------------------
(* The end of a unit: ABTI_ythread_exit, or ABTI_ythread_resume_joiner and *)
(* ABTI_thread_terminate when a scheduler handles its cancellation.        *)

(* The function of t returned.  A tasklet terminates in place, and so does *)
(* (for the model) an external thread.                                     *)
ExitCall(t) ==
    /\ At(t, "idle")
    /\ program[t] = <<>>
    /\ GoTo(t, IF Yieldable(t) THEN "exit_link" ELSE "terminate")
    /\ UNCHANGED <<state, p_thread, pool, num_blocked, joinVars>>

(* ABTI_ythread_atomic_get_joiner: a link that is there already...         *)
ExitLink(t) ==
    /\ At(t, "exit_link")
    /\ GoTo(t, IF p_link[t] # NULL THEN "exit_resume" ELSE "exit_request")
    /\ UNCHANGED <<state, p_thread, pool, num_blocked, joinVars>>

(* ...or the fetch-or of REQ_JOIN: no joiner may block on t any more...    *)
ExitRequest(t) ==
    /\ At(t, "exit_request")
    /\ request' = [request EXCEPT ![t] = @ \cup {"JOIN"}]
    /\ GoTo(t, IF "JOIN" \in request[t] THEN "exit_spin" ELSE "terminate")
    /\ UNCHANGED <<state, p_thread, pool, num_blocked, p_link, p_last_xstream,
                   joiner_futex, cancelled, program>>

(* ...or one is about to, and t spins until the link is there.             *)
ExitSpin(t) ==
    /\ At(t, "exit_spin")
    /\ p_link[t] # NULL
    /\ GoTo(t, "exit_resume")
    /\ UNCHANGED <<state, p_thread, pool, num_blocked, joinVars>>

(* t ends on the ES its joiner blocked on.                                 *)
JumpsToJoiner(t) ==
    /\ ~cancelled[t]
    /\ p_last_xstream[t] = p_last_xstream[p_link[t]]

(* Mutant of ExitResume: the type of the joiner is not tested.             *)
ExitResumePushesAny(t) ==
    /\ At(t, "exit_resume")
    /\ ResumePush(t, p_link[t], "exit_dec")
    /\ UNCHANGED joinVars

(* The joiner is woken on its futex, or resumed through the pool, or is to *)
(* run next on this ES.                                                    *)
ExitResume(t) ==
    /\ At(t, "exit_resume")
    /\ LET j == p_link[t] IN
         \/ /\ ~Yieldable(j)
            /\ joiner_futex' = [joiner_futex EXCEPT ![j] = TRUE]
            /\ GoTo(t, "terminate")
            /\ UNCHANGED <<state, p_thread, pool, num_blocked>>
         \/ /\ Yieldable(j) /\ ~JumpsToJoiner(t)
            /\ ResumePush(t, j, "exit_dec")
            /\ UNCHANGED joiner_futex
         \/ /\ Yieldable(j) /\ JumpsToJoiner(t)
            /\ ResumeDecNumBlocked(t, "exit_jump")
            /\ UNCHANGED joiner_futex
    /\ UNCHANGED <<request, p_link, p_last_xstream, cancelled, program>>

(* Mutant of ExitDec: the count of a resumed joiner is not decreased.      *)
ExitDecLost(t) ==
    /\ At(t, "exit_dec")
    /\ GoTo(t, "terminate")
    /\ UNCHANGED <<state, p_thread, pool, num_blocked, joinVars>>

(* The joiner that was pushed is not blocked any more.                     *)
ExitDec(t) ==
    /\ At(t, "exit_dec")
    /\ ResumeDecNumBlocked(t, "terminate")
    /\ UNCHANGED joinVars

(* The context of the joiner takes the place of that of t on the ES, and   *)
(* runs callback_exit before anything else.                                *)
ExitJump(t) ==
    /\ At(t, "exit_jump")
    /\ LET j == p_link[t] IN
         /\ state' = [state EXCEPT ![j] = "RUNNING", ![t] = "TERMINATED"]
         /\ p_thread' = [e \in XSTREAM |-> IF p_thread[e] = t THEN j ELSE p_thread[e]]
         /\ p_last_xstream' = [p_last_xstream EXCEPT ![j] = p_last_xstream[t]]
    /\ GoTo(t, "done")
    /\ UNCHANGED <<pool, num_blocked, request, p_link, joiner_futex, cancelled, program>>

(* Mutant of Terminate: the joiner of a cancelled ULT is resumed, the ULT  *)
(* never marked TERMINATED.                                                *)
TerminateUnlessCancelled(t) ==
    /\ At(t, "terminate")
    /\ IF t \in ULT /\ cancelled[t]
       THEN SwitchToParent(t) /\ GoTo(t, "done") /\ UNCHANGED <<state, pool, num_blocked>>
       ELSE Exit(t, "done")
    /\ UNCHANGED joinVars

Terminate(t) ==
    /\ At(t, "terminate")
    /\ Exit(t, "done")
    /\ UNCHANGED joinVars

-----------------------------------------------------------------------------

(* The scheduler of e pops a unit and runs it, or handles its cancellation.*)
JoinSchedule(e) ==
    \/ /\ pool # <<>> /\ "CANCEL" \notin request[Head(pool)]
       /\ Schedule(e)
       /\ p_last_xstream' = [p_last_xstream EXCEPT ![Head(pool)] = e]
       /\ UNCHANGED <<request, p_link, joiner_futex, cancelled, program>>
    \/ /\ pool # <<>> /\ "CANCEL" \in request[Head(pool)]
       /\ p_thread[e] = NULL
       /\ p_thread' = [p_thread EXCEPT ![e] = Head(pool)]
       /\ pool' = Tail(pool)
       /\ HandleCancel(Head(pool))
       /\ UNCHANGED <<state, num_blocked, request, p_link, p_last_xstream,
                      joiner_futex, program>>

JoinStep(t) ==
    \/ SelfYield(t) \/ Cancel(t) \/ Revive(t)
    \/ JoinCall(t) \/ JoinRequest(t) \/ JoinBlock(t) \/ JoinLink(t)
    \/ JoinResumed(t) \/ JoinYield(t) \/ JoinPublish(t) \/ JoinFutex(t)
    \/ JoinBusywait(t)
    \/ ExitCall(t) \/ ExitLink(t) \/ ExitRequest(t) \/ ExitSpin(t)
    \/ ExitResume(t) \/ ExitDec(t) \/ ExitJump(t) \/ Terminate(t)

AllDone ==
    /\ \A t \in Thread : pc[t] = "done"
    /\ UNCHANGED vars

JoinNext ==
    \/ \E t \in Thread : JoinStep(t)
    \/ \E e \in XSTREAM : JoinSchedule(e)
    \/ AllDone

JoinSpec == JoinInit /\ [][JoinNext]_vars

(* Every processor goes on executing the code it is in, and every          *)
(* scheduler that finds a unit pops it.                                    *)
JoinFairness ==
    /\ \A t \in Thread : WF_vars(JoinStep(t))
    /\ \A e \in XSTREAM : WF_vars(JoinSchedule(e))

JoinFairSpec == JoinSpec /\ JoinFairness

-----------------------------------------------------------------------------
(* Properties.                                                             *)

Point == {"idle", "join_request", "join_block", "join_link", "join_resumed",
          "join_yield", "join_publish", "join_futex", "join_busywait",
          "exit_link", "exit_request", "exit_spin", "exit_resume", "exit_dec",
          "exit_jump", "terminate", "done"}

TypeOK ==
    /\ YthreadTypeOK(Point)
    /\ request \in [ULT -> SUBSET {"JOIN", "CANCEL"}]
    /\ p_link \in [ULT -> Thread \cup {NULL}]
    /\ p_last_xstream \in [ULT -> XSTREAM \cup {NULL}]
    /\ joiner_futex \in [Thread -> BOOLEAN]
    /\ cancelled \in [ULT -> BOOLEAN]
    /\ program \in [Thread -> Seq(Operation)]

(* The joiner that a ULT is about to resume, or to jump to, is BLOCKED and *)
(* off its ES: its context was saved before the ULT could learn of it, and *)
(* nobody else resumed it.                                                 *)
ResumesBlockedJoiner ==
    \A u \in ULT : pc[u] \in {"exit_resume", "exit_jump"} =>
        LET j == p_link[u] IN
            Yieldable(j) => state[j] = "BLOCKED" /\ j \notin OnXstream

(* A joiner blocks, or sleeps on its futex, only on a ULT that will still  *)
(* resume it: the one its operation names, with p_link set, and not yet    *)
(* past the point where it resumes its joiner.                             *)
JoinerRemembered ==
    /\ TypeOK
    /\ \A t \in Thread :
          \/ pc[t] = "join_resumed" /\ state[t] = "BLOCKED"
          \/ pc[t] = "join_futex" /\ ~joiner_futex[t]
          => LET u == Operand(t) IN
               /\ p_link[u] = t
               /\ pc[u] \notin {"exit_dec", "terminate", "done"}

(* A ULT spins in atomic_get_joiner only for a joiner that is executing    *)
(* the few steps before it publishes the link, on another ES or outside:   *)
(* no ES ever spins for a joiner that needs that ES to run.                *)
SpinsForRunningJoiner ==
    \A u \in ULT : pc[u] = "exit_spin" /\ p_link[u] = NULL =>
        \E t \in Thread : /\ pc[t] \in {"join_block", "join_link", "join_publish"}
                          /\ Operand(t) = u
                          /\ Running(t)

(* num_blocked counts the BLOCKED ULTs, but for a joiner its ULT is about  *)
(* to jump to (decreased before), and the ones that were pushed back       *)
(* before their number was decreased.                                      *)
BlockedUltsCounted ==
    num_blocked = Cardinality({u \in ULT : state[u] = "BLOCKED"})
                + Cardinality({u \in ULT : pc[u] = "exit_dec"})
                - Cardinality({u \in ULT : pc[u] = "exit_jump"})

(* Every thread comes to its end: joins return, also the ones of units     *)
(* that are cancelled, and revived units run and end again.                *)
EveryThreadFinishes == <>[](\A t \in Thread : pc[t] = "done")
=============================================================================
