------------------------------ MODULE Scheduler ------------------------------
(***************************************************************************)
(* The main schedulers of the execution streams (ESs), the pools they take *)
(* their units from, and the decision to stop.  Several unlocked reads     *)
(* tell a scheduler whether it may stop: is each of its pools empty; is it *)
(* the last scheduler of the pool; and, if so, is num_blocked zero, the    *)
(* count of suspended ULTs that will come back to the pool?                *)
(*                                                                         *)
(* ULTs and external threads execute short programs: they suspend, resume, *)
(* migrate, join or cancel an ES, replace the main scheduler of their own  *)
(* ES, and finalize.  All schedulers and pools are "automatic".  There are *)
(* the schedulers of the library and the work-stealing scheduler of the    *)
(* examples.                                                               *)
(***************************************************************************)
EXTENDS Integers, Sequences, FiniteSets, Functions, TLC

CONSTANTS
    ULT, EXT, XSTREAM, NULL,
    POOL, PRIV,   \* pools, and the ones of access PRIV
    SCHED,        \* schedulers
    KIND,         \* "basic" (or prio), "basic_wait", "randws" or "ws"
    POOLS,        \* ABTI_sched.pools of each scheduler
    SETUPS        \* what may be given: the scheduler each ES is created with,
                  \* the pool each ULT is created in, and what the threads are
                  \* about to do, for each a sequence of operations

Thread == ULT \cup EXT
Actor == Thread \cup XSTREAM

(* A call: its name and its operand.  Only ULTs yield, suspend themselves, *)
(* replace a scheduler and finalize.                                       *)
ExtCall ==
    ({"join", "cancel"} \X XSTREAM) \cup ({"resume"} \X ULT)
        \cup ({"migrate"} \X (ULT \X POOL))

UltCall ==
    ExtCall \cup ({"yield", "suspend"} \X {NULL}) \cup ({"replace"} \X SCHED)
        \cup ({"finalize"} \X XSTREAM)

(* Before ABT_finalize, a ULT has joined all ESs but the primary one.      *)
JoinsFirst(s) ==
    \A i \in DOMAIN s : s[i][1] = "finalize" =>
        \A e \in XSTREAM \ {s[i][2]} : \E j \in 1 .. i - 1 : s[j] = <<"join", e>>

ASSUME SchedulerAssumption ==
    /\ IsFiniteSet(ULT) /\ IsFiniteSet(EXT) /\ IsFiniteSet(XSTREAM)
    /\ ULT \cap EXT = {} /\ Thread \cap XSTREAM = {}
    /\ PRIV \subseteq POOL
    /\ POOLS \in [SCHED -> Seq(POOL)] /\ \A s \in SCHED : POOLS[s] # <<>>
    /\ KIND \in [SCHED -> {"basic", "basic_wait", "randws", "ws"}]
    /\ \A setup \in SETUPS :
          /\ setup.main \in [XSTREAM -> SCHED] /\ IsInjective(setup.main)
          /\ setup.home \in [ULT -> POOL]
          /\ setup.program \in [Thread -> Seq(UltCall)]
          /\ \A x \in EXT : setup.program[x] \in Seq(ExtCall)
          /\ \A u \in ULT : JoinsFirst(setup.program[u])
    /\ NULL \notin Actor \cup POOL \cup SCHED

VARIABLES
    (* of the pools *)
    pool,             \* units, oldest first
    num_blocked,
    num_scheds,
    (* of the threads *)
    program,          \* the operations each thread has left
    pc,               \* the point of the current one it is at
    state,            \* ABTI_thread.state of each ULT
    p_pool,           \* ABTI_thread.p_pool of each ULT
    migration,        \* p_migration_pool while REQ_MIGRATE is set, or NULL
    owed,             \* the pool an actor has pushed a resumed ULT to while
                      \* num_blocked is still to be decreased, or NULL
    (* of the ESs *)
    p_main_sched,
    request,          \* ABTI_sched.request of the main scheduler
    p_replace_sched,  \* of the main scheduler
    p_replace_waiter,
    thread_request,   \* request of the main scheduler's ULT
    p_thread,         \* the ULT that runs, its callbacks included; or NULL
    at,               \* the point of the main scheduler, when no ULT runs
    p,                \* the pool its loop over the pools is at
    caller            \* who called ABTI_sched_has_unit

poolVars == <<pool, num_blocked, num_scheds>>
threadVars == <<program, pc, state, p_pool, migration>>
replaceVars == <<p_replace_sched, p_replace_waiter>>
requestVars == <<request, thread_request>>
loopVars == <<p_thread, at, p, caller>>

vars == <<poolVars, threadVars, owed, p_main_sched, requestVars, replaceVars, loopVars>>

(* All orders of the elements of S.                                        *)
Order(S) == {f \in [1 .. Cardinality(S) -> S] : IsInjective(f)}

Home(q) == {u \in ULT : p_pool[u] = q}

Init ==
    /\ \E setup \in SETUPS :
          /\ p_main_sched = setup.main
          /\ p_pool = setup.home
          /\ program = setup.program
    /\ pool \in {f \in [POOL -> UNION {Order(Home(q)) : q \in POOL}] :
                    \A q \in POOL : f[q] \in Order(Home(q))}
    /\ num_blocked = [q \in POOL |-> 0]
    /\ num_scheds = [q \in POOL |->
                        Cardinality({e \in XSTREAM : q \in Range(POOLS[p_main_sched[e]])})]
    /\ pc = [t \in Thread |-> "call"]
    /\ state = [u \in ULT |-> "READY"]
    /\ migration = [u \in ULT |-> NULL]
    /\ owed = [a \in Actor |-> NULL]
    /\ request = [e \in XSTREAM |-> {}]
    /\ thread_request = [e \in XSTREAM |-> {}]
    /\ p_replace_sched = [e \in XSTREAM |-> NULL]
    /\ p_replace_waiter = [e \in XSTREAM |-> NULL]
    /\ p_thread = [e \in XSTREAM |-> NULL]
    /\ at = [e \in XSTREAM |-> "pop"]
    /\ p = [e \in XSTREAM |-> 1]
    /\ caller = [e \in XSTREAM |-> "stop"]

-----------------------------------------------------------------------------
(* Pools and threads.                                                      *)

Pools(s) == Range(POOLS[s])

(* A scheduler of the pools of s is created, or freed.                     *)
Retain(s) == num_scheds' = [q \in POOL |->
                num_scheds[q] + (IF q \in Pools(s) THEN 1 ELSE 0)]

Release(s) == num_scheds' = [q \in POOL |->
                num_scheds[q] - (IF q \in Pools(s) THEN 1 ELSE 0)]

(* t is an external thread, or the ULT that runs on some ES.               *)
Running(t) == t \in EXT \cup Range(p_thread)

At(t, l) == Running(t) /\ pc[t] = l

(* t is about to call op.                                                  *)
Calls(t, op) == At(t, "call") /\ program[t] # <<>> /\ Head(program[t])[1] = op

Operand(t) == Head(program[t])[2]

GoTo(t, l) == pc' = [pc EXCEPT ![t] = l]

OperationDone(t) ==
    /\ program' = [program EXCEPT ![t] = Tail(@)]
    /\ GoTo(t, "call")

(* The scheduler of e goes on at l, with its first pool if it loops there. *)
Enter(e, l) ==
    /\ at' = [at EXCEPT ![e] = l]
    /\ p' = [p EXCEPT ![e] = 1]
    /\ UNCHANGED caller

Kind(e) == KIND[p_main_sched[e]]

(* It has tried to pop a unit event_freq times: it checks for events, and  *)
(* then whether it has to stop; the work-stealing one does the latter      *)
(* first.                                                                  *)
RoundsOver(e) == Enter(e, IF Kind(e) = "ws" THEN "stop" ELSE "events")

NeedNotStop(e) == Enter(e, IF Kind(e) = "ws" THEN "events" ELSE "pop")

(* A unit has run.  basic_wait leaves its loop if it had to wait for it.   *)
AfterUnit(e) ==
    IF at[e] = "wait" THEN Enter(e, "run_over") ELSE Enter(e, "pop") \/ RoundsOver(e)

(* The ES that runs u...                                                   *)
Xstream(u) == CHOOSE e \in XSTREAM : p_thread[e] = u

(* ...goes back to its scheduler.                                          *)
SwitchToParent(u) ==
    /\ p_thread' = [p_thread EXCEPT ![Xstream(u)] = NULL]
    /\ AfterUnit(Xstream(u))

(* ABTI_thread_handle_request(u): a migration changes the pool of u.       *)
HandleMigration(u) ==
    /\ p_pool' = [p_pool EXCEPT ![u] = IF migration[u] = NULL THEN @ ELSE migration[u]]
    /\ migration' = [migration EXCEPT ![u] = NULL]

(* ABTI_ythread_resume_and_push(v) by a: the pool is read, v is pushed...  *)
ResumeAndPush(a, v) ==
    /\ state' = [state EXCEPT ![v] = "READY"]
    /\ pool' = [pool EXCEPT ![p_pool[v]] = Append(@, v)]
    /\ owed' = [owed EXCEPT ![a] = p_pool[v]]
    /\ UNCHANGED num_blocked

(* ...and that pool counts one blocked ULT less.                           *)
DecNumBlocked(a) ==
    /\ num_blocked' = [num_blocked EXCEPT ![owed[a]] = @ - 1]
    /\ owed' = [owed EXCEPT ![a] = NULL]
    /\ UNCHANGED <<pool, num_scheds>>

-----------------------------------------------------------------------------
(* Operations of the threads.                                              *)

(* ABT_self_yield; a joiner that has not suspended itself yields until the *)
(* scheduler has stopped.                                                  *)
Yield(u) ==
    /\ \/ Calls(u, "yield") /\ OperationDone(u)
       \/ /\ u \in ULT /\ At(u, "joining") /\ at[Operand(u)] # "stopped"
          /\ UNCHANGED <<program, pc>>
    /\ HandleMigration(u)
    /\ state' = [state EXCEPT ![u] = "READY"]
    /\ pool' = [pool EXCEPT ![p_pool'[u]] = Append(@, u)]
    /\ SwitchToParent(u)
    /\ UNCHANGED <<num_blocked, num_scheds, owed, p_main_sched, requestVars, replaceVars>>

(* Mutant of SuspendCount: not counted when it asks for a replacement.     *)
SuspendCountNotReplace(u) ==
    /\ Calls(u, "suspend") \/ At(u, "suspend")
    /\ num_blocked' = [num_blocked EXCEPT ![p_pool[u]] =
                           @ + (IF At(u, "suspend") THEN 0 ELSE 1)]
    /\ GoTo(u, "block")
    /\ UNCHANGED <<pool, num_scheds, program, state, p_pool, migration, owed,
                   p_main_sched, requestVars, replaceVars, loopVars>>

(* ABT_self_suspend, and the suspension in ABT_xstream_set_main_sched and  *)
(* ABT_xstream_join: the callback counts a blocked ULT...                  *)
SuspendCount(u) ==
    /\ Calls(u, "suspend") \/ At(u, "suspend")
    /\ num_blocked' = [num_blocked EXCEPT ![p_pool[u]] = @ + 1]
    /\ GoTo(u, "block")
    /\ UNCHANGED <<pool, num_scheds, program, state, p_pool, migration, owed,
                   p_main_sched, requestVars, replaceVars, loopVars>>

(* ...handles a migration, and sets the state.  To replace the scheduler   *)
(* it then asks the scheduler to make room; a joiner shows itself to the   *)
(* scheduler it joins.                                                     *)
SuspendBlock(u) ==
    /\ At(u, "block")
    /\ HandleMigration(u)
    /\ state' = [state EXCEPT ![u] = "BLOCKED"]
    /\ CASE Head(program[u])[1] = "replace" -> GoTo(u, "ask") /\ UNCHANGED <<program, loopVars>>
         [] Head(program[u])[1] = "join" -> GoTo(u, "joining") /\ SwitchToParent(u) /\ UNCHANGED program
         [] OTHER -> OperationDone(u) /\ SwitchToParent(u)
    /\ UNCHANGED <<poolVars, owed, p_main_sched, requestVars, replaceVars>>

SuspendAsk(u) ==
    /\ At(u, "ask")
    /\ request' = [request EXCEPT ![Xstream(u)] = @ \cup {"REPLACE"}]
    /\ OperationDone(u)
    /\ SwitchToParent(u)
    /\ UNCHANGED <<poolVars, state, p_pool, migration, owed, p_main_sched,
                   thread_request, replaceVars>>

(* ABT_thread_resume of a ULT that suspended itself.  An earlier call is an *)
(* error: the caller has to try again.                                     *)
Resume(t) ==
    /\ Calls(t, "resume")
    /\ LET v == Operand(t) IN
         /\ state[v] = "BLOCKED"
         /\ v \notin Range(p_replace_waiter)
         /\ ResumeAndPush(t, v)
    /\ GoTo(t, "resumed")
    /\ UNCHANGED <<num_scheds, program, p_pool, migration, p_main_sched,
                   requestVars, replaceVars, loopVars>>

ResumeDec(t) ==
    /\ At(t, "resumed")
    /\ DecNumBlocked(t)
    /\ OperationDone(t)
    /\ UNCHANGED <<state, p_pool, migration, p_main_sched, requestVars,
                   replaceVars, loopVars>>

(* ABT_thread_migrate_to_pool; an error when the ULT is there already.     *)
Migrate(t) ==
    /\ Calls(t, "migrate")
    /\ LET v == Operand(t)[1]
           q == Operand(t)[2]
       IN  IF p_pool[v] = q THEN UNCHANGED migration
                            ELSE migration' = [migration EXCEPT ![v] = q]
    /\ OperationDone(t)
    /\ UNCHANGED <<poolVars, state, p_pool, owed, p_main_sched, requestVars,
                   replaceVars, loopVars>>

(* The ULT returns from its function.                                      *)
Exit(u) ==
    /\ u \in ULT
    /\ At(u, "call")
    /\ program[u] = <<>>
    /\ state' = [state EXCEPT ![u] = "TERMINATED"]
    /\ SwitchToParent(u)
    /\ UNCHANGED <<poolVars, program, pc, p_pool, migration, owed, p_main_sched,
                   requestVars, replaceVars>>

(* xstream_join: FINISH for the scheduler...                               *)
Join(t) ==
    /\ Calls(t, "join")
    /\ request' = [request EXCEPT ![Operand(t)] = @ \cup {"FINISH"}]
    /\ GoTo(t, "join")
    /\ UNCHANGED <<poolVars, program, state, p_pool, migration, owed,
                   p_main_sched, thread_request, replaceVars, loopVars>>

(* Mutant of JoinThread: JOIN is not set.                                  *)
JoinThreadNoRequest(t) ==
    /\ At(t, "join")
    /\ GoTo(t, "joining")
    /\ UNCHANGED <<poolVars, program, state, p_pool, migration, owed,
                   p_main_sched, requestVars, replaceVars, loopVars>>

(* ...JOIN for its ULT.  Another ULT suspends itself then, unless that one *)
(* ends already...                                                         *)
JoinThread(t) ==
    /\ At(t, "join")
    /\ thread_request' = [thread_request EXCEPT ![Operand(t)] = @ \cup {"JOIN"}]
    /\ GoTo(t, IF t \in EXT \/ "JOIN" \in thread_request[Operand(t)]
               THEN "joining" ELSE "suspend")
    /\ UNCHANGED <<poolVars, program, state, p_pool, migration, owed,
                   p_main_sched, request, replaceVars, loopVars>>

(* ...and its end is waited for.                                           *)
JoinReturn(t) ==
    /\ At(t, "joining")
    /\ at[Operand(t)] = "stopped"
    /\ OperationDone(t)
    /\ UNCHANGED <<poolVars, state, p_pool, migration, owed, p_main_sched,
                   requestVars, replaceVars, loopVars>>

(* ABT_finalize by the primary ULT, an error on another ES: the scheduler  *)
(* of the primary ES has to finish.  The ULT leaves its pool; that it runs *)
(* once more, when the scheduler has stopped, is taken as its end.         *)
Finalize(u) ==
    /\ Calls(u, "finalize")
    /\ OperationDone(u)
    /\ LET e == Operand(u) IN
         IF Xstream(u) = e
         THEN /\ request' = [request EXCEPT ![e] = @ \cup {"FINISH"}]
              /\ state' = [state EXCEPT ![u] = "TERMINATED"]
              /\ SwitchToParent(u)
         ELSE UNCHANGED <<request, state, loopVars>>
    /\ UNCHANGED <<poolVars, p_pool, migration, owed, p_main_sched, thread_request,
                   replaceVars>>

(* ABT_xstream_cancel.                                                     *)
Cancel(t) ==
    /\ Calls(t, "cancel")
    /\ thread_request' = [thread_request EXCEPT ![Operand(t)] = @ \cup {"CANCEL"}]
    /\ OperationDone(t)
    /\ UNCHANGED <<poolVars, state, p_pool, migration, owed, p_main_sched,
                   request, replaceVars, loopVars>>

-----------------------------------------------------------------------------
(* ABT_xstream_set_main_sched_basic by a ULT, for its own ES.              *)

(* A scheduler is created.  The caller leaves the pools of the old one;    *)
(* an earlier replacement that has not happened yet is overwritten.        *)
Replace(u) ==
    /\ Calls(u, "replace")
    /\ LET e == Xstream(u) IN
         /\ Retain(Operand(u))
         /\ p_pool' = IF p_pool[u] \in Pools(p_main_sched[e])
                      THEN [p_pool EXCEPT ![u] = POOLS[Operand(u)][1]]
                      ELSE p_pool
         /\ GoTo(u, IF p_replace_sched[e] = NULL THEN "set" ELSE "discard")
    /\ UNCHANGED <<pool, num_blocked, program, state, migration, owed,
                   p_main_sched, requestVars, replaceVars, loopVars>>

(* The overwritten one is freed, and the ULT that waits for it resumed.    *)
ReplaceDiscard(u) ==
    /\ At(u, "discard")
    /\ LET e == Xstream(u) IN
         /\ Release(p_replace_sched[e])
         /\ p_replace_sched' = [p_replace_sched EXCEPT ![e] = NULL]
         /\ p_replace_waiter' = [p_replace_waiter EXCEPT ![e] = NULL]
         /\ ResumeAndPush(u, p_replace_waiter[e])
    /\ GoTo(u, "discarded")
    /\ UNCHANGED <<program, p_pool, migration, p_main_sched, requestVars, loopVars>>

ReplaceDec(u) ==
    /\ At(u, "discarded")
    /\ DecNumBlocked(u)
    /\ GoTo(u, "set")
    /\ UNCHANGED <<program, state, p_pool, migration, p_main_sched, requestVars,
                   replaceVars, loopVars>>

ReplaceSet(u) ==
    /\ At(u, "set")
    /\ LET e == Xstream(u) IN
         /\ p_replace_sched' = [p_replace_sched EXCEPT ![e] = Operand(u)]
         /\ p_replace_waiter' = [p_replace_waiter EXCEPT ![e] = u]
    /\ GoTo(u, "suspend")
    /\ UNCHANGED <<poolVars, program, state, p_pool, migration, owed,
                   p_main_sched, requestVars, loopVars>>

-----------------------------------------------------------------------------
(* sched_run of the schedulers.                                            *)

SchedAt(e, l) == p_thread[e] = NULL /\ at[e] = l

ThisPool(e) == POOLS[p_main_sched[e]][p[e]]

LastPool(e) == p[e] = Len(POOLS[p_main_sched[e]])

(* The pool is empty, and the next one is tried...                         *)
PopNext(e) ==
    /\ SchedAt(e, "pop")
    /\ pool[ThisPool(e)] = <<>>
    /\ Kind(e) # "randws"
    /\ ~LastPool(e)
    /\ p' = [p EXCEPT ![e] = @ + 1]
    /\ UNCHANGED <<poolVars, threadVars, owed, p_main_sched, requestVars,
                   replaceVars, p_thread, at, caller>>

(* ...or a random one of the others.                                       *)
PopVictim(e) ==
    /\ SchedAt(e, "pop")
    /\ pool[ThisPool(e)] = <<>>
    /\ Kind(e) = "randws" /\ p[e] = 1
    /\ \E target \in DOMAIN POOLS[p_main_sched[e]] \ {1} : p' = [p EXCEPT ![e] = target]
    /\ UNCHANGED <<poolVars, threadVars, owed, p_main_sched, requestVars,
                   replaceVars, p_thread, at, caller>>

(* Nothing was found in this round; basic_wait waits in its first pool.    *)
(* That the scheduler goes on only after event_freq rounds makes no        *)
(* difference: it sees nothing of its other rounds.                        *)
PopNothing(e) ==
    /\ SchedAt(e, "pop")
    /\ pool[ThisPool(e)] = <<>>
    /\ LastPool(e) \/ (Kind(e) = "randws" /\ p[e] > 1)
    /\ IF Kind(e) = "basic_wait" THEN Enter(e, "wait") ELSE RoundsOver(e)
    /\ UNCHANGED <<poolVars, threadVars, owed, p_main_sched, requestVars,
                   replaceVars, p_thread>>

(* Nothing comes in time.                                                  *)
WaitNothing(e) ==
    /\ SchedAt(e, "wait")
    /\ pool[ThisPool(e)] = <<>>
    /\ RoundsOver(e)
    /\ UNCHANGED <<poolVars, threadVars, owed, p_main_sched, requestVars,
                   replaceVars, p_thread>>

Pops(e) == (SchedAt(e, "pop") \/ SchedAt(e, "wait")) /\ pool[ThisPool(e)] # <<>>

(* A unit is popped and scheduled...                                       *)
PopUnit(e) ==
    /\ Pops(e)
    /\ LET u == Head(pool[ThisPool(e)]) IN
         /\ migration[u] = NULL
         /\ p_thread' = [p_thread EXCEPT ![e] = u]
         /\ state' = [state EXCEPT ![u] = "RUNNING"]
    /\ pool' = [pool EXCEPT ![ThisPool(e)] = Tail(@)]
    /\ UNCHANGED <<num_blocked, num_scheds, program, pc, p_pool, migration, owed,
                   p_main_sched, requestVars, replaceVars, at, p, caller>>

(* ...but one to be migrated is pushed to its new pool.                    *)
PopMigrate(e) ==
    /\ Pops(e)
    /\ LET u == Head(pool[ThisPool(e)]) IN
         /\ migration[u] # NULL
         /\ HandleMigration(u)
         /\ LET popped == [pool EXCEPT ![ThisPool(e)] = Tail(@)]
            IN  pool' = [popped EXCEPT ![migration[u]] = Append(@, u)]
    /\ AfterUnit(e)
    /\ UNCHANGED <<num_blocked, num_scheds, program, pc, state, owed, p_main_sched,
                   requestVars, replaceVars, p_thread>>

(* ABTI_xstream_check_events: what the ULT of the scheduler is asked for   *)
(* becomes a request to the scheduler.                                     *)
CheckEvents(e) ==
    /\ SchedAt(e, "events")
    /\ request' = [request EXCEPT ![e] = @
                    \cup (IF "JOIN" \in thread_request[e] THEN {"FINISH"} ELSE {})
                    \cup (IF "CANCEL" \in thread_request[e] THEN {"EXIT"} ELSE {})]
    /\ Enter(e, IF Kind(e) = "ws" THEN "pop" ELSE "stop")
    /\ UNCHANGED <<poolVars, threadVars, owed, p_main_sched, thread_request,
                   replaceVars, p_thread>>

-----------------------------------------------------------------------------
(* ABTI_sched_has_to_stop and ABTI_sched_has_unit.                         *)

CallHasUnit(e, c) ==
    /\ p' = [p EXCEPT ![e] = 1]
    /\ caller' = [caller EXCEPT ![e] = c]
    /\ at' = [at EXCEPT ![e] = "empty"]

(* Where ABTI_sched_has_unit returns to when it found a unit, or none.     *)
HasUnit(e) == IF caller[e] = "main" THEN Enter(e, "pop") ELSE NeedNotStop(e)

NoUnit(e) ==
    Enter(e, CASE caller[e] = "stop" -> "request"
               [] caller[e] = "stop_again" -> "run_over"
               [] caller[e] = "main" -> "exit")

NextPool(e) ==
    IF LastPool(e)
    THEN NoUnit(e)
    ELSE /\ p' = [p EXCEPT ![e] = @ + 1]
         /\ at' = [at EXCEPT ![e] = "empty"]
         /\ UNCHANGED caller

HasUnitEmpty(e) ==
    /\ SchedAt(e, "empty")
    /\ IF pool[ThisPool(e)] # <<>>
       THEN HasUnit(e)
       ELSE /\ at' = [at EXCEPT ![e] = IF ThisPool(e) \in PRIV THEN "blocked" ELSE "scheds"]
            /\ UNCHANGED <<p, caller>>
    /\ UNCHANGED <<poolVars, threadVars, owed, p_main_sched, requestVars,
                   replaceVars, p_thread>>

HasUnitScheds(e) ==
    /\ SchedAt(e, "scheds")
    /\ IF num_scheds[ThisPool(e)] = 1
       THEN at' = [at EXCEPT ![e] = "blocked"] /\ UNCHANGED <<p, caller>>
       ELSE NextPool(e)
    /\ UNCHANGED <<poolVars, threadVars, owed, p_main_sched, requestVars,
                   replaceVars, p_thread>>

HasUnitBlocked(e) ==
    /\ SchedAt(e, "blocked")
    /\ IF num_blocked[ThisPool(e)] # 0 THEN HasUnit(e) ELSE NextPool(e)
    /\ UNCHANGED <<poolVars, threadVars, owed, p_main_sched, requestVars,
                   replaceVars, p_thread>>

HasToStop(e) ==
    /\ SchedAt(e, "stop")
    /\ IF "EXIT" \in request[e]
       THEN Enter(e, "run_over")
       ELSE CallHasUnit(e, "stop")
    /\ UNCHANGED <<poolVars, threadVars, owed, p_main_sched, requestVars,
                   replaceVars, p_thread>>

(* Mutant of HasToStopAgain: the pools are not looked at again.            *)
HasToStopOnce(e) ==
    /\ SchedAt(e, "request")
    /\ IF request[e] \cap {"FINISH", "REPLACE"} # {}
       THEN Enter(e, "run_over")
       ELSE NeedNotStop(e)
    /\ UNCHANGED <<poolVars, threadVars, owed, p_main_sched, requestVars,
                   replaceVars, p_thread>>

(* No unit was found: the request is read, and the pools once more.        *)
HasToStopAgain(e) ==
    /\ SchedAt(e, "request")
    /\ IF request[e] \cap {"FINISH", "REPLACE"} # {}
       THEN CallHasUnit(e, "stop_again")
       ELSE NeedNotStop(e)
    /\ UNCHANGED <<poolVars, threadVars, owed, p_main_sched, requestVars,
                   replaceVars, p_thread>>

-----------------------------------------------------------------------------
(* thread_main_sched_func, after the run function has returned.            *)

(* The scheduler is replaced, with none of the requests of the old one...  *)
MainReplace(e) ==
    /\ SchedAt(e, "run_over")
    /\ "REPLACE" \in request[e]
    /\ p_main_sched' = [p_main_sched EXCEPT ![e] = p_replace_sched[e]]
    /\ p_replace_sched' = [p_replace_sched EXCEPT ![e] = NULL]
    /\ request' = [request EXCEPT ![e] = {}]
    /\ Release(p_main_sched[e])
    /\ Enter(e, "replaced")
    /\ UNCHANGED <<pool, num_blocked, threadVars, owed, thread_request,
                   p_replace_waiter, p_thread>>

(* ...and the ULT that waits for that is resumed.                          *)
MainResume(e) ==
    /\ SchedAt(e, "replaced")
    /\ ResumeAndPush(e, p_replace_waiter[e])
    /\ p_replace_waiter' = [p_replace_waiter EXCEPT ![e] = NULL]
    /\ Enter(e, "resumed")
    /\ UNCHANGED <<num_scheds, program, pc, p_pool, migration, p_main_sched,
                   requestVars, p_replace_sched, p_thread>>

MainDec(e) ==
    /\ SchedAt(e, "resumed")
    /\ DecNumBlocked(e)
    /\ Enter(e, "check")
    /\ UNCHANGED <<threadVars, p_main_sched, requestVars, replaceVars,
                   p_thread>>

MainKeep(e) ==
    /\ SchedAt(e, "run_over")
    /\ "REPLACE" \notin request[e]
    /\ Enter(e, "check")
    /\ UNCHANGED <<poolVars, threadVars, owed, p_main_sched, requestVars,
                   replaceVars, p_thread>>

(* A cancelled scheduler stops, one that is asked to finish does so when   *)
(* its pools are empty; the others run again.                              *)
MainCheck(e) ==
    /\ SchedAt(e, "check")
    /\ IF "CANCEL" \in thread_request[e]
       THEN Enter(e, "exit")
       ELSE IF "FINISH" \in request[e]
       THEN CallHasUnit(e, "main")
       ELSE Enter(e, "pop")
    /\ UNCHANGED <<poolVars, threadVars, owed, p_main_sched, requestVars,
                   replaceVars, p_thread>>

-----------------------------------------------------------------------------
(* ABTI_ythread_exit of the ULT of the scheduler.                          *)

(* Whether there is a joiner is decided...                                 *)
MainExit(e) ==
    /\ SchedAt(e, "exit")
    /\ thread_request' = [thread_request EXCEPT ![e] = @ \cup {"JOIN"}]
    /\ Enter(e, IF "JOIN" \in thread_request[e] THEN "link" ELSE "stopped")
    /\ UNCHANGED <<poolVars, threadVars, owed, p_main_sched, request, replaceVars,
                   p_thread>>

Joiner(t, e) == pc[t] \in {"suspend", "block", "joining"} /\ Operand(t) = e

(* Mutant of MainJoiner: it jumps to the joiner, as other ULTs do that end *)
(* on the ES their joiner has been on.                                     *)
MainJoinerJump(e) ==
    /\ SchedAt(e, "link")
    /\ \E u \in ULT :
          /\ Joiner(u, e) /\ state[u] = "BLOCKED"
          /\ state' = [state EXCEPT ![u] = "RUNNING"]
          /\ p_thread' = [p_thread EXCEPT ![e] = u]
          /\ num_blocked' = [num_blocked EXCEPT ![p_pool[u]] = @ - 1]
    /\ Enter(e, "stopped")
    /\ UNCHANGED <<pool, owed, num_scheds, program, pc, p_pool, migration, p_main_sched,
                   requestVars, replaceVars>>

(* ...and it is resumed when it has shown itself: a ULT is pushed to its   *)
(* pool, also if it has been on this ES, which will not run it any more... *)
MainJoiner(e) ==
    /\ SchedAt(e, "link")
    /\ \E u \in ULT : Joiner(u, e) /\ state[u] = "BLOCKED" /\ ResumeAndPush(e, u)
    /\ Enter(e, "joiner")
    /\ UNCHANGED <<num_scheds, program, pc, p_pool, migration, p_main_sched,
                   requestVars, replaceVars, p_thread>>

MainJoinerDec(e) ==
    /\ SchedAt(e, "joiner")
    /\ DecNumBlocked(e)
    /\ Enter(e, "stopped")
    /\ UNCHANGED <<threadVars, p_main_sched, requestVars, replaceVars, p_thread>>

(* ...an external thread by its futex.                                     *)
MainFutex(e) ==
    /\ SchedAt(e, "link")
    /\ \E x \in EXT : Joiner(x, e)
    /\ Enter(e, "stopped")
    /\ UNCHANGED <<poolVars, threadVars, owed, p_main_sched, requestVars, replaceVars,
                   p_thread>>

-----------------------------------------------------------------------------

ThreadStep(t) ==
    \/ Yield(t) \/ SuspendCount(t) \/ SuspendBlock(t) \/ SuspendAsk(t)
    \/ Resume(t) \/ ResumeDec(t) \/ Migrate(t) \/ Exit(t)
    \/ Join(t) \/ JoinThread(t) \/ JoinReturn(t) \/ Cancel(t) \/ Finalize(t)
    \/ Replace(t) \/ ReplaceDiscard(t) \/ ReplaceDec(t) \/ ReplaceSet(t)

SchedStep(e) ==
    \/ PopNext(e) \/ PopVictim(e) \/ PopNothing(e) \/ WaitNothing(e) \/ PopUnit(e) \/ PopMigrate(e) \/ CheckEvents(e)
    \/ HasToStop(e) \/ HasToStopAgain(e)
    \/ HasUnitEmpty(e) \/ HasUnitScheds(e) \/ HasUnitBlocked(e)
    \/ MainReplace(e) \/ MainResume(e) \/ MainDec(e) \/ MainKeep(e) \/ MainCheck(e)
    \/ MainExit(e) \/ MainJoiner(e) \/ MainJoinerDec(e) \/ MainFutex(e)

AllStopped ==
    /\ \A e \in XSTREAM : SchedAt(e, "stopped")
    /\ \A x \in EXT : program[x] = <<>>
    /\ UNCHANGED vars

Next ==
    \/ \E t \in Thread : ThreadStep(t)
    \/ \E e \in XSTREAM : SchedStep(e)
    \/ AllStopped

Spec == Init /\ [][Next]_vars

(* Every native thread goes on executing.                                  *)
FairSpec ==
    /\ Spec
    /\ \A t \in Thread : WF_vars(ThreadStep(t))
    /\ \A e \in XSTREAM : WF_vars(SchedStep(e))

-----------------------------------------------------------------------------
(* Properties.                                                             *)

TypeOK ==
    /\ pool \in [POOL -> Seq(ULT)]
    /\ num_blocked \in [POOL -> Nat]
    /\ num_scheds \in [POOL -> Nat]
    /\ pc \in [Thread -> {"call", "suspend", "block", "ask", "resumed", "join",
                          "joining", "discard", "discarded", "set"}]
    /\ state \in [ULT -> {"READY", "RUNNING", "BLOCKED", "TERMINATED"}]
    /\ p_pool \in [ULT -> POOL]
    /\ migration \in [ULT -> POOL \cup {NULL}]
    /\ owed \in [Actor -> POOL \cup {NULL}]
    /\ p_main_sched \in [XSTREAM -> SCHED]
    /\ request \in [XSTREAM -> SUBSET {"FINISH", "EXIT", "REPLACE"}]
    /\ thread_request \in [XSTREAM -> SUBSET {"JOIN", "CANCEL"}]
    /\ p_replace_sched \in [XSTREAM -> SCHED \cup {NULL}]
    /\ p_replace_waiter \in [XSTREAM -> ULT \cup {NULL}]
    /\ p_thread \in [XSTREAM -> ULT \cup {NULL}]
    /\ at \in [XSTREAM -> {"pop", "events", "stop", "empty", "scheds", "blocked",
                           "request", "run_over", "replaced", "resumed", "check",
                           "wait", "exit", "link", "joiner", "stopped"}]
    /\ p \in [XSTREAM -> Nat]
    /\ \A e \in XSTREAM : p[e] \in DOMAIN POOLS[p_main_sched[e]]
    /\ caller \in [XSTREAM -> {"stop", "stop_again", "main"}]

(* num_blocked of a pool is the number of its ULTs that are suspended, or  *)
(* were pushed back by somebody who has yet to decrease it: the counter is *)
(* never too small, so that a pool with ULTs to come never looks done, and *)
(* it does not stay too large, which would keep its scheduler for ever.    *)
BlockedUltsCounted ==
    /\ TypeOK
    /\ \A q \in POOL : num_blocked[q] =
          Cardinality({u \in ULT : p_pool[u] = q /\ (state[u] = "BLOCKED" \/ pc[u] = "block")})
        + Cardinality({a \in Actor : owed[a] = q})

(* The ULTs of the pools that only the scheduler of e serves.              *)
Dependents(e) == {u \in ULT : /\ p_pool[u] \in Pools(p_main_sched[e])
                              /\ num_scheds[p_pool[u]] = 1}

(* A scheduler that stops because it was asked to finish, or that is freed *)
(* for another one, leaves no ULT behind that would never run again.       *)
Stops(e) == at[e] # "exit" /\ at'[e] = "exit" /\ "CANCEL" \notin thread_request[e]

Freed(e) == p_main_sched'[e] # p_main_sched[e] /\ "EXIT" \notin request[e]

NoUltLeftBehind ==
    [][\A e \in XSTREAM : Stops(e) \/ Freed(e)
            => \A u \in Dependents(e) : state[u] = "TERMINATED"]_vars

(* The primary ULT that has joined the other ESs is on the primary ES, and *)
(* may finalize, wherever it was stolen before.                            *)
PrimaryComesHome ==
    \A u \in ULT : Calls(u, "finalize") => Xstream(u) = Operand(u)

(* Every join returns, and every ULT of an ES that is not cancelled runs   *)
(* to its end.                                                             *)
JoinsReturn ==
    <>(/\ \A x \in EXT : program[x] = <<>>
       /\ (\A e \in XSTREAM : "CANCEL" \notin thread_request[e])
            => \A u \in ULT : state[u] = "TERMINATED")
=============================================================================
