------------------------------- MODULE Xstream -------------------------------
(***************************************************************************)
(* The life cycle of execution streams.  An ES consists of a structure, a  *)
(* main scheduler with its ULT, and a native thread (ABTD_xstream_context) *)
(* whose root thread pops that ULT and runs it until it terminates.  Then  *)
(* the native thread sleeps until the ES is revived or freed.  A join asks *)
(* the scheduler to finish when its pool is empty, a cancellation to stop  *)
(* at once.  All ESs are on a list sorted by their ranks.                  *)
(*                                                                         *)
(* The callers act for any thread outside the ES.  What they do to one ES  *)
(* is what the documentation allows: they revive what they have joined,    *)
(* cancel what runs, and free what nobody else uses.  The wait for the ULT *)
(* of the scheduler is that of module Join; replaced schedulers and pools  *)
(* with blocked ULTs are the subject of module Scheduler.                  *)
(***************************************************************************)
EXTENDS Integers, FiniteSets, SequencesExt

CONSTANTS
    STREAM,     \* the structures of the ESs
    PRIMARY,    \* the one that ABT_init creates
    NOSTREAM,   \* no ES
    CALLER,     \* threads that call the functions of this module
    UNIT,       \* work units
    EXITS,      \* units that call ABT_xstream_exit
    ESPROGRAMS  \* what the callers may do: functions that give each of them
                \* a sequence of operations <<name, ES, argument>>

(* A call: its name, its ES, a rank or a unit.                             *)
XstreamCall ==
    {"create", "push", "set_rank", "join", "revive", "free", "cancel"}
        \X STREAM \X (UNIT \cup Int)

(* Those that may not meet another one of them on the same ES.  The callers*)
(* have nothing to take turns with: one of them makes all these calls.     *)
Exclusive == {"create", "join", "revive", "free"}

(* The call at position k of program s.                                    *)
IsCall(s, k, names, x) == s[k][1] \in names /\ s[k][2] = x

OneOwner(p) ==
    \A c, d \in CALLER : \A x \in STREAM : \A j \in DOMAIN p[c] : \A k \in DOMAIN p[d] :
        IsCall(p[c], j, Exclusive, x) /\ IsCall(p[d], k, Exclusive, x) => c = d

(* A structure is created, and a unit is pushed, once.                     *)
NamesFresh(p) ==
    \A c, d \in CALLER : \A j \in DOMAIN p[c] : \A k \in DOMAIN p[d] :
        LET a == p[c][j]
            b == p[d][k] IN
          (\/ a[1] = "create" /\ b[1] = "create" /\ a[2] = b[2]
           \/ a[1] = "push" /\ b[1] = "push" /\ a[3] = b[3])
          => c = d /\ j = k

(* The ES that call k of program s revives was joined, and not revived     *)
(* since.                                                                  *)
JoinedBefore(s, k) ==
    \E j \in 1 .. k - 1 :
        /\ IsCall(s, j, {"join"}, s[k][2])
        /\ \A i \in j + 1 .. k - 1 : ~IsCall(s, i, {"revive"}, s[k][2])

(* Nobody asks the ES to stop before call k of c.                          *)
NeverStopped(p, c, k) ==
    LET x == p[c][k][2] IN
      /\ \A i \in 1 .. k - 1 : ~IsCall(p[c], i, {"join", "free"}, x)
      /\ \A d \in CALLER : \A i \in DOMAIN p[d] :
            /\ ~IsCall(p[d], i, {"cancel"}, x)
            /\ ~(IsCall(p[d], i, {"push"}, x) /\ p[d][i][3] \in EXITS)

(* Calls that do not return with an error at once: most refuse the primary *)
(* ES, all a rank below 0; -1 stands for the rank that is not given.       *)
Accepted(a) ==
    /\ a[1] \in {"create", "set_rank", "join", "free", "cancel"} => a[2] # PRIMARY
    /\ a[1] = "create" => a[3] \in Nat \cup {-1}
    /\ a[1] = "set_rank" => a[3] \in Nat
    /\ a[1] = "push" => a[3] \in UNIT

(* What the documentation of stream.c asks of the callers: create, join,   *)
(* revive and free of an ES are not thread-safe, and what is revived was   *)
(* joined, or runs, an error.                                              *)
LegalUse(p) ==
    /\ p \in [CALLER -> Seq(XstreamCall)]
    /\ OneOwner(p) /\ NamesFresh(p)
    /\ \A c \in CALLER : \A k \in DOMAIN p[c] :
          /\ Accepted(p[c][k])
          /\ p[c][k][1] = "revive" => JoinedBefore(p[c], k) \/ NeverStopped(p, c, k)

ASSUME XstreamAssumption ==
    /\ IsFiniteSet(STREAM) /\ PRIMARY \in STREAM /\ NOSTREAM \notin STREAM
    /\ EXITS \subseteq UNIT
    /\ \A p \in ESPROGRAMS : LegalUse(p)

VARIABLES
    life,           \* of each structure
    list,           \* p_xstream_head, and p_next and p_prev of each ES
    rank, num_xstreams,
    es_state,       \* ABTI_xstream.state
    ctx_state,      \* ABTD_xstream_context.state
    state_cond,     \* who sleeps on the condition variable of the context
    native,         \* the point the native thread is at
    main_sched,     \* state of the ULT of the main scheduler
    root_pool,      \* that ULT is in the root pool
    request,        \* its requests
    sched_request,  \* ABTI_sched.request of the main scheduler
    units,          \* the pool of the main scheduler
    call,           \* the point each caller is at
    todo,        \* the operations each caller has left
    owed,           \* history: units that must be over when a join returns
    cancelled       \* history: ESs cancelled since they were last started

rankVars == <<list, rank, num_xstreams>>
ctxVars == <<es_state, ctx_state, state_cond>>
schedVars == <<main_sched, root_pool, request, sched_request, units>>
callerVars == <<call, todo, owed, cancelled>>
xstreamVars == <<life, rankVars, ctxVars, native, schedVars, callerVars>>

XstreamInit ==
    /\ life = [x \in STREAM |-> IF x = PRIMARY THEN "live" ELSE "none"]
    /\ list = [head |-> PRIMARY, next |-> [x \in STREAM |-> NOSTREAM],
               prev |-> [x \in STREAM |-> NOSTREAM]]
    /\ rank = [x \in STREAM |-> 0]
    /\ num_xstreams = 1
    /\ es_state = [x \in STREAM |-> "RUNNING"]
    /\ ctx_state = [x \in STREAM |-> "UNINIT"]
    /\ state_cond = [x \in STREAM |-> {}]
    /\ native = [x \in STREAM |-> "none"]
    /\ main_sched = [x \in STREAM |-> "READY"]
    /\ root_pool = [x \in STREAM |-> FALSE]
    /\ request = [x \in STREAM |-> {}]
    /\ sched_request = [x \in STREAM |-> {}]
    /\ units = [x \in STREAM |-> <<>>]
    /\ call = [c \in CALLER |-> "idle"]
    /\ todo \in ESPROGRAMS
    /\ owed = [c \in CALLER |-> {}]
    /\ cancelled = {}

-----------------------------------------------------------------------------
(* The list of ESs: functions of a list l, for ranks r.                    *)

(* The ESs from the head on, up to the end of the list.                    *)
Order(l) ==
    LET walk[k \in 1..Cardinality(STREAM)] ==
            IF k = 1 THEN l.head
            ELSE IF walk[k - 1] = NOSTREAM THEN NOSTREAM ELSE l.next[walk[k - 1]]
    IN  [k \in 1..Cardinality({j \in 1..Cardinality(STREAM) : walk[j] # NOSTREAM}) |-> walk[k]]

(* xstream_add_xstream_list of x.  p_prev of an ES that becomes the head   *)
(* is not written.                                                         *)
AddToList(l, r, x) ==
    LET order == Order(l)
        later == {k \in 1..Len(order) : r[order[k]] > r[x]}
        next == order[Min(later)]
        prev == IF later = {} THEN order[Len(order)] ELSE l.prev[next] IN
      IF later = {}
      THEN [l EXCEPT !.next[prev] = x, !.prev[x] = prev, !.next[x] = NOSTREAM]
      ELSE IF prev = NOSTREAM
      THEN [l EXCEPT !.head = x, !.prev[next] = x, !.next[x] = next]
      ELSE [l EXCEPT !.next[prev] = x, !.prev[x] = prev, !.prev[next] = x, !.next[x] = next]

(* Mutant of RemoveFromList: p_prev of the successor is not written.       *)
RemoveFromListHalf(l, x) ==
    IF l.prev[x] = NOSTREAM THEN [l EXCEPT !.head = l.next[x]]
                            ELSE [l EXCEPT !.next[l.prev[x]] = l.next[x]]

(* xstream_remove_xstream_list of x.                                       *)
RemoveFromList(l, x) ==
    LET m == IF l.prev[x] = NOSTREAM THEN [l EXCEPT !.head = l.next[x]]
                                     ELSE [l EXCEPT !.next[l.prev[x]] = l.next[x]] IN
      IF l.next[x] = NOSTREAM THEN m ELSE [m EXCEPT !.prev[l.next[x]] = l.prev[x]]

RankTaken(r) == \E y \in Range(Order(list)) : rank[y] = r

(* The first rank that is not used, from 0.                                *)
FirstFreeRank == Min({r \in 0..Cardinality(STREAM) : ~RankTaken(r)})

-----------------------------------------------------------------------------
(* The callers.                                                            *)

CallAt(c, l) == call[c] = l

GoCall(c, l) == call' = [call EXCEPT ![c] = l] /\ UNCHANGED todo

EndCall(c) ==
    /\ call' = [call EXCEPT ![c] = "idle"]
    /\ todo' = [todo EXCEPT ![c] = Tail(@)]

Target(c) == Head(todo[c])[2]
Argument(c) == Head(todo[c])[3]

(* c is about to call op.                                                  *)
Begins(c, op) ==
    /\ CallAt(c, "idle")
    /\ todo[c] # <<>>
    /\ Head(todo[c])[1] = op

(* c is about to call op on an ES that exists.                             *)
BeginsOn(c, op) == Begins(c, op) /\ life[Target(c)] = "live"

(* Nobody else has an operation left on x.                                 *)
UsedOnlyBy(c, x) ==
    \A d \in CALLER \ {c} : \A k \in 1..Len(todo[d]) : todo[d][k][2] # x

(* An ES that could not be created is ABT_XSTREAM_NULL, an error.          *)
NullHandle(c) ==
    /\ CallAt(c, "idle") /\ todo[c] # <<>>
    /\ life[Target(c)] = "failed"
    /\ EndCall(c)
    /\ UNCHANGED <<life, rankVars, ctxVars, native, schedVars, owed, cancelled>>

(* ABT_thread_create for the pool of the ES, that may be terminated.       *)
PushUnit(c) ==
    /\ BeginsOn(c, "push")
    /\ units' = [units EXCEPT ![Target(c)] = Append(@, Argument(c))]
    /\ EndCall(c)
    /\ UNCHANGED <<life, rankVars, ctxVars, native, main_sched, root_pool, request,
                   sched_request, owed, cancelled>>

(* pthread_cond_signal: one of those who sleep on the condition variable.  *)
SignalCond(sleepers) == IF sleepers = {} THEN {{}} ELSE {sleepers \ {s} : s \in sleepers}

-----------------------------------------------------------------------------
(* xstream_create, and ABT_xstream_set_rank.                               *)

(* xstream_set_new_rank; -1 asks for the first free rank.                  *)
SetNewRank(c) ==
    /\ Begins(c, "create")
    /\ LET x == Target(c)
           r == IF Argument(c) = -1 THEN FirstFreeRank ELSE Argument(c) IN
         \/ /\ RankTaken(r)
            /\ life' = [life EXCEPT ![x] = "failed"]
            /\ EndCall(c)
            /\ UNCHANGED rankVars
         \/ /\ ~RankTaken(r)
            /\ rank' = [rank EXCEPT ![x] = r]
            /\ list' = AddToList(list, rank', x)
            /\ num_xstreams' = num_xstreams + 1
            /\ GoCall(c, "create")
            /\ UNCHANGED life
    /\ UNCHANGED <<ctxVars, native, schedVars, owed, cancelled>>

(* The rest of it: memory, scheduler, root thread and pool, native thread. *)
CreateXstream(c) ==
    /\ CallAt(c, "create")
    /\ LET x == Target(c) IN
         /\ life' = [life EXCEPT ![x] = "live"]
         /\ root_pool' = [root_pool EXCEPT ![x] = TRUE]
         /\ ctx_state' = [ctx_state EXCEPT ![x] = "RUNNING"]
         /\ native' = [native EXCEPT ![x] = "start"]
    /\ EndCall(c)
    /\ UNCHANGED <<rankVars, es_state, state_cond, main_sched, request, sched_request,
                   units, owed, cancelled>>

ReturnRank(x) ==
    /\ list' = RemoveFromList(list, x)
    /\ num_xstreams' = num_xstreams - 1
    /\ UNCHANGED rank

(* Some part of it fails: the rank is returned.                            *)
CreateFails(c) ==
    /\ CallAt(c, "create")
    /\ life' = [life EXCEPT ![Target(c)] = "failed"]
    /\ ReturnRank(Target(c))
    /\ EndCall(c)
    /\ UNCHANGED <<ctxVars, native, schedVars, owed, cancelled>>

(* xstream_change_rank.                                                    *)
ChangeRank(c) ==
    /\ BeginsOn(c, "set_rank")
    /\ LET x == Target(c) IN
         \/ /\ RankTaken(Argument(c))    \* by x itself, or an error
            /\ UNCHANGED rankVars
         \/ /\ ~RankTaken(Argument(c))
            /\ rank' = [rank EXCEPT ![x] = Argument(c)]
            /\ list' = AddToList(RemoveFromList(list, x), rank', x)
            /\ UNCHANGED num_xstreams
    /\ EndCall(c)
    /\ UNCHANGED <<life, ctxVars, native, schedVars, owed, cancelled>>

-----------------------------------------------------------------------------
(* xstream_join, in ABT_xstream_join and ABT_xstream_free.                 *)

JoinRequest(c) ==
    /\ \/ BeginsOn(c, "join")
       \/ BeginsOn(c, "free") /\ UsedOnlyBy(c, Target(c))
    /\ sched_request' = [sched_request EXCEPT ![Target(c)] = @ \cup {"FINISH"}]
    /\ owed' = [owed EXCEPT ![c] =
                   IF main_sched[Target(c)] = "TERMINATED" THEN {} ELSE Range(units[Target(c)])]
    /\ GoCall(c, "join_ult")
    /\ UNCHANGED <<life, rankVars, ctxVars, native, main_sched, root_pool, request,
                   units, cancelled>>

(* ABTI_thread_join of the ULT of the main scheduler.                      *)
JoinUlt(c) ==
    /\ CallAt(c, "join_ult")
    /\ main_sched[Target(c)] = "TERMINATED"
    /\ GoCall(c, "join_ctx")
    /\ UNCHANGED <<life, rankVars, ctxVars, native, schedVars, owed, cancelled>>

(* Mutant of JoinContext: the native thread is not waited for.             *)
JoinContextSkipped(c) ==
    /\ CallAt(c, "join_ctx")
    /\ GoCall(c, "joined")
    /\ UNCHANGED <<life, rankVars, ctxVars, native, schedVars, owed, cancelled>>

(* ABTD_xstream_context_join.                                              *)
JoinContext(c) ==
    /\ CallAt(c, "join_ctx")
    /\ LET x == Target(c) IN
         \/ /\ ctx_state[x] = "WAITING"
            /\ GoCall(c, "joined")
            /\ UNCHANGED ctxVars
         \/ /\ ctx_state[x] # "WAITING"
            /\ ctx_state' = [ctx_state EXCEPT ![x] = "REQ_JOIN"]
            /\ state_cond' = [state_cond EXCEPT ![x] = @ \cup {"joiner"}]
            /\ GoCall(c, "join_sleep")
            /\ UNCHANGED es_state
    /\ UNCHANGED <<life, rankVars, native, schedVars, owed, cancelled>>

JoinWake(c) ==
    /\ CallAt(c, "join_sleep")
    /\ LET x == Target(c) IN
         /\ "joiner" \notin state_cond[x]
         /\ \/ /\ ctx_state[x] = "REQ_JOIN"
               /\ state_cond' = [state_cond EXCEPT ![x] = @ \cup {"joiner"}]
               /\ UNCHANGED <<call, todo>>
            \/ /\ ctx_state[x] # "REQ_JOIN"
               /\ GoCall(c, "joined")
               /\ UNCHANGED state_cond
    /\ UNCHANGED <<life, rankVars, es_state, ctx_state, native, schedVars, owed, cancelled>>

JoinReturns(c) ==
    /\ CallAt(c, "joined")
    /\ owed' = [owed EXCEPT ![c] = {}]
    /\ \/ Head(todo[c])[1] = "join" /\ EndCall(c)
       \/ Head(todo[c])[1] = "free" /\ GoCall(c, "free")
    /\ UNCHANGED <<life, rankVars, ctxVars, native, schedVars, cancelled>>

(* ABTI_xstream_free: the rank first...                                    *)
FreeRank(c) ==
    /\ CallAt(c, "free")
    /\ ReturnRank(Target(c))
    /\ GoCall(c, "free_ctx")
    /\ UNCHANGED <<life, ctxVars, native, schedVars, owed, cancelled>>

(* ...and at last the native thread, which is asked to end...              *)
FreeContext(c) ==
    /\ CallAt(c, "free_ctx")
    /\ LET x == Target(c) IN
         /\ ctx_state' = [ctx_state EXCEPT ![x] = "REQ_TERMINATE"]
         /\ \E sleepers \in SignalCond(state_cond[x]) :
               state_cond' = [state_cond EXCEPT ![x] = sleepers]
    /\ GoCall(c, "free_join")
    /\ UNCHANGED <<life, rankVars, es_state, native, schedVars, owed, cancelled>>

(* ...and joined.                                                          *)
FreeDone(c) ==
    /\ CallAt(c, "free_join")
    /\ native[Target(c)] = "exited"
    /\ life' = [life EXCEPT ![Target(c)] = "freed"]
    /\ EndCall(c)
    /\ UNCHANGED <<rankVars, ctxVars, native, schedVars, owed, cancelled>>

-----------------------------------------------------------------------------
(* ABT_xstream_revive and ABT_xstream_cancel.                              *)

ReviveError(c) ==
    /\ BeginsOn(c, "revive")
    /\ main_sched[Target(c)] # "TERMINATED"
    /\ EndCall(c)
    /\ UNCHANGED <<life, rankVars, ctxVars, native, schedVars, owed, cancelled>>

(* Mutant of ReviveUlt: the requests of the ULT are kept.                  *)
ReviveUltRequested(c) ==
    /\ BeginsOn(c, "revive")
    /\ LET x == Target(c) IN
         /\ main_sched[x] = "TERMINATED"
         /\ sched_request' = [sched_request EXCEPT ![x] = {}]
         /\ main_sched' = [main_sched EXCEPT ![x] = "READY"]
         /\ root_pool' = [root_pool EXCEPT ![x] = TRUE]
         /\ es_state' = [es_state EXCEPT ![x] = "RUNNING"]
         /\ cancelled' = cancelled \ {x}
    /\ GoCall(c, "revive_ctx")
    /\ UNCHANGED <<life, rankVars, ctx_state, state_cond, native, request, units, owed>>

(* The ULT of the scheduler starts again, without its requests...          *)
ReviveUlt(c) ==
    /\ BeginsOn(c, "revive")
    /\ LET x == Target(c) IN
         /\ main_sched[x] = "TERMINATED"
         /\ sched_request' = [sched_request EXCEPT ![x] = {}]
         /\ request' = [request EXCEPT ![x] = {}]
         /\ main_sched' = [main_sched EXCEPT ![x] = "READY"]
         /\ root_pool' = [root_pool EXCEPT ![x] = TRUE]
         /\ es_state' = [es_state EXCEPT ![x] = "RUNNING"]
         /\ cancelled' = cancelled \ {x}
    /\ GoCall(c, "revive_ctx")
    /\ UNCHANGED <<life, rankVars, ctx_state, state_cond, native, units, owed>>

(* ...and then the native thread.                                          *)
ReviveContext(c) ==
    /\ CallAt(c, "revive_ctx")
    /\ LET x == Target(c) IN
         /\ ctx_state' = [ctx_state EXCEPT ![x] = "RUNNING"]
         /\ \E sleepers \in SignalCond(state_cond[x]) :
               state_cond' = [state_cond EXCEPT ![x] = sleepers]
    /\ EndCall(c)
    /\ UNCHANGED <<life, rankVars, es_state, native, schedVars, owed, cancelled>>

(* The request is made whatever the ES does; a revival drops it.           *)
Cancel(c) ==
    /\ BeginsOn(c, "cancel")
    /\ request' = [request EXCEPT ![Target(c)] = @ \cup {"CANCEL"}]
    /\ cancelled' = cancelled \cup {Target(c)}
    /\ EndCall(c)
    /\ UNCHANGED <<life, rankVars, ctxVars, native, main_sched, root_pool, sched_request,
                   units, owed>>

-----------------------------------------------------------------------------
(* The native thread of ES x.                                              *)

NativeGo(x, from, next) == native[x] = from /\ native' = [native EXCEPT ![x] = next]

(* xstream_launch_root_ythread and thread_root_func pop the ULT, which     *)
(* calls the run function of the scheduler and terminates without yielding *)
(* or suspending itself: it is popped once.                                *)
RootPop(x) ==
    /\ root_pool[x]
    /\ root_pool' = [root_pool EXCEPT ![x] = FALSE]
    /\ main_sched' = [main_sched EXCEPT ![x] = "RUNNING"]
    /\ NativeGo(x, "start", "run")
    /\ UNCHANGED <<life, rankVars, ctxVars, request, sched_request, units, callerVars>>

(* sched_run pops and runs a unit, then looks for events from time to time. *)
RunUnit(x) ==
    /\ native[x] = "run"
    /\ units[x] # <<>>
    /\ units' = [units EXCEPT ![x] = Tail(@)]
    /\ \/ /\ Head(units[x]) \in EXITS
          /\ request' = [request EXCEPT ![x] = @ \cup {"CANCEL"}]
          /\ cancelled' = cancelled \cup {x}
       \/ /\ Head(units[x]) \notin EXITS
          /\ UNCHANGED <<request, cancelled>>
    /\ NativeGo(x, "run", "run") \/ NativeGo(x, "run", "events")
    /\ UNCHANGED <<life, rankVars, ctxVars, main_sched, root_pool, sched_request, call,
                   todo, owed>>

RunNothing(x) ==
    /\ units[x] = <<>>
    /\ NativeGo(x, "run", "events")
    /\ UNCHANGED <<life, rankVars, ctxVars, schedVars, callerVars>>

(* ABTI_xstream_check_events.  A join also leaves its request with the ULT *)
(* of the scheduler, and asks again what it has asked for before: the      *)
(* request bit is left out.                                                *)
CheckEvents(x) ==
    /\ NativeGo(x, "events", "stop")
    /\ sched_request' = [sched_request EXCEPT ![x] =
                            IF "CANCEL" \in request[x] THEN @ \cup {"EXIT"} ELSE @]
    /\ UNCHANGED <<life, rankVars, ctxVars, main_sched, root_pool, request, units, callerVars>>

(* ABTI_sched_has_to_stop: yes after EXIT, or if the pool is empty before  *)
(* and after a request to finish was seen.                                 *)
HasToStop(x) ==
    /\ \/ /\ "EXIT" \in sched_request[x]
          /\ NativeGo(x, "stop", "after_run")
       \/ /\ "EXIT" \notin sched_request[x] /\ units[x] # <<>>
          /\ NativeGo(x, "stop", "run")
       \/ /\ "EXIT" \notin sched_request[x] /\ units[x] = <<>>
          /\ NativeGo(x, "stop", "stop_request")
       \/ NativeGo(x, "stop_request",
                   IF "FINISH" \in sched_request[x] THEN "stop_empty" ELSE "run")
       \/ NativeGo(x, "stop_empty", IF units[x] = <<>> THEN "after_run" ELSE "run")
    /\ UNCHANGED <<life, rankVars, ctxVars, schedVars, callerVars>>

(* thread_main_sched_func decides again when the run function returns.     *)
AfterRun(x) ==
    /\ \/ /\ "CANCEL" \in request[x] \/ ("FINISH" \in sched_request[x] /\ units[x] = <<>>)
          /\ main_sched' = [main_sched EXCEPT ![x] = "TERMINATED"]
          /\ NativeGo(x, "after_run", "root_end")
       \/ /\ "CANCEL" \notin request[x]
          /\ "FINISH" \notin sched_request[x] \/ units[x] # <<>>
          /\ NativeGo(x, "after_run", "run")
          /\ UNCHANGED main_sched
    /\ UNCHANGED <<life, rankVars, ctxVars, root_pool, request, sched_request, units, callerVars>>

(* thread_root_func ends with the ULT of the scheduler.                    *)
RootEnd(x) ==
    /\ NativeGo(x, "root_end", "finish")
    /\ es_state' = [es_state EXCEPT ![x] = "TERMINATED"]
    /\ UNCHANGED <<life, rankVars, ctx_state, state_cond, schedVars, callerVars>>

(* Mutant of NativeFinish: the state is WAITING, but nobody is signaled.   *)
NativeFinishSilent(x) ==
    /\ NativeGo(x, "finish", "asleep")
    /\ ctx_state' = [ctx_state EXCEPT ![x] = "WAITING"]
    /\ state_cond' = [state_cond EXCEPT ![x] = @ \cup {"native"}]
    /\ UNCHANGED <<life, rankVars, es_state, schedVars, callerVars>>

(* xstream_context_thread_func wakes a joiner up, and sleeps...            *)
NativeFinish(x) ==
    /\ NativeGo(x, "finish", "asleep")
    /\ ctx_state' = [ctx_state EXCEPT ![x] = "WAITING"]
    /\ \E sleepers \in IF ctx_state[x] = "REQ_JOIN" THEN SignalCond(state_cond[x])
                                                    ELSE {state_cond[x]} :
          state_cond' = [state_cond EXCEPT ![x] = sleepers \cup {"native"}]
    /\ UNCHANGED <<life, rankVars, es_state, schedVars, callerVars>>

(* ...until it is revived or freed.                                        *)
NativeWake(x) ==
    /\ "native" \notin state_cond[x]
    /\ \/ /\ ctx_state[x] = "WAITING"
          /\ NativeGo(x, "asleep", "asleep")
          /\ state_cond' = [state_cond EXCEPT ![x] = @ \cup {"native"}]
       \/ /\ ctx_state[x] # "WAITING"
          /\ NativeGo(x, "asleep", IF ctx_state[x] = "REQ_TERMINATE" THEN "exited"
                                                                     ELSE "start")
          /\ UNCHANGED state_cond
    /\ UNCHANGED <<life, rankVars, es_state, ctx_state, schedVars, callerVars>>

(* pthread_cond_wait may return without a signal: both waits are loops.    *)
SpuriousWake(x) ==
    /\ \E s \in state_cond[x] : state_cond' = [state_cond EXCEPT ![x] = @ \ {s}]
    /\ UNCHANGED <<life, rankVars, es_state, ctx_state, native, schedVars, callerVars>>

-----------------------------------------------------------------------------

CallerStep(c) ==
    \/ NullHandle(c) \/ PushUnit(c)
    \/ SetNewRank(c) \/ CreateXstream(c) \/ CreateFails(c) \/ ChangeRank(c)
    \/ JoinRequest(c) \/ JoinUlt(c) \/ JoinContext(c) \/ JoinWake(c) \/ JoinReturns(c)
    \/ FreeRank(c) \/ FreeContext(c) \/ FreeDone(c)
    \/ ReviveError(c) \/ ReviveUlt(c) \/ ReviveContext(c) \/ Cancel(c)

NativeStep(x) ==
    \/ RootPop(x) \/ RunUnit(x) \/ RunNothing(x) \/ CheckEvents(x) \/ HasToStop(x)
    \/ AfterRun(x) \/ RootEnd(x) \/ NativeFinish(x) \/ NativeWake(x)

XstreamNext ==
    \/ \E c \in CALLER : CallerStep(c)
    \/ \E x \in STREAM : NativeStep(x) \/ SpuriousWake(x)

XstreamSpec == XstreamInit /\ [][XstreamNext]_xstreamVars

XstreamDone == \A c \in CALLER : todo[c] = <<>>

-----------------------------------------------------------------------------
(* Properties.                                                             *)

(* The assertions of abtd_stream.c, thread_root_func and xstream_join, at  *)
(* the points where they are evaluated: nobody asks a native thread to     *)
(* start or to end before it sleeps, no joiner meets a thread that is      *)
(* about to start, and who has joined an ES finds it terminated.           *)
ContextAssertions ==
    /\ \A x \in STREAM : native[x] = "start" =>
          ctx_state[x] = "RUNNING" /\ es_state[x] = "RUNNING"
    /\ \A c \in CALLER :
         /\ call[c] = "join_ctx" => ctx_state[Target(c)] \in {"WAITING", "RUNNING"}
         /\ call[c] = "joined" => /\ ctx_state[Target(c)] = "WAITING"
                                  /\ es_state[Target(c)] = "TERMINATED"
         /\ call[c] \in {"free", "free_ctx", "revive_ctx"} => ctx_state[Target(c)] = "WAITING"

(* The list holds the ESs by rank, linked both ways.                       *)
RankList ==
    LET order == Order(list) IN
      /\ Range(order) = {x \in STREAM :
             \/ life[x] = "live" /\ \A c \in CALLER :
                   call[c] \in {"free_ctx", "free_join"} => Target(c) # x
             \/ \E c \in CALLER : call[c] = "create" /\ Target(c) = x}
      /\ num_xstreams = Len(order)
      /\ \A k \in 1..Len(order) :
           /\ list.prev[order[k]] = IF k = 1 THEN NOSTREAM ELSE order[k - 1]
           /\ k > 1 => rank[order[k - 1]] < rank[order[k]]

XstreamsConsistent == ContextAssertions /\ RankList

(* A join that returns leaves no unit that was in the pool when it was     *)
(* called, unless the ES had stopped by then or was cancelled since it was *)
(* last started, whatever requests it had before.                          *)
JoinDrains ==
    \A c \in CALLER :
        call[c] = "joined" /\ Target(c) \notin cancelled
            => owed[c] \cap Range(units[Target(c)]) = {}
=============================================================================
