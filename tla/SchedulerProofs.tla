--------------------------- MODULE SchedulerProofs ----------------------------
(***************************************************************************)
(* Proofs about Scheduler, for any number of ULTs, ESs, external threads,  *)
(* pools and schedulers: num_scheds and num_blocked count what they stand  *)
(* for, the primary ULT comes home, and a scheduler that stops leaves      *)
(* nobody behind.  Where set-ups are restricted, the theorem says so.      *)
(***************************************************************************)
EXTENDS Scheduler, FiniteSetTheorems, TLAPS

-----------------------------------------------------------------------------
(* The inductive invariant.                                                *)

SchedPoint == {"pop", "events", "stop", "empty", "scheds", "blocked", "request", "run_over",
               "replaced", "resumed", "check", "wait", "exit", "link", "joiner", "stopped"}

ThreadPoint == {"call", "suspend", "block", "ask", "resumed", "join", "joining", "discard",
                "discarded", "set"}

(* The types; that the counters are never negative comes later.            *)
PoolTypes ==
    /\ pool \in [POOL -> Seq(ULT)]
    /\ num_blocked \in [POOL -> Int]
    /\ num_scheds \in [POOL -> Int]

ThreadTypes ==
    /\ program \in [Thread -> Seq(UltCall)]
    /\ pc \in [Thread -> ThreadPoint]
    /\ state \in [ULT -> {"READY", "RUNNING", "BLOCKED", "TERMINATED"}]
    /\ p_pool \in [ULT -> POOL]
    /\ migration \in [ULT -> POOL \cup {NULL}]
    /\ owed \in [Actor -> POOL \cup {NULL}]

StreamTypes ==
    /\ p_main_sched \in [XSTREAM -> SCHED]
    /\ request \in [XSTREAM -> SUBSET {"FINISH", "EXIT", "REPLACE"}]
    /\ thread_request \in [XSTREAM -> SUBSET {"JOIN", "CANCEL"}]
    /\ p_replace_sched \in [XSTREAM -> SCHED \cup {NULL}]
    /\ p_replace_waiter \in [XSTREAM -> ULT \cup {NULL}]
    /\ p_thread \in [XSTREAM -> ULT \cup {NULL}]

LoopTypes ==
    /\ at \in [XSTREAM -> SchedPoint]
    /\ p \in [XSTREAM -> Nat]
    /\ \A e \in XSTREAM : p[e] \in DOMAIN POOLS[p_main_sched[e]]
    /\ caller \in [XSTREAM -> {"stop", "stop_again", "main"}]

SchedTypeOK == PoolTypes /\ ThreadTypes /\ StreamTypes /\ LoopTypes

(* What the first call of t is.                                            *)
First(t) == Head(program[t])[1]

(* A thread at point l is in a call that has that point.                   *)
PointOK(t, l) ==
    /\ l # "call" => program[t] # <<>>
    /\ l = "suspend" => First(t) \in {"join", "replace"}
    /\ l = "block" => First(t) \in {"suspend", "join", "replace"}
    /\ l \in {"ask", "discard", "discarded", "set"} => First(t) = "replace"
    /\ l \in {"join", "joining"} => First(t) = "join"
    /\ l = "resumed" => First(t) = "resume"
    /\ t \in EXT => l \in {"call", "join", "joining", "resumed"}

InCallInv ==
    /\ \A t \in Thread : PointOK(t, pc[t])
    /\ \A t \in EXT : program[t] \in Seq(ExtCall)

(* A ULT is in its pool exactly while it is READY.                         *)
PoolsInv ==
    \A q \in POOL :
       /\ IsInjective(pool[q])
       /\ Range(pool[q]) = {u \in ULT : state[u] = "READY" /\ p_pool[u] = q}

(* A ULT runs on one ES, whose scheduler has popped it, or is between two  *)
(* calls or waits in a join.                                               *)
RunningInv ==
    /\ \A e, f \in XSTREAM : p_thread[e] = p_thread[f] /\ p_thread[e] # NULL => e = f
    /\ \A e \in XSTREAM : p_thread[e] # NULL =>
          /\ state[p_thread[e]] = IF pc[p_thread[e]] = "ask" THEN "BLOCKED" ELSE "RUNNING"
          /\ at[e] \in {"pop", "wait"}
    /\ \A u \in ULT : (\A e \in XSTREAM : p_thread[e] # u) =>
          pc[u] \in {"call", "joining"} /\ state[u] # "RUNNING"

(* Who has pushed a ULT and not decreased num_blocked yet.                 *)
OwedInv ==
    /\ \A t \in Thread : owed[t] # NULL <=> pc[t] \in {"resumed", "discarded"}
    /\ \A e \in XSTREAM : owed[e] # NULL <=> at[e] \in {"resumed", "joiner"}

(* w waits for the main scheduler of e to be replaced.                     *)
Awaits(e, w) ==
    \/ p_thread[e] = w /\ pc[w] \in {"suspend", "block", "ask"} /\ First(w) = "replace"
    \/ /\ state[w] = "BLOCKED" /\ pc[w] = "call"
       /\ at[e] = "replaced" \/ "REPLACE" \in request[e]

(* The scheduler to come of e, and the ULT that waits for it.              *)
ReplaceInv(e) ==
    LET u == p_thread[e]
        w == p_replace_waiter[e]
        s == p_replace_sched[e]
    IN  /\ w # NULL => Awaits(e, w) /\ (s # NULL \/ at[e] = "replaced")
        /\ s # NULL => w # NULL
        /\ at[e] = "replaced" => s = NULL /\ w # NULL
        /\ u # NULL =>
             /\ pc[u] \in {"suspend", "block", "ask"} /\ First(u) = "replace" => w = u
             /\ pc[u] = "discard" => s # NULL
             /\ pc[u] \in {"discarded", "set"} => s = NULL
        /\ "REPLACE" \in request[e] =>
             s # NULL \/ (u # NULL /\ pc[u] \in {"discarded", "set"})

ReplacesInv ==
    /\ \A e \in XSTREAM : ReplaceInv(e)
    /\ \A e, f \in XSTREAM :
          p_replace_waiter[e] = p_replace_waiter[f] /\ p_replace_waiter[e] # NULL => e = f

(* num_scheds: the schedulers there are, those to come included.           *)
Mains(q) == {e \in XSTREAM : q \in Pools(p_main_sched[e])}
Coming(q) == {e \in XSTREAM : p_replace_sched[e] # NULL /\ q \in Pools(p_replace_sched[e])}
Created(q) == {u \in ULT : pc[u] \in {"discard", "discarded", "set"} /\ q \in Pools(Operand(u))}

SchedsInv == \A q \in POOL :
    num_scheds[q] = Cardinality(Mains(q)) + Cardinality(Coming(q)) + Cardinality(Created(q))

(* num_blocked, as BlockedUltsCounted has it.                              *)
Counted(q) == {u \in ULT : p_pool[u] = q /\ (state[u] = "BLOCKED" \/ pc[u] = "block")}
Owing(q) == {a \in Actor : owed[a] = q}

BlockedInv == \A q \in POOL :
    num_blocked[q] = Cardinality(Counted(q)) + Cardinality(Owing(q))

(* A ULT that may be asked to migrate does not suspend itself.             *)
Movable(u, s) ==
    \E t \in Thread : \E i \in DOMAIN s[t] : s[t][i][1] = "migrate" /\ s[t][i][2][1] = u

StaysAwake(s) == \A i \in DOMAIN s : s[i][1] \notin {"suspend", "join", "replace"}

MovedStayAwake == \A setup \in SETUPS : \A u \in ULT :
    Movable(u, setup.program) => StaysAwake(setup.program[u])

MigratedInv ==
    \A u \in ULT : migration[u] # NULL \/ Movable(u, program) => StaysAwake(program[u])

(* Before call i of u, the scheduler of e has stopped, or u joins it.      *)
JoinedBefore(u, i, e) ==
    at[e] = "stopped" \/ \E j \in 1 .. i - 1 : program[u][j] = <<"join", e>>

FinalizeInv ==
    \A u \in ULT : \A i \in DOMAIN program[u] : program[u][i][1] = "finalize" =>
       \A e \in XSTREAM \ {program[u][i][2]} : JoinedBefore(u, i, e)

(* All but the two that depend on what the threads are set up to do.       *)
SchedInv ==
    /\ SchedTypeOK /\ InCallInv /\ PoolsInv /\ RunningInv /\ OwedInv /\ ReplacesInv

-----------------------------------------------------------------------------
(* Sequences, calls and counts.                                            *)

(* A push adds its element.                                                *)
LEMMA AppendRange ==
    ASSUME NEW S, NEW s \in Seq(S), NEW x \in S
    PROVE  /\ Append(s, x) \in Seq(S)
           /\ Range(Append(s, x)) = Range(s) \cup {x}
<1>1. /\ DOMAIN s = 1 .. Len(s)
      /\ DOMAIN Append(s, x) = 1 .. Len(s) + 1
      /\ \A i \in 1 .. Len(s) : Append(s, x)[i] = s[i]
      /\ Append(s, x)[Len(s) + 1] = x
      /\ Len(s) \in Nat
  OBVIOUS
<1>2. Range(Append(s, x)) \subseteq Range(s) \cup {x}
  BY <1>1 DEF Range
<1>3. Range(s) \cup {x} \subseteq Range(Append(s, x))
  BY <1>1 DEF Range
<1>. QED  BY <1>2, <1>3

(* A push of a new element keeps the elements distinct.                    *)
LEMMA AppendInjective ==
    ASSUME NEW S, NEW s \in Seq(S), NEW x \in S, IsInjective(s), x \notin Range(s)
    PROVE  IsInjective(Append(s, x))
<1>1. /\ DOMAIN s = 1 .. Len(s)
      /\ DOMAIN Append(s, x) = 1 .. Len(s) + 1
      /\ \A i \in 1 .. Len(s) : Append(s, x)[i] = s[i]
      /\ Append(s, x)[Len(s) + 1] = x
      /\ Len(s) \in Nat
  OBVIOUS
<1>. QED  BY <1>1 DEF IsInjective, Range

(* A pop takes the first element away, and only it.                        *)
LEMMA TailRange ==
    ASSUME NEW S, NEW s \in Seq(S), s # <<>>
    PROVE  /\ Tail(s) \in Seq(S)
           /\ Head(s) \in S
           /\ Head(s) \in Range(s)
           /\ Range(Tail(s)) \subseteq Range(s)
           /\ Range(s) \subseteq Range(Tail(s)) \cup {Head(s)}
<1>1. /\ DOMAIN s = 1 .. Len(s)
      /\ Len(s) \in Nat \ {0}
      /\ DOMAIN Tail(s) = 1 .. Len(s) - 1
      /\ \A i \in 1 .. Len(s) - 1 : Tail(s)[i] = s[i + 1]
      /\ Head(s) = s[1]
  OBVIOUS
<1>2. Tail(s) \in Seq(S) /\ Head(s) \in S
  OBVIOUS
<1>3. Head(s) \in Range(s)
  BY <1>1 DEF Range
<1>4. Range(Tail(s)) \subseteq Range(s)
  BY <1>1 DEF Range
<1>5. ASSUME NEW i \in DOMAIN s
      PROVE  s[i] \in Range(Tail(s)) \cup {Head(s)}
  <2>1. CASE i = 1
    BY <1>1, <2>1
  <2>2. CASE i # 1
    <3>1. i - 1 \in DOMAIN Tail(s) /\ Tail(s)[i - 1] = s[i]
      BY <1>1, <2>2
    <3>. QED  BY <3>1 DEF Range
  <2>. QED  BY <2>1, <2>2
<1>. QED  BY <1>2, <1>3, <1>4, <1>5 DEF Range

(* What is left after a pop is distinct, and without the first element.    *)
LEMMA TailInjective ==
    ASSUME NEW S, NEW s \in Seq(S), s # <<>>, IsInjective(s)
    PROVE  /\ IsInjective(Tail(s))
           /\ Head(s) \notin Range(Tail(s))
<1>1. /\ DOMAIN s = 1 .. Len(s)
      /\ Len(s) \in Nat \ {0}
      /\ DOMAIN Tail(s) = 1 .. Len(s) - 1
      /\ \A i \in 1 .. Len(s) - 1 : Tail(s)[i] = s[i + 1]
      /\ Head(s) = s[1]
  OBVIOUS
<1>. QED  BY <1>1 DEF IsInjective, Range

(* The operand of a call is of the kind its name says.                     *)
LEMMA CallTypes ==
    ASSUME NEW c \in UltCall
    PROVE  /\ c[1] \in {"join", "cancel", "finalize"} => c[2] \in XSTREAM
           /\ c[1] = "resume" => c[2] \in ULT
           /\ c[1] = "migrate" => c[2][1] \in ULT /\ c[2][2] \in POOL
           /\ c[1] = "replace" => c[2] \in SCHED
  BY DEF UltCall, ExtCall

LEMMA ExtCallNames ==
    ASSUME NEW c \in ExtCall
    PROVE  c[1] \in {"join", "cancel", "resume", "migrate"}
  BY DEF ExtCall

(* What the first call of a thread is, and what is left when it is over.   *)
LEMMA FirstCall ==
    ASSUME ThreadTypes, InCallInv, NEW t \in Thread, program[t] # <<>>
    PROVE  /\ Head(program[t]) = program[t][1]
           /\ First(t) \in {"join", "cancel", "finalize"} => Operand(t) \in XSTREAM
           /\ First(t) = "resume" => Operand(t) \in ULT
           /\ First(t) = "migrate" => Operand(t)[1] \in ULT /\ Operand(t)[2] \in POOL
           /\ First(t) = "replace" => Operand(t) \in SCHED
           /\ t \in EXT => First(t) \in {"join", "cancel", "resume", "migrate"}
           /\ Tail(program[t]) \in Seq(UltCall)
           /\ t \in EXT => Tail(program[t]) \in Seq(ExtCall)
<1>1. program[t] \in Seq(UltCall) /\ (t \in EXT => program[t] \in Seq(ExtCall))
  BY DEF ThreadTypes, InCallInv, Thread
<1>2. /\ Head(program[t]) = program[t][1] /\ Head(program[t]) \in UltCall
      /\ Tail(program[t]) \in Seq(UltCall)
  BY <1>1
<1>3. t \in EXT => Head(program[t]) \in ExtCall /\ Tail(program[t]) \in Seq(ExtCall)
  BY <1>1
<1>. QED  BY <1>2, <1>3, CallTypes, ExtCallNames DEF First, Operand

(* Two finite sets that differ in one element at most.                     *)
LEMMA MemberCount ==
    ASSUME NEW S, NEW T, NEW x, IsFiniteSet(S), S \ {x} = T \ {x}
    PROVE  /\ Cardinality(S) \in Nat /\ Cardinality(T) \in Nat
           /\ Cardinality(T) = Cardinality(S) + (IF x \in T THEN 1 ELSE 0)
                                             - (IF x \in S THEN 1 ELSE 0)
<1>1. IsFiniteSet(S \ {x}) /\ Cardinality(S \ {x}) \in Nat
  BY FS_RemoveElement, FS_CardinalityType
<1>2. ASSUME NEW R, R \ {x} = S \ {x}
      PROVE  Cardinality(R) = Cardinality(S \ {x}) + (IF x \in R THEN 1 ELSE 0)
  <2>1. CASE x \in R
    <3>1. R = (S \ {x}) \cup {x}
      BY <1>2, <2>1
    <3>. QED  BY <3>1, <2>1, <1>1, FS_AddElement
  <2>2. CASE x \notin R
    <3>1. R = S \ {x}
      BY <1>2, <2>2
    <3>. QED  BY <3>1, <2>2, <1>1
  <2>. QED  BY <2>1, <2>2
<1>3. Cardinality(S) = Cardinality(S \ {x}) + (IF x \in S THEN 1 ELSE 0)
  BY <1>2
<1>4. Cardinality(T) = Cardinality(S \ {x}) + (IF x \in T THEN 1 ELSE 0)
  BY <1>2
<1>. QED  BY <1>1, <1>3, <1>4

-----------------------------------------------------------------------------

USE DEF PointOK, Thread, Actor, poolVars, threadVars, requestVars, replaceVars, loopVars

(* The ES a ULT runs on.                                                   *)
LEMMA RunsOn ==
    ASSUME SchedTypeOK, RunningInv, NEW u \in ULT, Running(u)
    PROVE  /\ Xstream(u) \in XSTREAM /\ p_thread[Xstream(u)] = u
           /\ \A e \in XSTREAM : p_thread[e] = u => e = Xstream(u)
           /\ state[u] = IF pc[u] = "ask" THEN "BLOCKED" ELSE "RUNNING"
           /\ at[Xstream(u)] \in {"pop", "wait"}
           /\ u # NULL
<1>1. u \notin EXT /\ u # NULL
  BY SchedulerAssumption
<1>2. PICK e \in XSTREAM : p_thread[e] = u
  BY <1>1 DEF Running, Range, SchedTypeOK, StreamTypes
<1>3. Xstream(u) \in XSTREAM /\ p_thread[Xstream(u)] = u
  BY <1>2 DEF Xstream
<1>. QED  BY <1>1, <1>3 DEF RunningInv

(* The scheduler goes on.                                                  *)
LEMMA EnterTypes ==
    ASSUME LoopTypes, StreamTypes, NEW e \in XSTREAM, NEW l \in SchedPoint, Enter(e, l),
           p_main_sched' = p_main_sched
    PROVE  LoopTypes'
<1>1. \A f \in XSTREAM : 1 \in DOMAIN POOLS[p_main_sched[f]]
  BY SchedulerAssumption DEF StreamTypes
<1>. QED  BY <1>1 DEF LoopTypes, Enter

(* A ULT that leaves its ES.                                               *)
LEMMA SwitchTypes ==
    ASSUME SchedTypeOK, RunningInv, NEW u \in ULT, Running(u), SwitchToParent(u),
           p_main_sched' = p_main_sched
    PROVE  /\ LoopTypes'
           /\ p_thread' = [p_thread EXCEPT ![Xstream(u)] = NULL]
           /\ \E l \in {"pop", "events", "stop", "run_over"} : at' = [at EXCEPT ![Xstream(u)] = l]
<1>1. Xstream(u) \in XSTREAM
  BY RunsOn
<1>2. PICK l \in {"pop", "events", "stop", "run_over"} : Enter(Xstream(u), l)
  BY DEF SwitchToParent, AfterUnit, RoundsOver
<1>3. l \in SchedPoint
  BY DEF SchedPoint
<1>. QED  BY <1>1, <1>2, <1>3, EnterTypes DEF SchedTypeOK, SwitchToParent, Enter

(* What only ULTs do.                                                      *)
LEMMA UltPoint ==
    ASSUME ThreadTypes, InCallInv, NEW t \in Thread,
           \/ pc[t] \in {"suspend", "block", "ask", "discard", "discarded", "set"}
           \/ program[t] # <<>> /\ First(t) \in {"yield", "suspend", "replace", "finalize"}
    PROVE  t \in ULT
<1>1. CASE pc[t] \in {"suspend", "block", "ask", "discard", "discarded", "set"}
  BY <1>1 DEF InCallInv
<1>2. CASE program[t] # <<>> /\ First(t) \in {"yield", "suspend", "replace", "finalize"}
  BY <1>2, FirstCall
<1>. QED  BY <1>1, <1>2

LEMMA OperationTypes ==
    ASSUME ThreadTypes, InCallInv, NEW t \in Thread, program[t] # <<>>, OperationDone(t)
    PROVE  program' \in [Thread -> Seq(UltCall)] /\ pc' \in [Thread -> ThreadPoint]
<1>1. Tail(program[t]) \in Seq(UltCall)
  BY FirstCall
<1>. QED  BY <1>1 DEF OperationDone, GoTo, ThreadTypes, ThreadPoint

LEMMA MigrationTypes ==
    ASSUME ThreadTypes, NEW u \in ULT, HandleMigration(u)
    PROVE  /\ p_pool' \in [ULT -> POOL] /\ migration' \in [ULT -> POOL \cup {NULL}]
           /\ \A v \in ULT \ {u} : p_pool'[v] = p_pool[v]
           /\ migration[u] = NULL => p_pool' = p_pool
  BY DEF ThreadTypes, HandleMigration

LEMMA ResumeTypes ==
    ASSUME PoolTypes, ThreadTypes, NEW a \in Actor, NEW v \in ULT, ResumeAndPush(a, v)
    PROVE  /\ pool' \in [POOL -> Seq(ULT)] /\ num_blocked' \in [POOL -> Int]
           /\ state' \in [ULT -> {"READY", "RUNNING", "BLOCKED", "TERMINATED"}]
           /\ owed' \in [Actor -> POOL \cup {NULL}]
  BY DEF PoolTypes, ThreadTypes, ResumeAndPush

LEMMA DecTypes ==
    ASSUME PoolTypes, ThreadTypes, NEW a \in Actor, owed[a] # NULL, DecNumBlocked(a)
    PROVE  /\ PoolTypes' /\ owed' \in [Actor -> POOL \cup {NULL}]
  BY DEF PoolTypes, ThreadTypes, DecNumBlocked

LEMMA RetainTypes ==
    ASSUME PoolTypes, NEW s, Retain(s) \/ Release(s)
    PROVE  num_scheds' \in [POOL -> Int]
<1>. DEFINE one(q) == IF q \in Pools(s) THEN 1 ELSE 0
<1>1. \A q \in POOL : one(q) \in Int
  OBVIOUS
<1>2. \/ num_scheds' = [q \in POOL |-> num_scheds[q] + one(q)]
      \/ num_scheds' = [q \in POOL |-> num_scheds[q] - one(q)]
  BY DEF Retain, Release
<1>. HIDE DEF one
<1>. QED  BY <1>1, <1>2 DEF PoolTypes

(* The steps in which a scheduler only looks around.                       *)
LoopStep(e) ==
    /\ p_thread[e] = NULL
    /\ at[e] \notin {"replaced", "resumed", "joiner", "stopped"}
    /\ \E l \in SchedPoint \ {"replaced", "resumed", "joiner"} : at' = [at EXCEPT ![e] = l]
    /\ \A f \in XSTREAM : "REPLACE" \in request'[f] <=> "REPLACE" \in request[f]
    /\ UNCHANGED <<poolVars, threadVars, owed, p_main_sched, replaceVars, p_thread>>

LEMMA EnterLoops ==
    ASSUME SchedTypeOK, NEW e \in XSTREAM,
           NEW l \in SchedPoint \ {"replaced", "resumed", "joiner"}, Enter(e, l),
           p_thread[e] = NULL, at[e] \notin {"replaced", "resumed", "joiner", "stopped"},
           UNCHANGED <<poolVars, threadVars, owed, p_main_sched, requestVars, replaceVars, p_thread>>
    PROVE  LoopStep(e) /\ SchedTypeOK'
<1>1. LoopTypes'
  BY EnterTypes DEF SchedTypeOK
<1>. QED  BY <1>1 DEF LoopStep, Enter, SchedTypeOK, PoolTypes, ThreadTypes, StreamTypes

LEMMA LoopStepTypes ==
    ASSUME SchedTypeOK, NEW e \in XSTREAM,
           \/ PopNext(e) \/ PopVictim(e) \/ PopNothing(e) \/ WaitNothing(e) \/ CheckEvents(e)
           \/ HasToStop(e) \/ HasToStopAgain(e)
           \/ HasUnitEmpty(e) \/ HasUnitScheds(e) \/ HasUnitBlocked(e)
           \/ MainKeep(e) \/ MainCheck(e) \/ MainExit(e) \/ MainFutex(e)
    PROVE  LoopStep(e) /\ SchedTypeOK'
<1>. DEFINE
       Same == UNCHANGED <<poolVars, threadVars, owed, p_main_sched, requestVars, replaceVars,
                           p_thread>>
       Loops(l) == l \in SchedPoint \ {"replaced", "resumed", "joiner"} /\ Enter(e, l)
       From == p_thread[e] = NULL /\ at[e] \notin {"replaced", "resumed", "joiner", "stopped"}
<1>1. \A l : Loops(l) /\ Same /\ From => LoopStep(e) /\ SchedTypeOK'
  BY EnterLoops
<1>. HIDE DEF Loops
<1>2. /\ p[e] \in DOMAIN POOLS[p_main_sched[e]]
      /\ DOMAIN POOLS[p_main_sched[e]] = 1 .. Len(POOLS[p_main_sched[e]])
      /\ Len(POOLS[p_main_sched[e]]) \in Nat \ {0}
  <2>1. POOLS[p_main_sched[e]] \in Seq(POOL) /\ POOLS[p_main_sched[e]] # <<>>
    BY SchedulerAssumption DEF SchedTypeOK, StreamTypes
  <2>. QED  BY <2>1 DEF SchedTypeOK, LoopTypes
(* The loop over the pools, and the calls of has_unit.                     *)
<1>3. ASSUME Same, From, at' = at,
             \E i \in DOMAIN POOLS[p_main_sched[e]] : p' = [p EXCEPT ![e] = i], caller' = caller
      PROVE  LoopStep(e) /\ SchedTypeOK'
  <2>1. at' = [at EXCEPT ![e] = at[e]]
    BY <1>3 DEF SchedTypeOK, LoopTypes
  <2>2. LoopTypes'
    BY <1>2, <1>3 DEF SchedTypeOK, LoopTypes
  <2>. QED  BY <1>3, <2>1, <2>2
            DEF LoopStep, SchedTypeOK, PoolTypes, ThreadTypes, StreamTypes, LoopTypes, SchedPoint
<1>4. ASSUME Same, From, NEW l \in {"empty", "blocked", "scheds"}, at' = [at EXCEPT ![e] = l],
             \/ p' = p
             \/ \E i \in DOMAIN POOLS[p_main_sched[e]] : p' = [p EXCEPT ![e] = i],
             \/ caller' = caller
             \/ \E c \in {"stop", "stop_again", "main"} : caller' = [caller EXCEPT ![e] = c]
      PROVE  LoopStep(e) /\ SchedTypeOK'
  <2>1. LoopTypes'
    BY <1>2, <1>4 DEF SchedTypeOK, LoopTypes, SchedPoint
  <2>. QED  BY <1>4, <2>1
            DEF LoopStep, SchedTypeOK, PoolTypes, ThreadTypes, StreamTypes, LoopTypes, SchedPoint
<1>5. ASSUME Same, From, NEW c \in {"stop", "stop_again", "main"}, CallHasUnit(e, c)
      PROVE  LoopStep(e) /\ SchedTypeOK'
  <2>1. 1 \in DOMAIN POOLS[p_main_sched[e]]
    BY <1>2
  <2>2. /\ p' = [p EXCEPT ![e] = 1] /\ at' = [at EXCEPT ![e] = "empty"]
        /\ caller' = [caller EXCEPT ![e] = c]
    BY <1>5 DEF CallHasUnit
  <2>. QED  BY <1>4, <1>5, <2>1, <2>2
<1>6. ASSUME Same, From, NoUnit(e)
      PROVE  LoopStep(e) /\ SchedTypeOK'
  <2>1. \E l \in {"request", "run_over", "exit"} : Enter(e, l)
    BY <1>6 DEF NoUnit, SchedTypeOK, LoopTypes
  <2>. QED  BY <1>1, <1>6, <2>1 DEF Loops, SchedPoint
<1>7. ASSUME Same, From, NextPool(e)
      PROVE  LoopStep(e) /\ SchedTypeOK'
  <2>1. CASE LastPool(e)
    BY <1>6, <1>7, <2>1 DEF NextPool
  <2>2. CASE ~LastPool(e)
    <3>1. p[e] + 1 \in DOMAIN POOLS[p_main_sched[e]]
      BY <1>2, <2>2 DEF LastPool
    <3>2. p' = [p EXCEPT ![e] = p[e] + 1] /\ at' = [at EXCEPT ![e] = "empty"] /\ caller' = caller
      BY <1>7, <2>2 DEF NextPool
    <3>. QED  BY <1>4, <1>7, <3>1, <3>2
  <2>. QED  BY <2>1, <2>2
<1>8. ASSUME Same, From, HasUnit(e) \/ NeedNotStop(e) \/ RoundsOver(e)
      PROVE  LoopStep(e) /\ SchedTypeOK'
  <2>1. \E l \in {"pop", "events", "stop"} : Enter(e, l)
    BY <1>8 DEF HasUnit, NeedNotStop, RoundsOver
  <2>. QED  BY <1>1, <1>8, <2>1 DEF Loops, SchedPoint
<1>. USE DEF SchedAt
<1>11. CASE PopNext(e)
  <2>1. p[e] + 1 \in DOMAIN POOLS[p_main_sched[e]]
    BY <1>2, <1>11 DEF PopNext, LastPool
  <2>. QED  BY <1>3, <1>11, <2>1 DEF PopNext
<1>12. CASE PopVictim(e)
  BY <1>3, <1>12 DEF PopVictim
<1>13. CASE PopNothing(e)
  BY <1>1, <1>8, <1>13 DEF PopNothing, Loops, SchedPoint
<1>14. CASE WaitNothing(e)
  BY <1>8, <1>14 DEF WaitNothing
<1>15. CASE CheckEvents(e)
  <2>1. PICK l \in {"pop", "stop"} : Enter(e, l)
    BY <1>15 DEF CheckEvents
  <2>2. LoopTypes'
    BY <1>15, <2>1, EnterTypes DEF CheckEvents, SchedTypeOK, SchedPoint
  <2>3. StreamTypes' /\ \A f \in XSTREAM : "REPLACE" \in request'[f] <=> "REPLACE" \in request[f]
    BY <1>15 DEF CheckEvents, SchedTypeOK, StreamTypes
  <2>. QED  BY <1>15, <2>1, <2>2, <2>3
            DEF CheckEvents, Enter, LoopStep, SchedTypeOK, PoolTypes, ThreadTypes, SchedPoint
<1>16. CASE HasToStop(e)
  BY <1>1, <1>5, <1>16 DEF HasToStop, Loops, SchedPoint
<1>17. CASE HasToStopAgain(e)
  BY <1>5, <1>8, <1>17 DEF HasToStopAgain
<1>18. CASE HasUnitEmpty(e)
  BY <1>4, <1>8, <1>18 DEF HasUnitEmpty
<1>19. CASE HasUnitScheds(e)
  BY <1>4, <1>7, <1>19 DEF HasUnitScheds
<1>20. CASE HasUnitBlocked(e)
  BY <1>7, <1>8, <1>20 DEF HasUnitBlocked
<1>21. CASE MainKeep(e)
  BY <1>1, <1>21 DEF MainKeep, Loops, SchedPoint
<1>22. CASE MainCheck(e)
  BY <1>1, <1>5, <1>22 DEF MainCheck, Loops, SchedPoint
<1>23. CASE MainExit(e)
  <2>1. PICK l \in {"link", "stopped"} : Enter(e, l)
    BY <1>23 DEF MainExit
  <2>2. LoopTypes'
    BY <1>23, <2>1, EnterTypes DEF MainExit, SchedTypeOK, SchedPoint
  <2>3. StreamTypes'
    BY <1>23 DEF MainExit, SchedTypeOK, StreamTypes
  <2>. QED  BY <1>23, <2>1, <2>2, <2>3
            DEF MainExit, Enter, LoopStep, SchedTypeOK, PoolTypes, ThreadTypes, SchedPoint
<1>24. CASE MainFutex(e)
  BY <1>1, <1>24 DEF MainFutex, Loops, SchedPoint
<1>. QED
  BY <1>11, <1>12, <1>13, <1>14, <1>15, <1>16, <1>17, <1>18, <1>19, <1>20, <1>21, <1>22,
     <1>23, <1>24

(* The types after a step of a thread...                                   *)
LEMMA ThreadStepTypes ==
    ASSUME SchedInv, NEW t \in Thread, ThreadStep(t)
    PROVE  SchedTypeOK'
<1>. USE DEF SchedInv, Calls, At
<1>1. program[t] # <<>> => (First(t) = Head(program[t])[1] /\ Operand(t) = Head(program[t])[2])
  BY DEF First, Operand
<1>2. pc[t] # "call" => program[t] # <<>>
  BY DEF InCallInv
<1>3. \A l \in ThreadPoint : GoTo(t, l) => pc' \in [Thread -> ThreadPoint]
  BY DEF GoTo, SchedTypeOK, ThreadTypes
<1>4. ASSUME program[t] # <<>>, OperationDone(t)
      PROVE  program' \in [Thread -> Seq(UltCall)] /\ pc' \in [Thread -> ThreadPoint]
  BY <1>4, OperationTypes DEF SchedTypeOK
<1>5. ASSUME t \in ULT, Running(t), SwitchToParent(t), p_main_sched' = p_main_sched
      PROVE  LoopTypes' /\ p_thread' \in [XSTREAM -> ULT \cup {NULL}]
  BY <1>5, SwitchTypes, RunsOn DEF SchedTypeOK, StreamTypes
<1>6. ASSUME loopVars' = loopVars, p_main_sched' = p_main_sched
      PROVE  LoopTypes' /\ p_thread' \in [XSTREAM -> ULT \cup {NULL}]
  BY <1>6 DEF SchedTypeOK, StreamTypes, LoopTypes
<1>7. t \in ULT /\ Running(t) => Xstream(t) \in XSTREAM /\ p_thread[Xstream(t)] = t
  BY RunsOn
<1>8. t \notin ULT => pc[t] \in {"call", "join", "joining", "resumed"}
                        /\ (program[t] # <<>> => First(t) \in {"join", "cancel", "resume", "migrate"})
  BY FirstCall DEF InCallInv, SchedTypeOK
<1>. USE DEF SchedTypeOK, PoolTypes, ThreadTypes, StreamTypes
<1>11. CASE Yield(t)
  <2>1. t \in ULT /\ Running(t) /\ program[t] # <<>>
    BY <1>1, <1>2, <1>8, <1>11 DEF Yield
  <2>2. LoopTypes' /\ p_thread' \in [XSTREAM -> ULT \cup {NULL}]
    BY <1>5, <1>11, <2>1 DEF Yield
  <2>3. program' \in [Thread -> Seq(UltCall)] /\ pc' \in [Thread -> ThreadPoint]
    BY <1>4, <1>11, <2>1 DEF Yield
  <2>4. p_pool' \in [ULT -> POOL] /\ migration' \in [ULT -> POOL \cup {NULL}]
    BY <1>11, <2>1, MigrationTypes DEF Yield
  <2>5. pool' \in [POOL -> Seq(ULT)]
    <3>1. \A q \in POOL : Append(pool[q], t) \in Seq(ULT)
      BY <2>1
    <3>2. pool' = [pool EXCEPT ![p_pool'[t]] = Append(pool[p_pool'[t]], t)] /\ p_pool'[t] \in POOL
      BY <1>11, <2>1, <2>4 DEF Yield
    <3>. QED  BY <3>1, <3>2
  <2>. QED  BY <1>11, <2>1, <2>2, <2>3, <2>4, <2>5 DEF Yield
<1>12. CASE SuspendCount(t)
  <2>1. t \in ULT
    BY <1>1, <1>8, <1>12 DEF SuspendCount
  <2>2. pc' \in [Thread -> ThreadPoint]
    BY <1>3, <1>12 DEF SuspendCount, ThreadPoint
  <2>. QED  BY <1>6, <1>12, <2>1, <2>2 DEF SuspendCount
<1>13. CASE SuspendBlock(t)
  <2>1. t \in ULT /\ Running(t) /\ program[t] # <<>>
    BY <1>2, <1>8, <1>13 DEF SuspendBlock
  <2>2. p_pool' \in [ULT -> POOL] /\ migration' \in [ULT -> POOL \cup {NULL}]
    BY <1>13, <2>1, MigrationTypes DEF SuspendBlock
  <2>3. p_main_sched' = p_main_sched
    BY <1>13 DEF SuspendBlock
  <2>4. CASE GoTo(t, "ask") /\ UNCHANGED <<program, loopVars>>
    <3>1. pc' \in [Thread -> ThreadPoint]
      BY <1>3, <2>4 DEF ThreadPoint
    <3>. QED  BY <1>6, <1>13, <2>1, <2>2, <2>3, <2>4, <3>1 DEF SuspendBlock
  <2>5. CASE GoTo(t, "joining") /\ SwitchToParent(t) /\ UNCHANGED program
    <3>1. pc' \in [Thread -> ThreadPoint]
      BY <1>3, <2>5 DEF ThreadPoint
    <3>. QED  BY <1>5, <1>13, <2>1, <2>2, <2>3, <2>5, <3>1 DEF SuspendBlock
  <2>6. CASE OperationDone(t) /\ SwitchToParent(t)
    BY <1>4, <1>5, <1>13, <2>1, <2>2, <2>3, <2>6 DEF SuspendBlock
  <2>7. \/ GoTo(t, "ask") /\ UNCHANGED <<program, loopVars>>
        \/ GoTo(t, "joining") /\ SwitchToParent(t) /\ UNCHANGED program
        \/ OperationDone(t) /\ SwitchToParent(t)
    BY <1>13 DEF SuspendBlock
  <2>. QED  BY <2>4, <2>5, <2>6, <2>7
<1>14. CASE SuspendAsk(t)
  <2>1. t \in ULT /\ Running(t) /\ program[t] # <<>>
    BY <1>2, <1>8, <1>14 DEF SuspendAsk
  <2>. QED  BY <1>4, <1>5, <1>14, <2>1 DEF SuspendAsk
<1>15. CASE Resume(t)
  <2>1. program[t] # <<>> /\ Operand(t) \in ULT
    BY <1>1, <1>15, FirstCall DEF Resume
  <2>2. pc' \in [Thread -> ThreadPoint]
    BY <1>3, <1>15 DEF Resume, ThreadPoint
  <2>3. ResumeAndPush(t, Operand(t)) /\ t \in Actor
    BY <1>15 DEF Resume
  <2>. QED  BY <1>6, <1>15, <2>1, <2>2, <2>3, ResumeTypes DEF Resume
<1>16. CASE ResumeDec(t)
  <2>1. program[t] # <<>> /\ owed[t] # NULL
    BY <1>2, <1>16 DEF ResumeDec, OwedInv
  <2>. QED  BY <1>4, <1>6, <1>16, <2>1, DecTypes DEF ResumeDec
<1>17. CASE Migrate(t)
  <2>1. program[t] # <<>> /\ Operand(t)[1] \in ULT /\ Operand(t)[2] \in POOL
    BY <1>1, <1>17, FirstCall DEF Migrate
  <2>2. migration' \in [ULT -> POOL \cup {NULL}]
    BY <1>17, <2>1 DEF Migrate
  <2>. QED  BY <1>4, <1>6, <1>17, <2>1, <2>2 DEF Migrate
<1>18. CASE Exit(t)
  BY <1>5, <1>18 DEF Exit
<1>19. CASE Join(t)
  <2>1. pc' \in [Thread -> ThreadPoint]
    BY <1>3, <1>19 DEF Join, ThreadPoint
  <2>. QED  BY <1>6, <1>19, <2>1 DEF Join
<1>20. CASE JoinThread(t)
  <2>1. pc' \in [Thread -> ThreadPoint]
    BY <1>3, <1>20 DEF JoinThread, ThreadPoint
  <2>. QED  BY <1>6, <1>20, <2>1 DEF JoinThread
<1>21. CASE JoinReturn(t)
  BY <1>2, <1>4, <1>6, <1>21 DEF JoinReturn
<1>22. CASE Cancel(t)
  BY <1>4, <1>6, <1>22 DEF Cancel
<1>23. CASE Finalize(t)
  <2>1. t \in ULT /\ Running(t) /\ program[t] # <<>>
    BY <1>1, <1>8, <1>23 DEF Finalize
  <2>2. LoopTypes' /\ p_thread' \in [XSTREAM -> ULT \cup {NULL}]
    <3>1. p_main_sched' = p_main_sched /\ (SwitchToParent(t) \/ loopVars' = loopVars)
      BY <1>23 DEF Finalize
    <3>2. CASE SwitchToParent(t)
      BY <1>5, <2>1, <3>1, <3>2
    <3>3. CASE loopVars' = loopVars
      BY <1>6, <3>1, <3>3
    <3>. QED  BY <3>1, <3>2, <3>3
  <2>3. /\ request' \in [XSTREAM -> SUBSET {"FINISH", "EXIT", "REPLACE"}]
        /\ state' \in [ULT -> {"READY", "RUNNING", "BLOCKED", "TERMINATED"}]
    <3>1. CASE Xstream(t) = Operand(t)
      <4>1. /\ request' = [request EXCEPT ![Operand(t)] = @ \cup {"FINISH"}]
            /\ state' = [state EXCEPT ![t] = "TERMINATED"]
        BY <1>23, <3>1 DEF Finalize
      <4>. QED  BY <4>1
    <3>2. CASE Xstream(t) # Operand(t)
      BY <1>23, <3>2 DEF Finalize
    <3>. QED  BY <3>1, <3>2
  <2>4. program' \in [Thread -> Seq(UltCall)] /\ pc' \in [Thread -> ThreadPoint]
    BY <1>4, <1>23, <2>1 DEF Finalize
  <2>. QED  BY <1>23, <2>2, <2>3, <2>4 DEF Finalize
<1>24. CASE Replace(t)
  <2>1. t \in ULT /\ program[t] # <<>> /\ Operand(t) \in SCHED
    BY <1>1, <1>8, <1>24, FirstCall DEF Replace
  <2>2. pc' \in [Thread -> ThreadPoint]
    BY <1>3, <1>24 DEF Replace, ThreadPoint
  <2>3. num_scheds' \in [POOL -> Int]
    BY <1>24, RetainTypes DEF Replace
  <2>4. POOLS[Operand(t)][1] \in POOL
    BY <2>1, SchedulerAssumption
  <2>5. p_pool' \in [ULT -> POOL]
    BY <1>24, <2>4 DEF Replace
  <2>. QED  BY <1>6, <1>24, <2>2, <2>3, <2>5 DEF Replace
<1>25. CASE ReplaceDiscard(t)
  <2>1. t \in ULT /\ Running(t)
    BY <1>8, <1>25 DEF ReplaceDiscard
  <2>2. p_replace_waiter[Xstream(t)] \in ULT
    BY <1>7, <1>25, <2>1, RunsOn DEF ReplaceDiscard, ReplacesInv, ReplaceInv
  <2>3. pc' \in [Thread -> ThreadPoint]
    BY <1>3, <1>25 DEF ReplaceDiscard, ThreadPoint
  <2>4. num_scheds' \in [POOL -> Int]
    BY <1>25, RetainTypes DEF ReplaceDiscard
  <2>5. ResumeAndPush(t, p_replace_waiter[Xstream(t)]) /\ t \in Actor
    BY <1>25 DEF ReplaceDiscard
  <2>. QED  BY <1>6, <1>25, <2>2, <2>3, <2>4, <2>5, ResumeTypes DEF ReplaceDiscard
<1>26. CASE ReplaceDec(t)
  <2>1. owed[t] # NULL
    BY <1>26 DEF ReplaceDec, OwedInv
  <2>2. pc' \in [Thread -> ThreadPoint]
    BY <1>3, <1>26 DEF ReplaceDec, ThreadPoint
  <2>. QED  BY <1>6, <1>26, <2>1, <2>2, DecTypes DEF ReplaceDec
<1>27. CASE ReplaceSet(t)
  <2>1. t \in ULT /\ program[t] # <<>> /\ First(t) = "replace"
    BY <1>2, <1>8, <1>27 DEF ReplaceSet, InCallInv
  <2>2. Operand(t) \in SCHED
    BY <2>1, FirstCall
  <2>3. pc' \in [Thread -> ThreadPoint]
    BY <1>3, <1>27 DEF ReplaceSet, ThreadPoint
  <2>. QED  BY <1>6, <1>27, <2>1, <2>2, <2>3 DEF ReplaceSet
<1>. QED
  BY <1>11, <1>12, <1>13, <1>14, <1>15, <1>16, <1>17, <1>18, <1>19, <1>20, <1>21, <1>22,
     <1>23, <1>24, <1>25, <1>26, <1>27 DEF ThreadStep

(* ...and of a scheduler.                                                  *)
LEMMA SchedStepTypes ==
    ASSUME SchedInv, NEW e \in XSTREAM,
           \/ PopUnit(e) \/ PopMigrate(e) \/ MainReplace(e) \/ MainResume(e) \/ MainDec(e)
           \/ MainJoiner(e) \/ MainJoinerDec(e)
    PROVE  SchedTypeOK'
<1>. USE DEF SchedInv, SchedAt
<1>1. ASSUME NEW l \in SchedPoint, Enter(e, l), p_main_sched' = p_main_sched
      PROVE  LoopTypes'
  BY <1>1, EnterTypes DEF SchedTypeOK
<1>2. ASSUME Pops(e)
      PROVE  /\ ThisPool(e) \in POOL /\ pool[ThisPool(e)] \in Seq(ULT)
             /\ Head(pool[ThisPool(e)]) \in ULT /\ Tail(pool[ThisPool(e)]) \in Seq(ULT)
  <2>1. POOLS[p_main_sched[e]] \in Seq(POOL) /\ p[e] \in DOMAIN POOLS[p_main_sched[e]]
    BY SchedulerAssumption DEF SchedTypeOK, StreamTypes, LoopTypes
  <2>2. ThisPool(e) \in POOL
    BY <2>1 DEF ThisPool
  <2>. QED  BY <1>2, <2>2 DEF Pops, SchedTypeOK, PoolTypes
<1>. USE DEF SchedTypeOK, PoolTypes, ThreadTypes, StreamTypes, SchedPoint
<1>11. CASE PopUnit(e)
  <2>1. LoopTypes'
    BY <1>11 DEF PopUnit, LoopTypes
  <2>. QED  BY <1>2, <1>11, <2>1 DEF PopUnit
<1>12. CASE PopMigrate(e)
  <2>. DEFINE u == Head(pool[ThisPool(e)])
              popped == [pool EXCEPT ![ThisPool(e)] = Tail(@)]
  <2>1. u \in ULT /\ migration[u] \in POOL
    BY <1>2, <1>12 DEF PopMigrate
  <2>2. \E l \in {"pop", "events", "stop", "run_over"} : Enter(e, l)
    BY <1>12 DEF PopMigrate, AfterUnit, RoundsOver
  <2>3. LoopTypes'
    BY <1>1, <1>12, <2>2 DEF PopMigrate
  <2>4. popped \in [POOL -> Seq(ULT)]
    BY <1>2, <1>12 DEF PopMigrate
  <2>5. pool' = [popped EXCEPT ![migration[u]] = Append(@, u)]
    BY <1>12 DEF PopMigrate
  <2>. HIDE DEF popped
  <2>6. pool' \in [POOL -> Seq(ULT)]
    BY <2>1, <2>4, <2>5
  <2>7. p_pool' \in [ULT -> POOL] /\ migration' \in [ULT -> POOL \cup {NULL}]
    BY <1>12, <2>1, MigrationTypes DEF PopMigrate
  <2>. QED  BY <1>12, <2>3, <2>6, <2>7 DEF PopMigrate
<1>13. CASE MainReplace(e)
  <2>1. p_replace_sched[e] \in SCHED
    BY <1>13 DEF MainReplace, ReplacesInv, ReplaceInv
  <2>2. p_main_sched' \in [XSTREAM -> SCHED]
    BY <1>13, <2>1 DEF MainReplace
  <2>3. \A s \in SCHED : 1 \in DOMAIN POOLS[s]
    BY SchedulerAssumption
  <2>4. LoopTypes'
    BY <1>13, <2>2, <2>3 DEF MainReplace, Enter, LoopTypes
  <2>5. num_scheds' \in [POOL -> Int]
    BY <1>13, RetainTypes DEF MainReplace
  <2>. QED  BY <1>13, <2>2, <2>4, <2>5 DEF MainReplace
<1>14. CASE MainResume(e)
  <2>1. p_replace_waiter[e] \in ULT
    BY <1>14 DEF MainResume, ReplacesInv, ReplaceInv
  <2>2. LoopTypes'
    BY <1>1, <1>14 DEF MainResume
  <2>3. ResumeAndPush(e, p_replace_waiter[e]) /\ e \in Actor
    BY <1>14 DEF MainResume
  <2>. QED  BY <1>14, <2>1, <2>2, <2>3, ResumeTypes DEF MainResume
<1>15. CASE MainDec(e)
  <2>1. owed[e] # NULL /\ e \in Actor
    BY <1>15 DEF MainDec, OwedInv
  <2>2. LoopTypes'
    BY <1>1, <1>15 DEF MainDec
  <2>. QED  BY <1>15, <2>1, <2>2, DecTypes DEF MainDec
<1>16. CASE MainJoiner(e)
  <2>1. PICK u \in ULT : ResumeAndPush(e, u)
    BY <1>16 DEF MainJoiner
  <2>2. LoopTypes'
    BY <1>1, <1>16 DEF MainJoiner
  <2>3. e \in Actor
    OBVIOUS
  <2>. QED  BY <1>16, <2>1, <2>2, <2>3, ResumeTypes DEF MainJoiner
<1>17. CASE MainJoinerDec(e)
  <2>1. owed[e] # NULL /\ e \in Actor
    BY <1>17 DEF MainJoinerDec, OwedInv
  <2>2. LoopTypes'
    BY <1>1, <1>17 DEF MainJoinerDec
  <2>. QED  BY <1>17, <2>1, <2>2, DecTypes DEF MainJoinerDec
<1>. QED  BY <1>11, <1>12, <1>13, <1>14, <1>15, <1>16, <1>17

-----------------------------------------------------------------------------
(* How a thread goes through its calls.                                    *)

CallStep(t) ==
    \/ UNCHANGED <<program, pc>>
    \/ /\ program[t] # <<>> /\ OperationDone(t)
       /\ First(t) = "join" => at[Operand(t)] = "stopped"
    \/ /\ \E l \in ThreadPoint : GoTo(t, l) /\ PointOK(t, l)
       /\ UNCHANGED program

LEMMA ThreadCallStep ==
    ASSUME SchedInv, NEW t \in Thread, ThreadStep(t)
    PROVE  CallStep(t)
<1>. USE DEF SchedInv, Calls, At, ThreadPoint
<1>1. program[t] # <<>> => (First(t) = Head(program[t])[1])
  BY DEF First
<1>2. PointOK(t, pc[t])
  BY DEF InCallInv
<1>3. program[t] # <<>> /\ First(t) \in {"yield", "suspend", "replace", "finalize"} => t \notin EXT
  BY FirstCall DEF SchedTypeOK
<1>4. CASE Yield(t)
  BY <1>1, <1>4 DEF Yield, CallStep
<1>5. CASE SuspendCount(t)
  BY <1>1, <1>2, <1>3, <1>5 DEF SuspendCount, CallStep
<1>6. CASE SuspendBlock(t)
  BY <1>1, <1>2, <1>6 DEF SuspendBlock, CallStep
<1>7. CASE SuspendAsk(t)
  BY <1>1, <1>2, <1>7 DEF SuspendAsk, CallStep
<1>8. CASE Resume(t)
  BY <1>1, <1>8 DEF Resume, CallStep
<1>9. CASE ResumeDec(t)
  BY <1>1, <1>2, <1>9 DEF ResumeDec, CallStep
<1>10. CASE Migrate(t)
  BY <1>1, <1>10 DEF Migrate, CallStep
<1>11. CASE Exit(t)
  BY <1>11 DEF Exit, CallStep
<1>12. CASE Join(t)
  BY <1>1, <1>12 DEF Join, CallStep
<1>13. CASE JoinThread(t)
  BY <1>1, <1>2, <1>13 DEF JoinThread, CallStep
<1>14. CASE JoinReturn(t)
  BY <1>1, <1>2, <1>14 DEF JoinReturn, CallStep
<1>15. CASE Cancel(t)
  BY <1>1, <1>15 DEF Cancel, CallStep
<1>16. CASE Finalize(t)
  BY <1>1, <1>16 DEF Finalize, CallStep
<1>17. CASE Replace(t)
  BY <1>1, <1>3, <1>17 DEF Replace, CallStep
<1>18. CASE ReplaceDiscard(t)
  BY <1>2, <1>18 DEF ReplaceDiscard, CallStep
<1>19. CASE ReplaceDec(t)
  BY <1>2, <1>19 DEF ReplaceDec, CallStep
<1>20. CASE ReplaceSet(t)
  BY <1>2, <1>20 DEF ReplaceSet, CallStep
<1>. QED
  BY <1>4, <1>5, <1>6, <1>7, <1>8, <1>9, <1>10, <1>11, <1>12, <1>13, <1>14, <1>15, <1>16,
     <1>17, <1>18, <1>19, <1>20 DEF ThreadStep

(* The calls of the other threads stay.                                    *)
LEMMA CallStepOthers ==
    ASSUME ThreadTypes, NEW t \in Thread, CallStep(t)
    PROVE  \A u \in Thread \ {t} : /\ pc'[u] = pc[u] /\ program'[u] = program[u]
                                   /\ First(u)' = First(u) /\ Operand(u)' = Operand(u)
<1>1. \A u \in Thread \ {t} : pc'[u] = pc[u] /\ program'[u] = program[u]
  BY DEF CallStep, OperationDone, GoTo, ThreadTypes
<1>. QED  BY <1>1 DEF First, Operand

LEMMA CallStepInv ==
    ASSUME ThreadTypes, InCallInv, NEW t \in Thread, CallStep(t)
    PROVE  InCallInv'
<1>1. \A u \in Thread \ {t} : PointOK(u, pc[u])' /\ (u \in EXT => program'[u] \in Seq(ExtCall))
  BY CallStepOthers DEF InCallInv
<1>2. PointOK(t, pc[t])' /\ (t \in EXT => program'[t] \in Seq(ExtCall))
  <2>1. CASE UNCHANGED <<program, pc>>
    BY <2>1 DEF InCallInv, First
  <2>2. CASE program[t] # <<>> /\ OperationDone(t)
    <3>1. pc'[t] = "call" /\ program'[t] = Tail(program[t])
      BY <2>2 DEF OperationDone, GoTo, ThreadTypes
    <3>. QED  BY <2>2, <3>1, FirstCall
  <2>3. CASE \E l \in ThreadPoint : GoTo(t, l) /\ PointOK(t, l) /\ UNCHANGED program
    BY <2>3 DEF GoTo, ThreadTypes, First, InCallInv
  <2>. QED  BY <2>1, <2>2, <2>3 DEF CallStep
<1>. QED  BY <1>1, <1>2 DEF InCallInv

-----------------------------------------------------------------------------
(* Where the ULTs are.                                                     *)

(* No ES runs u.                                                           *)
Away(u) == \A e \in XSTREAM : p_thread[e] # u

(* A step may resume ULTs other than t that are suspended.                 *)
OthersResumed(t) ==
    \A u \in ULT \ {t} :
       \/ state'[u] = state[u]
       \/ state[u] = "BLOCKED" /\ state'[u] = "READY" /\ Away(u)

LEMMA BlockedAway ==
    ASSUME SchedTypeOK, RunningInv, NEW u \in ULT, state[u] = "BLOCKED", pc[u] # "ask"
    PROVE  Away(u)
<1>1. u # NULL
  BY SchedulerAssumption
<1>. QED  BY <1>1 DEF RunningInv, Away

(* The ULT that waits for a replacement of the scheduler of e, when nobody *)
(* is about to suspend for one there.                                      *)
LEMMA WaiterBlocked ==
    ASSUME SchedInv, NEW e \in XSTREAM, p_replace_waiter[e] # NULL,
           \/ p_thread[e] = NULL
           \/ pc[p_thread[e]] \in {"discard", "discarded", "set", "call"}
    PROVE  /\ p_replace_waiter[e] \in ULT /\ Away(p_replace_waiter[e])
           /\ state[p_replace_waiter[e]] = "BLOCKED" /\ pc[p_replace_waiter[e]] = "call"
<1>1. p_replace_waiter[e] \in ULT
  BY DEF SchedInv, SchedTypeOK, StreamTypes
<1>2. state[p_replace_waiter[e]] = "BLOCKED" /\ pc[p_replace_waiter[e]] = "call"
  BY <1>1, SchedulerAssumption DEF SchedInv, ReplacesInv, ReplaceInv, Awaits
<1>. QED  BY <1>1, <1>2, BlockedAway DEF SchedInv

(* A ULT that ABT_thread_resume resumes.                                   *)
LEMMA ResumedAway ==
    ASSUME SchedInv, NEW v \in ULT, state[v] = "BLOCKED", v \notin Range(p_replace_waiter)
    PROVE  Away(v) /\ pc[v] # "ask"
<1>1. \A e \in XSTREAM : p_replace_waiter[e] # v
  BY DEF SchedInv, SchedTypeOK, StreamTypes, Range
<1>2. v # NULL /\ v \in Thread
  BY SchedulerAssumption
<1>3. ASSUME pc[v] = "ask"
      PROVE  FALSE
  <2>1. First(v) = "replace"
    BY <1>2, <1>3 DEF SchedInv, InCallInv
  <2>2. PICK e \in XSTREAM : p_thread[e] = v
    BY <1>3 DEF SchedInv, RunningInv
  <2>. QED  BY <1>1, <1>2, <1>3, <2>1, <2>2 DEF SchedInv, ReplacesInv, ReplaceInv
<1>. QED  BY <1>3, BlockedAway DEF SchedInv

LEMMA ResumeOthers ==
    ASSUME SchedTypeOK, NEW a, NEW t, NEW v \in ULT, state[v] = "BLOCKED", Away(v),
           ResumeAndPush(a, v)
    PROVE  /\ OthersResumed(t)
           /\ \A u \in ULT : ~Away(u) => state'[u] = state[u]
  BY DEF OthersResumed, ResumeAndPush, SchedTypeOK, ThreadTypes

(* A thread goes on, or it is a ULT that gives up its ES.                  *)
LEMMA ThreadStateStep ==
    ASSUME SchedInv, NEW t \in Thread, ThreadStep(t)
    PROVE  /\ Running(t) /\ OthersResumed(t)
           /\ \/ /\ t \in ULT /\ SwitchToParent(t)
                 /\ pc'[t] \in {"call", "joining"} /\ state'[t] # "RUNNING"
              \/ /\ UNCHANGED loopVars
                 /\ t \in ULT => state'[t] = IF pc'[t] = "ask" THEN "BLOCKED" ELSE "RUNNING"
<1>. USE DEF SchedInv, Calls, At
<1>1. PointOK(t, pc[t])
  BY DEF InCallInv
<1>2. t \in ULT /\ Running(t) =>
        /\ state[t] = (IF pc[t] = "ask" THEN "BLOCKED" ELSE "RUNNING") /\ ~Away(t)
        /\ Xstream(t) \in XSTREAM /\ p_thread[Xstream(t)] = t /\ t # NULL
  BY RunsOn DEF Away
<1>3. \A l : GoTo(t, l) => pc'[t] = l
  BY DEF GoTo, SchedTypeOK, ThreadTypes
<1>4. OperationDone(t) => pc'[t] = "call"
  BY DEF GoTo, OperationDone, SchedTypeOK, ThreadTypes
<1>5. state' = state => OthersResumed(t)
  BY DEF OthersResumed
<1>6. \A v \in {"READY", "BLOCKED", "TERMINATED"} : state' = [state EXCEPT ![t] = v] =>
        OthersResumed(t) /\ (t \in ULT => state'[t] = v)
  BY DEF OthersResumed, SchedTypeOK, ThreadTypes
<1>7. t \notin ULT /\ program[t] # <<>> => First(t) \in {"join", "cancel", "resume", "migrate"}
  BY FirstCall DEF SchedTypeOK
<1>8. program[t] # <<>> => (First(t) = Head(program[t])[1])
  BY DEF First
<1>11. CASE Yield(t)
  <2>1. t \in ULT
    BY <1>7, <1>8, <1>11 DEF Yield
  <2>2. pc'[t] \in {"call", "joining"}
    BY <1>4, <1>11 DEF Yield
  <2>. QED  BY <1>6, <1>11, <2>1, <2>2 DEF Yield
<1>12. CASE SuspendCount(t)
  BY <1>2, <1>3, <1>5, <1>12 DEF SuspendCount
<1>13. CASE SuspendBlock(t)
  <2>1. t \in ULT /\ Running(t) /\ state' = [state EXCEPT ![t] = "BLOCKED"]
    BY <1>1, <1>13 DEF SuspendBlock
  <2>2. \/ GoTo(t, "ask") /\ UNCHANGED <<program, loopVars>>
        \/ GoTo(t, "joining") /\ SwitchToParent(t) /\ UNCHANGED program
        \/ OperationDone(t) /\ SwitchToParent(t)
    BY <1>13 DEF SuspendBlock
  <2>. QED  BY <1>3, <1>4, <1>6, <2>1, <2>2
<1>14. CASE SuspendAsk(t)
  <2>1. t \in ULT /\ state[t] = "BLOCKED" /\ state' = state
    BY <1>1, <1>2, <1>14 DEF SuspendAsk
  <2>. QED  BY <1>4, <1>5, <1>14, <2>1 DEF SuspendAsk
<1>15. CASE Resume(t)
  <2>1. Operand(t) \in ULT /\ state[Operand(t)] = "BLOCKED" /\ Away(Operand(t))
    BY <1>8, <1>15, FirstCall, ResumedAway DEF Resume, SchedTypeOK
  <2>2. ResumeAndPush(t, Operand(t)) /\ pc'[t] = "resumed" /\ pc[t] = "call" /\ Running(t)
        /\ UNCHANGED loopVars
    BY <1>3, <1>15 DEF Resume
  <2>3. OthersResumed(t) /\ (t \in ULT => state'[t] = state[t])
    BY <1>2, <2>1, <2>2, ResumeOthers
  <2>. QED  BY <1>2, <2>2, <2>3
<1>16. CASE ResumeDec(t)
  BY <1>2, <1>4, <1>5, <1>16 DEF ResumeDec
<1>17. CASE Migrate(t)
  BY <1>2, <1>4, <1>5, <1>17 DEF Migrate
<1>18. CASE Exit(t)
  BY <1>6, <1>18 DEF Exit
<1>19. CASE Join(t)
  BY <1>2, <1>3, <1>5, <1>19 DEF Join
<1>20. CASE JoinThread(t)
  BY <1>2, <1>3, <1>5, <1>20 DEF JoinThread
<1>21. CASE JoinReturn(t)
  BY <1>2, <1>4, <1>5, <1>21 DEF JoinReturn
<1>22. CASE Cancel(t)
  BY <1>2, <1>4, <1>5, <1>22 DEF Cancel
<1>23. CASE Finalize(t)
  <2>1. t \in ULT /\ Running(t) /\ pc[t] = "call" /\ pc'[t] = "call"
    BY <1>4, <1>7, <1>8, <1>23 DEF Finalize
  <2>2. \/ state' = [state EXCEPT ![t] = "TERMINATED"] /\ SwitchToParent(t)
        \/ state' = state /\ UNCHANGED loopVars
    BY <1>23 DEF Finalize
  <2>. QED  BY <1>2, <1>5, <1>6, <2>1, <2>2
<1>24. CASE Replace(t)
  BY <1>2, <1>3, <1>5, <1>24 DEF Replace
<1>25. CASE ReplaceDiscard(t)
  <2>1. t \in ULT /\ Running(t) /\ pc[t] = "discard" /\ pc'[t] = "discarded" /\ UNCHANGED loopVars
    BY <1>1, <1>3, <1>25 DEF ReplaceDiscard
  <2>. DEFINE w == p_replace_waiter[Xstream(t)]
  <2>2. w # NULL
    BY <1>2, <2>1 DEF ReplacesInv, ReplaceInv
  <2>3. w \in ULT /\ Away(w) /\ state[w] = "BLOCKED"
    BY <1>2, <2>1, <2>2, WaiterBlocked
  <2>4. ResumeAndPush(t, w)
    BY <1>25 DEF ReplaceDiscard
  <2>5. OthersResumed(t) /\ state'[t] = state[t]
    BY <1>2, <2>1, <2>3, <2>4, ResumeOthers
  <2>. QED  BY <1>2, <2>1, <2>5
<1>26. CASE ReplaceDec(t)
  BY <1>2, <1>3, <1>5, <1>26 DEF ReplaceDec
<1>27. CASE ReplaceSet(t)
  BY <1>2, <1>3, <1>5, <1>27 DEF ReplaceSet
<1>. QED
  BY <1>11, <1>12, <1>13, <1>14, <1>15, <1>16, <1>17, <1>18, <1>19, <1>20, <1>21, <1>22,
     <1>23, <1>24, <1>25, <1>26, <1>27 DEF ThreadStep

LEMMA ThreadStepRunning ==
    ASSUME SchedInv, NEW t \in Thread, ThreadStep(t)
    PROVE  RunningInv'
<1>1. \A u \in ULT \ {t} : pc'[u] = pc[u]
  BY ThreadCallStep, CallStepOthers DEF SchedInv, SchedTypeOK
<1>2. Running(t) /\ OthersResumed(t)
  BY ThreadStateStep
<1>. USE DEF SchedInv, SchedTypeOK, StreamTypes, LoopTypes, OthersResumed, Away
<1>3. CASE /\ t \in ULT /\ SwitchToParent(t)
           /\ pc'[t] \in {"call", "joining"} /\ state'[t] # "RUNNING"
  <2>1. /\ Xstream(t) \in XSTREAM /\ p_thread[Xstream(t)] = t
        /\ \A e \in XSTREAM : p_thread[e] = t => e = Xstream(t)
    BY <1>2, <1>3, RunsOn
  <2>2. PICK l : at' = [at EXCEPT ![Xstream(t)] = l]
    BY <1>3 DEF SwitchToParent, AfterUnit, RoundsOver, Enter
  <2>3. p_thread' = [p_thread EXCEPT ![Xstream(t)] = NULL]
    BY <1>3 DEF SwitchToParent
  <2>4. \A e \in XSTREAM \ {Xstream(t)} : p_thread'[e] = p_thread[e] /\ at'[e] = at[e]
    BY <2>2, <2>3
  <2>5. p_thread'[Xstream(t)] = NULL
    BY <2>1, <2>3
  <2>6. \A e \in XSTREAM : p_thread[e] # NULL => p_thread[e] \in ULT
    OBVIOUS
  <2>. QED  BY <1>1, <1>2, <1>3, <2>1, <2>4, <2>5, <2>6 DEF RunningInv
<1>4. CASE /\ UNCHANGED loopVars
           /\ t \in ULT => state'[t] = IF pc'[t] = "ask" THEN "BLOCKED" ELSE "RUNNING"
  <2>1. t \in ULT => ~Away(t)
    BY <1>2, RunsOn
  <2>2. \A e \in XSTREAM : p_thread[e] # NULL => p_thread[e] \in ULT
    OBVIOUS
  <2>. QED  BY <1>1, <1>2, <1>4, <2>1, <2>2 DEF RunningInv
<1>. QED  BY <1>3, <1>4, ThreadStateStep

(* What a step of a scheduler is.                                          *)
LEMMA SchedSteps ==
    ASSUME SchedTypeOK, NEW e \in XSTREAM, SchedStep(e)
    PROVE  \/ LoopStep(e) /\ SchedTypeOK'
           \/ PopUnit(e) \/ PopMigrate(e) \/ MainReplace(e) \/ MainResume(e) \/ MainDec(e)
           \/ MainJoiner(e) \/ MainJoinerDec(e)
  BY LoopStepTypes DEF SchedStep

(* A unit of a pool is READY, and runs nowhere.                            *)
LEMMA PoppedReady ==
    ASSUME SchedInv, NEW e \in XSTREAM, Pops(e)
    PROVE  /\ ThisPool(e) \in POOL /\ pool[ThisPool(e)] \in Seq(ULT)
           /\ pool[ThisPool(e)] # <<>> /\ IsInjective(pool[ThisPool(e)])
           /\ Head(pool[ThisPool(e)]) \in ULT /\ Away(Head(pool[ThisPool(e)]))
           /\ state[Head(pool[ThisPool(e)])] = "READY"
           /\ p_pool[Head(pool[ThisPool(e)])] = ThisPool(e)
           /\ pc[Head(pool[ThisPool(e)])] \in {"call", "joining"}
<1>. USE DEF SchedInv, SchedTypeOK
<1>1. POOLS[p_main_sched[e]] \in Seq(POOL) /\ p[e] \in DOMAIN POOLS[p_main_sched[e]]
  BY SchedulerAssumption DEF StreamTypes, LoopTypes
<1>2. ThisPool(e) \in POOL
  BY <1>1 DEF ThisPool
<1>3. pool[ThisPool(e)] \in Seq(ULT) /\ pool[ThisPool(e)] # <<>>
  BY <1>2 DEF Pops, PoolTypes
<1>. DEFINE u == Head(pool[ThisPool(e)])
<1>4. u \in ULT /\ u \in Range(pool[ThisPool(e)])
  BY <1>3, TailRange
<1>5. state[u] = "READY" /\ p_pool[u] = ThisPool(e) /\ IsInjective(pool[ThisPool(e)])
  BY <1>2, <1>4 DEF PoolsInv
<1>6. u # NULL
  BY <1>4, SchedulerAssumption
<1>7. Away(u)
  BY <1>5, <1>6 DEF RunningInv, Away
<1>8. pc[u] \in {"call", "joining"}
  BY <1>4, <1>7 DEF RunningInv, Away
<1>. QED  BY <1>2, <1>3, <1>4, <1>5, <1>7, <1>8

(* A ULT that has shown itself as the joiner of a scheduler.               *)
LEMMA JoinerAway ==
    ASSUME SchedInv, NEW u \in ULT, NEW e, Joiner(u, e), state[u] = "BLOCKED"
    PROVE  Away(u) /\ pc[u] = "joining"
<1>1. Away(u)
  BY BlockedAway DEF SchedInv, Joiner
<1>. QED  BY <1>1 DEF SchedInv, RunningInv, Joiner, Away

(* Its scheduler moves, which may pop a ULT or resume one.                 *)
LEMMA SchedStateStep ==
    ASSUME SchedInv, NEW e \in XSTREAM, SchedStep(e)
    PROVE  /\ p_thread[e] = NULL /\ UNCHANGED <<pc, program>>
           /\ \A f \in XSTREAM \ {e} : at'[f] = at[f]
           /\ \/ PopUnit(e)
              \/ p_thread' = p_thread /\ OthersResumed(e)
<1>. USE DEF SchedInv, SchedAt
<1>1. at' = at \/ (\E l : at' = [at EXCEPT ![e] = l]) => \A f \in XSTREAM \ {e} : at'[f] = at[f]
  BY DEF SchedTypeOK, LoopTypes
<1>2. state' = state => OthersResumed(e)
  BY DEF OthersResumed
<1>3. AfterUnit(e) => \E l : at' = [at EXCEPT ![e] = l]
  BY DEF AfterUnit, RoundsOver, Enter
<1>4. CASE LoopStep(e)
  BY <1>1, <1>2, <1>4 DEF LoopStep
<1>5. CASE PopUnit(e)
  BY <1>1, <1>5 DEF PopUnit, Pops
<1>6. CASE PopMigrate(e)
  BY <1>1, <1>2, <1>3, <1>6 DEF PopMigrate, Pops
<1>7. CASE MainReplace(e)
  BY <1>1, <1>2, <1>7 DEF MainReplace, Enter
<1>8. CASE MainResume(e)
  <2>1. p_thread[e] = NULL /\ at[e] = "replaced"
    BY <1>8 DEF MainResume
  <2>2. p_replace_waiter[e] # NULL
    BY <2>1 DEF ReplacesInv, ReplaceInv
  <2>3. ResumeAndPush(e, p_replace_waiter[e])
    BY <1>8 DEF MainResume
  <2>4. OthersResumed(e)
    BY <2>1, <2>2, <2>3, WaiterBlocked, ResumeOthers
  <2>. QED  BY <1>1, <1>8, <2>4 DEF MainResume, Enter
<1>9. CASE MainDec(e)
  BY <1>1, <1>2, <1>9 DEF MainDec, Enter
<1>10. CASE MainJoiner(e)
  <2>1. PICK u \in ULT : Joiner(u, e) /\ state[u] = "BLOCKED" /\ ResumeAndPush(e, u)
    BY <1>10 DEF MainJoiner
  <2>2. OthersResumed(e)
    BY <2>1, JoinerAway, ResumeOthers
  <2>. QED  BY <1>1, <1>10, <2>2 DEF MainJoiner, Enter
<1>11. CASE MainJoinerDec(e)
  BY <1>1, <1>2, <1>11 DEF MainJoinerDec, Enter
<1>. QED  BY <1>4, <1>5, <1>6, <1>7, <1>8, <1>9, <1>10, <1>11, SchedSteps

LEMMA SchedStepRunning ==
    ASSUME SchedInv, NEW e \in XSTREAM, SchedStep(e)
    PROVE  RunningInv'
<1>1. /\ p_thread[e] = NULL /\ UNCHANGED <<pc, program>>
      /\ \A f \in XSTREAM \ {e} : at'[f] = at[f]
  BY SchedStateStep
<1>. USE DEF SchedInv, SchedTypeOK, StreamTypes
<1>2. CASE PopUnit(e)
  <2>. DEFINE u == Head(pool[ThisPool(e)])
  <2>1. Pops(e) /\ p_thread' = [p_thread EXCEPT ![e] = u]
        /\ state' = [state EXCEPT ![u] = "RUNNING"] /\ at' = at
    BY <1>2 DEF PopUnit
  <2>2. u \in ULT /\ Away(u) /\ pc[u] \in {"call", "joining"} /\ at[e] \in {"pop", "wait"}
    BY <2>1, PoppedReady DEF Pops, SchedAt
  <2>3. state'[u] = "RUNNING" /\ \A v \in ULT \ {u} : state'[v] = state[v]
    BY <2>1, <2>2 DEF ThreadTypes
  <2>4. p_thread'[e] = u /\ \A f \in XSTREAM \ {e} : p_thread'[f] = p_thread[f]
    BY <2>1
  <2>5. \A f \in XSTREAM : p_thread[f] # NULL => p_thread[f] \in ULT
    OBVIOUS
  <2>. HIDE DEF u
  <2>6. \A f, g \in XSTREAM : p_thread'[f] = p_thread'[g] /\ p_thread'[f] # NULL => f = g
    BY <2>2, <2>4 DEF RunningInv, Away
  <2>7. ASSUME NEW f \in XSTREAM, p_thread'[f] # NULL
        PROVE  /\ state'[p_thread'[f]] = IF pc'[p_thread'[f]] = "ask" THEN "BLOCKED" ELSE "RUNNING"
               /\ at'[f] \in {"pop", "wait"}
    <3>1. CASE f = e
      BY <1>1, <2>1, <2>2, <2>3, <2>4, <3>1
    <3>2. CASE f # e
      BY <1>1, <2>1, <2>2, <2>3, <2>4, <2>5, <2>7, <3>2 DEF RunningInv, Away
    <3>. QED  BY <3>1, <3>2
  <2>8. ASSUME NEW v \in ULT, \A f \in XSTREAM : p_thread'[f] # v
        PROVE  pc'[v] \in {"call", "joining"} /\ state'[v] # "RUNNING"
    <3>1. v # u /\ Away(v)
      BY <1>1, <2>4, <2>8, SchedulerAssumption DEF Away
    <3>. QED  BY <1>1, <2>3, <3>1 DEF RunningInv, Away
  <2>. QED  BY <2>6, <2>7, <2>8 DEF RunningInv
<1>3. CASE p_thread' = p_thread /\ OthersResumed(e)
  <2>1. \A u \in ULT : u # e
    BY SchedulerAssumption
  <2>2. \A f \in XSTREAM : p_thread[f] # NULL => p_thread[f] \in ULT
    OBVIOUS
  <2>. QED  BY <1>1, <1>3, <2>1, <2>2 DEF RunningInv, OthersResumed, Away
<1>. QED  BY <1>2, <1>3, SchedStateStep

-----------------------------------------------------------------------------
(* What the pools hold.                                                    *)

(* v becomes READY and is pushed.                                          *)
LEMMA PushPools ==
    ASSUME PoolTypes, ThreadTypes, PoolsInv, NEW v \in ULT, state[v] # "READY",
           state' = [state EXCEPT ![v] = "READY"],
           \A u \in ULT \ {v} : p_pool'[u] = p_pool[u],
           NEW q \in POOL, p_pool'[v] = q, pool' = [pool EXCEPT ![q] = Append(@, v)]
    PROVE  PoolsInv'
<1>1. pool'[q] = Append(pool[q], v) /\ \A r \in POOL \ {q} : pool'[r] = pool[r]
  BY DEF PoolTypes
<1>2. pool[q] \in Seq(ULT) /\ v \notin Range(pool[q]) /\ IsInjective(pool[q])
  BY DEF PoolTypes, PoolsInv
<1>3. IsInjective(pool'[q]) /\ Range(pool'[q]) = Range(pool[q]) \cup {v}
  BY <1>1, <1>2, AppendRange, AppendInjective
<1>4. state'[v] = "READY" /\ \A u \in ULT \ {v} : state'[u] = state[u]
  BY DEF ThreadTypes
<1>5. ASSUME NEW r \in POOL
      PROVE  /\ IsInjective(pool'[r])
             /\ Range(pool'[r]) = {u \in ULT : state'[u] = "READY" /\ p_pool'[u] = r}
  <2>1. CASE r = q
    BY <1>3, <1>4, <2>1 DEF PoolsInv
  <2>2. CASE r # q
    BY <1>1, <1>4, <2>2 DEF PoolsInv
  <2>. QED  BY <2>1, <2>2
<1>. QED  BY <1>5 DEF PoolsInv

(* The pools stay, and who is READY.                                       *)
LEMMA SamePools ==
    ASSUME PoolsInv, pool' = pool,
           \A u \in ULT : /\ state'[u] = "READY" <=> state[u] = "READY"
                          /\ state[u] = "READY" => p_pool'[u] = p_pool[u]
    PROVE  PoolsInv'
  BY DEF PoolsInv

LEMMA ResumePools ==
    ASSUME PoolTypes, ThreadTypes, PoolsInv, NEW a, NEW v \in ULT, state[v] = "BLOCKED",
           ResumeAndPush(a, v), p_pool' = p_pool
    PROVE  PoolsInv'
<1>1. p_pool[v] \in POOL
  BY DEF ThreadTypes
<1>. QED  BY <1>1, PushPools DEF ResumeAndPush

LEMMA ThreadStepPools ==
    ASSUME SchedInv, NEW t \in Thread, ThreadStep(t)
    PROVE  PoolsInv'
<1>. USE DEF SchedInv, SchedTypeOK, Calls, At
<1>1. UNCHANGED <<pool, state, p_pool>> => PoolsInv'
  BY SamePools
<1>2. t \in ULT /\ Running(t) =>
        /\ state[t] \in {"RUNNING", "BLOCKED"} /\ Xstream(t) \in XSTREAM /\ p_thread[Xstream(t)] = t
  BY RunsOn
<1>3. t \notin ULT => /\ pc[t] \in {"call", "join", "joining", "resumed"}
                      /\ program[t] # <<>> => First(t) \in {"join", "cancel", "resume", "migrate"}
  BY FirstCall DEF InCallInv
<1>4. program[t] # <<>> => First(t) = Head(program[t])[1]
  BY DEF First
<1>5. \A v \in {"BLOCKED", "TERMINATED"} :
        /\ t \in ULT /\ Running(t) /\ state' = [state EXCEPT ![t] = v] /\ pool' = pool
        /\ \A u \in ULT \ {t} : p_pool'[u] = p_pool[u]
        => PoolsInv'
  <2>. SUFFICES ASSUME t \in ULT, Running(t), NEW v \in {"BLOCKED", "TERMINATED"},
                       state' = [state EXCEPT ![t] = v], pool' = pool,
                       \A u \in ULT \ {t} : p_pool'[u] = p_pool[u]
                PROVE  PoolsInv'
    OBVIOUS
  <2>1. state'[t] = v /\ \A u \in ULT \ {t} : state'[u] = state[u]
    BY DEF ThreadTypes
  <2>. QED  BY <1>2, <2>1, SamePools
<1>11. CASE Yield(t)
  <2>1. t \in ULT /\ Running(t)
    BY <1>3, <1>4, <1>11 DEF Yield
  <2>2. p_pool'[t] \in POOL /\ \A u \in ULT \ {t} : p_pool'[u] = p_pool[u]
    BY <1>11, <2>1, MigrationTypes DEF Yield
  <2>3. state' = [state EXCEPT ![t] = "READY"] /\ pool' = [pool EXCEPT ![p_pool'[t]] = Append(@, t)]
    BY <1>11 DEF Yield
  <2>4. state[t] # "READY"
    BY <1>2, <2>1
  <2>. QED  BY <2>1, <2>2, <2>3, <2>4, PushPools
<1>12. CASE SuspendBlock(t)
  <2>1. t \in ULT /\ Running(t)
    BY <1>3, <1>12 DEF SuspendBlock
  <2>2. \A u \in ULT \ {t} : p_pool'[u] = p_pool[u]
    BY <1>12, <2>1, MigrationTypes DEF SuspendBlock
  <2>. QED  BY <1>5, <1>12, <2>1, <2>2 DEF SuspendBlock
<1>13. CASE Resume(t)
  <2>1. Operand(t) \in ULT
    BY <1>4, <1>13, FirstCall DEF Resume
  <2>. QED  BY <1>13, <2>1, ResumePools DEF Resume
<1>14. CASE Exit(t)
  BY <1>5, <1>14 DEF Exit
<1>15. CASE Finalize(t)
  <2>1. t \in ULT /\ Running(t) /\ UNCHANGED <<pool, p_pool>>
    BY <1>3, <1>4, <1>15 DEF Finalize
  <2>2. state' = [state EXCEPT ![t] = "TERMINATED"] \/ state' = state
    BY <1>15 DEF Finalize
  <2>. QED  BY <1>1, <1>5, <2>1, <2>2
<1>16. CASE Replace(t)
  <2>1. t \in ULT /\ Running(t) /\ UNCHANGED <<pool, state>>
    BY <1>3, <1>4, <1>16 DEF Replace
  <2>2. \A u \in ULT \ {t} : p_pool'[u] = p_pool[u]
    BY <1>16 DEF Replace, ThreadTypes
  <2>. QED  BY <1>2, <2>1, <2>2, SamePools
<1>17. CASE ReplaceDiscard(t)
  <2>1. t \in ULT /\ Running(t) /\ pc[t] = "discard"
    BY <1>3, <1>17 DEF ReplaceDiscard
  <2>. DEFINE w == p_replace_waiter[Xstream(t)]
  <2>2. w # NULL
    BY <1>2, <2>1, SchedulerAssumption DEF ReplacesInv, ReplaceInv
  <2>3. w \in ULT /\ state[w] = "BLOCKED"
    BY <1>2, <2>1, <2>2, WaiterBlocked
  <2>. QED  BY <1>17, <2>3, ResumePools DEF ReplaceDiscard
<1>18. CASE \/ SuspendCount(t) \/ SuspendAsk(t) \/ ResumeDec(t) \/ Migrate(t) \/ Join(t)
            \/ JoinThread(t) \/ JoinReturn(t) \/ Cancel(t) \/ ReplaceDec(t) \/ ReplaceSet(t)
  BY <1>1, <1>18
  DEF SuspendCount, SuspendAsk, ResumeDec, Migrate, Join, JoinThread, JoinReturn, Cancel,
      ReplaceDec, ReplaceSet, DecNumBlocked
<1>. QED
  BY <1>11, <1>12, <1>13, <1>14, <1>15, <1>16, <1>17, <1>18 DEF ThreadStep

LEMMA SchedStepPools ==
    ASSUME SchedInv, NEW e \in XSTREAM, SchedStep(e)
    PROVE  PoolsInv'
<1>. USE DEF SchedInv, SchedTypeOK, SchedAt
<1>1. UNCHANGED <<pool, state, p_pool>> => PoolsInv'
  BY SamePools
<1>. DEFINE q == ThisPool(e)
            u == Head(pool[q])
(* The pool without its first unit.                                        *)
<1>2. ASSUME Pops(e)
      PROVE  /\ Tail(pool[q]) \in Seq(ULT) /\ IsInjective(Tail(pool[q]))
             /\ Range(Tail(pool[q])) = Range(pool[q]) \ {u}
  <2>1. pool[q] \in Seq(ULT) /\ pool[q] # <<>> /\ IsInjective(pool[q])
    BY <1>2, PoppedReady
  <2>2. /\ Tail(pool[q]) \in Seq(ULT)
        /\ Range(Tail(pool[q])) \subseteq Range(pool[q])
        /\ Range(pool[q]) \subseteq Range(Tail(pool[q])) \cup {u}
    BY <2>1, TailRange
  <2>3. IsInjective(Tail(pool[q])) /\ u \notin Range(Tail(pool[q]))
    BY <2>1, TailInjective
  <2>. HIDE DEF q, u
  <2>. QED  BY <2>2, <2>3
<1>3. CASE PopUnit(e)
  <2>1. /\ Pops(e) /\ pool' = [pool EXCEPT ![q] = Tail(@)] /\ p_pool' = p_pool
        /\ state' = [state EXCEPT ![u] = "RUNNING"]
    BY <1>3 DEF PopUnit
  <2>2. q \in POOL /\ u \in ULT /\ p_pool[u] = q
    BY <2>1, PoppedReady
  <2>. HIDE DEF q, u
  <2>3. pool'[q] = Tail(pool[q]) /\ \A r \in POOL \ {q} : pool'[r] = pool[r]
    BY <2>1, <2>2 DEF PoolTypes
  <2>4. state'[u] = "RUNNING" /\ \A v \in ULT \ {u} : state'[v] = state[v]
    BY <2>1, <2>2 DEF ThreadTypes
  <2>5. ASSUME NEW r \in POOL
        PROVE  /\ IsInjective(pool'[r])
               /\ Range(pool'[r]) = {v \in ULT : state'[v] = "READY" /\ p_pool'[v] = r}
    <3>1. CASE r = q
      BY <1>2, <2>1, <2>2, <2>3, <2>4, <3>1 DEF PoolsInv
    <3>2. CASE r # q
      BY <2>1, <2>2, <2>3, <2>4, <3>2 DEF PoolsInv
    <3>. QED  BY <3>1, <3>2
  <2>. QED  BY <2>5 DEF PoolsInv
<1>4. CASE PopMigrate(e)
  <2>. DEFINE popped == [pool EXCEPT ![q] = Tail(@)]
              m == migration[u]
  <2>1. /\ Pops(e) /\ pool' = [popped EXCEPT ![m] = Append(@, u)] /\ state' = state
        /\ p_pool' = [p_pool EXCEPT ![u] = m] /\ m # NULL
    BY <1>4 DEF PopMigrate, HandleMigration
  <2>2. q \in POOL /\ u \in ULT /\ p_pool[u] = q /\ m \in POOL /\ state[u] = "READY"
    BY <2>1, PoppedReady DEF ThreadTypes
  <2>3. p_pool'[u] = m /\ \A v \in ULT \ {u} : p_pool'[v] = p_pool[v]
    BY <2>1, <2>2 DEF ThreadTypes
  <2>. HIDE DEF q, u, m
  <2>4. popped \in [POOL -> Seq(ULT)]
    BY <1>2, <2>1, <2>2 DEF PoolTypes
  <2>5. \A r \in POOL : IsInjective(popped[r]) /\ Range(popped[r]) = Range(pool[r]) \ {u}
    <3>1. popped[q] = Tail(pool[q]) /\ \A r \in POOL \ {q} : popped[r] = pool[r]
      BY <2>2 DEF PoolTypes
    <3>2. \A r \in POOL \ {q} : u \notin Range(pool[r])
      BY <2>2 DEF PoolsInv
    <3>. QED  BY <1>2, <2>1, <3>1, <3>2 DEF PoolsInv
  <2>. HIDE DEF popped
  <2>6. pool'[m] = Append(popped[m], u) /\ \A r \in POOL \ {m} : pool'[r] = popped[r]
    BY <2>1, <2>2, <2>4
  <2>7. IsInjective(pool'[m]) /\ Range(pool'[m]) = (Range(pool[m]) \ {u}) \cup {u}
    <3>1. popped[m] \in Seq(ULT)
      BY <2>2, <2>4
    <3>2. Range(popped[m]) = Range(pool[m]) \ {u} /\ IsInjective(popped[m])
      BY <2>2, <2>5
    <3>3. IsInjective(Append(popped[m], u))
      BY <2>2, <3>1, <3>2, AppendInjective
    <3>4. Range(Append(popped[m], u)) = Range(popped[m]) \cup {u}
      BY <2>2, <3>1, AppendRange
    <3>. QED  BY <2>6, <3>2, <3>3, <3>4
  <2>8. ASSUME NEW r \in POOL
        PROVE  /\ IsInjective(pool'[r])
               /\ Range(pool'[r]) = {v \in ULT : state'[v] = "READY" /\ p_pool'[v] = r}
    <3>1. Range(pool[r]) = {v \in ULT : state[v] = "READY" /\ p_pool[v] = r}
      BY DEF PoolsInv
    <3>2. CASE r = m
      BY <2>1, <2>2, <2>3, <2>7, <3>1, <3>2
    <3>3. CASE r # m
      BY <2>1, <2>2, <2>3, <2>5, <2>6, <3>1, <3>3
    <3>. QED  BY <3>2, <3>3
  <2>. QED  BY <2>8 DEF PoolsInv
<1>5. CASE MainResume(e)
  <2>1. p_replace_waiter[e] \in ULT /\ state[p_replace_waiter[e]] = "BLOCKED"
    BY <1>5, WaiterBlocked DEF MainResume, ReplacesInv, ReplaceInv
  <2>. QED  BY <1>5, <2>1, ResumePools DEF MainResume
<1>6. CASE MainJoiner(e)
  BY <1>6, ResumePools DEF MainJoiner
<1>7. CASE LoopStep(e) \/ MainReplace(e) \/ MainDec(e) \/ MainJoinerDec(e)
  BY <1>1, <1>7 DEF LoopStep, MainReplace, MainDec, MainJoinerDec, DecNumBlocked
<1>. QED  BY <1>3, <1>4, <1>5, <1>6, <1>7, SchedSteps

-----------------------------------------------------------------------------
(* Who has to decrease num_blocked.                                        *)

(* A ULT gives up its ES: its scheduler goes on popping, or checks.        *)
LEMMA SwitchPoints ==
    ASSUME SchedTypeOK, RunningInv, NEW t \in ULT, Running(t), SwitchToParent(t)
    PROVE  \A e \in XSTREAM :
              \/ at'[e] = at[e] /\ p_thread'[e] = p_thread[e] /\ p_thread[e] # t
              \/ /\ e = Xstream(t) /\ p_thread[e] = t /\ p_thread'[e] = NULL
                 /\ at[e] \in {"pop", "wait"} /\ at'[e] \in {"pop", "events", "stop", "run_over"}
<1>1. /\ Xstream(t) \in XSTREAM /\ p_thread[Xstream(t)] = t
      /\ \A e \in XSTREAM : p_thread[e] = t => e = Xstream(t)
      /\ at[Xstream(t)] \in {"pop", "wait"}
  BY RunsOn
<1>2. PICK l \in {"pop", "events", "stop", "run_over"} : at' = [at EXCEPT ![Xstream(t)] = l]
  BY DEF SwitchToParent, AfterUnit, RoundsOver, Enter
<1>3. p_thread' = [p_thread EXCEPT ![Xstream(t)] = NULL]
  BY DEF SwitchToParent
<1>. QED  BY <1>1, <1>2, <1>3 DEF SchedTypeOK, StreamTypes, LoopTypes

LEMMA ThreadStepOwed ==
    ASSUME SchedInv, NEW t \in Thread, ThreadStep(t)
    PROVE  OwedInv'
<1>. USE DEF SchedInv, SchedTypeOK, Calls, At
<1>1. \A u \in Thread \ {t} : pc'[u] = pc[u]
  BY ThreadCallStep, CallStepOthers
<1>2. \A e \in XSTREAM : at'[e] \in {"resumed", "joiner"} <=> at[e] \in {"resumed", "joiner"}
  BY ThreadStateStep, SwitchPoints
<1>3. \A l : GoTo(t, l) => pc'[t] = l
  BY DEF GoTo, ThreadTypes
<1>4. OperationDone(t) => pc'[t] = "call"
  BY DEF GoTo, OperationDone, ThreadTypes
<1>5. ASSUME \A a \in Actor \ {t} : owed'[a] = owed[a],
             owed'[t] # NULL <=> pc'[t] \in {"resumed", "discarded"}
      PROVE  OwedInv'
  <2>1. \A e \in XSTREAM : e \in Actor \ {t}
    BY SchedulerAssumption
  <2>. QED  BY <1>1, <1>2, <1>5, <2>1 DEF OwedInv
<1>6. ASSUME owed' = owed, pc[t] \notin {"resumed", "discarded"},
             pc'[t] \notin {"resumed", "discarded"}
      PROVE  OwedInv'
  BY <1>5, <1>6 DEF OwedInv
<1>7. PointOK(t, pc[t])
  BY DEF InCallInv
<1>8. ASSUME NEW v \in ULT, ResumeAndPush(t, v), pc'[t] \in {"resumed", "discarded"}
      PROVE  OwedInv'
  <2>1. owed' = [owed EXCEPT ![t] = p_pool[v]] /\ p_pool[v] \in POOL /\ NULL \notin POOL
    BY <1>8, SchedulerAssumption DEF ResumeAndPush, ThreadTypes
  <2>2. owed'[t] # NULL /\ \A a \in Actor \ {t} : owed'[a] = owed[a]
    BY <2>1 DEF ThreadTypes
  <2>. QED  BY <1>5, <1>8, <2>2
<1>9. ASSUME DecNumBlocked(t), pc'[t] \notin {"resumed", "discarded"}
      PROVE  OwedInv'
  <2>1. owed'[t] = NULL /\ \A a \in Actor \ {t} : owed'[a] = owed[a]
    BY <1>9 DEF DecNumBlocked, ThreadTypes
  <2>. QED  BY <1>5, <1>9, <2>1
<1>10. program[t] # <<>> => First(t) = Head(program[t])[1]
  BY DEF First
<1>11. CASE Resume(t)
  <2>1. Operand(t) \in ULT
    BY <1>10, <1>11, FirstCall DEF Resume
  <2>. QED  BY <1>3, <1>8, <1>11, <2>1 DEF Resume
<1>12. CASE ReplaceDiscard(t)
  <2>1. t \in ULT /\ Running(t) /\ pc[t] = "discard"
    BY <1>7, <1>12 DEF ReplaceDiscard
  <2>2. Xstream(t) \in XSTREAM /\ p_thread[Xstream(t)] = t /\ t # NULL
    BY <2>1, RunsOn
  <2>3. p_replace_waiter[Xstream(t)] # NULL
    BY <2>1, <2>2 DEF ReplacesInv, ReplaceInv
  <2>4. p_replace_waiter[Xstream(t)] \in ULT
    BY <2>1, <2>2, <2>3, WaiterBlocked
  <2>. QED  BY <1>3, <1>8, <1>12, <2>4 DEF ReplaceDiscard
<1>13. CASE ResumeDec(t) \/ ReplaceDec(t)
  BY <1>3, <1>4, <1>9, <1>13 DEF ResumeDec, ReplaceDec
<1>14. CASE SuspendBlock(t)
  BY <1>3, <1>4, <1>6, <1>14 DEF SuspendBlock
<1>15. CASE Yield(t)
  BY <1>4, <1>6, <1>15 DEF Yield
<1>16. CASE \/ SuspendAsk(t) \/ Migrate(t) \/ Exit(t) \/ JoinReturn(t) \/ Cancel(t) \/ Finalize(t)
  BY <1>4, <1>6, <1>16 DEF SuspendAsk, Migrate, Exit, JoinReturn, Cancel, Finalize
<1>17. CASE SuspendCount(t) \/ Join(t) \/ JoinThread(t) \/ Replace(t) \/ ReplaceSet(t)
  BY <1>3, <1>6, <1>17 DEF SuspendCount, Join, JoinThread, Replace, ReplaceSet
<1>. QED
  BY <1>11, <1>12, <1>13, <1>14, <1>15, <1>16, <1>17 DEF ThreadStep

LEMMA SchedStepOwed ==
    ASSUME SchedInv, NEW e \in XSTREAM, SchedStep(e)
    PROVE  OwedInv'
<1>. USE DEF SchedInv, SchedTypeOK, SchedAt
<1>1. pc' = pc /\ \A f \in XSTREAM \ {e} : at'[f] = at[f]
  BY SchedStateStep
<1>2. ASSUME \A a \in Actor \ {e} : owed'[a] = owed[a],
             owed'[e] # NULL <=> at'[e] \in {"resumed", "joiner"}
      PROVE  OwedInv'
  <2>1. \A t \in Thread : t \in Actor \ {e}
    BY SchedulerAssumption
  <2>. QED  BY <1>1, <1>2, <2>1 DEF OwedInv
<1>3. ASSUME owed' = owed, at[e] \notin {"resumed", "joiner"}, at'[e] \notin {"resumed", "joiner"}
      PROVE  OwedInv'
  BY <1>2, <1>3 DEF OwedInv
<1>4. \A l : at' = [at EXCEPT ![e] = l] => at'[e] = l
  BY DEF LoopTypes
<1>5. ASSUME NEW v \in ULT, ResumeAndPush(e, v), at'[e] \in {"resumed", "joiner"}
      PROVE  OwedInv'
  <2>1. owed' = [owed EXCEPT ![e] = p_pool[v]] /\ p_pool[v] \in POOL /\ NULL \notin POOL
    BY <1>5, SchedulerAssumption DEF ResumeAndPush, ThreadTypes
  <2>2. owed'[e] # NULL /\ \A a \in Actor \ {e} : owed'[a] = owed[a]
    BY <2>1 DEF ThreadTypes
  <2>. QED  BY <1>2, <1>5, <2>2
<1>6. ASSUME DecNumBlocked(e), at'[e] \notin {"resumed", "joiner"}
      PROVE  OwedInv'
  <2>1. owed'[e] = NULL /\ \A a \in Actor \ {e} : owed'[a] = owed[a]
    BY <1>6 DEF DecNumBlocked, ThreadTypes
  <2>. QED  BY <1>2, <1>6, <2>1
<1>11. CASE LoopStep(e)
  BY <1>3, <1>4, <1>11 DEF LoopStep
<1>12. CASE PopUnit(e)
  BY <1>3, <1>12 DEF PopUnit, Pops
<1>13. CASE PopMigrate(e)
  <2>1. \E l \in {"pop", "events", "stop", "run_over"} : at' = [at EXCEPT ![e] = l]
    BY <1>13 DEF PopMigrate, AfterUnit, RoundsOver, Enter
  <2>. QED  BY <1>3, <1>4, <1>13, <2>1 DEF PopMigrate, Pops
<1>14. CASE MainReplace(e)
  BY <1>3, <1>4, <1>14 DEF MainReplace, Enter
<1>15. CASE MainResume(e)
  <2>1. p_replace_waiter[e] \in ULT
    BY <1>15, WaiterBlocked DEF MainResume, ReplacesInv, ReplaceInv
  <2>. QED  BY <1>4, <1>5, <1>15, <2>1 DEF MainResume, Enter
<1>16. CASE MainDec(e)
  BY <1>4, <1>6, <1>16 DEF MainDec, Enter
<1>17. CASE MainJoiner(e)
  BY <1>4, <1>5, <1>17 DEF MainJoiner, Enter
<1>18. CASE MainJoinerDec(e)
  BY <1>4, <1>6, <1>18 DEF MainJoinerDec, Enter
<1>. QED
  BY <1>11, <1>12, <1>13, <1>14, <1>15, <1>16, <1>17, <1>18, SchedSteps

-----------------------------------------------------------------------------
(* The replacements that are under way.                                    *)

(* The ULTs that run on another ES, or wait there, are left alone.         *)
LEMMA OtherReplace ==
    ASSUME SchedInv, NEW t \in Thread, Running(t),
           \A u \in ULT \ {t} : pc'[u] = pc[u] /\ First(u)' = First(u),
           NEW e \in XSTREAM, p_thread[e] # t, p_thread'[e] = p_thread[e], at'[e] = at[e],
           p_replace_waiter'[e] = p_replace_waiter[e],
           p_replace_sched'[e] = p_replace_sched[e],
           "REPLACE" \in request'[e] <=> "REPLACE" \in request[e],
           p_replace_waiter[e] \in ULT \ {t} => state'[p_replace_waiter[e]] = state[p_replace_waiter[e]]
    PROVE  ReplaceInv(e)'
<1>. USE DEF SchedInv, SchedTypeOK, StreamTypes
<1>1. ReplaceInv(e)
  BY DEF ReplacesInv
<1>2. p_replace_waiter[e] # NULL => p_replace_waiter[e] \in ULT \ {t}
  <2>. SUFFICES ASSUME p_replace_waiter[e] # NULL, p_replace_waiter[e] = t
                PROVE  FALSE
    OBVIOUS
  <2>1. state[t] = "BLOCKED" /\ pc[t] = "call" /\ t \in ULT
    BY <1>1 DEF ReplaceInv, Awaits
  <2>. QED  BY <2>1, RunsOn
<1>3. p_thread[e] # NULL => p_thread[e] \in ULT \ {t}
  OBVIOUS
<1>. QED  BY <1>1, <1>2, <1>3 DEF ReplaceInv, Awaits

(* A thread goes on, without a change to what waits for a replacement.     *)
LEMMA LocalReplace ==
    ASSUME SchedInv, NEW t \in Thread, Running(t),
           \A u \in ULT \ {t} : pc'[u] = pc[u] /\ First(u)' = First(u),
           UNCHANGED <<loopVars, replaceVars>>,
           \A e \in XSTREAM : "REPLACE" \in request'[e] <=> "REPLACE" \in request[e],
           \A w \in (ULT \ {t}) \cap Range(p_replace_waiter) : state'[w] = state[w],
           t \in ULT =>
             /\ pc[t] \in {"suspend", "block", "ask"} /\ First(t) = "replace"
                  <=> pc'[t] \in {"suspend", "block", "ask"} /\ First(t)' = "replace"
             /\ pc'[t] = "discard" => p_replace_sched[Xstream(t)] # NULL
             /\ pc'[t] \in {"discarded", "set"} => \/ pc[t] \in {"discarded", "set"}
                                                  \/ p_replace_sched[Xstream(t)] = NULL
             /\ pc[t] \in {"discarded", "set"} => pc'[t] \in {"discarded", "set"}
    PROVE  ReplacesInv'
<1>. USE DEF SchedInv, SchedTypeOK, StreamTypes
<1>1. \A e \in XSTREAM : p_replace_waiter[e] \in ULT \ {t}
                           => state'[p_replace_waiter[e]] = state[p_replace_waiter[e]]
  BY DEF Range
<1>2. ASSUME NEW e \in XSTREAM, p_thread[e] # t
      PROVE  ReplaceInv(e)'
  BY <1>1, <1>2, OtherReplace
<1>3. ASSUME NEW e \in XSTREAM, p_thread[e] = t
      PROVE  ReplaceInv(e)'
  <2>1. t \in ULT /\ t # NULL
    BY <1>3, SchedulerAssumption DEF Running
  <2>2. e = Xstream(t) /\ state[t] = IF pc[t] = "ask" THEN "BLOCKED" ELSE "RUNNING"
    BY <1>3, <2>1, RunsOn
  <2>3. ReplaceInv(e)
    BY DEF ReplacesInv
  <2>4. CASE p_replace_waiter[e] = t
    <3>1. pc[t] \in {"suspend", "block", "ask"} /\ First(t) = "replace"
      BY <2>1, <2>2, <2>3, <2>4 DEF ReplaceInv, Awaits
    <3>. QED  BY <1>3, <2>1, <2>2, <2>3, <2>4, <3>1 DEF ReplaceInv, Awaits
  <2>5. CASE p_replace_waiter[e] # t
    <3>1. p_replace_waiter[e] # NULL => p_replace_waiter[e] \in ULT \ {t}
      BY <2>5
    <3>. QED  BY <1>1, <1>3, <2>1, <2>2, <2>3, <2>5, <3>1 DEF ReplaceInv, Awaits
  <2>. QED  BY <2>4, <2>5
<1>. QED  BY <1>2, <1>3 DEF ReplacesInv

(* A ULT gives up its ES, to wait for the replacement or for another       *)
(* reason.                                                                 *)
LEMMA SwitchReplace ==
    ASSUME SchedInv, NEW t \in ULT, Running(t), SwitchToParent(t),
           \A u \in ULT \ {t} : pc'[u] = pc[u] /\ First(u)' = First(u) /\ state'[u] = state[u],
           UNCHANGED replaceVars,
           \A e \in XSTREAM \ {Xstream(t)} :
              "REPLACE" \in request'[e] <=> "REPLACE" \in request[e],
           \/ /\ pc[t] = "ask" /\ state'[t] = "BLOCKED" /\ pc'[t] = "call"
              /\ "REPLACE" \in request'[Xstream(t)]
           \/ /\ pc[t] \in {"call", "joining"} \/ (pc[t] = "block" /\ First(t) # "replace")
              /\ "REPLACE" \in request'[Xstream(t)] <=> "REPLACE" \in request[Xstream(t)]
    PROVE  ReplacesInv'
<1>. USE DEF SchedInv, SchedTypeOK, StreamTypes
<1>0. PICK x \in XSTREAM : x = Xstream(t)
  BY RunsOn
<1>1. /\ x \in XSTREAM /\ p_thread[x] = t /\ t # NULL /\ at[x] \in {"pop", "wait"}
      /\ state[t] = IF pc[t] = "ask" THEN "BLOCKED" ELSE "RUNNING"
  BY <1>0, RunsOn
<1>2. \A e \in XSTREAM \ {x} : p_thread[e] # t /\ p_thread'[e] = p_thread[e] /\ at'[e] = at[e]
  BY <1>0, SwitchPoints
<1>3. p_thread'[x] = NULL /\ at'[x] # "replaced"
  BY <1>0, <1>1, SwitchPoints
<1>4. ASSUME NEW e \in XSTREAM \ {x}
      PROVE  ReplaceInv(e)'
  BY <1>0, <1>2, OtherReplace
<1>5. ReplaceInv(x)
  BY <1>1 DEF ReplacesInv
<1>6. ReplaceInv(x)'
  <2>1. p_replace_waiter'[x] = p_replace_waiter[x] /\ p_replace_sched'[x] = p_replace_sched[x]
    OBVIOUS
  <2>2. CASE /\ pc[t] = "ask" /\ state'[t] = "BLOCKED" /\ pc'[t] = "call"
             /\ "REPLACE" \in request'[x]
    <3>1. First(t) = "replace"
      BY <2>2 DEF InCallInv
    <3>2. p_replace_waiter[x] = t /\ p_replace_sched[x] # NULL
      BY <1>1, <1>5, <2>2, <3>1 DEF ReplaceInv
    <3>. QED  BY <1>3, <1>1, <2>1, <2>2, <3>2 DEF ReplaceInv, Awaits
  <2>3. CASE /\ pc[t] \in {"call", "joining"} \/ (pc[t] = "block" /\ First(t) # "replace")
             /\ "REPLACE" \in request'[x] <=> "REPLACE" \in request[x]
    <3>1. p_replace_waiter[x] # t
      BY <1>1, <1>5, <2>3 DEF ReplaceInv, Awaits
    <3>2. p_replace_waiter[x] # NULL => p_replace_waiter[x] \in ULT \ {t}
      BY <1>1, <3>1
    <3>. QED  BY <1>1, <1>3, <1>5, <2>1, <2>3, <3>1, <3>2 DEF ReplaceInv, Awaits
  <2>. QED  BY <1>0, <2>2, <2>3
<1>. QED  BY <1>4, <1>6 DEF ReplacesInv

LEMMA ThreadStepReplaces ==
    ASSUME SchedInv, NEW t \in Thread, ThreadStep(t)
    PROVE  ReplacesInv'
<1>. USE DEF SchedInv, SchedTypeOK, Calls, At
<1>1. \A u \in ULT \ {t} : pc'[u] = pc[u] /\ First(u)' = First(u)
  BY ThreadCallStep, CallStepOthers
<1>2. Running(t) /\ PointOK(t, pc[t])
  BY ThreadStateStep DEF InCallInv
<1>3. \A l : GoTo(t, l) => pc'[t] = l
  BY DEF GoTo, ThreadTypes
<1>4. OperationDone(t) => pc'[t] = "call"
  BY DEF GoTo, OperationDone, ThreadTypes
<1>5. program' = program => First(t)' = First(t) /\ Operand(t)' = Operand(t)
  BY DEF First, Operand
<1>6. program[t] # <<>> => First(t) = Head(program[t])[1]
  BY DEF First
<1>7. t \notin ULT => /\ pc[t] \in {"call", "join", "joining", "resumed"}
                      /\ program[t] # <<>> => First(t) \in {"join", "cancel", "resume", "migrate"}
  BY FirstCall DEF InCallInv
<1>8. \A v : state' = [state EXCEPT ![t] = v] => \A u \in ULT \ {t} : state'[u] = state[u]
  BY DEF ThreadTypes
<1>9. \A l : request' = [request EXCEPT ![l] = @ \cup {"FINISH"}]
        => \A e \in XSTREAM : "REPLACE" \in request'[e] <=> "REPLACE" \in request[e]
  BY DEF StreamTypes
(* What does not touch the states or the replacements.                     *)
<1>10. ASSUME UNCHANGED <<loopVars, replaceVars, state>>,
              \A e \in XSTREAM : "REPLACE" \in request'[e] <=> "REPLACE" \in request[e],
              \/ /\ pc[t] \in {"call", "resumed", "join", "joining"}
                 /\ \/ pc'[t] \in {"call", "resumed", "join", "joining"}
                    \/ pc'[t] \in {"suspend", "block"} /\ First(t)' # "replace"
              \/ pc[t] = "suspend" /\ pc'[t] = "block" /\ First(t)' = First(t)
              \/ pc[t] = "discarded" /\ pc'[t] = "set"
              \/ /\ pc[t] = "call" /\ t \in ULT
                 /\ pc'[t] = IF p_replace_sched[Xstream(t)] = NULL THEN "set" ELSE "discard"
       PROVE  ReplacesInv'
  BY <1>1, <1>2, <1>10, LocalReplace
<1>11. CASE Yield(t)
  <2>1. t \in ULT /\ pc[t] \in {"call", "joining"}
    BY <1>6, <1>7, <1>11 DEF Yield
  <2>. QED  BY <1>1, <1>2, <1>8, <1>11, <2>1, SwitchReplace DEF Yield
<1>12. CASE SuspendCount(t)
  <2>1. pc'[t] = "block" /\ First(t)' = First(t)
    BY <1>3, <1>5, <1>12 DEF SuspendCount
  <2>2. pc[t] = "suspend" \/ (pc[t] = "call" /\ First(t) = "suspend")
    BY <1>6, <1>12 DEF SuspendCount
  <2>. QED  BY <1>10, <1>12, <2>1, <2>2 DEF SuspendCount
<1>13. CASE SuspendBlock(t)
  <2>1. t \in ULT /\ pc[t] = "block" /\ program[t] # <<>>
    BY <1>2, <1>13 DEF SuspendBlock
  <2>2. \A u \in ULT \ {t} : state'[u] = state[u]
    BY <1>8, <1>13 DEF SuspendBlock
  <2>3. CASE First(t) = "replace"
    <3>1. GoTo(t, "ask") /\ UNCHANGED <<program, loopVars, replaceVars, request>>
      BY <1>13, <2>3 DEF SuspendBlock, First
    <3>2. pc'[t] = "ask" /\ First(t)' = "replace"
      BY <1>3, <1>5, <2>3, <3>1
    <3>. QED  BY <1>1, <1>2, <2>1, <2>2, <2>3, <3>1, <3>2, LocalReplace
  <2>4. CASE First(t) # "replace"
    <3>1. SwitchToParent(t) /\ UNCHANGED <<replaceVars, request>>
      BY <1>13, <2>4 DEF SuspendBlock, First
    <3>. QED  BY <1>1, <1>2, <2>1, <2>2, <2>4, <3>1, SwitchReplace
  <2>. QED  BY <2>3, <2>4
<1>14. CASE SuspendAsk(t)
  <2>1. t \in ULT /\ pc[t] = "ask" /\ pc'[t] = "call" /\ SwitchToParent(t)
        /\ UNCHANGED <<state, replaceVars>>
    BY <1>2, <1>4, <1>14 DEF SuspendAsk
  <2>2. Xstream(t) \in XSTREAM /\ state[t] = "BLOCKED"
    BY <1>2, <2>1, RunsOn
  <2>3. request' = [request EXCEPT ![Xstream(t)] = @ \cup {"REPLACE"}]
    BY <1>14 DEF SuspendAsk
  <2>4. "REPLACE" \in request'[Xstream(t)]
        /\ \A e \in XSTREAM \ {Xstream(t)} : request'[e] = request[e]
    BY <2>2, <2>3 DEF StreamTypes
  <2>. QED  BY <1>1, <1>2, <2>1, <2>2, <2>4, SwitchReplace
<1>15. CASE Resume(t)
  <2>1. pc[t] = "call" /\ pc'[t] = "resumed" /\ UNCHANGED <<loopVars, replaceVars, request>>
    BY <1>3, <1>15 DEF Resume
  <2>2. Operand(t) \notin Range(p_replace_waiter)
        /\ state' = [state EXCEPT ![Operand(t)] = "READY"]
    BY <1>15 DEF Resume, ResumeAndPush
  <2>3. \A w \in ULT \cap Range(p_replace_waiter) : state'[w] = state[w]
    BY <2>2 DEF ThreadTypes
  <2>. QED  BY <1>1, <1>2, <2>1, <2>3, LocalReplace
<1>16. CASE ResumeDec(t) \/ Migrate(t) \/ Cancel(t) \/ JoinReturn(t)
  BY <1>4, <1>10, <1>16 DEF ResumeDec, Migrate, Cancel, JoinReturn
<1>17. CASE Exit(t)
  BY <1>1, <1>2, <1>8, <1>17, SwitchReplace DEF Exit
<1>18. CASE Join(t)
  BY <1>3, <1>9, <1>10, <1>18 DEF Join
<1>19. CASE JoinThread(t)
  <2>1. pc[t] = "join" /\ pc'[t] \in {"joining", "suspend"} /\ First(t)' = First(t)
    BY <1>3, <1>5, <1>19 DEF JoinThread
  <2>2. First(t)' # "replace"
    BY <1>2, <2>1
  <2>. QED  BY <1>10, <1>19, <2>1, <2>2 DEF JoinThread
<1>20. CASE Finalize(t)
  <2>1. t \in ULT /\ pc[t] = "call" /\ pc'[t] = "call" /\ UNCHANGED replaceVars
    BY <1>4, <1>6, <1>7, <1>20 DEF Finalize
  <2>2. CASE Xstream(t) = Operand(t)
    <3>1. /\ SwitchToParent(t) /\ state' = [state EXCEPT ![t] = "TERMINATED"]
          /\ request' = [request EXCEPT ![Operand(t)] = @ \cup {"FINISH"}]
      BY <1>20, <2>2 DEF Finalize
    <3>2. \A e \in XSTREAM : "REPLACE" \in request'[e] <=> "REPLACE" \in request[e]
      BY <1>9, <3>1
    <3>3. Xstream(t) \in XSTREAM
      BY <1>2, <2>1, RunsOn
    <3>. QED  BY <1>1, <1>2, <1>8, <2>1, <3>1, <3>2, <3>3, SwitchReplace
  <2>3. CASE Xstream(t) # Operand(t)
    BY <1>10, <1>20, <2>1, <2>3 DEF Finalize
  <2>. QED  BY <2>2, <2>3
<1>21. CASE Replace(t)
  <2>1. t \in ULT
    BY <1>6, <1>7, <1>21 DEF Replace
  <2>. QED  BY <1>3, <1>10, <1>21, <2>1 DEF Replace
<1>22. CASE ReplaceDec(t)
  BY <1>3, <1>10, <1>22 DEF ReplaceDec
<1>23. CASE ReplaceDiscard(t) \/ ReplaceSet(t)
  <2>0. t \in ULT /\ First(t) = "replace" /\ program[t] # <<>>
    BY <1>2, <1>23 DEF ReplaceDiscard, ReplaceSet
  <2>1. PICK x \in XSTREAM : x = Xstream(t)
    BY <1>2, <2>0, RunsOn
  <2>2. /\ p_thread[x] = t /\ t # NULL /\ at[x] \in {"pop", "wait"}
        /\ \A e \in XSTREAM \ {x} : p_thread[e] # t
        /\ state[t] = "RUNNING"
    BY <1>2, <1>23, <2>0, <2>1, RunsOn DEF ReplaceDiscard, ReplaceSet
  <2>3. ReplaceInv(x) /\ p_replace_waiter[x] # t
    BY <1>23, <2>2 DEF ReplacesInv, ReplaceInv, Awaits, ReplaceDiscard, ReplaceSet
  <2>4. CASE ReplaceDiscard(t)
    <3>1. /\ pc[t] = "discard" /\ pc'[t] = "discarded" /\ UNCHANGED <<loopVars, request>>
          /\ p_replace_sched' = [p_replace_sched EXCEPT ![x] = NULL]
          /\ p_replace_waiter' = [p_replace_waiter EXCEPT ![x] = NULL]
          /\ state' = [state EXCEPT ![p_replace_waiter[x]] = "READY"]
      BY <1>3, <2>1, <2>4 DEF ReplaceDiscard, ResumeAndPush
    <3>2. p_replace_sched'[x] = NULL /\ p_replace_waiter'[x] = NULL
      BY <3>1 DEF StreamTypes
    <3>3. \A e \in XSTREAM \ {x} : /\ p_replace_sched'[e] = p_replace_sched[e]
                                   /\ p_replace_waiter'[e] = p_replace_waiter[e]
      BY <3>1 DEF StreamTypes
    <3>4. p_replace_waiter[x] # NULL
      BY <2>2, <2>3, <3>1 DEF ReplaceInv
    <3>5. \A e \in XSTREAM \ {x} : p_replace_waiter[e] \in ULT
                                     => state'[p_replace_waiter[e]] = state[p_replace_waiter[e]]
      BY <3>1, <3>4 DEF ReplacesInv, ThreadTypes
    <3>6. \A e \in XSTREAM \ {x} : ReplaceInv(e)'
      BY <1>1, <1>2, <2>2, <3>1, <3>3, <3>5, OtherReplace
    <3>7. ReplaceInv(x)'
      BY <2>2, <3>1, <3>2 DEF ReplaceInv
    <3>. QED  BY <3>2, <3>3, <3>6, <3>7 DEF ReplacesInv
  <2>5. CASE ReplaceSet(t)
    <3>1. /\ pc[t] = "set" /\ pc'[t] = "suspend" /\ UNCHANGED <<loopVars, request, state>>
          /\ p_replace_sched' = [p_replace_sched EXCEPT ![x] = Operand(t)]
          /\ p_replace_waiter' = [p_replace_waiter EXCEPT ![x] = t]
          /\ First(t)' = "replace"
      BY <1>3, <1>5, <2>0, <2>1, <2>5 DEF ReplaceSet
    <3>2. Operand(t) # NULL
      BY <2>0, FirstCall, SchedulerAssumption
    <3>3. p_replace_sched'[x] = Operand(t) /\ p_replace_waiter'[x] = t
      BY <3>1 DEF StreamTypes
    <3>4. \A e \in XSTREAM \ {x} : /\ p_replace_sched'[e] = p_replace_sched[e]
                                   /\ p_replace_waiter'[e] = p_replace_waiter[e]
      BY <3>1 DEF StreamTypes
    <3>5. \A e \in XSTREAM \ {x} : ReplaceInv(e)'
      BY <1>1, <1>2, <2>2, <3>1, <3>4, OtherReplace
    <3>6. ReplaceInv(x)'
      BY <2>2, <2>3, <3>1, <3>2, <3>3 DEF ReplaceInv, Awaits
    <3>7. \A e \in XSTREAM \ {x} : p_replace_waiter[e] # t
      BY <2>2, <3>1 DEF ReplacesInv, ReplaceInv, Awaits
    <3>. QED  BY <3>3, <3>4, <3>5, <3>6, <3>7 DEF ReplacesInv
  <2>. QED  BY <1>23, <2>4, <2>5
<1>. QED
  BY <1>11, <1>12, <1>13, <1>14, <1>15, <1>16, <1>17, <1>18, <1>19, <1>20, <1>21, <1>22,
     <1>23 DEF ThreadStep

(* A scheduler that only looks around, or pops.                            *)
LEMMA LookReplace ==
    ASSUME SchedInv, NEW e \in XSTREAM, p_thread[e] = NULL, UNCHANGED <<pc, program, replaceVars>>,
           \A f \in XSTREAM \ {e} : at'[f] = at[f] /\ p_thread'[f] = p_thread[f],
           p_thread'[e] = NULL \/ pc[p_thread'[e]] \in {"call", "joining"},
           at[e] # "replaced" /\ at'[e] # "replaced",
           \A f \in XSTREAM : "REPLACE" \in request'[f] <=> "REPLACE" \in request[f],
           \A u \in ULT : state[u] = "BLOCKED" /\ pc[u] = "call" => state'[u] = "BLOCKED"
    PROVE  ReplacesInv'
<1>. USE DEF SchedInv, SchedTypeOK, StreamTypes
<1>1. \A u \in ULT : First(u)' = First(u)
  BY DEF First
<1>2. \A f \in XSTREAM : p_thread[f] # NULL => p_thread[f] \in ULT
  OBVIOUS
<1>3. \A f \in XSTREAM : p_replace_waiter[f] # NULL => p_replace_waiter[f] \in ULT
  OBVIOUS
<1>4. ASSUME NEW f \in XSTREAM
      PROVE  ReplaceInv(f)'
  <2>1. ReplaceInv(f)
    BY DEF ReplacesInv
  <2>2. CASE f = e
    BY <1>1, <1>3, <2>1, <2>2 DEF ReplaceInv, Awaits
  <2>3. CASE f # e
    BY <1>1, <1>2, <1>3, <2>1, <2>3 DEF ReplaceInv, Awaits
  <2>. QED  BY <2>2, <2>3
<1>. QED  BY <1>4 DEF ReplacesInv

LEMMA SchedStepReplaces ==
    ASSUME SchedInv, NEW e \in XSTREAM, SchedStep(e)
    PROVE  ReplacesInv'
<1>. USE DEF SchedInv, SchedTypeOK, SchedAt
<1>1. /\ p_thread[e] = NULL /\ UNCHANGED <<pc, program>>
      /\ \A f \in XSTREAM \ {e} : at'[f] = at[f]
  BY SchedStateStep
<1>2. \A l : at' = [at EXCEPT ![e] = l] => at'[e] = l
  BY DEF LoopTypes
<1>3. \A u \in ULT : First(u)' = First(u)
  BY <1>1 DEF First
<1>4. ReplaceInv(e)
  BY DEF ReplacesInv
<1>11. CASE LoopStep(e)
  BY <1>1, <1>2, <1>11, LookReplace DEF LoopStep
<1>12. CASE PopUnit(e)
  <2>. DEFINE u == Head(pool[ThisPool(e)])
  <2>1. /\ Pops(e) /\ p_thread' = [p_thread EXCEPT ![e] = u] /\ UNCHANGED <<at, replaceVars, request>>
        /\ state' = [state EXCEPT ![u] = "RUNNING"]
    BY <1>12 DEF PopUnit
  <2>2. u \in ULT /\ state[u] = "READY" /\ pc[u] \in {"call", "joining"} /\ at[e] # "replaced"
    BY <2>1, PoppedReady DEF Pops
  <2>. HIDE DEF u
  <2>3. p_thread'[e] = u /\ \A f \in XSTREAM \ {e} : p_thread'[f] = p_thread[f]
    BY <2>1 DEF StreamTypes
  <2>4. \A v \in ULT : state[v] = "BLOCKED" => state'[v] = "BLOCKED"
    BY <2>1, <2>2 DEF ThreadTypes
  <2>. QED  BY <1>1, <2>1, <2>2, <2>3, <2>4, LookReplace
<1>13. CASE PopMigrate(e)
  <2>1. \E l \in {"pop", "events", "stop", "run_over"} : at' = [at EXCEPT ![e] = l]
    BY <1>13 DEF PopMigrate, AfterUnit, RoundsOver, Enter
  <2>2. at'[e] # "replaced"
    BY <1>2, <2>1
  <2>. QED  BY <1>1, <1>13, <2>2, LookReplace DEF PopMigrate, Pops
<1>14. CASE MainDec(e) \/ MainJoinerDec(e)
  BY <1>1, <1>2, <1>14, LookReplace DEF MainDec, MainJoinerDec, Enter
<1>15. CASE MainJoiner(e)
  <2>1. PICK u \in ULT : Joiner(u, e) /\ state[u] = "BLOCKED" /\ ResumeAndPush(e, u)
    BY <1>15 DEF MainJoiner
  <2>2. pc[u] = "joining"
    BY <2>1, JoinerAway
  <2>3. \A v \in ULT : state[v] = "BLOCKED" /\ pc[v] = "call" => state'[v] = "BLOCKED"
    BY <2>1, <2>2 DEF ResumeAndPush, ThreadTypes
  <2>. QED  BY <1>1, <1>2, <1>15, <2>3, LookReplace DEF MainJoiner, Enter
<1>16. CASE MainReplace(e)
  <2>1. /\ p_replace_sched' = [p_replace_sched EXCEPT ![e] = NULL]
        /\ request' = [request EXCEPT ![e] = {}] /\ at'[e] = "replaced" /\ at[e] = "run_over"
        /\ UNCHANGED <<p_replace_waiter, p_thread, state>> /\ "REPLACE" \in request[e]
    BY <1>2, <1>16 DEF MainReplace, Enter
  <2>2. p_replace_waiter[e] # NULL
    BY <1>1, <1>4, <2>1 DEF ReplaceInv
  <2>3. \A f \in XSTREAM \ {e} : p_replace_sched'[f] = p_replace_sched[f] /\ request'[f] = request[f]
    BY <2>1 DEF StreamTypes
  <2>4. p_replace_sched'[e] = NULL /\ request'[e] = {}
    BY <2>1 DEF StreamTypes
  <2>5. ASSUME NEW f \in XSTREAM \ {e}
        PROVE  ReplaceInv(f)'
    <3>1. p_thread[f] # NULL => p_thread[f] \in ULT
      BY DEF StreamTypes
    <3>2. p_replace_waiter[f] # NULL => p_replace_waiter[f] \in ULT
      BY DEF StreamTypes
    <3>. QED  BY <1>1, <1>3, <2>1, <2>3, <3>1, <3>2 DEF ReplacesInv, ReplaceInv, Awaits
  <2>6. ReplaceInv(e)'
    <3>1. state[p_replace_waiter[e]] = "BLOCKED" /\ pc[p_replace_waiter[e]] = "call"
      BY <1>1, <2>2, WaiterBlocked
    <3>. QED  BY <1>1, <2>1, <2>2, <2>4, <3>1 DEF ReplaceInv, Awaits
  <2>. QED  BY <2>1, <2>5, <2>6 DEF ReplacesInv
<1>17. CASE MainResume(e)
  <2>1. /\ p_replace_waiter' = [p_replace_waiter EXCEPT ![e] = NULL]
        /\ at'[e] = "resumed" /\ at[e] = "replaced"
        /\ UNCHANGED <<p_replace_sched, p_thread, request>>
        /\ state' = [state EXCEPT ![p_replace_waiter[e]] = "READY"]
    BY <1>2, <1>17 DEF MainResume, Enter, ResumeAndPush
  <2>2. p_replace_waiter[e] # NULL /\ p_replace_sched[e] = NULL
    BY <1>4, <2>1 DEF ReplaceInv
  <2>3. /\ p_replace_waiter'[e] = NULL
        /\ \A f \in XSTREAM \ {e} : p_replace_waiter'[f] = p_replace_waiter[f]
    BY <2>1 DEF StreamTypes
  <2>4. \A f \in XSTREAM \ {e} : p_replace_waiter[f] \in ULT
                                   => state'[p_replace_waiter[f]] = state[p_replace_waiter[f]]
    BY <2>1, <2>2 DEF ReplacesInv, ThreadTypes
  <2>5. ASSUME NEW f \in XSTREAM \ {e}
        PROVE  ReplaceInv(f)'
    <3>1. p_thread[f] # NULL => p_thread[f] \in ULT
      BY DEF StreamTypes
    <3>2. p_replace_waiter[f] # NULL => p_replace_waiter[f] \in ULT
      BY DEF StreamTypes
    <3>. QED  BY <1>1, <1>3, <2>1, <2>3, <2>4, <3>1, <3>2 DEF ReplacesInv, ReplaceInv, Awaits
  <2>6. ReplaceInv(e)'
    BY <1>1, <1>4, <2>1, <2>2, <2>3 DEF ReplaceInv
  <2>. QED  BY <2>3, <2>5, <2>6 DEF ReplacesInv
<1>. QED
  BY <1>11, <1>12, <1>13, <1>14, <1>15, <1>16, <1>17, SchedSteps

-----------------------------------------------------------------------------
(* An order of a finite set has all its elements.                          *)
LEMMA OrderRange ==
    ASSUME NEW S, IsFiniteSet(S), NEW f \in Order(S)
    PROVE  f \in Seq(S) /\ IsInjective(f) /\ Range(f) = S
<1>1. Cardinality(S) \in Nat
  BY FS_CardinalityType
<1>2. f \in [1 .. Cardinality(S) -> S] /\ IsInjective(f)
  BY DEF Order
<1>3. f \in Injection(1 .. Cardinality(S), S)
  BY <1>2 DEF Injection, IsInjective
<1>4. Cardinality(1 .. Cardinality(S)) = Cardinality(S)
  BY <1>1, FS_Interval
<1>5. f \in Surjection(1 .. Cardinality(S), S)
  BY <1>3, <1>4, FS_Injection
<1>. QED  BY <1>1, <1>2, <1>5 DEF Surjection, Range

LEMMA SchedInit == Init => SchedInv
<1>. SUFFICES ASSUME Init PROVE SchedInv
  OBVIOUS
<1>0. PICK setup \in SETUPS :
         /\ p_main_sched = setup.main
         /\ p_pool = setup.home
         /\ program = setup.program
  BY DEF Init
<1>1. /\ p_main_sched \in [XSTREAM -> SCHED] /\ p_pool \in [ULT -> POOL]
      /\ program \in [Thread -> Seq(UltCall)] /\ \A x \in EXT : program[x] \in Seq(ExtCall)
  BY <1>0, SchedulerAssumption
<1>2. \A q \in POOL : IsFiniteSet(Home(q))
  BY FS_Subset, SchedulerAssumption DEF Home
<1>3. ASSUME NEW q \in POOL
      PROVE  pool[q] \in Seq(ULT) /\ IsInjective(pool[q]) /\ Range(pool[q]) = Home(q)
  <2>1. pool[q] \in Order(Home(q))
    BY <1>3 DEF Init
  <2>2. pool[q] \in Seq(Home(q)) /\ IsInjective(pool[q]) /\ Range(pool[q]) = Home(q)
    BY <1>2, <2>1, OrderRange
  <2>. QED  BY <2>2 DEF Home
<1>4. PoolTypes
  <2>1. pool \in [POOL -> Seq(ULT)]
    <3>1. pool = [q \in POOL |-> pool[q]]
      BY DEF Init
    <3>. QED  BY <1>3, <3>1
  <2>2. \A q \in POOL : Cardinality({e \in XSTREAM : q \in Range(POOLS[p_main_sched[e]])}) \in Int
    <3>. SUFFICES ASSUME NEW q \in POOL
                  PROVE  Cardinality({e \in XSTREAM : q \in Range(POOLS[p_main_sched[e]])}) \in Nat
      OBVIOUS
    <3>1. IsFiniteSet({e \in XSTREAM : q \in Range(POOLS[p_main_sched[e]])})
      BY FS_Subset, SchedulerAssumption
    <3>. QED  BY <3>1, FS_CardinalityType
  <2>. QED  BY <2>1, <2>2 DEF Init, PoolTypes
<1>5. ThreadTypes
  BY <1>1 DEF Init, ThreadTypes, ThreadPoint
<1>6. StreamTypes
  BY <1>1 DEF Init, StreamTypes
<1>7. LoopTypes
  <2>1. \A e \in XSTREAM : 1 \in DOMAIN POOLS[p_main_sched[e]]
    BY <1>1, SchedulerAssumption
  <2>. QED  BY <2>1 DEF Init, LoopTypes, SchedPoint
<1>8. InCallInv
  BY <1>1 DEF Init, InCallInv
<1>9. PoolsInv
  BY <1>3 DEF Init, PoolsInv, Home
<1>10. RunningInv
  BY DEF Init, RunningInv
<1>11. OwedInv
  BY DEF Init, OwedInv
<1>12. ReplacesInv
  BY DEF Init, ReplacesInv, ReplaceInv
<1>. QED
  BY <1>4, <1>5, <1>6, <1>7, <1>8, <1>9, <1>10, <1>11, <1>12 DEF SchedInv, SchedTypeOK

LEMMA SchedStutter == SchedInv /\ UNCHANGED vars => SchedInv'
  BY DEF SchedInv, SchedTypeOK, PoolTypes, ThreadTypes, StreamTypes, LoopTypes, InCallInv, First,
         PoolsInv, RunningInv, OwedInv, ReplacesInv, ReplaceInv, Awaits, vars

LEMMA SchedNext == SchedInv /\ [Next]_vars => SchedInv'
<1>. SUFFICES ASSUME SchedInv, [Next]_vars PROVE SchedInv'
  OBVIOUS
<1>1. ASSUME NEW t \in Thread, ThreadStep(t)
      PROVE  SchedInv'
  <2>1. InCallInv'
    BY <1>1, ThreadCallStep, CallStepInv DEF SchedInv, SchedTypeOK
  <2>. QED  BY <1>1, <2>1, ThreadStepTypes, ThreadStepRunning, ThreadStepPools, ThreadStepOwed,
               ThreadStepReplaces DEF SchedInv
<1>2. ASSUME NEW e \in XSTREAM, SchedStep(e)
      PROVE  SchedInv'
  <2>1. SchedTypeOK'
    BY <1>2, SchedSteps, SchedStepTypes DEF SchedInv
  <2>2. InCallInv'
    <3>1. UNCHANGED <<pc, program>>
      BY <1>2, SchedStateStep
    <3>. QED  BY <3>1 DEF SchedInv, InCallInv, First
  <2>. QED  BY <1>2, <2>1, <2>2, SchedStepRunning, SchedStepPools, SchedStepOwed,
               SchedStepReplaces DEF SchedInv
<1>. QED  BY <1>1, <1>2, SchedStutter DEF Next, AllStopped

THEOREM SchedInvariance == Spec => []SchedInv
  BY SchedInit, SchedNext, PTL DEF Spec

-----------------------------------------------------------------------------
(* The primary ULT comes home.                                             *)

LEMMA StoppedStays ==
    ASSUME SchedInv, [Next]_vars, NEW e \in XSTREAM, at[e] = "stopped"
    PROVE  at'[e] = "stopped"
<1>. USE DEF SchedInv, SchedTypeOK
<1>1. ASSUME NEW t \in Thread, ThreadStep(t)
      PROVE  at'[e] = "stopped"
  BY <1>1, ThreadStateStep, SwitchPoints
<1>2. ASSUME NEW f \in XSTREAM, SchedStep(f)
      PROVE  at'[e] = "stopped"
  <2>1. CASE f = e
    BY <1>2, <2>1, SchedSteps
    DEF LoopStep, PopUnit, PopMigrate, Pops, MainReplace, MainResume, MainDec, MainJoiner,
        MainJoinerDec, SchedAt
  <2>2. CASE f # e
    BY <1>2, <2>2, SchedStateStep
  <2>. QED  BY <2>1, <2>2
<1>. QED  BY <1>1, <1>2 DEF Next, AllStopped, vars

(* The call that is over.                                                  *)
LEMMA FinalizeTail ==
    ASSUME SchedInv, NEW u \in ULT, CallStep(u),
           \A e \in XSTREAM : at[e] = "stopped" => at'[e] = "stopped",
           NEW i \in DOMAIN program'[u], program'[u][i][1] = "finalize",
           NEW e \in XSTREAM \ {program'[u][i][2]}, FinalizeInv
    PROVE  JoinedBefore(u, i, e)'
<1>1. CASE program' = program
  <2>1. JoinedBefore(u, i, e)
    BY <1>1 DEF FinalizeInv
  <2>. QED  BY <1>1, <2>1 DEF JoinedBefore
<1>2. CASE program[u] # <<>> /\ OperationDone(u) /\ (First(u) = "join" => at[Operand(u)] = "stopped")
  <2>1. program[u] \in Seq(UltCall) /\ program'[u] = Tail(program[u])
    BY <1>2 DEF SchedInv, SchedTypeOK, ThreadTypes, OperationDone
  <2>2. /\ DOMAIN program[u] = 1 .. Len(program[u]) /\ Len(program[u]) \in Nat \ {0}
        /\ DOMAIN program'[u] = 1 .. Len(program[u]) - 1
        /\ \A k \in 1 .. Len(program[u]) - 1 : program'[u][k] = program[u][k + 1]
        /\ Head(program[u]) = program[u][1]
    BY <1>2, <2>1
  <2>3. i + 1 \in DOMAIN program[u] /\ program[u][i + 1] = program'[u][i] /\ i \in Nat
    BY <2>2
  <2>4. CASE at[e] = "stopped"
    BY <2>4 DEF JoinedBefore
  <2>5. CASE at[e] # "stopped"
    <3>0. JoinedBefore(u, i + 1, e)
      BY <2>3 DEF FinalizeInv
    <3>1. PICK j \in 1 .. (i + 1) - 1 : program[u][j] = <<"join", e>>
      BY <2>5, <3>0 DEF JoinedBefore
    <3>2. j # 1
      BY <1>2, <2>2, <2>5, <3>1 DEF First, Operand
    <3>3. j \in 2 .. i
      BY <2>3, <3>1, <3>2
    <3>4. j - 1 \in 1 .. i - 1 /\ j - 1 \in 1 .. Len(program[u]) - 1 /\ (j - 1) + 1 = j
      BY <2>2, <2>3, <3>3
    <3>5. program'[u][j - 1] = <<"join", e>>
      BY <2>2, <3>1, <3>4
    <3>. QED  BY <3>4, <3>5 DEF JoinedBefore
  <2>. QED  BY <2>4, <2>5
<1>. QED  BY <1>1, <1>2 DEF CallStep

LEMMA FinalizeNext == SchedInv /\ FinalizeInv /\ [Next]_vars => FinalizeInv'
<1>. SUFFICES ASSUME SchedInv, FinalizeInv, [Next]_vars PROVE FinalizeInv'
  OBVIOUS
<1>1. \A e \in XSTREAM : at[e] = "stopped" => at'[e] = "stopped"
  BY StoppedStays
<1>2. ASSUME program' = program
      PROVE  FinalizeInv'
  <2>1. \A u, i : \A e \in XSTREAM : JoinedBefore(u, i, e) => JoinedBefore(u, i, e)'
    BY <1>1, <1>2 DEF JoinedBefore
  <2>. QED  BY <1>2, <2>1 DEF FinalizeInv
<1>3. ASSUME NEW t \in Thread, ThreadStep(t)
      PROVE  FinalizeInv'
  <2>1. CallStep(t) /\ \A u \in Thread \ {t} : program'[u] = program[u]
    BY <1>3, ThreadCallStep, CallStepOthers DEF SchedInv, SchedTypeOK
  <2>2. ASSUME NEW u \in ULT, NEW i \in DOMAIN program'[u], program'[u][i][1] = "finalize",
               NEW e \in XSTREAM \ {program'[u][i][2]}
        PROVE  JoinedBefore(u, i, e)'
    <3>1. CASE u = t
      BY <1>1, <2>1, <2>2, <3>1, FinalizeTail
    <3>2. CASE u # t
      <4>1. program'[u] = program[u]
        BY <2>1, <3>2
      <4>2. JoinedBefore(u, i, e)
        BY <2>2, <4>1 DEF FinalizeInv
      <4>. QED  BY <1>1, <4>1, <4>2 DEF JoinedBefore
    <3>. QED  BY <3>1, <3>2
  <2>. QED  BY <2>2 DEF FinalizeInv
<1>4. ASSUME NEW e \in XSTREAM, SchedStep(e)
      PROVE  FinalizeInv'
  BY <1>2, <1>4, SchedStateStep
<1>. QED  BY <1>2, <1>3, <1>4 DEF Next, AllStopped, vars, threadVars

(* ABT_finalize finds its caller, which has joined the other ESs, on the   *)
(* primary ES, whoever stole it before: an ES that runs a ULT has not      *)
(* stopped, and the others have.                                           *)
THEOREM ComesHome == Spec => []PrimaryComesHome
<1>1. Init => FinalizeInv
  <2>. SUFFICES ASSUME Init PROVE FinalizeInv
    OBVIOUS
  <2>1. \A u \in ULT : JoinsFirst(program[u])
    BY SchedulerAssumption DEF Init
  <2>. QED  BY <2>1 DEF FinalizeInv, JoinsFirst, JoinedBefore
<1>2. SchedInv /\ FinalizeInv => PrimaryComesHome
  <2>. SUFFICES ASSUME SchedInv, FinalizeInv, NEW u \in ULT, Calls(u, "finalize")
                PROVE  Xstream(u) = Operand(u)
    BY DEF PrimaryComesHome
  <2>1. /\ program[u] # <<>> /\ First(u) = "finalize" /\ Running(u)
    BY DEF Calls, At, First
  <2>2. program[u] \in Seq(UltCall) /\ Head(program[u]) = program[u][1]
    BY <2>1, FirstCall DEF SchedInv, SchedTypeOK, ThreadTypes
  <2>3. 1 \in DOMAIN program[u] /\ program[u][1][1] = "finalize" /\ program[u][1][2] = Operand(u)
    BY <2>1, <2>2 DEF First, Operand
  <2>4. \A e \in XSTREAM \ {Operand(u)} : at[e] = "stopped"
    <3>1. \A e \in XSTREAM \ {Operand(u)} : JoinedBefore(u, 1, e)
      BY <2>3 DEF FinalizeInv
    <3>. QED  BY <3>1 DEF JoinedBefore
  <2>5. Xstream(u) \in XSTREAM /\ at[Xstream(u)] \in {"pop", "wait"}
    BY <2>1, RunsOn DEF SchedInv
  <2>. QED  BY <2>4, <2>5
<1>. QED  BY <1>1, <1>2, SchedInvariance, FinalizeNext, PTL DEF Spec

-----------------------------------------------------------------------------
(* num_scheds counts the schedulers of a pool.                             *)

CreatedAt == {"discard", "discarded", "set"}

(* num_scheds changes as e and t do.                                       *)
SchedsChange(q, e, t) ==
    num_scheds'[q] = num_scheds[q]
        + (IF e \in Mains(q)' THEN 1 ELSE 0) - (IF e \in Mains(q) THEN 1 ELSE 0)
        + (IF e \in Coming(q)' THEN 1 ELSE 0) - (IF e \in Coming(q) THEN 1 ELSE 0)
        + (IF t \in Created(q)' THEN 1 ELSE 0) - (IF t \in Created(q) THEN 1 ELSE 0)

(* The counts after a step of e or t.                                      *)
LEMMA SchedsCount ==
    ASSUME SchedsInv, NEW q \in POOL, NEW e, NEW t,
           Mains(q) \ {e} = Mains(q)' \ {e}, Coming(q) \ {e} = Coming(q)' \ {e},
           Created(q) \ {t} = Created(q)' \ {t},
           num_scheds[q] \in Int, SchedsChange(q, e, t)
    PROVE  num_scheds'[q] =
               Cardinality(Mains(q)') + Cardinality(Coming(q)') + Cardinality(Created(q)')
<1>. DEFINE M == Mains(q)
            M2 == Mains(q)'
            C == Coming(q)
            C2 == Coming(q)'
            D == Created(q)
            D2 == Created(q)'
<1>1. IsFiniteSet(M) /\ IsFiniteSet(C) /\ IsFiniteSet(D)
  BY FS_Subset, SchedulerAssumption DEF Mains, Coming, Created
<1>2. num_scheds[q] = Cardinality(M) + Cardinality(C) + Cardinality(D)
  BY DEF SchedsInv
<1>. HIDE DEF M, M2, C, C2, D, D2
<1>3. /\ Cardinality(M) \in Nat /\ Cardinality(M2) \in Nat
      /\ Cardinality(M2) = Cardinality(M) + (IF e \in M2 THEN 1 ELSE 0) - (IF e \in M THEN 1 ELSE 0)
  <2>1. M \ {e} = M2 \ {e}
    BY DEF M, M2
  <2>. QED  BY <1>1, <2>1, MemberCount
<1>4. /\ Cardinality(C) \in Nat /\ Cardinality(C2) \in Nat
      /\ Cardinality(C2) = Cardinality(C) + (IF e \in C2 THEN 1 ELSE 0) - (IF e \in C THEN 1 ELSE 0)
  <2>1. C \ {e} = C2 \ {e}
    BY DEF C, C2
  <2>. QED  BY <1>1, <2>1, MemberCount
<1>5. /\ Cardinality(D) \in Nat /\ Cardinality(D2) \in Nat
      /\ Cardinality(D2) = Cardinality(D) + (IF t \in D2 THEN 1 ELSE 0) - (IF t \in D THEN 1 ELSE 0)
  <2>1. D \ {t} = D2 \ {t}
    BY DEF D, D2
  <2>. QED  BY <1>1, <2>1, MemberCount
<1>6. num_scheds'[q] = num_scheds[q]
               + (IF e \in M2 THEN 1 ELSE 0) - (IF e \in M THEN 1 ELSE 0)
               + (IF e \in C2 THEN 1 ELSE 0) - (IF e \in C THEN 1 ELSE 0)
               + (IF t \in D2 THEN 1 ELSE 0) - (IF t \in D THEN 1 ELSE 0)
  BY DEF M, M2, C, C2, D, D2, SchedsChange
<1>7. num_scheds'[q] = Cardinality(M2) + Cardinality(C2) + Cardinality(D2)
  BY <1>2, <1>3, <1>4, <1>5, <1>6
<1>. QED  BY <1>7 DEF M2, C2, D2

(* Most steps create and free no scheduler.                                *)
LEMMA SameScheds ==
    ASSUME SchedsInv, UNCHANGED <<num_scheds, p_main_sched, p_replace_sched>>,
           \A u \in ULT : /\ pc[u] \in CreatedAt <=> pc'[u] \in CreatedAt
                          /\ pc[u] \in CreatedAt => Operand(u)' = Operand(u)
    PROVE  SchedsInv'
<1>. SUFFICES ASSUME NEW q \in POOL
              PROVE  num_scheds'[q] =
                 Cardinality(Mains(q)') + Cardinality(Coming(q)') + Cardinality(Created(q)')
  BY DEF SchedsInv
<1>1. Mains(q)' = Mains(q) /\ Coming(q)' = Coming(q)
  BY DEF Mains, Coming
<1>2. Created(q)' = Created(q)
  BY DEF Created, CreatedAt
<1>. QED  BY <1>1, <1>2 DEF SchedsInv

LEMMA ThreadStepScheds ==
    ASSUME SchedInv, SchedsInv, NEW t \in Thread, ThreadStep(t)
    PROVE  SchedsInv'
<1>. USE DEF SchedInv, SchedTypeOK, Calls, At
<1>1. \A u \in ULT \ {t} : pc'[u] = pc[u] /\ Operand(u)' = Operand(u)
  BY ThreadCallStep, CallStepOthers
<1>2. PointOK(t, pc[t]) /\ pc[t] \in ThreadPoint /\ Running(t)
  BY ThreadStateStep DEF InCallInv, ThreadTypes
<1>3. \A l : pc' = [pc EXCEPT ![t] = l] => pc'[t] = l
  BY DEF ThreadTypes
<1>4. program' = program => Operand(t)' = Operand(t)
  BY DEF Operand
<1>5. ASSUME UNCHANGED <<num_scheds, p_main_sched, p_replace_sched>>,
             pc'[t] \in CreatedAt <=> pc[t] \in CreatedAt,
             pc[t] \in CreatedAt => program' = program
      PROVE  SchedsInv'
  BY <1>1, <1>4, <1>5, SameScheds
<1>6. CASE Yield(t) \/ SuspendCount(t) \/ SuspendBlock(t) \/ SuspendAsk(t) \/ Resume(t)
           \/ ResumeDec(t) \/ Migrate(t) \/ Exit(t) \/ Join(t) \/ JoinThread(t) \/ JoinReturn(t)
           \/ Cancel(t) \/ Finalize(t)
  BY <1>3, <1>5, <1>6
  DEF Yield, SuspendCount, SuspendBlock, SuspendAsk, Resume, ResumeDec, Migrate, Exit, Join,
      JoinThread, JoinReturn, Cancel, Finalize, OperationDone, GoTo, DecNumBlocked, CreatedAt
<1>7. CASE ReplaceDec(t)
  BY <1>3, <1>5, <1>7 DEF ReplaceDec, GoTo, DecNumBlocked, CreatedAt
<1>8. CASE Replace(t) \/ ReplaceDiscard(t) \/ ReplaceSet(t)
  <2>0. t \in ULT /\ First(t) = "replace" /\ program[t] # <<>> /\ program' = program
    BY <1>2, <1>8, FirstCall DEF Replace, ReplaceDiscard, ReplaceSet, First
  <2>1. PICK x \in XSTREAM : x = Xstream(t)
    BY <1>2, <2>0, RunsOn
  <2>2. p_thread[x] = t /\ t # NULL
    BY <1>2, <2>0, <2>1, RunsOn
  <2>3. ReplaceInv(x) /\ p_main_sched' = p_main_sched
    BY <1>8 DEF ReplacesInv, Replace, ReplaceDiscard, ReplaceSet
  <2>4. Operand(t) # NULL /\ Operand(t)' = Operand(t) /\ num_scheds \in [POOL -> Int]
    BY <1>4, <2>0, FirstCall, SchedulerAssumption DEF PoolTypes
  <2>. SUFFICES ASSUME NEW q \in POOL
                PROVE  num_scheds'[q] =
                   Cardinality(Mains(q)') + Cardinality(Coming(q)') + Cardinality(Created(q)')
    BY DEF SchedsInv
  <2>5. Mains(q)' = Mains(q) /\ num_scheds[q] \in Int
    BY <2>3, <2>4 DEF Mains
  <2>6. Created(q) \ {t} = Created(q)' \ {t}
    BY <1>1 DEF Created
  <2>7. CASE Replace(t)
    <3>1. Coming(q)' = Coming(q)
      BY <2>7 DEF Replace, Coming
    <3>2. t \notin Created(q) /\ (t \in Created(q)' <=> q \in Pools(Operand(t)))
      BY <1>3, <2>0, <2>4, <2>7 DEF Replace, Created, GoTo
    <3>3. num_scheds'[q] = num_scheds[q] + (IF q \in Pools(Operand(t)) THEN 1 ELSE 0)
      BY <2>7 DEF Replace, Retain
    <3>4. SchedsChange(q, x, t)
      BY <2>5, <3>1, <3>2, <3>3 DEF SchedsChange
    <3>. QED  BY <2>5, <2>6, <3>1, <3>4, SchedsCount
  <2>8. CASE ReplaceDiscard(t)
    <3>1. /\ pc[t] = "discard" /\ pc'[t] = "discarded"
          /\ p_replace_sched' = [p_replace_sched EXCEPT ![x] = NULL]
      BY <1>3, <2>1, <2>8 DEF ReplaceDiscard, GoTo
    <3>2. p_replace_sched[x] # NULL /\ p_replace_sched'[x] = NULL
      BY <2>2, <2>3, <3>1 DEF ReplaceInv, StreamTypes
    <3>3. Coming(q) \ {x} = Coming(q)' \ {x}
      BY <3>1 DEF Coming, StreamTypes
    <3>4. x \notin Coming(q)' /\ (x \in Coming(q) <=> q \in Pools(p_replace_sched[x]))
      BY <3>2 DEF Coming
    <3>5. t \in Created(q)' <=> t \in Created(q)
      BY <2>4, <3>1 DEF Created
    <3>6. num_scheds'[q] = num_scheds[q] - (IF q \in Pools(p_replace_sched[x]) THEN 1 ELSE 0)
      BY <2>1, <2>8 DEF ReplaceDiscard, Release
    <3>7. SchedsChange(q, x, t)
      BY <2>5, <3>4, <3>5, <3>6 DEF SchedsChange
    <3>. QED  BY <2>5, <2>6, <3>3, <3>7, SchedsCount
  <2>9. CASE ReplaceSet(t)
    <3>1. /\ pc[t] = "set" /\ pc'[t] = "suspend" /\ num_scheds' = num_scheds
          /\ p_replace_sched' = [p_replace_sched EXCEPT ![x] = Operand(t)]
      BY <1>3, <2>1, <2>9 DEF ReplaceSet, GoTo
    <3>2. p_replace_sched[x] = NULL /\ p_replace_sched'[x] = Operand(t)
      BY <2>2, <2>3, <3>1 DEF ReplaceInv, StreamTypes
    <3>3. Coming(q) \ {x} = Coming(q)' \ {x}
      BY <3>1 DEF Coming, StreamTypes
    <3>4. x \notin Coming(q) /\ (x \in Coming(q)' <=> q \in Pools(Operand(t)))
      BY <2>4, <3>2 DEF Coming
    <3>5. t \notin Created(q)' /\ (t \in Created(q) <=> q \in Pools(Operand(t)))
      BY <2>0, <3>1 DEF Created
    <3>6. SchedsChange(q, x, t)
      BY <2>5, <3>1, <3>4, <3>5 DEF SchedsChange
    <3>. QED  BY <2>5, <2>6, <3>3, <3>6, SchedsCount
  <2>. QED  BY <1>8, <2>7, <2>8, <2>9
<1>. QED  BY <1>6, <1>7, <1>8 DEF ThreadStep

LEMMA SchedStepScheds ==
    ASSUME SchedInv, SchedsInv, NEW e \in XSTREAM, SchedStep(e)
    PROVE  SchedsInv'
<1>. USE DEF SchedInv, SchedTypeOK, SchedAt
<1>1. p_thread[e] = NULL /\ UNCHANGED <<pc, program>>
  BY SchedStateStep
<1>2. ASSUME UNCHANGED <<num_scheds, p_main_sched, p_replace_sched>>
      PROVE  SchedsInv'
  BY <1>1, <1>2, SameScheds DEF Operand
<1>3. CASE LoopStep(e) \/ PopUnit(e) \/ PopMigrate(e) \/ MainResume(e) \/ MainDec(e)
           \/ MainJoiner(e) \/ MainJoinerDec(e)
  BY <1>2, <1>3
  DEF LoopStep, PopUnit, PopMigrate, MainResume, MainDec, MainJoiner, MainJoinerDec, DecNumBlocked
<1>4. CASE MainReplace(e)
  <2>1. /\ p_replace_sched' = [p_replace_sched EXCEPT ![e] = NULL]
        /\ p_main_sched' = [p_main_sched EXCEPT ![e] = p_replace_sched[e]]
        /\ "REPLACE" \in request[e]
    BY <1>4 DEF MainReplace
  <2>2. p_replace_sched[e] # NULL
    BY <1>1, <2>1 DEF ReplacesInv, ReplaceInv
  <2>3. p_replace_sched'[e] = NULL /\ p_main_sched'[e] = p_replace_sched[e]
    BY <2>1 DEF StreamTypes
  <2>. SUFFICES ASSUME NEW q \in POOL
                PROVE  num_scheds'[q] =
                   Cardinality(Mains(q)') + Cardinality(Coming(q)') + Cardinality(Created(q)')
    BY DEF SchedsInv
  <2>4. Mains(q) \ {e} = Mains(q)' \ {e}
    BY <2>1 DEF Mains, StreamTypes
  <2>5. Coming(q) \ {e} = Coming(q)' \ {e}
    BY <2>1 DEF Coming, StreamTypes
  <2>6. Created(q)' = Created(q)
    BY <1>1 DEF Created, Operand
  <2>7. /\ e \in Mains(q) <=> q \in Pools(p_main_sched[e])
        /\ e \in Mains(q)' <=> q \in Pools(p_replace_sched[e])
        /\ e \in Coming(q) <=> q \in Pools(p_replace_sched[e])
        /\ e \notin Coming(q)'
    BY <2>2, <2>3 DEF Mains, Coming
  <2>8. /\ num_scheds'[q] = num_scheds[q] - (IF q \in Pools(p_main_sched[e]) THEN 1 ELSE 0)
        /\ num_scheds[q] \in Int
    BY <1>4 DEF MainReplace, Release, PoolTypes
  <2>9. SchedsChange(q, e, e)
    BY <2>6, <2>7, <2>8 DEF SchedsChange
  <2>. QED  BY <2>4, <2>5, <2>6, <2>8, <2>9, SchedsCount
<1>. QED  BY <1>3, <1>4, SchedSteps

LEMMA SchedsNext == SchedInv /\ SchedsInv /\ [Next]_vars => SchedsInv'
<1>. SUFFICES ASSUME SchedInv, SchedsInv, [Next]_vars PROVE SchedsInv'
  OBVIOUS
<1>1. ASSUME UNCHANGED vars
      PROVE  SchedsInv'
  BY <1>1, SameScheds DEF vars, Operand
<1>. QED  BY <1>1, ThreadStepScheds, SchedStepScheds DEF Next, AllStopped

LEMMA SchedsStart == Init => SchedsInv
<1>. SUFFICES ASSUME Init, NEW q \in POOL
              PROVE  num_scheds[q] =
                 Cardinality(Mains(q)) + Cardinality(Coming(q)) + Cardinality(Created(q))
  BY DEF SchedsInv
<1>1. Coming(q) = {} /\ Created(q) = {}
  BY DEF Init, Coming, Created
<1>2. num_scheds[q] = Cardinality(Mains(q))
  BY DEF Init, Mains, Pools
<1>3. IsFiniteSet(Mains(q))
  BY FS_Subset, SchedulerAssumption DEF Mains
<1>4. Cardinality({}) = 0 /\ Cardinality(Mains(q)) \in Nat
  BY <1>3, FS_EmptySet, FS_CardinalityType
<1>. QED  BY <1>1, <1>2, <1>4

-----------------------------------------------------------------------------
(* A ULT that may be asked to migrate stays awake.                         *)

(* A call that is over takes nothing to the calls that are left.           *)
LEMMA CallStepKeeps ==
    ASSUME ThreadTypes, NEW t \in Thread, CallStep(t)
    PROVE  /\ \A u \in Thread : \A i \in DOMAIN program'[u] :
                 \E j \in DOMAIN program[u] : program[u][j] = program'[u][i]
           /\ \A u \in Thread : StaysAwake(program[u]) => StaysAwake(program'[u])
<1>1. ASSUME NEW u \in Thread, NEW i \in DOMAIN program'[u]
      PROVE  \E j \in DOMAIN program[u] : program[u][j] = program'[u][i]
  <2>1. CASE program'[u] = program[u]
    BY <1>1, <2>1
  <2>2. CASE program'[u] # program[u]
    <3>1. u = t /\ program[t] # <<>> /\ program'[t] = Tail(program[t])
      BY <2>2, CallStepOthers DEF CallStep, OperationDone, ThreadTypes
    <3>2. program[t] \in Seq(UltCall)
      BY DEF ThreadTypes
    <3>3. /\ DOMAIN program[t] = 1 .. Len(program[t]) /\ Len(program[t]) \in Nat \ {0}
          /\ DOMAIN program'[t] = 1 .. Len(program[t]) - 1
          /\ \A k \in 1 .. Len(program[t]) - 1 : program'[t][k] = program[t][k + 1]
      BY <3>1, <3>2
    <3>4. i + 1 \in DOMAIN program[t] /\ program[t][i + 1] = program'[t][i]
      BY <1>1, <3>1, <3>3
    <3>. QED  BY <3>1, <3>4
  <2>. QED  BY <2>1, <2>2
<1>. QED  BY <1>1 DEF StaysAwake

(* A migration is asked for by a call.                                     *)
LEMMA MigrationAsked ==
    ASSUME SchedInv, NEW t \in Thread, ThreadStep(t), NEW u \in ULT, migration'[u] # NULL
    PROVE  migration[u] # NULL \/ Movable(u, program)
<1>. USE DEF SchedInv, SchedTypeOK, Calls, At
<1>1. migration' = [migration EXCEPT ![t] = NULL] => migration'[u] = NULL \/ migration'[u] = migration[u]
  BY DEF ThreadTypes
<1>2. CASE Migrate(t)
  <2>1. program[t] # <<>> /\ First(t) = "migrate" /\ program[t] \in Seq(UltCall)
    BY <1>2 DEF Migrate, First, ThreadTypes
  <2>2. Operand(t)[1] \in ULT /\ Head(program[t]) = program[t][1]
    BY <2>1, FirstCall
  <2>3. 1 \in DOMAIN program[t]
    BY <2>1
  <2>4. Movable(Operand(t)[1], program)
    BY <2>1, <2>2, <2>3 DEF Movable, First, Operand
  <2>5. \A v \in ULT \ {Operand(t)[1]} : migration'[v] = migration[v]
    BY <1>2 DEF Migrate, ThreadTypes
  <2>. QED  BY <2>4, <2>5
<1>3. CASE ~Migrate(t)
  <2>1. migration' = migration \/ migration' = [migration EXCEPT ![t] = NULL]
    BY <1>3
    DEF ThreadStep, Yield, SuspendCount, SuspendBlock, SuspendAsk, Resume, ResumeDec, Exit,
        Join, JoinThread, JoinReturn, Cancel, Finalize, Replace, ReplaceDiscard, ReplaceDec,
        ReplaceSet, HandleMigration
  <2>. QED  BY <1>1, <2>1
<1>. QED  BY <1>2, <1>3

LEMMA MigratedNext == SchedInv /\ MigratedInv /\ [Next]_vars => MigratedInv'
<1>. SUFFICES ASSUME SchedInv, MigratedInv, [Next]_vars PROVE MigratedInv'
  OBVIOUS
<1>1. ASSUME program' = program,
             \A u \in ULT : migration'[u] # NULL => migration[u] # NULL
      PROVE  MigratedInv'
  BY <1>1 DEF MigratedInv, Movable
<1>2. ASSUME NEW t \in Thread, ThreadStep(t)
      PROVE  MigratedInv'
  <2>1. ThreadTypes /\ CallStep(t)
    BY <1>2, ThreadCallStep DEF SchedInv, SchedTypeOK
  <2>2. \A u \in ULT : Movable(u, program') => Movable(u, program)
    BY <2>1, CallStepKeeps DEF Movable
  <2>3. \A u \in ULT : StaysAwake(program[u]) => StaysAwake(program'[u])
    BY <2>1, CallStepKeeps
  <2>4. \A u \in ULT : migration'[u] # NULL => migration[u] # NULL \/ Movable(u, program)
    BY <1>2, MigrationAsked
  <2>. QED  BY <2>2, <2>3, <2>4 DEF MigratedInv
<1>3. ASSUME NEW e \in XSTREAM, SchedStep(e)
      PROVE  MigratedInv'
  <2>1. program' = program
    BY <1>3, SchedStateStep
  <2>2. migration' = migration \/ PopMigrate(e)
    BY <1>3, SchedSteps
    DEF SchedInv, LoopStep, PopUnit, MainReplace, MainResume, MainDec, MainJoiner, MainJoinerDec
  <2>3. PopMigrate(e) => \A u \in ULT : migration'[u] # NULL => migration[u] # NULL
    BY DEF PopMigrate, HandleMigration, SchedInv, SchedTypeOK, ThreadTypes
  <2>. QED  BY <1>1, <2>1, <2>2, <2>3
<1>. QED  BY <1>1, <1>2, <1>3 DEF Next, AllStopped, vars, threadVars

LEMMA MigratedStart == MovedStayAwake /\ Init => MigratedInv
  BY DEF MovedStayAwake, Init, MigratedInv

-----------------------------------------------------------------------------
(* num_blocked counts the ULTs of a pool that are suspended.               *)

BlockedUlt(u) == state[u] = "BLOCKED" \/ pc[u] = "block"

(* num_blocked changes as v and a do.                                      *)
BlockedChange(q, v, a) ==
    num_blocked'[q] = num_blocked[q]
        + (IF v \in Counted(q)' THEN 1 ELSE 0) - (IF v \in Counted(q) THEN 1 ELSE 0)
        + (IF a \in Owing(q)' THEN 1 ELSE 0) - (IF a \in Owing(q) THEN 1 ELSE 0)

(* The counts after a step in which v is suspended or resumed, by a.       *)
LEMMA BlockedCount ==
    ASSUME BlockedInv, NEW q \in POOL, NEW v, NEW a,
           Counted(q) \ {v} = Counted(q)' \ {v}, Owing(q) \ {a} = Owing(q)' \ {a},
           num_blocked[q] \in Int, BlockedChange(q, v, a)
    PROVE  num_blocked'[q] = Cardinality(Counted(q)') + Cardinality(Owing(q)')
<1>. DEFINE C == Counted(q)
            C2 == Counted(q)'
            D == Owing(q)
            D2 == Owing(q)'
<1>1. IsFiniteSet(C)
  BY FS_Subset, SchedulerAssumption DEF Counted
<1>2. IsFiniteSet(D)
  <2>1. IsFiniteSet(Actor)
    BY FS_Union, SchedulerAssumption
  <2>. QED  BY <2>1, FS_Subset DEF Owing
<1>3. num_blocked[q] = Cardinality(C) + Cardinality(D)
  BY DEF BlockedInv
<1>. HIDE DEF C, C2, D, D2
<1>4. /\ Cardinality(C) \in Nat /\ Cardinality(C2) \in Nat
      /\ Cardinality(C2) = Cardinality(C) + (IF v \in C2 THEN 1 ELSE 0) - (IF v \in C THEN 1 ELSE 0)
  <2>1. C \ {v} = C2 \ {v}
    BY DEF C, C2
  <2>. QED  BY <1>1, <2>1, MemberCount
<1>5. /\ Cardinality(D) \in Nat /\ Cardinality(D2) \in Nat
      /\ Cardinality(D2) = Cardinality(D) + (IF a \in D2 THEN 1 ELSE 0) - (IF a \in D THEN 1 ELSE 0)
  <2>1. D \ {a} = D2 \ {a}
    BY DEF D, D2
  <2>. QED  BY <1>2, <2>1, MemberCount
<1>6. num_blocked'[q] = num_blocked[q]
               + (IF v \in C2 THEN 1 ELSE 0) - (IF v \in C THEN 1 ELSE 0)
               + (IF a \in D2 THEN 1 ELSE 0) - (IF a \in D THEN 1 ELSE 0)
  BY DEF C, C2, D, D2, BlockedChange
<1>7. num_blocked'[q] = Cardinality(C2) + Cardinality(D2)
  BY <1>3, <1>4, <1>5, <1>6
<1>. QED  BY <1>7 DEF C2, D2

(* Most steps suspend and resume nobody, and leave the suspended ULTs in   *)
(* their pools.                                                            *)
LEMMA SameBlocked ==
    ASSUME BlockedInv, UNCHANGED <<num_blocked, owed>>,
           \A u \in ULT : /\ BlockedUlt(u)' <=> BlockedUlt(u)
                          /\ BlockedUlt(u) => p_pool'[u] = p_pool[u]
    PROVE  BlockedInv'
<1>. SUFFICES ASSUME NEW q \in POOL
              PROVE  num_blocked'[q] = Cardinality(Counted(q)') + Cardinality(Owing(q)')
  BY DEF BlockedInv
<1>1. Owing(q)' = Owing(q)
  BY DEF Owing
<1>2. Counted(q)' = Counted(q)
  BY DEF Counted, BlockedUlt
<1>. QED  BY <1>1, <1>2 DEF BlockedInv

(* v is resumed: a owes its pool the decrement.                            *)
LEMMA ResumeBlocked ==
    ASSUME SchedInv, BlockedInv, NEW a \in Actor, NEW v \in ULT, state[v] = "BLOCKED", Away(v),
           owed[a] = NULL, ResumeAndPush(a, v), p_pool' = p_pool,
           \A u \in ULT : pc'[u] = "block" <=> pc[u] = "block"
    PROVE  BlockedInv'
<1>. USE DEF SchedInv, SchedTypeOK
<1>1. pc[v] # "block"
  BY DEF RunningInv, Away
<1>2. state'[v] = "READY" /\ \A u \in ULT \ {v} : state'[u] = state[u]
  BY DEF ResumeAndPush, ThreadTypes
<1>3. owed'[a] = p_pool[v] /\ \A b \in Actor \ {a} : owed'[b] = owed[b]
  BY DEF ResumeAndPush, ThreadTypes
<1>. SUFFICES ASSUME NEW q \in POOL
              PROVE  num_blocked'[q] = Cardinality(Counted(q)') + Cardinality(Owing(q)')
  BY DEF BlockedInv
<1>4. Counted(q) \ {v} = Counted(q)' \ {v} /\ Owing(q) \ {a} = Owing(q)' \ {a}
  BY <1>2, <1>3 DEF Counted, Owing
<1>5. /\ v \notin Counted(q)' /\ (v \in Counted(q) <=> p_pool[v] = q)
      /\ a \notin Owing(q) /\ (a \in Owing(q)' <=> p_pool[v] = q)
  BY <1>1, <1>2, <1>3, SchedulerAssumption DEF Counted, Owing
<1>6. num_blocked'[q] = num_blocked[q] /\ num_blocked[q] \in Int
  BY DEF ResumeAndPush, PoolTypes
<1>7. BlockedChange(q, v, a)
  BY <1>5, <1>6 DEF BlockedChange
<1>. QED  BY <1>4, <1>6, <1>7, BlockedCount

(* ...and decreases it.                                                    *)
LEMMA DecBlocked ==
    ASSUME SchedInv, BlockedInv, NEW a \in Actor, owed[a] # NULL, DecNumBlocked(a),
           UNCHANGED <<state, p_pool>>,
           \A u \in ULT : pc'[u] = "block" <=> pc[u] = "block"
    PROVE  BlockedInv'
<1>. USE DEF SchedInv, SchedTypeOK
<1>1. owed[a] \in POOL /\ owed'[a] = NULL /\ \A b \in Actor \ {a} : owed'[b] = owed[b]
  BY DEF DecNumBlocked, ThreadTypes
<1>. SUFFICES ASSUME NEW q \in POOL
              PROVE  num_blocked'[q] = Cardinality(Counted(q)') + Cardinality(Owing(q)')
  BY DEF BlockedInv
<1>2. Counted(q)' = Counted(q) /\ Owing(q) \ {a} = Owing(q)' \ {a}
  BY <1>1 DEF Counted, Owing
<1>3. a \notin Owing(q)' /\ (a \in Owing(q) <=> owed[a] = q)
  BY <1>1, SchedulerAssumption DEF Owing
<1>4. /\ num_blocked'[q] = num_blocked[q] - (IF owed[a] = q THEN 1 ELSE 0)
      /\ num_blocked[q] \in Int
  BY <1>1 DEF DecNumBlocked, PoolTypes
<1>5. BlockedChange(q, a, a)
  BY <1>2, <1>3, <1>4 DEF BlockedChange
<1>. QED  BY <1>2, <1>4, <1>5, BlockedCount

LEMMA ThreadStepBlocked ==
    ASSUME SchedInv, BlockedInv, MigratedInv, NEW t \in Thread, ThreadStep(t)
    PROVE  BlockedInv'
<1>. USE DEF SchedInv, SchedTypeOK, Calls, At
<1>1. \A u \in ULT \ {t} : pc'[u] = pc[u]
  BY ThreadCallStep, CallStepOthers
<1>2. Running(t) /\ PointOK(t, pc[t]) /\ t \in Actor
  BY ThreadStateStep DEF InCallInv
<1>3. \A l : GoTo(t, l) => pc'[t] = l
  BY DEF GoTo, ThreadTypes
<1>4. OperationDone(t) => pc'[t] = "call"
  BY DEF OperationDone, GoTo, ThreadTypes
<1>5. t \in ULT => state[t] = IF pc[t] = "ask" THEN "BLOCKED" ELSE "RUNNING"
  BY <1>2, RunsOn
<1>6. owed[t] # NULL <=> pc[t] \in {"resumed", "discarded"}
  BY DEF OwedInv
<1>7. \A l \in {"READY", "BLOCKED", "TERMINATED"} : state' = [state EXCEPT ![t] = l] =>
        /\ t \in ULT => state'[t] = l
        /\ \A u \in ULT \ {t} : state'[u] = state[u]
  BY DEF ThreadTypes
<1>8. ASSUME UNCHANGED <<num_blocked, owed>>,
             \A u \in ULT \ {t} : state'[u] = state[u] /\ p_pool'[u] = p_pool[u],
             t \in ULT => /\ BlockedUlt(t)' <=> BlockedUlt(t)
                          /\ BlockedUlt(t) => p_pool'[t] = p_pool[t]
      PROVE  BlockedInv'
  BY <1>1, <1>8, SameBlocked DEF BlockedUlt
<1>9. CASE Yield(t)
  <2>1. t \in ULT /\ pc[t] \in {"call", "joining"} /\ pc'[t] \in {"call", "joining"}
    BY <1>4, <1>9, UltPoint DEF Yield, First
  <2>2. state' = [state EXCEPT ![t] = "READY"] /\ UNCHANGED <<num_blocked, owed>>
    BY <1>9 DEF Yield
  <2>3. \A u \in ULT \ {t} : p_pool'[u] = p_pool[u]
    BY <1>9, <2>1, MigrationTypes DEF Yield
  <2>. QED  BY <1>5, <1>7, <1>8, <2>1, <2>2, <2>3 DEF BlockedUlt
<1>10. CASE SuspendCount(t)
  <2>1. t \in ULT /\ pc[t] \in {"call", "suspend"} /\ pc'[t] = "block"
    BY <1>3, <1>10, UltPoint DEF SuspendCount, First
  <2>2. /\ num_blocked' = [num_blocked EXCEPT ![p_pool[t]] = @ + 1]
        /\ UNCHANGED <<state, p_pool, owed>>
    BY <1>10 DEF SuspendCount
  <2>. SUFFICES ASSUME NEW q \in POOL
                PROVE  num_blocked'[q] = Cardinality(Counted(q)') + Cardinality(Owing(q)')
    BY DEF BlockedInv
  <2>3. Counted(q) \ {t} = Counted(q)' \ {t} /\ Owing(q)' = Owing(q)
    BY <1>1, <2>2 DEF Counted, Owing
  <2>4. t \notin Counted(q) /\ (t \in Counted(q)' <=> p_pool[t] = q)
    BY <1>5, <2>1, <2>2 DEF Counted
  <2>5. /\ num_blocked'[q] = num_blocked[q] + (IF p_pool[t] = q THEN 1 ELSE 0)
        /\ num_blocked[q] \in Int
    BY <2>2 DEF PoolTypes
  <2>6. BlockedChange(q, t, t)
    BY <2>3, <2>4, <2>5 DEF BlockedChange
  <2>. QED  BY <2>3, <2>5, <2>6, BlockedCount
<1>11. CASE SuspendBlock(t)
  <2>1. t \in ULT /\ pc[t] = "block" /\ First(t) \in {"suspend", "join", "replace"} /\ program[t] # <<>>
    BY <1>2, <1>11 DEF SuspendBlock
  <2>2. migration[t] = NULL
    <3>1. program[t] \in Seq(UltCall) /\ Head(program[t]) = program[t][1] /\ 1 \in DOMAIN program[t]
      BY <2>1, FirstCall DEF ThreadTypes
    <3>2. ~StaysAwake(program[t])
      BY <2>1, <3>1 DEF StaysAwake, First
    <3>. QED  BY <2>1, <3>2 DEF MigratedInv
  <2>3. /\ p_pool' = p_pool /\ state' = [state EXCEPT ![t] = "BLOCKED"]
        /\ UNCHANGED <<num_blocked, owed>>
    BY <1>11, <2>1, <2>2, MigrationTypes DEF SuspendBlock
  <2>. QED  BY <1>7, <1>8, <2>1, <2>3 DEF BlockedUlt
<1>12. CASE SuspendAsk(t)
  BY <1>2, <1>5, <1>8, <1>12 DEF SuspendAsk, BlockedUlt
<1>13. CASE Resume(t)
  <2>1. Operand(t) \in ULT /\ state[Operand(t)] = "BLOCKED" /\ Away(Operand(t))
    BY <1>13, FirstCall, ResumedAway DEF Resume, First
  <2>2. ResumeAndPush(t, Operand(t)) /\ p_pool' = p_pool /\ owed[t] = NULL
    BY <1>6, <1>13 DEF Resume
  <2>3. \A u \in ULT : pc'[u] = "block" <=> pc[u] = "block"
    BY <1>1, <1>3, <1>13 DEF Resume
  <2>. QED  BY <1>2, <2>1, <2>2, <2>3, ResumeBlocked
<1>14. CASE ResumeDec(t)
  <2>1. \A u \in ULT : pc'[u] = "block" <=> pc[u] = "block"
    BY <1>1, <1>4, <1>14 DEF ResumeDec
  <2>. QED  BY <1>2, <1>6, <1>14, <2>1, DecBlocked DEF ResumeDec
<1>15. CASE Exit(t)
  BY <1>5, <1>7, <1>8, <1>15 DEF Exit, BlockedUlt
<1>16. CASE Finalize(t)
  <2>1. t \in ULT /\ pc[t] = "call" /\ pc'[t] = "call" /\ UNCHANGED <<num_blocked, owed, p_pool>>
    BY <1>4, <1>16, UltPoint DEF Finalize, First
  <2>2. state' = state \/ state' = [state EXCEPT ![t] = "TERMINATED"]
    BY <1>16 DEF Finalize
  <2>. QED  BY <1>5, <1>7, <1>8, <2>1, <2>2 DEF BlockedUlt
<1>17. CASE Replace(t)
  <2>1. pc[t] = "call" /\ pc'[t] \in {"set", "discard"} /\ UNCHANGED <<num_blocked, owed, state>>
    BY <1>3, <1>17 DEF Replace
  <2>2. \A u \in ULT \ {t} : p_pool'[u] = p_pool[u]
    BY <1>17 DEF Replace, ThreadTypes
  <2>. QED  BY <1>5, <1>8, <2>1, <2>2 DEF BlockedUlt
<1>18. CASE ReplaceDiscard(t)
  <2>1. PICK x \in XSTREAM : x = Xstream(t) /\ p_thread[x] = t
    BY <1>2, <1>18, UltPoint, RunsOn DEF ReplaceDiscard
  <2>2. t # NULL /\ pc[t] = "discard"
    BY <1>18, SchedulerAssumption DEF ReplaceDiscard
  <2>3. p_replace_waiter[x] # NULL
    BY <2>1, <2>2 DEF ReplacesInv, ReplaceInv
  <2>4. /\ p_replace_waiter[x] \in ULT /\ Away(p_replace_waiter[x])
        /\ state[p_replace_waiter[x]] = "BLOCKED"
    BY <2>1, <2>2, <2>3, WaiterBlocked
  <2>5. \A u \in ULT : pc'[u] = "block" <=> pc[u] = "block"
    BY <1>1, <1>3, <1>18 DEF ReplaceDiscard
  <2>6. ResumeAndPush(t, p_replace_waiter[x]) /\ p_pool' = p_pool /\ owed[t] = NULL
    BY <1>6, <1>18, <2>1 DEF ReplaceDiscard
  <2>. QED  BY <1>2, <2>4, <2>5, <2>6, ResumeBlocked
<1>19. CASE ReplaceDec(t)
  <2>1. \A u \in ULT : pc'[u] = "block" <=> pc[u] = "block"
    BY <1>1, <1>3, <1>19 DEF ReplaceDec
  <2>. QED  BY <1>2, <1>6, <1>19, <2>1, DecBlocked DEF ReplaceDec
<1>20. CASE Migrate(t) \/ Join(t) \/ JoinThread(t) \/ JoinReturn(t) \/ Cancel(t) \/ ReplaceSet(t)
  <2>1. UNCHANGED <<num_blocked, owed, state, p_pool>>
    BY <1>20 DEF Migrate, Join, JoinThread, JoinReturn, Cancel, ReplaceSet
  <2>2. pc[t] \notin {"ask", "block"} /\ pc'[t] # "block"
    BY <1>3, <1>4, <1>20 DEF Migrate, Join, JoinThread, JoinReturn, Cancel, ReplaceSet
  <2>. QED  BY <1>5, <1>8, <2>1, <2>2 DEF BlockedUlt
<1>. QED
  BY <1>9, <1>10, <1>11, <1>12, <1>13, <1>14, <1>15, <1>16, <1>17, <1>18, <1>19, <1>20
  DEF ThreadStep

LEMMA SchedStepBlocked ==
    ASSUME SchedInv, BlockedInv, NEW e \in XSTREAM, SchedStep(e)
    PROVE  BlockedInv'
<1>. USE DEF SchedInv, SchedTypeOK, SchedAt
<1>1. p_thread[e] = NULL /\ UNCHANGED <<pc, program>> /\ e \in Actor
  BY SchedStateStep
<1>2. owed[e] # NULL <=> at[e] \in {"resumed", "joiner"}
  BY DEF OwedInv
<1>3. CASE LoopStep(e) \/ MainReplace(e)
  BY <1>1, <1>3, SameBlocked DEF LoopStep, MainReplace, BlockedUlt
<1>4. CASE PopUnit(e) \/ PopMigrate(e)
  <2>. DEFINE u == Head(pool[ThisPool(e)])
  <2>1. Pops(e) /\ UNCHANGED <<num_blocked, owed>>
    BY <1>4 DEF PopUnit, PopMigrate
  <2>2. /\ \/ state' = [state EXCEPT ![u] = "RUNNING"] /\ p_pool' = p_pool
           \/ state' = state /\ HandleMigration(u)
    BY <1>4 DEF PopUnit, PopMigrate
  <2>3. u \in ULT /\ state[u] = "READY" /\ pc[u] \in {"call", "joining"}
    BY <2>1, PoppedReady
  <2>. HIDE DEF u
  <2>4. state'[u] # "BLOCKED"
    BY <2>2, <2>3 DEF ThreadTypes
  <2>5. \A v \in ULT \ {u} : state'[v] = state[v] /\ p_pool'[v] = p_pool[v]
    BY <2>2, <2>3, MigrationTypes DEF ThreadTypes
  <2>. QED  BY <1>1, <2>1, <2>3, <2>4, <2>5, SameBlocked DEF BlockedUlt
<1>5. CASE MainResume(e)
  <2>1. p_replace_waiter[e] # NULL
    BY <1>5 DEF MainResume, ReplacesInv, ReplaceInv
  <2>2. /\ p_replace_waiter[e] \in ULT /\ Away(p_replace_waiter[e])
        /\ state[p_replace_waiter[e]] = "BLOCKED"
    BY <1>1, <2>1, WaiterBlocked
  <2>. QED  BY <1>1, <1>2, <1>5, <2>2, ResumeBlocked DEF MainResume
<1>6. CASE MainJoiner(e)
  <2>1. PICK u \in ULT : Joiner(u, e) /\ state[u] = "BLOCKED" /\ ResumeAndPush(e, u)
    BY <1>6 DEF MainJoiner
  <2>2. Away(u)
    BY <2>1, JoinerAway
  <2>. QED  BY <1>1, <1>2, <1>6, <2>1, <2>2, ResumeBlocked DEF MainJoiner
<1>7. CASE MainDec(e) \/ MainJoinerDec(e)
  BY <1>1, <1>2, <1>7, DecBlocked DEF MainDec, MainJoinerDec
<1>. QED  BY <1>3, <1>4, <1>5, <1>6, <1>7, SchedSteps

LEMMA BlockedNext == SchedInv /\ MigratedInv /\ BlockedInv /\ [Next]_vars => BlockedInv'
<1>. SUFFICES ASSUME SchedInv, MigratedInv, BlockedInv, [Next]_vars PROVE BlockedInv'
  OBVIOUS
<1>1. ASSUME UNCHANGED vars
      PROVE  BlockedInv'
  BY <1>1, SameBlocked DEF vars, BlockedUlt
<1>. QED  BY <1>1, ThreadStepBlocked, SchedStepBlocked DEF Next, AllStopped

LEMMA BlockedStart == Init => BlockedInv
<1>. SUFFICES ASSUME Init, NEW q \in POOL
              PROVE  num_blocked[q] = Cardinality(Counted(q)) + Cardinality(Owing(q))
  BY DEF BlockedInv
<1>1. Counted(q) = {}
  BY DEF Init, Counted
<1>2. Owing(q) = {}
  BY SchedulerAssumption DEF Init, Owing
<1>3. num_blocked[q] = 0
  BY DEF Init
<1>. QED  BY <1>1, <1>2, <1>3, FS_EmptySet

(* The counters are never negative, as they count something.               *)
LEMMA CountersNatural ==
    ASSUME SchedInv, SchedsInv, BlockedInv
    PROVE  TypeOK
<1>. USE DEF SchedInv, SchedTypeOK
<1>1. ASSUME NEW q \in POOL
      PROVE  num_scheds[q] \in Nat /\ num_blocked[q] \in Nat
  <2>. DEFINE M == Mains(q)
              C == Coming(q)
              D == Created(q)
              B == Counted(q)
              W == Owing(q)
  <2>1. IsFiniteSet(M) /\ IsFiniteSet(C) /\ IsFiniteSet(D) /\ IsFiniteSet(B)
    BY FS_Subset, SchedulerAssumption DEF Mains, Coming, Created, Counted
  <2>2. IsFiniteSet(W)
    <3>1. IsFiniteSet(Actor)
      BY FS_Union, SchedulerAssumption
    <3>. QED  BY <3>1, FS_Subset DEF Owing
  <2>3. /\ num_scheds[q] = Cardinality(M) + Cardinality(C) + Cardinality(D)
        /\ num_blocked[q] = Cardinality(B) + Cardinality(W)
    BY DEF SchedsInv, BlockedInv
  <2>. HIDE DEF M, C, D, B, W
  <2>4. /\ Cardinality(M) \in Nat /\ Cardinality(C) \in Nat /\ Cardinality(D) \in Nat
        /\ Cardinality(B) \in Nat /\ Cardinality(W) \in Nat
    BY <2>1, <2>2, FS_CardinalityType
  <2>. QED  BY <2>3, <2>4
<1>2. num_scheds \in [POOL -> Nat] /\ num_blocked \in [POOL -> Nat]
  BY <1>1 DEF PoolTypes
<1>. QED  BY <1>2 DEF TypeOK, PoolTypes, ThreadTypes, StreamTypes, LoopTypes, ThreadPoint, SchedPoint

(* num_scheds of a pool is the number of main schedulers that have it,     *)
(* those to come included, so that "the last scheduler of the pool" is     *)
(* what ABTI_sched_has_unit takes it for.                                  *)
THEOREM SchedsCounted == Spec => []SchedsInv
  BY SchedsStart, SchedsNext, SchedInvariance, PTL DEF Spec

(* num_blocked of a pool counts its ULTs that are suspended or just        *)
(* pushed, when no ULT that may be asked to migrate suspends itself.       *)
THEOREM BlockedCounted ==
    ASSUME MovedStayAwake
    PROVE  Spec => []BlockedUltsCounted
<1>1. Init => MigratedInv
  BY MigratedStart
<1>2. SchedInv /\ SchedsInv /\ BlockedInv => BlockedUltsCounted
  BY CountersNatural DEF BlockedUltsCounted, BlockedInv, Counted, Owing
<1>. QED
  BY <1>1, <1>2, MigratedNext, BlockedStart, BlockedNext, SchedInvariance, SchedsCounted, PTL DEF Spec

-----------------------------------------------------------------------------
(* Without migrations, replacements and basic_wait: an ES that stops       *)
(* leaves nobody behind.                                                   *)

Settled ==
    /\ \A s \in SCHED : KIND[s] # "basic_wait"
    /\ \A setup \in SETUPS : \A t \in Thread : \A i \in DOMAIN setup.program[t] :
          setup.program[t][i][1] \notin {"migrate", "replace"}

(* The pools of the ULTs, and the schedulers, stay what they are.          *)
SettledInv ==
    /\ \A t \in Thread : \A i \in DOMAIN program[t] : program[t][i][1] \notin {"migrate", "replace"}
    /\ \A u \in ULT : migration[u] = NULL
    /\ \A e \in XSTREAM :
          /\ p_replace_sched[e] = NULL /\ p_replace_waiter[e] = NULL
          /\ at[e] \notin {"wait", "replaced", "resumed"}
          /\ "EXIT" \in request[e] => "CANCEL" \in thread_request[e]
          /\ p_thread[e] # NULL => p_pool[p_thread[e]] \in Pools(p_main_sched[e])

(* The scheduler is in ABTI_sched_has_unit, and has been through the pools *)
(* before the current one.                                                 *)
Looks == {"empty", "scheds", "blocked"}

Seen(e) == {POOLS[p_main_sched[e]][i] : i \in 1 .. p[e] - 1}

(* Nobody of a pool that one scheduler has is suspended, or runs...        *)
Awake(q) == num_scheds[q] = 1 => \A u \in Home(q) : state[u] \in {"READY", "TERMINATED"}

(* ...or all have ended.                                                   *)
Over(q) == num_scheds[q] = 1 => \A u \in Home(q) : state[u] = "TERMINATED"

(* What the scheduler of e knows: after it has been through its pools, all *)
(* ULTs it may stop without are in them; after the second time, over.      *)
StopInv(e) ==
    "CANCEL" \notin thread_request[e] =>
       /\ at[e] \in Looks /\ caller[e] = "stop" => \A q \in Seen(e) : Awake(q)
       /\ at[e] = "request" \/ (at[e] \in Looks /\ caller[e] = "stop_again")
            => \A q \in Pools(p_main_sched[e]) : Awake(q)
       /\ at[e] \in Looks /\ caller[e] = "stop_again" => \A q \in Seen(e) : Over(q)
       /\ at[e] \in {"scheds", "blocked"} /\ caller[e] = "stop_again" => Over(ThisPool(e))
       /\ at[e] \in {"run_over", "check"} \/ (at[e] \in Looks /\ caller[e] = "main")
            => \A q \in Pools(p_main_sched[e]) : Over(q)

StopsInv == \A e \in XSTREAM : StopInv(e)

(* What a step of a thread changes then.                                   *)
LEMMA SettledThread ==
    ASSUME Settled, SchedInv, SettledInv, NEW t \in Thread, ThreadStep(t)
    PROVE  /\ UNCHANGED <<p_pool, num_scheds, p_main_sched, replaceVars, caller>>
           /\ \A u \in ULT : migration'[u] = NULL
           /\ \A e \in XSTREAM : "EXIT" \in request'[e] => "EXIT" \in request[e]
           /\ \A e \in XSTREAM : thread_request[e] \subseteq thread_request'[e]
<1>. USE DEF SchedInv, SchedTypeOK, Calls, At
<1>1. PointOK(t, pc[t]) /\ program[t] \in Seq(UltCall)
  BY DEF InCallInv, ThreadTypes
<1>2. program[t] # <<>> => First(t) \notin {"migrate", "replace"}
  <2>. SUFFICES ASSUME program[t] # <<>>
                PROVE  First(t) \notin {"migrate", "replace"}
    OBVIOUS
  <2>1. 1 \in DOMAIN program[t] /\ Head(program[t]) = program[t][1]
    BY <1>1
  <2>. QED  BY <2>1 DEF SettledInv, First
<1>3. ~Migrate(t) /\ ~Replace(t) /\ ~ReplaceDiscard(t) /\ ~ReplaceDec(t) /\ ~ReplaceSet(t) /\ ~SuspendAsk(t)
  BY <1>1, <1>2 DEF Migrate, Replace, ReplaceDiscard, ReplaceDec, ReplaceSet, SuspendAsk, First
<1>4. t \in ULT /\ HandleMigration(t) => p_pool' = p_pool /\ migration' = migration
  BY DEF HandleMigration, SettledInv, ThreadTypes
<1>5. \A u : SwitchToParent(u) => caller' = caller
  BY DEF SwitchToParent, AfterUnit, RoundsOver, Enter
<1>6. Yield(t) \/ SuspendBlock(t) => t \in ULT
  BY UltPoint DEF Yield, SuspendBlock, First
<1>7. UNCHANGED <<p_pool, num_scheds, p_main_sched, replaceVars, caller, migration>>
  BY <1>3, <1>4, <1>5, <1>6
  DEF ThreadStep, Yield, SuspendCount, SuspendBlock, Resume, ResumeDec, Exit, Join, JoinThread,
      JoinReturn, Cancel, Finalize, DecNumBlocked
<1>8. \/ UNCHANGED request
      \/ \E e \in XSTREAM : request' = [request EXCEPT ![e] = @ \cup {"FINISH"}]
  <2>1. CASE Join(t) \/ Finalize(t)
    <3>1. Operand(t) \in XSTREAM
      BY <2>1, FirstCall DEF Join, Finalize, First
    <3>. QED  BY <2>1, <3>1 DEF Join, Finalize
  <2>2. CASE ~Join(t) /\ ~Finalize(t)
    BY <1>3, <2>2
    DEF ThreadStep, Yield, SuspendCount, SuspendBlock, Resume, ResumeDec, Exit, JoinThread,
        JoinReturn, Cancel
  <2>. QED  BY <2>1, <2>2
<1>9. \/ UNCHANGED thread_request
      \/ \E e \in XSTREAM : \E r : thread_request' = [thread_request EXCEPT ![e] = @ \cup {r}]
  <2>1. CASE JoinThread(t) \/ Cancel(t)
    <3>1. Operand(t) \in XSTREAM
      BY <1>1, <2>1, FirstCall DEF JoinThread, Cancel, First
    <3>. QED  BY <2>1, <3>1 DEF JoinThread, Cancel
  <2>2. CASE ~JoinThread(t) /\ ~Cancel(t)
    BY <1>3, <2>2
    DEF ThreadStep, Yield, SuspendCount, SuspendBlock, Resume, ResumeDec, Exit, Join,
        JoinReturn, Finalize
  <2>. QED  BY <2>1, <2>2
<1>. QED  BY <1>7, <1>8, <1>9 DEF StreamTypes, SettledInv

(* What a step of a scheduler changes.                                     *)
LEMMA SettledSched ==
    ASSUME Settled, SchedInv, SettledInv, NEW e \in XSTREAM, SchedStep(e)
    PROVE  /\ UNCHANGED <<p_pool, num_scheds, p_main_sched, replaceVars>>
           /\ \A u \in ULT : migration'[u] = NULL
           /\ \A f \in XSTREAM : "EXIT" \in request'[f] =>
                 "EXIT" \in request[f] \/ "CANCEL" \in thread_request[f]
           /\ \A f \in XSTREAM : thread_request[f] \subseteq thread_request'[f]
           /\ at'[e] \notin {"wait", "replaced", "resumed"}
           /\ ~MainReplace(e) /\ ~MainResume(e) /\ ~MainDec(e) /\ ~PopMigrate(e)
<1>. USE DEF SchedInv, SchedTypeOK, SchedAt
<1>1. p_thread[e] = NULL /\ p_replace_sched[e] = NULL /\ p_replace_waiter[e] = NULL
  BY SchedStateStep DEF SettledInv
<1>2. at[e] \notin {"wait", "replaced", "resumed"} /\ "REPLACE" \notin request[e]
  BY <1>1 DEF SettledInv, ReplacesInv, ReplaceInv
<1>3. ~PopMigrate(e)
  BY PoppedReady DEF PopMigrate, SettledInv
<1>4. ~MainReplace(e) /\ ~MainResume(e) /\ ~MainDec(e) /\ ~WaitNothing(e)
  BY <1>2 DEF MainReplace, MainResume, MainDec, WaitNothing
<1>5. Kind(e) # "basic_wait"
  BY DEF Settled, Kind, StreamTypes
<1>6. UNCHANGED <<p_pool, num_scheds, p_main_sched, replaceVars, migration>>
  BY <1>3, <1>4, SchedSteps DEF LoopStep, PopUnit, MainJoiner, MainJoinerDec, DecNumBlocked
<1>7. \A l : at' = [at EXCEPT ![e] = l] => at'[e] = l
  BY DEF LoopTypes
<1>8. at'[e] # "wait"
  <2>1. CASE PopNothing(e)
    BY <1>5, <1>7, <2>1 DEF PopNothing, RoundsOver, Enter
  <2>2. CASE HasUnitEmpty(e) \/ HasUnitScheds(e) \/ HasUnitBlocked(e)
    <3>1. HasUnit(e) \/ NextPool(e) => at'[e] # "wait"
      <4>1. \A l : Enter(e, l) => at'[e] = l
        BY <1>7 DEF Enter
      <4>2. NoUnit(e) => at'[e] # "wait"
        BY <4>1 DEF NoUnit, LoopTypes
      <4>3. HasUnit(e) => at'[e] # "wait"
        BY <4>1 DEF HasUnit, NeedNotStop
      <4>. QED  BY <1>7, <4>2, <4>3 DEF NextPool
    <3>. QED  BY <1>7, <2>2, <3>1 DEF HasUnitEmpty, HasUnitScheds, HasUnitBlocked
  <2>3. CASE PopNext(e) \/ PopVictim(e) \/ PopUnit(e)
    BY <1>2, <2>3 DEF PopNext, PopVictim, PopUnit
  <2>4. CASE HasToStop(e) \/ HasToStopAgain(e) \/ MainCheck(e)
    BY <1>7, <2>4 DEF HasToStop, HasToStopAgain, MainCheck, CallHasUnit, NeedNotStop, Enter
  <2>5. CASE CheckEvents(e) \/ MainKeep(e) \/ MainExit(e) \/ MainJoiner(e) \/ MainJoinerDec(e)
             \/ MainFutex(e)
    BY <1>7, <2>5 DEF CheckEvents, MainKeep, MainExit, MainJoiner, MainJoinerDec, MainFutex, Enter
  <2>. QED  BY <1>3, <1>4, <2>1, <2>2, <2>3, <2>4, <2>5 DEF SchedStep
<1>9. at'[e] \notin {"replaced", "resumed"}
  BY <1>2, <1>3, <1>4, <1>7, SchedSteps DEF LoopStep, PopUnit, MainJoiner, MainJoinerDec, Enter
<1>10. \/ request' = request
       \/ request' = [request EXCEPT ![e] = @
                    \cup (IF "JOIN" \in thread_request[e] THEN {"FINISH"} ELSE {})
                    \cup (IF "CANCEL" \in thread_request[e] THEN {"EXIT"} ELSE {})]
  <2>1. CASE CheckEvents(e)
    BY <2>1 DEF CheckEvents
  <2>2. CASE ~CheckEvents(e)
    BY <1>3, <1>4, <2>2
    DEF SchedStep, PopNext, PopVictim, PopNothing, PopUnit, HasToStop, HasToStopAgain,
        HasUnitEmpty, HasUnitScheds, HasUnitBlocked, MainKeep, MainCheck, MainExit, MainJoiner,
        MainJoinerDec, MainFutex
  <2>. QED  BY <2>1, <2>2
<1>11. \/ thread_request' = thread_request
       \/ thread_request' = [thread_request EXCEPT ![e] = @ \cup {"JOIN"}]
  <2>1. CASE MainExit(e)
    BY <2>1 DEF MainExit
  <2>2. CASE ~MainExit(e)
    BY <1>3, <1>4, <2>2
    DEF SchedStep, PopNext, PopVictim, PopNothing, PopUnit, CheckEvents, HasToStop, HasToStopAgain,
        HasUnitEmpty, HasUnitScheds, HasUnitBlocked, MainKeep, MainCheck, MainJoiner,
        MainJoinerDec, MainFutex
  <2>. QED  BY <2>1, <2>2
<1>12. \A f \in XSTREAM : "EXIT" \in request'[f] =>
          "EXIT" \in request[f] \/ "CANCEL" \in thread_request[f]
  BY <1>10 DEF StreamTypes
<1>13. \A f \in XSTREAM : thread_request[f] \subseteq thread_request'[f]
  BY <1>11 DEF StreamTypes
<1>. QED  BY <1>3, <1>4, <1>6, <1>8, <1>9, <1>12, <1>13 DEF SettledInv

LEMMA SettledNext == Settled /\ SchedInv /\ SettledInv /\ [Next]_vars => SettledInv'
<1>. SUFFICES ASSUME Settled, SchedInv, SettledInv, [Next]_vars PROVE SettledInv'
  OBVIOUS
<1>. USE DEF SchedInv, SchedTypeOK
<1>1. ASSUME NEW t \in Thread, ThreadStep(t)
      PROVE  SettledInv'
  <2>1. \A u \in Thread : \A i \in DOMAIN program'[u] : program'[u][i][1] \notin {"migrate", "replace"}
    BY <1>1, ThreadCallStep, CallStepKeeps DEF SettledInv
  <2>2. /\ UNCHANGED <<p_pool, num_scheds, p_main_sched, replaceVars, caller>>
        /\ \A u \in ULT : migration'[u] = NULL
        /\ \A e \in XSTREAM : "EXIT" \in request'[e] => "EXIT" \in request[e]
        /\ \A e \in XSTREAM : thread_request[e] \subseteq thread_request'[e]
    BY <1>1, SettledThread
  <2>3. \A e \in XSTREAM : \/ at'[e] = at[e] /\ p_thread'[e] = p_thread[e]
                           \/ p_thread'[e] = NULL /\ at'[e] \in {"pop", "events", "stop", "run_over"}
    BY <1>1, ThreadStateStep, SwitchPoints
  <2>. QED  BY <2>1, <2>2, <2>3 DEF SettledInv
<1>2. ASSUME NEW e \in XSTREAM, SchedStep(e)
      PROVE  SettledInv'
  <2>1. /\ UNCHANGED <<p_pool, num_scheds, p_main_sched, replaceVars, program>>
        /\ \A u \in ULT : migration'[u] = NULL
        /\ \A f \in XSTREAM : "EXIT" \in request'[f] =>
                 "EXIT" \in request[f] \/ "CANCEL" \in thread_request[f]
        /\ \A f \in XSTREAM : thread_request[f] \subseteq thread_request'[f]
        /\ at'[e] \notin {"wait", "replaced", "resumed"}
        /\ \A f \in XSTREAM \ {e} : at'[f] = at[f]
    BY <1>2, SettledSched, SchedStateStep
  <2>2. \A f \in XSTREAM : p_thread'[f] # NULL => p_pool[p_thread'[f]] \in Pools(p_main_sched[f])
    <3>1. CASE PopUnit(e)
      <4>1. /\ p_thread' = [p_thread EXCEPT ![e] = Head(pool[ThisPool(e)])]
            /\ p_pool[Head(pool[ThisPool(e)])] = ThisPool(e)
        BY <3>1, PoppedReady DEF PopUnit
      <4>2. ThisPool(e) \in Pools(p_main_sched[e])
        BY DEF ThisPool, Pools, LoopTypes, Range
      <4>. QED  BY <4>1, <4>2 DEF StreamTypes, SettledInv
    <3>2. CASE ~PopUnit(e)
      <4>1. p_thread' = p_thread
        BY <1>2, <3>2, SchedStateStep
      <4>. QED  BY <4>1 DEF SettledInv
    <3>. QED  BY <3>1, <3>2
  <2>. QED  BY <2>1, <2>2 DEF SettledInv
<1>3. ASSUME UNCHANGED vars
      PROVE  SettledInv'
  BY <1>3 DEF SettledInv, vars
<1>. QED  BY <1>1, <1>2, <1>3 DEF Next, AllStopped

LEMMA SettledStart == Settled /\ Init => SettledInv
  BY DEF Settled, Init, SettledInv

(* A pool that one scheduler has belongs to one ES.                        *)
LEMMA OneServer ==
    ASSUME SchedsInv, NEW q \in POOL, num_scheds[q] = 1, NEW e \in XSTREAM, NEW f \in XSTREAM,
           q \in Pools(p_main_sched[e]), q \in Pools(p_main_sched[f])
    PROVE  e = f
<1>. DEFINE M == Mains(q)
            C == Coming(q)
            D == Created(q)
<1>1. IsFiniteSet(M) /\ IsFiniteSet(C) /\ IsFiniteSet(D)
  BY FS_Subset, SchedulerAssumption DEF Mains, Coming, Created
<1>2. num_scheds[q] = Cardinality(M) + Cardinality(C) + Cardinality(D)
  BY DEF SchedsInv
<1>3. e \in M /\ f \in M
  BY DEF Mains
<1>. HIDE DEF M, C, D
<1>4. Cardinality(M) \in Nat /\ Cardinality(C) \in Nat /\ Cardinality(D) \in Nat
  BY <1>1, FS_CardinalityType
<1>5. Cardinality(M) <= 1
  BY <1>2, <1>4
<1>6. IsFiniteSet(M \ {e}) /\ Cardinality(M \ {e}) = Cardinality(M) - 1
  BY <1>1, <1>3, FS_RemoveElement
<1>7. Cardinality(M \ {e}) = 0
  BY <1>4, <1>5, <1>6, FS_CardinalityType
<1>8. M \ {e} = {}
  BY <1>6, <1>7, FS_EmptySet
<1>. QED  BY <1>3, <1>8

(* A ULT that has ended or waits in its pool is left alone, but popped.    *)
LEMMA ThreadLeaves ==
    ASSUME SchedInv, NEW t \in Thread, ThreadStep(t), NEW u \in ULT,
           state[u] \in {"READY", "TERMINATED"}
    PROVE  state'[u] = state[u]
<1>1. Running(t) /\ OthersResumed(t)
  BY ThreadStateStep
<1>2. u # t
  BY <1>1, RunsOn DEF SchedInv
<1>. QED  BY <1>1, <1>2 DEF OthersResumed

LEMMA SchedLeaves ==
    ASSUME SchedInv, NEW f \in XSTREAM, SchedStep(f), NEW u \in ULT,
           state[u] \in {"READY", "TERMINATED"}, state'[u] # state[u]
    PROVE  /\ at[f] \in {"pop", "wait"} /\ state[u] = "READY"
           /\ p_pool[u] \in Pools(p_main_sched[f])
<1>1. PopUnit(f)
  <2>1. u # f
    BY SchedulerAssumption
  <2>. QED  BY <2>1, SchedStateStep DEF OthersResumed
<1>2. Pops(f) /\ u = Head(pool[ThisPool(f)])
  BY <1>1 DEF PopUnit, SchedInv, SchedTypeOK, ThreadTypes
<1>3. ThisPool(f) \in Pools(p_main_sched[f])
  BY DEF ThisPool, Pools, SchedInv, SchedTypeOK, LoopTypes, Range
<1>. QED  BY <1>2, <1>3, PoppedReady DEF Pops, SchedAt

LEMMA SettledStays ==
    ASSUME Settled, SchedInv, SettledInv, [Next]_vars
    PROVE  UNCHANGED <<p_pool, num_scheds, p_main_sched>>
  BY SettledThread, SettledSched DEF Next, AllStopped, vars, threadVars, poolVars

(* A pool that is over stays over.                                         *)
LEMMA OverStays ==
    ASSUME Settled, SchedInv, SettledInv, [Next]_vars, NEW q, Over(q)
    PROVE  Over(q)'
<1>1. UNCHANGED <<p_pool, num_scheds, p_main_sched>>
  BY SettledStays
<1>2. \A u \in ULT : state[u] = "TERMINATED" => state'[u] = "TERMINATED"
  BY ThreadLeaves, SchedLeaves DEF Next, AllStopped, vars, threadVars
<1>. QED  BY <1>1, <1>2 DEF Over, Home

(* Nobody of a pool wakes up that its only scheduler does not pop.         *)
LEMMA AwakeStays ==
    ASSUME Settled, SchedInv, SettledInv, SchedsInv, [Next]_vars, NEW e \in XSTREAM,
           at[e] \notin {"pop", "wait"}, NEW q \in POOL, q \in Pools(p_main_sched[e]), Awake(q)
    PROVE  Awake(q)'
<1>1. UNCHANGED <<p_pool, num_scheds, p_main_sched>>
  BY SettledStays
<1>2. ASSUME num_scheds[q] = 1, NEW u \in Home(q)
      PROVE  state'[u] = state[u]
  <2>1. u \in ULT /\ p_pool[u] = q /\ state[u] \in {"READY", "TERMINATED"}
    BY <1>2 DEF Awake, Home
  <2>2. ASSUME NEW f \in XSTREAM, SchedStep(f)
        PROVE  state'[u] = state[u]
    BY <1>2, <2>1, <2>2, SchedLeaves, OneServer
  <2>. QED  BY <2>1, <2>2, ThreadLeaves DEF Next, AllStopped, vars, threadVars
<1>. QED  BY <1>1, <1>2 DEF Awake, Home

(* The pools of a scheduler.                                               *)
LEMMA SeenPools ==
    ASSUME SchedInv, NEW e \in XSTREAM
    PROVE  /\ Pools(p_main_sched[e]) \subseteq POOL
           /\ ThisPool(e) \in Pools(p_main_sched[e])
           /\ Seen(e) \subseteq Pools(p_main_sched[e])
           /\ LastPool(e) => Pools(p_main_sched[e]) \subseteq Seen(e) \cup {ThisPool(e)}
<1>. DEFINE s == POOLS[p_main_sched[e]]
<1>1. s \in Seq(POOL) /\ p[e] \in DOMAIN s
  BY SchedulerAssumption DEF SchedInv, SchedTypeOK, StreamTypes, LoopTypes
<1>. HIDE DEF s
<1>2. DOMAIN s = 1 .. Len(s) /\ Len(s) \in Nat /\ p[e] \in 1 .. Len(s)
  BY <1>1
<1>3. \A i \in 1 .. p[e] - 1 : i \in DOMAIN s
  BY <1>2
<1>4. p[e] = Len(s) => \A i \in DOMAIN s : i \in 1 .. p[e] - 1 \/ i = p[e]
  BY <1>2
<1>5. Range(s) \subseteq POOL
  BY <1>1 DEF Range
<1>. QED  BY <1>1, <1>3, <1>4, <1>5 DEF s, Pools, ThisPool, Seen, LastPool, Range

(* The next pool is looked at, or all have been.                           *)
LEMMA NextPoolStop ==
    ASSUME SchedInv, NEW e \in XSTREAM, StopInv(e), at[e] \in Looks, NextPool(e),
           UNCHANGED <<threadVars, num_scheds, p_main_sched, thread_request>>,
           caller[e] = "stop" => Awake(ThisPool(e)),
           caller[e] = "stop_again" => Over(ThisPool(e))
    PROVE  StopInv(e)'
<1>. USE DEF SchedInv, SchedTypeOK
<1>1. \A q : (Awake(q)' <=> Awake(q)) /\ (Over(q)' <=> Over(q))
  BY DEF Awake, Over, Home
<1>2. \A l : at' = [at EXCEPT ![e] = l] => at'[e] = l
  BY DEF LoopTypes
<1>3. CASE LastPool(e)
  <2>1. NoUnit(e) /\ caller' = caller
    BY <1>3 DEF NextPool, NoUnit, Enter
  <2>2. /\ caller[e] = "stop" => at'[e] = "request"
        /\ caller[e] = "stop_again" => at'[e] = "run_over"
        /\ caller[e] = "main" => at'[e] = "exit"
    BY <1>2, <2>1 DEF NoUnit, Enter
  <2>3. caller[e] \in {"stop", "stop_again", "main"}
    BY DEF LoopTypes
  <2>. QED  BY <1>1, <1>3, <2>1, <2>2, <2>3, SeenPools DEF StopInv, Looks
<1>4. CASE ~LastPool(e)
  <2>1. p'[e] = p[e] + 1 /\ at'[e] = "empty" /\ caller' = caller
    BY <1>2, <1>4 DEF NextPool, LoopTypes
  <2>2. Seen(e)' \subseteq Seen(e) \cup {ThisPool(e)}
    <3>1. p[e] \in Nat
      BY DEF LoopTypes
    <3>2. p'[e] - 1 = p[e]
      BY <2>1, <3>1
    <3>3. ASSUME NEW q \in Seen(e)'
          PROVE  q \in Seen(e) \cup {ThisPool(e)}
      <4>1. PICK i \in 1 .. p'[e] - 1 : q = POOLS[p_main_sched[e]][i]
        BY <3>3 DEF Seen
      <4>2. i \in 1 .. p[e] - 1 \/ i = p[e]
        BY <3>1, <3>2, <4>1
      <4>. QED  BY <4>1, <4>2 DEF Seen, ThisPool
    <3>. QED  BY <3>3
  <2>. QED  BY <1>1, <2>1, <2>2 DEF StopInv, Looks
<1>. QED  BY <1>3, <1>4

(* A pool that is empty, and where nobody is suspended, is over.           *)
LEMMA EmptyOver ==
    ASSUME SchedInv, NEW q \in POOL, pool[q] = <<>>, Awake(q)
    PROVE  Over(q)
<1>1. Range(pool[q]) = {}
  BY DEF Range
<1>2. \A u \in ULT : ~(state[u] = "READY" /\ p_pool[u] = q)
  BY <1>1 DEF SchedInv, PoolsInv
<1>. QED  BY <1>2 DEF Awake, Over, Home

(* num_blocked is zero: nobody is suspended, and its only scheduler, which *)
(* looks at it, runs nobody.                                               *)
LEMMA NoneBlocked ==
    ASSUME SchedInv, SettledInv, SchedsInv, BlockedInv, NEW e \in XSTREAM, p_thread[e] = NULL,
           NEW q \in POOL, q \in Pools(p_main_sched[e]), num_blocked[q] = 0
    PROVE  Awake(q)
<1>. USE DEF SchedInv, SchedTypeOK
<1>. DEFINE B == Counted(q)
            W == Owing(q)
<1>1. IsFiniteSet(B)
  BY FS_Subset, SchedulerAssumption DEF Counted
<1>2. IsFiniteSet(W)
  <2>1. IsFiniteSet(Actor)
    BY FS_Union, SchedulerAssumption
  <2>. QED  BY <2>1, FS_Subset DEF Owing
<1>3. num_blocked[q] = Cardinality(B) + Cardinality(W)
  BY DEF BlockedInv
<1>. HIDE DEF B, W
<1>4. Cardinality(B) \in Nat /\ Cardinality(W) \in Nat
  BY <1>1, <1>2, FS_CardinalityType
<1>5. B = {}
  <2>1. Cardinality(B) = 0
    BY <1>3, <1>4
  <2>. QED  BY <1>1, <2>1, FS_EmptySet
<1>6. \A u \in Home(q) : state[u] # "BLOCKED"
  BY <1>5 DEF B, Counted, Home
<1>7. ASSUME num_scheds[q] = 1, NEW u \in Home(q), state[u] = "RUNNING"
      PROVE  FALSE
  <2>1. u \in ULT /\ p_pool[u] = q /\ u # NULL
    BY SchedulerAssumption DEF Home
  <2>2. PICK f \in XSTREAM : p_thread[f] = u
    BY <1>7, <2>1 DEF RunningInv
  <2>3. q \in Pools(p_main_sched[f])
    BY <2>1, <2>2 DEF SettledInv
  <2>4. e = f
    BY <1>7, <2>3, OneServer
  <2>. QED  BY <2>1, <2>2, <2>4
<1>. QED  BY <1>6, <1>7 DEF Awake, Home, ThreadTypes

(* What no step of e changes.                                              *)
LEMMA SameStop ==
    ASSUME Settled, SchedInv, SettledInv, SchedsInv, [Next]_vars, NEW e \in XSTREAM, StopInv(e),
           at'[e] = at[e], p'[e] = p[e], caller'[e] = caller[e],
           thread_request[e] \subseteq thread_request'[e]
    PROVE  StopInv(e)'
<1>1. p_main_sched' = p_main_sched
  BY SettledStays
<1>2. Seen(e)' = Seen(e) /\ ThisPool(e)' = ThisPool(e)
  BY <1>1 DEF Seen, ThisPool
<1>3. \A q : Over(q) => Over(q)'
  BY OverStays
<1>4. at[e] \notin {"pop", "wait"} => \A q \in Pools(p_main_sched[e]) : Awake(q) => Awake(q)'
  BY AwakeStays, SeenPools
<1>. QED  BY <1>1, <1>2, <1>3, <1>4, SeenPools DEF StopInv, Looks

LEMMA ThreadStepStops ==
    ASSUME Settled, SchedInv, SettledInv, SchedsInv, StopsInv, NEW t \in Thread, ThreadStep(t)
    PROVE  StopsInv'
<1>. SUFFICES ASSUME NEW e \in XSTREAM PROVE StopInv(e)'
  BY DEF StopsInv
<1>. USE DEF SchedInv, SchedTypeOK
<1>1. [Next]_vars /\ thread_request[e] \subseteq thread_request'[e] /\ caller' = caller /\ StopInv(e)
  BY SettledThread DEF Next, StopsInv
<1>2. CASE UNCHANGED loopVars
  BY <1>1, <1>2, SameStop
<1>3. CASE t \in ULT /\ Running(t) /\ SwitchToParent(t)
  <2>1. PICK x \in XSTREAM : x = Xstream(t)
    BY <1>3, RunsOn
  <2>2. at[x] = "pop"
    BY <1>3, <2>1, RunsOn DEF SettledInv
  <2>3. /\ \E l \in {"pop", "events", "stop"} : at' = [at EXCEPT ![x] = l]
        /\ p' = [p EXCEPT ![x] = 1]
    BY <1>3, <2>1, <2>2 DEF SwitchToParent, AfterUnit, RoundsOver, Enter
  <2>4. CASE e = x
    BY <2>3, <2>4 DEF LoopTypes, StopInv, Looks
  <2>5. CASE e # x
    BY <1>1, <2>3, <2>5, SameStop
  <2>. QED  BY <2>4, <2>5
<1>. QED  BY <1>2, <1>3, ThreadStateStep

LEMMA SchedStepStops ==
    ASSUME Settled, SchedInv, SettledInv, SchedsInv, BlockedInv, StopsInv,
           NEW e \in XSTREAM, SchedStep(e)
    PROVE  StopsInv'
<1>. USE DEF SchedInv, SchedTypeOK, SchedAt
<1>1. /\ [Next]_vars /\ \A f \in XSTREAM : thread_request[f] \subseteq thread_request'[f]
      /\ p_main_sched' = p_main_sched /\ StopInv(e) /\ p_thread[e] = NULL
      /\ ~MainReplace(e) /\ ~MainResume(e) /\ ~MainDec(e) /\ ~PopMigrate(e)
  BY SettledSched, SchedStateStep DEF Next, StopsInv
<1>2. ASSUME NEW f \in XSTREAM \ {e}
      PROVE  StopInv(f)'
  <2>1. at'[f] = at[f]
    BY SchedStateStep
  <2>2. p'[f] = p[f] /\ caller'[f] = caller[f]
    BY <1>1
    DEF SchedStep, PopNext, PopVictim, PopNothing, WaitNothing, PopUnit, CheckEvents, HasToStop,
        HasToStopAgain, HasUnitEmpty, HasUnitScheds, HasUnitBlocked, MainKeep, MainCheck,
        MainExit, MainJoiner, MainJoinerDec, MainFutex, Enter, CallHasUnit, HasUnit, NoUnit,
        NeedNotStop, NextPool, RoundsOver, LoopTypes
  <2>3. StopInv(f)
    BY DEF StopsInv
  <2>. QED  BY <1>1, <2>1, <2>2, <2>3, SameStop
<1>. SUFFICES StopInv(e)'
  BY <1>2 DEF StopsInv
<1>3. \A l : at' = [at EXCEPT ![e] = l] => at'[e] = l
  BY DEF LoopTypes
<1>4. at'[e] \notin Looks \cup {"request", "run_over", "check"} => StopInv(e)'
  BY DEF StopInv, Looks
<1>5. HasUnit(e) \/ NeedNotStop(e) => StopInv(e)'
  BY <1>3, <1>4 DEF HasUnit, NeedNotStop, Enter, Looks
<1>6. "CANCEL" \in thread_request[e] => StopInv(e)'
  BY <1>1 DEF StopInv
<1>7. \A q : Over(q) => Over(q)'
  BY <1>1, OverStays
<1>8. at[e] # "pop" => \A q \in Pools(p_main_sched[e]) : Awake(q) => Awake(q)'
  BY <1>1, AwakeStays, SeenPools DEF SettledInv
<1>9. \A c : CallHasUnit(e, c) => at'[e] = "empty" /\ caller'[e] = c /\ Seen(e)' = {}
  BY <1>3 DEF CallHasUnit, LoopTypes, Seen
<1>10. ThisPool(e) \in POOL /\ ThisPool(e) \in Pools(p_main_sched[e])
  BY SeenPools
<1>11. CASE PopNext(e) \/ PopVictim(e) \/ PopUnit(e)
  BY <1>1, <1>4, <1>11 DEF PopNext, PopVictim, PopUnit, Pops, SettledInv, Looks
<1>12. CASE PopNothing(e) \/ WaitNothing(e) \/ CheckEvents(e)
  BY <1>3, <1>4, <1>12 DEF PopNothing, WaitNothing, CheckEvents, RoundsOver, Enter, Looks
<1>13. CASE MainExit(e) \/ MainJoiner(e) \/ MainJoinerDec(e) \/ MainFutex(e)
  BY <1>3, <1>4, <1>13 DEF MainExit, MainJoiner, MainJoinerDec, MainFutex, Enter, Looks
<1>14. CASE HasToStop(e)
  <2>1. "EXIT" \in request[e] => StopInv(e)'
    BY <1>6 DEF SettledInv
  <2>2. CallHasUnit(e, "stop") => StopInv(e)'
    BY <1>9 DEF StopInv, Looks
  <2>. QED  BY <1>14, <2>1, <2>2 DEF HasToStop
<1>15. CASE HasToStopAgain(e)
  <2>1. CallHasUnit(e, "stop_again") => StopInv(e)'
    BY <1>1, <1>8, <1>9, <1>15 DEF HasToStopAgain, StopInv, Looks
  <2>. QED  BY <1>5, <1>15, <2>1 DEF HasToStopAgain
<1>16. CASE MainKeep(e)
  BY <1>1, <1>3, <1>7, <1>16 DEF MainKeep, Enter, StopInv, Looks
<1>17. CASE MainCheck(e)
  <2>1. CallHasUnit(e, "main") => StopInv(e)'
    BY <1>1, <1>7, <1>9, <1>17 DEF MainCheck, StopInv, Looks
  <2>2. Enter(e, "pop") => StopInv(e)'
    BY <1>3, <1>4 DEF Enter, Looks
  <2>. QED  BY <1>6, <1>17, <2>1, <2>2 DEF MainCheck
<1>18. CASE HasUnitEmpty(e)
  <2>1. CASE pool[ThisPool(e)] # <<>>
    BY <1>5, <1>18, <2>1 DEF HasUnitEmpty
  <2>2. CASE pool[ThisPool(e)] = <<>>
    <3>1. at[e] = "empty" /\ at'[e] \in {"blocked", "scheds"} /\ UNCHANGED <<p, caller>>
      BY <1>3, <1>18, <2>2 DEF HasUnitEmpty
    <3>2. Awake(ThisPool(e)) => Over(ThisPool(e))
      BY <1>10, <2>2, EmptyOver
    <3>3. Seen(e)' = Seen(e) /\ ThisPool(e)' = ThisPool(e)
      BY <1>1, <3>1 DEF Seen, ThisPool
    <3>4. \A q \in Seen(e) : Awake(q) => Awake(q)'
      BY <1>8, <3>1, SeenPools
    <3>. QED  BY <1>1, <1>7, <1>8, <1>10, <3>1, <3>2, <3>3, <3>4 DEF StopInv, Looks
  <2>. QED  BY <2>1, <2>2
<1>19. CASE HasUnitScheds(e)
  <2>0. at[e] = "scheds" /\ UNCHANGED <<threadVars, num_scheds, thread_request>>
    BY <1>19 DEF HasUnitScheds
  <2>1. CASE num_scheds[ThisPool(e)] = 1
    <3>1. at'[e] = "blocked" /\ UNCHANGED <<p, caller>>
      BY <1>3, <1>19, <2>1 DEF HasUnitScheds
    <3>2. Seen(e)' = Seen(e) /\ ThisPool(e)' = ThisPool(e)
      BY <1>1, <3>1 DEF Seen, ThisPool
    <3>3. \A q \in Seen(e) : Awake(q) => Awake(q)'
      BY <1>8, <2>0, SeenPools
    <3>. QED  BY <1>1, <1>7, <1>8, <2>0, <3>1, <3>2, <3>3 DEF StopInv, Looks
  <2>2. CASE num_scheds[ThisPool(e)] # 1
    <3>1. NextPool(e)
      BY <1>19, <2>2 DEF HasUnitScheds
    <3>2. Awake(ThisPool(e)) /\ Over(ThisPool(e))
      BY <2>2 DEF Awake, Over
    <3>. QED  BY <1>1, <2>0, <3>1, <3>2, NextPoolStop DEF Looks
  <2>. QED  BY <2>1, <2>2
<1>20. CASE HasUnitBlocked(e)
  <2>0. at[e] = "blocked" /\ UNCHANGED <<threadVars, num_scheds, thread_request>>
    BY <1>20 DEF HasUnitBlocked
  <2>1. CASE num_blocked[ThisPool(e)] # 0
    BY <1>5, <1>20, <2>1 DEF HasUnitBlocked
  <2>2. CASE num_blocked[ThisPool(e)] = 0
    <3>1. NextPool(e)
      BY <1>20, <2>2 DEF HasUnitBlocked
    <3>2. Awake(ThisPool(e))
      BY <1>1, <1>10, <2>2, NoneBlocked
    <3>3. CASE "CANCEL" \in thread_request[e]
      BY <1>6, <3>3
    <3>4. CASE "CANCEL" \notin thread_request[e]
      <4>1. caller[e] = "stop_again" => Over(ThisPool(e))
        BY <1>1, <2>0, <3>4 DEF StopInv
      <4>. QED  BY <1>1, <2>0, <3>1, <3>2, <4>1, NextPoolStop DEF Looks
    <3>. QED  BY <3>3, <3>4
  <2>. QED  BY <2>1, <2>2
<1>. QED
  BY <1>1, <1>11, <1>12, <1>13, <1>14, <1>15, <1>16, <1>17, <1>18, <1>19, <1>20 DEF SchedStep

LEMMA StopsNext ==
    Settled /\ SchedInv /\ SettledInv /\ SchedsInv /\ BlockedInv /\ StopsInv /\ [Next]_vars
        => StopsInv'
<1>. SUFFICES ASSUME Settled, SchedInv, SettledInv, SchedsInv, BlockedInv, StopsInv, [Next]_vars
              PROVE  StopsInv'
  OBVIOUS
<1>1. ASSUME UNCHANGED vars, NEW e \in XSTREAM
      PROVE  StopInv(e)'
  BY <1>1, SameStop DEF vars, StopsInv
<1>. QED  BY <1>1, ThreadStepStops, SchedStepStops DEF Next, AllStopped, StopsInv

LEMMA StopsStart == Init => StopsInv
  BY DEF Init, StopsInv, StopInv, Looks

(* The step by which a scheduler decides to stop.                          *)
LEMMA StopStep ==
    ASSUME Settled, SchedInv, SettledInv, SchedsInv, BlockedInv, StopsInv, [Next]_vars,
           NEW e \in XSTREAM, Stops(e)
    PROVE  \A u \in Dependents(e) : state[u] = "TERMINATED"
<1>. USE DEF SchedInv, SchedTypeOK, SchedAt
<1>0. at[e] # "exit" /\ at'[e] = "exit" /\ "CANCEL" \notin thread_request[e] /\ StopInv(e)
  BY DEF Stops, StopsInv
<1>1. SchedStep(e)
  <2>1. ASSUME NEW t \in Thread, ThreadStep(t)
        PROVE  FALSE
    BY <1>0, <2>1, ThreadStateStep, SwitchPoints
  <2>2. ASSUME NEW f \in XSTREAM \ {e}, SchedStep(f)
        PROVE  FALSE
    BY <1>0, <2>2, SchedStateStep
  <2>. QED  BY <1>0, <2>1, <2>2 DEF Next, AllStopped, vars
<1>2. \A l : at' = [at EXCEPT ![e] = l] => at'[e] = l
  BY DEF LoopTypes
<1>3. ~MainReplace(e) /\ ~MainResume(e) /\ ~MainDec(e) /\ ~PopMigrate(e)
  BY <1>1, SettledSched
<1>4. HasUnitScheds(e) \/ HasUnitBlocked(e)
  <2>1. ~MainCheck(e)
    BY <1>0, <1>2 DEF MainCheck, CallHasUnit, Enter
  <2>2. ~HasUnitEmpty(e)
    BY <1>0, <1>2 DEF HasUnitEmpty, HasUnit, NeedNotStop, Enter
  <2>3. ~HasToStop(e) /\ ~HasToStopAgain(e)
    BY <1>0, <1>2 DEF HasToStop, HasToStopAgain, CallHasUnit, NeedNotStop, Enter
  <2>4. ~PopNext(e) /\ ~PopVictim(e) /\ ~PopNothing(e) /\ ~WaitNothing(e) /\ ~PopUnit(e) /\ ~CheckEvents(e)
    BY <1>0, <1>2 DEF PopNext, PopVictim, PopNothing, WaitNothing, PopUnit, CheckEvents, RoundsOver, Enter
  <2>5. ~MainKeep(e) /\ ~MainExit(e) /\ ~MainJoiner(e) /\ ~MainJoinerDec(e) /\ ~MainFutex(e)
    BY <1>0, <1>2 DEF MainKeep, MainExit, MainJoiner, MainJoinerDec, MainFutex, Enter
  <2>. QED  BY <1>1, <1>3, <2>1, <2>2, <2>3, <2>4, <2>5 DEF SchedStep
<1>5. caller[e] = "main" /\ at[e] \in Looks
  <2>1. NextPool(e) /\ at[e] \in Looks
    BY <1>0, <1>2, <1>4
    DEF HasUnitScheds, HasUnitBlocked, HasUnit, NeedNotStop, Enter, Looks
  <2>2. NoUnit(e)
    BY <1>0, <1>2, <2>1 DEF NextPool
  <2>. QED  BY <1>0, <1>2, <2>1, <2>2 DEF NoUnit, Enter, LoopTypes
<1>6. \A q \in Pools(p_main_sched[e]) : Over(q)
  BY <1>0, <1>5 DEF StopInv
<1>. QED  BY <1>6 DEF Dependents, Over, Home

(* A scheduler that stops because it was asked to finish leaves nobody     *)
(* behind: it has been through its pools twice, and whoever of a pool of   *)
(* its own was awake the first time and not in the pool the second time    *)
(* had ended.                                                              *)
THEOREM NobodyLeftBehind ==
    ASSUME Settled
    PROVE  Spec => NoUltLeftBehind
<1>1. MovedStayAwake
  BY DEF Settled, MovedStayAwake, Movable
<1>2. Init => MigratedInv /\ SettledInv
  BY <1>1, MigratedStart, SettledStart
<1>3. SettledInv /\ SchedInv /\ [Next]_vars => SettledInv'
  BY SettledNext
<1>4. SchedInv /\ SettledInv /\ SchedsInv /\ BlockedInv /\ StopsInv /\ [Next]_vars => StopsInv'
  BY StopsNext
<1>5. SchedInv /\ SettledInv /\ SchedsInv /\ BlockedInv /\ StopsInv /\ [Next]_vars
        => [\A e \in XSTREAM : Stops(e) \/ Freed(e)
              => \A u \in Dependents(e) : state[u] = "TERMINATED"]_vars
  BY StopStep, SettledStays DEF Freed
<1>. QED
  BY <1>2, <1>3, <1>4, <1>5, MigratedNext, BlockedStart, BlockedNext, StopsStart,
     SchedInvariance, SchedsCounted, PTL DEF Spec, NoUltLeftBehind
=============================================================================
