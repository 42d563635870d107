------------------------------ MODULE MCObjects ------------------------------
(***************************************************************************)
(* Six components that do not meet, one in each behaviour: an eventual or  *)
(* a future, a reader-writer lock, the life cycle of ESs, a built-in pool, *)
(* the table of the data of a work unit, the memory pools.                 *)
(***************************************************************************)
EXTENDS Eventual, RWLock, Xstream, BuiltinPool, KeyTable, MemPool

CONSTANTS u1, u2, x1, e1, e2, t1, t2, t3, t4, es0, es1, es2, c1, c2,
          p1, p2, p3, s1, s2, s3, v, w, m1, m2, n1

VARIABLE scenario  \* the component of this behaviour

(* Two ULTs on two ESs and an external thread, which may free the object   *)
(* after its wait.                                                         *)
MCULT == {u1, u2}
MCEXT == {x1}
MCXSTREAM == {e1, e2}

Each(pu1, pu2, px) == (u1 :> pu1) @@ (u2 :> pu2) @@ (x1 :> px)

MCUSES ==
    {<<"eventual", Each(<<"wait">>, <<"test", "set">>, <<"set", "reset", "set">>)>>,
     <<"eventual", Each(<<"wait">>, <<"wait">>, <<"set", "reset", "set">>)>>,
     <<"eventual", Each(<<"set">>, <<>>, <<"wait", "free">>)>>,
     <<"future", Each(<<"set">>, <<"set">>, <<"poll", "free">>)>>,
     <<"future", Each(<<"set">>, <<"set">>, <<"wait", "free">>)>>,
     <<"future", Each(<<"set", "wait", "test">>, <<"set">>, <<"set", "wait">>)>>,
     <<"future", Each(<<"set", "set", "reset", "set", "set">>, <<"test", "wait">>,
                      <<"wait">>)>>}

(* Four threads: two of them change their sides.                           *)
MCLOCKER == {t1, t2, t3, t4}

MCRWPROGRAMS ==
    {(t1 :> <<"rdlock", "wrlock">>) @@ (t2 :> <<"wrlock", "rdlock">>)
        @@ (t3 :> <<"wrlock">>) @@ (t4 :> <<"rdlock">>)}

(* The primary ES and two others: one is cancelled, by the other caller or *)
(* by unit 9 that exits, and revived and freed; or both get ranks.         *)
MCSTREAM == {es0, es1, es2}
MCCALLER == {c1, c2}

CreateES(x, r) == <<"create", x, r>>
AddUnit(x, u) == <<"push", x, u>>
SetRank(x, r) == <<"set_rank", x, r>>
Do(op, x) == <<op, x, 0>>

MCESPROGRAMS ==
    {(c1 :> <<CreateES(es1, -1), AddUnit(es1, 1), Do("join", es1), AddUnit(es1, 2),
              Do("revive", es1), AddUnit(es1, 3), Do("free", es1)>>)
        @@ (c2 :> <<AddUnit(es1, 4), Do("cancel", es1)>>),
     (c1 :> <<CreateES(es1, -1), AddUnit(es1, 9), AddUnit(es1, 2), Do("join", es1),
              Do("revive", es1), Do("free", es1)>>)
        @@ (c2 :> <<Do("cancel", es1), AddUnit(es1, 4)>>),
     (c1 :> <<CreateES(es1, -1), Do("revive", es1), SetRank(es1, 3), Do("free", es1)>>)
        @@ (c2 :> <<CreateES(es2, 1), SetRank(es2, 2), SetRank(es1, 1), Do("free", es2)>>)}

(* Three users of a pool and three units: pops and removals of a unit by   *)
(* different users meet, many units are pushed to a pool where users sleep,*)
(* and units are taken from either end, or from the middle.                *)
MCUSER == {p1, p2, p3}

Plan(j1, j2, j3) == (p1 :> j1) @@ (p2 :> j2) @@ (p3 :> j3)

PushUnits(us, end) == <<"push", us, 0, end>>
PushBack(end) == <<"push_back", <<>>, 0, end>>
PopUnits(n, end) == <<"pop", <<>>, n, end>>
PopWait == <<"pop_wait", <<>>, 1, "">>
RemoveOne(u) == <<"remove", <<u>>, 0, "">>

MCPOOLUSES ==
    {<<"fifo", Plan(<<PushUnits(<<1, 2>>, ""), RemoveOne(1)>>,
                    <<PopUnits(1, ""), PushBack("")>>,
                    <<PopWait, PushUnits(<<3>>, "")>>)>>,
     <<"randws", Plan(<<PushUnits(<<1, 2>>, "head"), PopUnits(2, "head"), PushBack("tail")>>,
                      <<PopUnits(1, "tail"), PushBack("tail")>>,
                      <<PushUnits(<<3>>, "tail"), RemoveOne(2)>>)>>,
     <<"fifo_wait", Plan(<<PushUnits(<<2, 3>>, ""), PushUnits(<<1>>, ""), PopUnits(2, "")>>,
                         <<PopWait, PushBack(""), PopWait>>,
                         <<PopWait, RemoveOne(3)>>)>>,
     <<"private", Plan(<<PushUnits(<<1, 2, 3>>, ""), RemoveOne(2), PopUnits(3, ""), PushBack("")>>,
                       <<>>, <<>>)>>}

(* Three threads and a table with two indices, keys 2 and 4 in one chain:  *)
(* concurrent first sets, allocations that fail, migrations.               *)
MCSETTER == {s1, s2, s3}

PlanKeys(k1, k2, k3) == (s1 :> k1) @@ (s2 :> k2) @@ (s3 :> k3)

SetKey(k, d) == <<"set", k, d>>
GetKey(k) == <<"get", k, UNSET>>
Migrate(d) == <<"migrate", MIGRATION, d>>

MCKEYUSES ==
    {<<"mempool", 0, PlanKeys(<<SetKey(2, v), GetKey(4)>>,
                              <<SetKey(2, w), SetKey(4, w)>>,
                              <<GetKey(2), GetKey(2), SetKey(3, v)>>)>>,
     <<"malloc", 1, PlanKeys(<<SetKey(2, v)>>, <<GetKey(2), GetKey(2)>>, <<>>)>>,
     <<"malloc", 0, PlanKeys(<<SetKey(2, v), SetKey(4, v)>>,
                             <<SetKey(4, w), SetKey(2, UNSET)>>, <<GetKey(2)>>)>>,
     <<"mempool", 1, PlanKeys(<<Migrate(v), SetKey(3, v), SetKey(5, v), Migrate(w)>>,
                              <<GetKey(3), GetKey(5)>>, <<>>)>>,
     <<"malloc", 0, PlanKeys(<<Migrate(v)>>, <<GetKey(1), Migrate(w)>>, <<>>)>>}

(* The primary ES, one that comes and goes, and an external thread.        *)
MCOPS == (m1 :> 3) @@ (m2 :> 3) @@ (n1 :> 1)

ASSUME MemoryAssumption == MemPoolConstants

-----------------------------------------------------------------------------

objectsVars == <<eventualVars, rwVars, xstreamVars, builtinVars, keyVars>>

vars == <<scenario, objectsVars, memPoolVars>>

(* A component that is not the one of this behaviour has one initial state.*)
Init ==
    /\ scenario \in {"eventual", "rwlock", "xstream", "pool", "keys", "memory"}
    /\ EventualInit /\ RWInit /\ XstreamInit /\ PoolInit /\ KeyInit
    /\ MemPoolInit
    /\ scenario = "eventual" \/ <<kind, program>> = CHOOSE use \in USES : TRUE
    /\ scenario = "eventual" \/ pool = SetToSeq(ULT)
    /\ scenario = "rwlock" \/ calls = CHOOSE p \in RWPROGRAMS : TRUE
    /\ scenario = "xstream" \/ todo = CHOOSE p \in ESPROGRAMS : TRUE
    /\ scenario = "pool" \/ <<pool_kind, jobs>> = CHOOSE use \in POOLUSES : TRUE
    /\ scenario = "keys"
          \/ <<origin, failing, calls_left>> = CHOOSE use \in KEYUSES : TRUE

InEventual(A) ==
    scenario = "eventual" /\ A
        /\ UNCHANGED <<scenario, rwVars, xstreamVars, builtinVars, keyVars, memPoolVars>>

InRWLock(A) ==
    scenario = "rwlock" /\ A
        /\ UNCHANGED <<scenario, eventualVars, xstreamVars, builtinVars, keyVars, memPoolVars>>

InXstream(A) ==
    scenario = "xstream" /\ A
        /\ UNCHANGED <<scenario, eventualVars, rwVars, builtinVars, keyVars, memPoolVars>>

InPool(A) ==
    scenario = "pool" /\ A
        /\ UNCHANGED <<scenario, eventualVars, rwVars, xstreamVars, keyVars, memPoolVars>>

InKeys(A) ==
    scenario = "keys" /\ A
        /\ UNCHANGED <<scenario, eventualVars, rwVars, xstreamVars, builtinVars, memPoolVars>>

InMemory(A) == scenario = "memory" /\ A /\ UNCHANGED <<scenario, objectsVars>>

Finished ==
    CASE scenario = "eventual" -> EventualDone
      [] scenario = "rwlock" -> RWDone
      [] scenario = "xstream" -> XstreamDone
      [] scenario = "pool" -> PoolDone
      [] scenario = "keys" -> KeyDone
      [] scenario = "memory" -> MemPoolDone

AllDone == Finished /\ UNCHANGED vars

Next ==
    \/ InEventual(EventualNext)
    \/ InRWLock(RWNext)
    \/ InXstream(XstreamNext)
    \/ InPool(PoolNext)
    \/ InKeys(KeyNext)
    \/ InMemory(MemPoolWork)
    \/ AllDone

(* The operating system runs every native thread; ESs run their ULTs; the  *)
(* time of a timed pop passes; a unit is freed in the end.  A wait on a    *)
(* condition variable need not return without a signal, if it is not timed.*)
Fairness ==
    /\ \A t \in Thread : WF_vars(InEventual(EventualStep(t)))
    /\ \A e \in XSTREAM : WF_vars(InEventual(EventualSchedule(e)))
    /\ \A t \in LOCKER : WF_vars(InRWLock(RWStep(t)))
    /\ \A c \in CALLER : WF_vars(InXstream(CallerStep(c)))
    /\ \A x \in STREAM : WF_vars(InXstream(NativeStep(x)))
    /\ \A t \in USER : WF_vars(InPool(PoolStep(t))) /\ WF_vars(InPool(PoolTime(t)))
    /\ \A t \in SETTER : WF_vars(InKeys(KeyStep(t)))
    /\ WF_vars(InKeys(TableFree))

Spec == Init /\ [][Next]_vars /\ Fairness

(* Every wait, poll, read or write lock, join, free, pop and set returns.  *)
(* The compare-and-swap of a LIFO fails only when another one succeeds, but*)
(* the threads of MemPool may also never ask for a block.                  *)
EveryThreadFinishes == scenario # "memory" => <>Finished
=============================================================================
