------------------------------- MODULE KeyTable ------------------------------
(***************************************************************************)
(* Work-unit-specific data: the hash table ABTI_ktable of one unit, which  *)
(* its own thread and any other thread may read and write.  The table is   *)
(* created by the first set: p_keytable is NULL, LOCKED or the table.  A   *)
(* chain of elements only grows, at its tail and with the lock of the      *)
(* table; it is read without the lock.  The request of a migration keeps   *)
(* the pool to go to in the table too.                                     *)
(*                                                                         *)
(* An element is small enough for a descriptor of the memory pool, so that *)
(* none is allocated with malloc.  A weak compare-and-swap that fails      *)
(* although the value is the expected one is tried again by the code and   *)
(* left out here.  Every key has a destructor.                             *)
(***************************************************************************)
EXTENDS Naturals, SequencesExt

CONSTANTS
    SETTER,     \* threads that read and write the data of the unit
    KEYID,      \* ABTI_key.id of the keys
    MIGRATION,  \* ABTI_KEY_ID_MIGRATION
    SIZE,       \* ABTI_ktable.size, a power of 2
    EXTRA,      \* elements for which the block of the table has room
    PERDESC,    \* elements for which a descriptor has room
    UNSET,      \* NULL as a value
    DATUM,      \* the other values; SETTER are the migration data they allocate
    KEYUSES     \* triples of the memory the table comes from, the number of
                \* allocations that may fail, and a function that gives each
                \* thread a sequence of calls

Origin == {"mempool", "malloc"}

KeyCall == ({"set", "get"} \X KEYID \X (DATUM \cup {UNSET}))
              \cup ({"migrate"} \X {MIGRATION} \X DATUM)

ASSUME KeyTableAssumption ==
    /\ SIZE \in Nat \ {0} /\ EXTRA \in Nat /\ PERDESC \in Nat \ {0}
    /\ KEYID \subseteq Nat /\ MIGRATION \in KEYID /\ UNSET \notin DATUM \cup SETTER
    /\ \A use \in KEYUSES :
          use[1] \in Origin /\ use[2] \in Nat /\ use[3] \in [SETTER -> Seq(KeyCall)]

VARIABLES
    p_keytable,      \* ABTI_thread.p_keytable: NULL, LOCKED, VALID, or FREED
    p_elems,         \* the chain of each index: elements <<key_id, value>>
    table_lock,      \* ABTI_ktable.lock
    extra_mem,       \* room for more elements
    p_used_mem,      \* how many blocks of each origin the list of the table has
    origin, failing, \* where the table comes from, allocations that may fail
    allocated,       \* blocks that are allocated, by origin
    destructed,      \* calls of the destructor of each key: <<place, value>>
    mig_pool,        \* p_migration_pool of each ABTI_thread_mig_data
    mig_request,     \* ABTI_THREAD_REQ_MIGRATE
    stage,           \* the point each thread is at
    calls_left,
    pos,             \* elements of the chain each thread has passed
    mig_data,        \* the migration data it has got
    seen             \* what it has read

tableVars == <<p_keytable, p_elems, table_lock>>
memoryVars == <<extra_mem, p_used_mem, origin, failing, allocated, destructed>>
migrationVars == <<mig_pool, mig_request>>
setterVars == <<stage, calls_left, pos, mig_data, seen>>
keyVars == <<tableVars, memoryVars, migrationVars, setterVars>>

KeyInit ==
    /\ p_keytable = "NULL"
    /\ p_elems = [i \in 0 .. SIZE - 1 |-> <<>>]
    /\ table_lock = FALSE
    /\ extra_mem = 0
    /\ p_used_mem = [o \in Origin |-> 0]
    /\ \E use \in KEYUSES : origin = use[1] /\ failing = use[2] /\ calls_left = use[3]
    /\ allocated = [o \in Origin |-> 0]
    /\ destructed = [k \in KEYID |-> {}]
    /\ mig_pool = [t \in SETTER |-> UNSET]
    /\ mig_request = FALSE
    /\ stage = [t \in SETTER |-> "idle"]
    /\ pos = [t \in SETTER |-> 0]
    /\ mig_data = [t \in SETTER |-> UNSET]
    /\ seen = [t \in SETTER |-> <<>>]

-----------------------------------------------------------------------------

CallIs(t, name) == calls_left[t] # <<>> /\ Head(calls_left[t])[1] = name

KeyOf(t) == Head(calls_left[t])[2]

(* ABTI_ktable_get_idx.                                                    *)
Index(k) == k % SIZE

Chain(t) == p_elems[Index(KeyOf(t))]

(* The next element of the chain is the one of the key.                    *)
FoundNext(t) == pos[t] < Len(Chain(t)) /\ Chain(t)[pos[t] + 1][1] = KeyOf(t)

Enter(t, from, next) == stage[t] = from /\ stage' = [stage EXCEPT ![t] = next]

EndKeyCall(t) ==
    /\ stage' = [stage EXCEPT ![t] = "idle"]
    /\ calls_left' = [calls_left EXCEPT ![t] = Tail(@)]
    /\ pos' = [pos EXCEPT ![t] = 0]
    /\ UNCHANGED mig_data

-----------------------------------------------------------------------------
(* ABTI_ktable_set: the table, which the first set creates.                *)

SetLoad(t) ==
    /\ \/ CallIs(t, "set") /\ Enter(t, "idle", IF p_keytable = "VALID" THEN "find" ELSE "cas")
       \/ Enter(t, "set", IF p_keytable = "VALID" THEN "find" ELSE "cas")
    /\ UNCHANGED <<tableVars, memoryVars, migrationVars, calls_left, pos, mig_data, seen>>

SetCas(t) ==
    /\ Enter(t, "cas", IF p_keytable = "NULL" THEN "create" ELSE "reload")
    /\ p_keytable' = IF p_keytable = "NULL" THEN "LOCKED" ELSE p_keytable
    /\ UNCHANGED <<p_elems, table_lock, memoryVars, migrationVars, calls_left, pos,
                   mig_data, seen>>

SetReload(t) ==
    /\ Enter(t, "reload", CASE p_keytable = "NULL" -> "cas"
                            [] p_keytable = "LOCKED" -> "spin"
                            [] p_keytable = "VALID" -> "find")
    /\ UNCHANGED <<tableVars, memoryVars, migrationVars, calls_left, pos, mig_data, seen>>

(* Whatever is read then, also NULL, is used as the table.                 *)
SetSpin(t) ==
    /\ p_keytable # "LOCKED"
    /\ Enter(t, "spin", "find")
    /\ UNCHANGED <<tableVars, memoryVars, migrationVars, calls_left, pos, mig_data, seen>>

Allocate(o, room) ==
    /\ allocated' = [allocated EXCEPT ![o] = @ + 1]
    /\ p_used_mem' = [p_used_mem EXCEPT ![o] = @ + 1]
    /\ extra_mem' = room

TableCreate(t) ==
    /\ Enter(t, "create", "find")
    /\ Allocate(origin, IF origin = "mempool" THEN EXTRA ELSE 0)
    /\ p_keytable' = "VALID"
    /\ UNCHANGED <<p_elems, table_lock, origin, failing, destructed, migrationVars,
                   calls_left, pos, mig_data, seen>>

TableCreateFails(t) ==
    /\ stage[t] = "create"
    /\ failing > 0
    /\ failing' = failing - 1
    /\ p_keytable' = "NULL"
    /\ EndKeyCall(t)
    /\ UNCHANGED <<p_elems, table_lock, extra_mem, p_used_mem, origin, allocated,
                   destructed, migrationVars, seen>>

-----------------------------------------------------------------------------
(* ABTI_ktable_set_impl: the element, which the first set of a key adds.   *)

SetFind(t) ==
    /\ p_keytable = "VALID"
    /\ Enter(t, "find", IF FoundNext(t) THEN "store"
                        ELSE IF pos[t] < Len(Chain(t)) THEN "find" ELSE "lock")
    /\ pos' = [pos EXCEPT ![t] = IF FoundNext(t) THEN @ ELSE Min({@ + 1, Len(Chain(t))})]
    /\ UNCHANGED <<tableVars, memoryVars, migrationVars, calls_left, mig_data, seen>>

SetLock(t) ==
    /\ ~table_lock
    /\ table_lock' = TRUE
    /\ Enter(t, "lock", "again")
    /\ UNCHANGED <<p_keytable, p_elems, memoryVars, migrationVars, calls_left, pos,
                   mig_data, seen>>

(* Mutant of LookAgain: the chain is not looked at again.                  *)
LookOnce(t) ==
    /\ Enter(t, "again", "insert")
    /\ UNCHANGED <<tableVars, memoryVars, migrationVars, calls_left, pos, mig_data, seen>>

(* The chain may have grown before the lock was taken.                     *)
LookAgain(t) ==
    /\ Enter(t, "again", IF FoundNext(t) THEN "unlock_store"
                         ELSE IF pos[t] < Len(Chain(t)) THEN "again" ELSE "insert")
    /\ pos' = [pos EXCEPT ![t] = IF FoundNext(t) THEN @ ELSE Min({@ + 1, Len(Chain(t))})]
    /\ UNCHANGED <<tableVars, memoryVars, migrationVars, calls_left, mig_data, seen>>

SetUnlock(t) ==
    /\ table_lock' = FALSE
    /\ \/ Enter(t, "unlock_store", "store") /\ UNCHANGED <<calls_left, pos, mig_data>>
       \/ stage[t] = "unlock_fail" /\ EndKeyCall(t)
       \/ Enter(t, "unlock", "target") /\ CallIs(t, "migrate")
             /\ UNCHANGED <<calls_left, pos, mig_data>>
       \/ stage[t] = "unlock" /\ CallIs(t, "set") /\ EndKeyCall(t)
    /\ UNCHANGED <<p_keytable, p_elems, memoryVars, migrationVars, seen>>

SetValue(t) == IF CallIs(t, "set") THEN Head(calls_left[t])[3] ELSE t

(* The value of an element that was there is replaced, without the lock.   *)
SetStore(t) ==
    /\ stage[t] = "store"
    /\ p_elems' = [p_elems EXCEPT ![Index(KeyOf(t))][pos[t] + 1][2] = SetValue(t)]
    /\ IF CallIs(t, "set") THEN EndKeyCall(t)
       ELSE Enter(t, "store", "target") /\ UNCHANGED <<calls_left, pos, mig_data>>
    /\ UNCHANGED <<p_keytable, table_lock, memoryVars, migrationVars, seen>>

(* Mutant of AllocElem: the block is not remembered.                       *)
AllocElemLost ==
    IF extra_mem > 0
    THEN extra_mem' = extra_mem - 1 /\ UNCHANGED <<p_used_mem, allocated>>
    ELSE extra_mem' = PERDESC - 1 /\ UNCHANGED p_used_mem
         /\ allocated' = [allocated EXCEPT !["mempool"] = @ + 1]

(* ABTI_ktable_alloc_elem.                                                 *)
AllocElem ==
    IF extra_mem > 0
    THEN extra_mem' = extra_mem - 1 /\ UNCHANGED <<p_used_mem, allocated>>
    ELSE Allocate("mempool", PERDESC - 1)

SetInsert(t) ==
    /\ Enter(t, "insert", "unlock")
    /\ AllocElem
    /\ p_elems' = [p_elems EXCEPT ![Index(KeyOf(t))] = Append(@, <<KeyOf(t), SetValue(t)>>)]
    /\ UNCHANGED <<p_keytable, table_lock, origin, failing, destructed, migrationVars,
                   calls_left, pos, mig_data, seen>>

SetInsertFails(t) ==
    /\ extra_mem = 0 /\ failing > 0
    /\ Enter(t, "insert", "unlock_fail")
    /\ failing' = failing - 1
    /\ UNCHANGED <<tableVars, extra_mem, p_used_mem, origin, allocated, destructed,
                   migrationVars, calls_left, pos, mig_data, seen>>

-----------------------------------------------------------------------------
(* ABTI_ktable_get, without any lock.                                      *)

(* The end of the get, also of the one that a migration begins with.       *)
GetResult(t, v) ==
    \/ /\ CallIs(t, "get")
       /\ seen' = [seen EXCEPT ![t] = Append(@, v)]
       /\ EndKeyCall(t)
    \/ /\ CallIs(t, "migrate")
       /\ mig_data' = [mig_data EXCEPT ![t] = IF v = UNSET THEN t ELSE v]
       /\ stage' = [stage EXCEPT ![t] = IF v = UNSET THEN "set" ELSE "target"]
       /\ pos' = [pos EXCEPT ![t] = 0]
       /\ UNCHANGED <<calls_left, seen>>

GetLoad(t) ==
    /\ stage[t] = "idle"
    /\ CallIs(t, "get") \/ CallIs(t, "migrate")
    /\ IF p_keytable = "VALID"
       THEN Enter(t, "idle", "walk") /\ UNCHANGED <<calls_left, pos, mig_data, seen>>
       ELSE GetResult(t, UNSET)
    /\ UNCHANGED <<tableVars, memoryVars, migrationVars>>

GetWalk(t) ==
    /\ stage[t] = "walk"
    /\ IF FoundNext(t) THEN GetResult(t, Chain(t)[pos[t] + 1][2])
       ELSE IF pos[t] = Len(Chain(t)) THEN GetResult(t, UNSET)
       ELSE pos' = [pos EXCEPT ![t] = @ + 1] /\ UNCHANGED <<stage, calls_left, mig_data, seen>>
    /\ UNCHANGED <<tableVars, memoryVars, migrationVars>>

-----------------------------------------------------------------------------
(* thread_migrate_to_pool, after ABTI_thread_get_mig_data.                 *)

MigrationTarget(t) ==
    /\ Enter(t, "target", "request")
    /\ mig_pool' = [mig_pool EXCEPT ![mig_data[t]] = Head(calls_left[t])[3]]
    /\ UNCHANGED <<tableVars, memoryVars, mig_request, calls_left, pos, mig_data, seen>>

MigrationRequest(t) ==
    /\ stage[t] = "request"
    /\ mig_request' = TRUE
    /\ EndKeyCall(t)
    /\ UNCHANGED <<tableVars, memoryVars, mig_pool, seen>>

-----------------------------------------------------------------------------
(* ABTI_ktable_free, when the unit is freed and nobody uses its data.      *)

(* The elements of k in the chain of its index, and its value in the n-th. *)
Places(k) == {n \in DOMAIN p_elems[Index(k)] : p_elems[Index(k)][n][1] = k}

ValueAt(k, n) == p_elems[Index(k)][n][2]

TableFree ==
    /\ \A t \in SETTER : calls_left[t] = <<>>
    /\ p_keytable = "VALID"
    /\ p_keytable' = "FREED"
    /\ destructed' = [k \in KEYID |->
                         {<<n, ValueAt(k, n)>> : n \in {m \in Places(k) : ValueAt(k, m) # UNSET}}]
    /\ allocated' = [o \in Origin |-> allocated[o] - p_used_mem[o]]
    /\ UNCHANGED <<p_elems, table_lock, extra_mem, p_used_mem, origin, failing,
                   migrationVars, setterVars>>

KeyStep(t) ==
    \/ SetLoad(t) \/ SetCas(t) \/ SetReload(t) \/ SetSpin(t)
    \/ TableCreate(t) \/ TableCreateFails(t)
    \/ SetFind(t) \/ SetLock(t) \/ LookAgain(t) \/ SetUnlock(t) \/ SetStore(t)
    \/ SetInsert(t) \/ SetInsertFails(t)
    \/ GetLoad(t) \/ GetWalk(t)
    \/ MigrationTarget(t) \/ MigrationRequest(t)

KeyNext == (\E t \in SETTER : KeyStep(t)) \/ TableFree

KeySpec == KeyInit /\ [][KeyNext]_keyVars

KeyDone == (\A t \in SETTER : calls_left[t] = <<>>) /\ p_keytable \in {"NULL", "FREED"}

-----------------------------------------------------------------------------
(* Properties.                                                             *)

(* What a get of k finds.                                                  *)
ValueOf(k) == IF Places(k) = {} THEN UNSET ELSE ValueAt(k, Min(Places(k)))

(* Points of a set between its call and its effect.                        *)
SetPoint == {"cas", "reload", "spin", "create", "find", "lock", "again",
             "unlock_store", "store", "insert"}

Values == [k \in KEYID |-> ValueOf(k)]

(* The sets that have not taken effect.                                    *)
Setting ==
    [t \in SETTER |-> IF stage[t] \in SetPoint THEN <<KeyOf(t), SetValue(t)>> ELSE <<>>]

AbstractK == INSTANCE AbstractKeys
    WITH User <- SETTER, Key <- KEYID, Value <- DATUM \cup SETTER, None <- UNSET,
         value <- Values, setting <- Setting

(* The table keeps the promises of AbstractKeys: a get finds the last      *)
(* value that was set, although it takes no lock.                          *)
ImplementsAbstractKeys == AbstractK!Spec

(* When the table is freed, the destructor of each key is called with its  *)
(* last value, once, unless that is NULL, and no memory is kept.           *)
FreedOnce ==
    p_keytable = "FREED" =>
        /\ \A k \in KEYID :
              IF ValueOf(k) = UNSET THEN destructed[k] = {}
              ELSE \E n \in Places(k) : destructed[k] = {<<n, ValueOf(k)>>}
        /\ \A o \in Origin : allocated[o] = 0

(* "p_migration_pool must be updated before setting the request since the  *)
(* target thread would read p_migration_pool" (thread.c:3017-3018): when   *)
(* the request is set, the data that the target finds have a pool.         *)
MigrationPoolKnown ==
    mig_request => /\ ValueOf(MIGRATION) \in SETTER
                   /\ mig_pool[ValueOf(MIGRATION)] # UNSET
=============================================================================
