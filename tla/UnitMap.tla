-------------------------------- MODULE UnitMap -------------------------------
(***************************************************************************)
(* Units of user-defined pools: the hash table of unit.c, which maps their *)
(* handles to threads, and the functions of abti_unit.h that move a thread *)
(* between pools.  An element of a chain is never freed: an unmap empties  *)
(* it and a later map fills it again, while others walk along the chain    *)
(* without its lock.  The pool of the user creates a handle before it is   *)
(* mapped and may create the same one again once it has freed it.          *)
(*                                                                         *)
(* All built-in pools are one, and so are the handles in them.  A thread   *)
(* is moved by one worker at a time, as it is taken from its pool first.   *)
(***************************************************************************)
EXTENDS Naturals, Sequences, FiniteSetsExt

CONSTANTS
    WORKER,    \* ESs that create, move and free threads
    TASK,      \* ABTI_thread
    UNITID,    \* addresses that the user's pools give to their units
    Hash,      \* unit_get_hash_index
    USERPOOL,
    BUILTIN,   \* the built-in pools, and the units in them
    NONE,
    MOVES      \* how many threads each worker creates, moves or frees

UnitMapConstants ==
    /\ BUILTIN \notin USERPOOL \cup UNITID /\ NONE \notin USERPOOL \cup UNITID
    /\ BUILTIN # NONE /\ NONE \notin TASK
    /\ DOMAIN Hash = UNITID /\ MOVES \in [WORKER -> Nat]

VARIABLES
    list, unit_lock,  \* the chain of each index, its last element first, and its lock
    unit, pool,       \* of each thread: ABTI_thread.unit and p_pool
    units,             \* the units that each pool has created and not freed
    worker_at, taken, \* of each worker: its point, the thread it has taken,
    old_unit, p_thread, target, new_unit, p_cur,  \* local variables,
    moves_left        \* and how many threads it will still move

tableVars == <<list, unit_lock>>
threadVars == <<unit, pool>>
localVars == <<old_unit, target, taken, moves_left>>
unitMapVars ==
    <<tableVars, threadVars, units, worker_at, p_thread, new_unit, p_cur, localVars>>

UnitMapInit ==
    /\ list = [i \in {Hash[u] : u \in UNITID} |-> <<>>]
    /\ unit_lock = [i \in {Hash[u] : u \in UNITID} |-> FALSE]
    /\ unit = [t \in TASK |-> NONE] /\ pool = [t \in TASK |-> NONE]
    /\ units = {}
    /\ worker_at = [w \in WORKER |-> "idle"]
    /\ taken = [w \in WORKER |-> NONE]
    /\ old_unit = taken /\ p_thread = taken /\ target = taken /\ new_unit = taken
    /\ p_cur = [w \in WORKER |-> 0]
    /\ moves_left = MOVES

Step(w, from, next) == worker_at[w] = from /\ worker_at' = [worker_at EXCEPT ![w] = next]

-----------------------------------------------------------------------------
(* The functions of abti_unit.h.                                           *)

(* What has to be done to bring t to pool p: nothing, a new unit, or only  *)
(* the end of the old one.                                                 *)
Begin(t, p) ==
    CASE p = pool[t] -> "assign"
      [] p # pool[t] /\ p \in USERPOOL -> "create"
      [] p # pool[t] /\ p \notin USERPOOL /\ unit[t] \in UNITID -> "unmap"
      [] OTHER -> "assign"

(* A new unit in a user's pool is known when that pool has created it.     *)
Take(w, t, p) ==
    /\ worker_at[w] = "idle" /\ moves_left[w] > 0
    /\ \A v \in WORKER : taken[v] # t
    /\ taken' = [taken EXCEPT ![w] = t]
    /\ old_unit' = [old_unit EXCEPT ![w] = unit[t]]
    /\ target' = [target EXCEPT ![w] = p]
    /\ new_unit' = [new_unit EXCEPT ![w] = IF p = pool[t] THEN unit[t] ELSE p]
    /\ UNCHANGED <<tableVars, threadVars, units, moves_left>>

(* ABTI_thread_init_pool of a new thread, ABTI_thread_set_associated_pool, *)
(* or ABTI_thread_unset_associated_pool, with p = NONE.                    *)
MoveThread(w) ==
    \E t \in TASK, p \in USERPOOL \cup {BUILTIN, NONE} :
        /\ unit[t] = NONE => p # NONE
        /\ Take(w, t, p)
        /\ Step(w, "idle", Begin(t, p))
        /\ p_thread' = [p_thread EXCEPT ![w] = t]
        /\ UNCHANGED p_cur

(* ABTI_unit_set_associated_pool, which has to find the thread of a unit   *)
(* that is not built-in.                                                   *)
MoveUnit(w) ==
    \E t \in TASK, p \in USERPOOL \cup {BUILTIN} :
        /\ unit[t] \in UNITID
        /\ Take(w, t, p)
        /\ Step(w, "idle", "get")
        /\ p_cur' = [p_cur EXCEPT ![w] = Len(list[Hash[unit[t]]])]
        /\ UNCHANGED p_thread

Return(w, from) ==
    /\ Step(w, from, "idle")
    /\ taken' = [taken EXCEPT ![w] = NONE]
    /\ old_unit' = [old_unit EXCEPT ![w] = NONE]
    /\ p_thread' = [p_thread EXCEPT ![w] = NONE]
    /\ target' = [target EXCEPT ![w] = NONE]
    /\ new_unit' = [new_unit EXCEPT ![w] = NONE]
    /\ p_cur' = [p_cur EXCEPT ![w] = 0]
    /\ moves_left' = [moves_left EXCEPT ![w] = @ - 1]
    /\ UNCHANGED tableVars

(* p_create_unit of the user's pool.                                       *)
CreateUnit(w) ==
    \E u \in UNITID :
        /\ \A q \in USERPOOL : <<q, u>> \notin units
        /\ Step(w, "create", "map")
        /\ units' = units \cup {<<target[w], u>>}
        /\ new_unit' = [new_unit EXCEPT ![w] = u]
        /\ UNCHANGED <<tableVars, threadVars, p_thread, p_cur, localVars>>

(* It may return ABT_UNIT_NULL.                                            *)
CreateUnitFails(w) == Return(w, "create") /\ UNCHANGED <<threadVars, units>>

(* p_free_unit of the new pool, after a map that failed.                   *)
FreeNewUnit(w) ==
    /\ Return(w, "free_new")
    /\ units' = units \ {<<target[w], new_unit[w]>>}
    /\ UNCHANGED threadVars

(* Mutant of FreeUnit: the new pool is asked to free the unit of the old.  *)
FreeUnitOfTarget(w) ==
    /\ Step(w, "free_unit", "assign")
    /\ units' = units \ {<<target[w], old_unit[w]>>}
    /\ UNCHANGED <<tableVars, threadVars, p_thread, new_unit, p_cur, localVars>>

(* p_free_unit of the pool the thread comes from.                          *)
FreeUnit(w) ==
    /\ Step(w, "free_unit", "assign")
    /\ units' = units \ {<<pool[p_thread[w]], old_unit[w]>>}
    /\ UNCHANGED <<tableVars, threadVars, p_thread, new_unit, p_cur, localVars>>

Assign(w) ==
    /\ unit' = [unit EXCEPT ![p_thread[w]] = new_unit[w]]
    /\ pool' = [pool EXCEPT ![p_thread[w]] = target[w]]
    /\ Return(w, "assign")
    /\ UNCHANGED units

-----------------------------------------------------------------------------
(* unit.c.  The lock of an index is taken and released in the same step,   *)
(* unless unlocked readers can see what is written under it in two.        *)

(* One element of unit_get_thread_from_user_defined_unit, without the lock.*)
GetThread(w) ==
    LET elem == list[Hash[old_unit[w]]][p_cur[w]]
    IN  /\ worker_at[w] = "get" /\ p_cur[w] > 0
        /\ IF elem.unit = old_unit[w]
           THEN /\ Step(w, "get", Begin(elem.p_thread, target[w]))
                /\ p_thread' = [p_thread EXCEPT ![w] = elem.p_thread]
                /\ UNCHANGED p_cur
           ELSE /\ p_cur' = [p_cur EXCEPT ![w] = @ - 1]
                /\ UNCHANGED <<worker_at, p_thread>>
        /\ UNCHANGED <<tableVars, threadVars, units, new_unit, localVars>>

Holding(i, u) == {n \in DOMAIN list[i] : list[i][n].unit = u}

Mapped(w) == IF old_unit[w] \in UNITID THEN "unmap" ELSE "assign"

(* unit_map_thread: the first element that is empty.                       *)
MapReuse(w) ==
    LET i == Hash[new_unit[w]]  n == Max(Holding(i, NONE))
    IN  /\ Step(w, "map", "map_thread")
        /\ ~unit_lock[i] /\ Holding(i, NONE) # {}
        /\ unit_lock' = [unit_lock EXCEPT ![i] = TRUE]
        /\ list' = [list EXCEPT ![i][n].unit = new_unit[w]]
        /\ p_cur' = [p_cur EXCEPT ![w] = n]
        /\ UNCHANGED <<threadVars, units, p_thread, new_unit, localVars>>

(* Mutant of MapThread: the element keeps the thread it had.               *)
MapThreadStale(w) ==
    LET i == Hash[new_unit[w]]
    IN  /\ Step(w, "map_thread", Mapped(w))
        /\ unit_lock' = [unit_lock EXCEPT ![i] = FALSE]
        /\ UNCHANGED <<list, threadVars, units, p_thread, new_unit, p_cur, localVars>>

MapThread(w) ==
    LET i == Hash[new_unit[w]]
    IN  /\ Step(w, "map_thread", Mapped(w))
        /\ list' = [list EXCEPT ![i][p_cur[w]].p_thread = p_thread[w]]
        /\ unit_lock' = [unit_lock EXCEPT ![i] = FALSE]
        /\ UNCHANGED <<threadVars, units, p_thread, new_unit, p_cur, localVars>>

(* No element is empty: a new one is complete when it gets into the chain. *)
MapNew(w) ==
    LET i == Hash[new_unit[w]]
    IN  /\ Step(w, "map", Mapped(w))
        /\ ~unit_lock[i] /\ Holding(i, NONE) = {}
        /\ list' = [list EXCEPT ![i] =
                       Append(@, [unit |-> new_unit[w], p_thread |-> p_thread[w]])]
        /\ UNCHANGED <<unit_lock, threadVars, units, p_thread, new_unit, p_cur, localVars>>

(* malloc fails.                                                           *)
MapFails(w) ==
    /\ Step(w, "map", "free_new")
    /\ ~unit_lock[Hash[new_unit[w]]] /\ Holding(Hash[new_unit[w]], NONE) = {}
    /\ UNCHANGED <<tableVars, threadVars, units, p_thread, new_unit, p_cur, localVars>>

(* unit_unmap_thread.                                                      *)
Unmap(w) ==
    LET i == Hash[old_unit[w]]
    IN  /\ Step(w, "unmap", "free_unit")
        /\ ~unit_lock[i] /\ Holding(i, old_unit[w]) # {}
        /\ list' = [list EXCEPT ![i][Max(Holding(i, old_unit[w]))].unit = NONE]
        /\ UNCHANGED <<unit_lock, threadVars, units, p_thread, new_unit, p_cur, localVars>>

UnitMapStep(w) ==
    \/ MoveThread(w) \/ MoveUnit(w)
    \/ CreateUnit(w) \/ CreateUnitFails(w) \/ FreeNewUnit(w) \/ FreeUnit(w) \/ Assign(w)
    \/ GetThread(w) \/ MapReuse(w) \/ MapThread(w) \/ MapNew(w) \/ MapFails(w) \/ Unmap(w)

UnitMapSpec == UnitMapInit /\ [][\E w \in WORKER : UnitMapStep(w)]_unitMapVars

UnitMapDone == \A w \in WORKER : moves_left[w] = 0

-----------------------------------------------------------------------------
(* Properties.                                                             *)

(* The thread that a unit is mapped to, wherever its element is.           *)
ThreadsOf(u) == {list[Hash[u]][n].p_thread : n \in Holding(Hash[u], u)}

Resting(t) == \A w \in WORKER : taken[w] # t

(* "get() must succeed", "unmap() must succeed" (unit.c): the unit of a    *)
(* thread that rests in a user's pool is mapped to this thread, and a      *)
(* worker that looks it up finds it, however the element it is in was used *)
(* before.  When all threads rest nothing else is mapped, and the pools    *)
(* have no units but these: each was freed by the pool that created it,    *)
(* also when a move failed halfway.                                        *)
UnitsMapped ==
    /\ \A t \in TASK : Resting(t) /\ unit[t] \in UNITID =>
          ThreadsOf(unit[t]) = {t} /\ <<pool[t], unit[t]>> \in units
    /\ \A w \in WORKER :
          /\ worker_at[w] \notin {"idle", "get"} => p_thread[w] = taken[w]
          /\ worker_at[w] = "get" => p_cur[w] > 0
          /\ worker_at[w] = "unmap" => ThreadsOf(old_unit[w]) = {taken[w]}
    /\ (\A t \in TASK : Resting(t)) =>
          /\ units = {<<pool[t], unit[t]>> : t \in {s \in TASK : unit[s] \in UNITID}}
          /\ \A u \in UNITID : ThreadsOf(u) # {} => \E t \in TASK : unit[t] = u
=============================================================================
