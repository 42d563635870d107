----------------------------- MODULE MutexProofs -----------------------------
(***************************************************************************)
(* Proofs about Mutex and Eventual, for any number of ULTs, ESs and        *)
(* external threads, about RWLock, which is made of what the mutex and the *)
(* condition variable promise, and about KeyTable.                         *)
(***************************************************************************)
EXTENDS Mutex, Eventual, RWLock, KeyTable, WaitlistProofs

-----------------------------------------------------------------------------
(* The table of the data of a work unit.                                   *)

KeyDatum == DATUM \cup SETTER \cup {UNSET}

KeyElem == KEYID \X KeyDatum

(* Points of a thread that holds the lock of the table.                    *)
TableHolder == {"again", "insert", "unlock_store", "unlock_fail", "unlock"}

KeyPoint == SetPoint \cup TableHolder \cup {"idle", "set", "walk", "target", "request"}

(* No element before the next one is of key k.                             *)
Passed(k, n) ==
    /\ n <= Len(p_elems[Index(k)])
    /\ \A m \in 1 .. n : p_elems[Index(k)][m][1] # k

AtElement(k, n) ==
    n + 1 \in DOMAIN p_elems[Index(k)] /\ p_elems[Index(k)][n + 1][1] = k

KeyTypeInv ==
    /\ p_keytable \in {"NULL", "LOCKED", "VALID", "FREED"}
    /\ p_elems \in [0 .. SIZE - 1 -> Seq(KeyElem)]
    /\ table_lock \in BOOLEAN
    /\ origin \in Origin /\ failing \in Nat
    /\ p_used_mem \in [Origin -> Nat] /\ allocated \in [Origin -> Nat]
    /\ stage \in [SETTER -> KeyPoint]
    /\ calls_left \in [SETTER -> Seq(KeyCall)]
    /\ pos \in [SETTER -> Nat]
    /\ mig_data \in [SETTER -> KeyDatum]
    /\ seen \in [SETTER -> Seq(KeyDatum)]

(* What a thread knows at its point: it is in a call, and what it has seen *)
(* of the chain stays true while others add elements and change values.    *)
SetterOK(t) ==
    /\ stage[t] # "idle" => calls_left[t] # <<>>
    /\ calls_left[t] # <<>> => p_keytable # "FREED"
    /\ stage[t] \in SetPoint \cup {"unlock", "unlock_fail"} =>
          CallIs(t, "set") \/ CallIs(t, "migrate")
    /\ stage[t] = "walk" => CallIs(t, "get") \/ CallIs(t, "migrate")
    /\ stage[t] \in {"set", "target", "request"} => CallIs(t, "migrate")
    /\ stage[t] \in {"idle", "set", "cas", "reload", "spin", "create"} => pos[t] = 0
    /\ stage[t] \in {"find", "lock", "again", "insert", "walk"} => Passed(KeyOf(t), pos[t])
    /\ stage[t] \in {"unlock_store", "store"} => AtElement(KeyOf(t), pos[t])
    /\ stage[t] = "insert" => pos[t] = Len(Chain(t))
    /\ stage[t] \in TableHolder \cup {"lock", "store", "walk"} => p_keytable = "VALID"
    /\ stage[t] = "create" => p_keytable = "LOCKED"

(* The table is created by one thread, and its chains grow by one.         *)
TableInv ==
    /\ p_keytable \in {"NULL", "LOCKED"} => \A i \in 0 .. SIZE - 1 : p_elems[i] = <<>>
    /\ \A t, u \in SETTER : stage[t] = "create" /\ stage[u] = "create" => t = u
    /\ \A t \in SETTER : stage[t] \in TableHolder => table_lock
    /\ \A t, u \in SETTER : stage[t] \in TableHolder /\ stage[u] \in TableHolder => t = u

(* A key has one element.                                                  *)
UniqueInv ==
    \A i \in 0 .. SIZE - 1 : \A m, n \in DOMAIN p_elems[i] :
        p_elems[i][m][1] = p_elems[i][n][1] => m = n

MemoryInv == p_keytable # "FREED" => p_used_mem = allocated

KeyInv ==
    /\ KeyTypeInv
    /\ \A t \in SETTER : SetterOK(t)
    /\ TableInv
    /\ UniqueInv
    /\ MemoryInv
    /\ FreedOnce

LEMMA IndexType == ASSUME NEW k \in KEYID PROVE Index(k) \in 0 .. SIZE - 1 /\ k \in Nat
<1>1. k \in Nat /\ SIZE \in Nat \ {0}
  BY KeyTableAssumption
<1>. QED  BY <1>1 DEF Index

LEMMA CallFacts ==
    ASSUME KeyTypeInv, NEW t \in SETTER, calls_left[t] # <<>>
    PROVE  /\ Head(calls_left[t]) \in KeyCall /\ Tail(calls_left[t]) \in Seq(KeyCall)
           /\ KeyOf(t) \in KEYID /\ Index(KeyOf(t)) \in 0 .. SIZE - 1
           /\ Chain(t) \in Seq(KeyElem)
           /\ SetValue(t) \in KeyDatum
           /\ CallIs(t, "set") => SetValue(t) \in DATUM \cup {UNSET}
           /\ ~CallIs(t, "set") => SetValue(t) = t
<1>1. calls_left[t] \in Seq(KeyCall)
  BY DEF KeyTypeInv
<1>2. Head(calls_left[t]) \in KeyCall /\ Tail(calls_left[t]) \in Seq(KeyCall)
  BY <1>1
<1>3. \A c \in KeyCall : c[2] \in KEYID /\ (c[1] = "set" => c[3] \in DATUM \cup {UNSET})
  BY KeyTableAssumption DEF KeyCall
<1>4. KeyOf(t) \in KEYID /\ Index(KeyOf(t)) \in 0 .. SIZE - 1
  BY <1>2, <1>3, IndexType DEF KeyOf
<1>5. Chain(t) \in Seq(KeyElem)
  BY <1>4 DEF Chain, KeyTypeInv
<1>. QED  BY <1>2, <1>3, <1>4, <1>5 DEF SetValue, CallIs, KeyDatum

(* A chain grows at its end, or gets a new value.                          *)
Added(i, e) == p_elems' = [p_elems EXCEPT ![i] = Append(@, e)]

Changed(i, n, v) == p_elems' = [p_elems EXCEPT ![i][n][2] = v]

LEMMA AddElem ==
    ASSUME KeyTypeInv, NEW i \in 0 .. SIZE - 1, NEW e \in KeyElem,
           Added(i, e)
    PROVE  /\ p_elems' \in [0 .. SIZE - 1 -> Seq(KeyElem)]
           /\ \A j \in (0 .. SIZE - 1) \ {i} : p_elems'[j] = p_elems[j]
           /\ Len(p_elems'[i]) = Len(p_elems[i]) + 1 /\ p_elems'[i][Len(p_elems[i]) + 1] = e
           /\ \A n \in 1 .. Len(p_elems[i]) : p_elems'[i][n] = p_elems[i][n]
<1>1. p_elems[i] \in Seq(KeyElem)
  BY DEF KeyTypeInv
<1>2. Append(p_elems[i], e) \in Seq(KeyElem)
  BY <1>1
<1>3. p_elems'[i] = Append(p_elems[i], e) /\ \A j \in (0 .. SIZE - 1) \ {i} : p_elems'[j] = p_elems[j]
  BY DEF KeyTypeInv, Added
<1>4. p_elems' \in [0 .. SIZE - 1 -> Seq(KeyElem)]
  BY <1>2 DEF KeyTypeInv, Added
<1>. QED  BY <1>1, <1>3, <1>4

LEMMA ChangeElem ==
    ASSUME KeyTypeInv, NEW i \in 0 .. SIZE - 1, NEW n \in DOMAIN p_elems[i], NEW v \in KeyDatum,
           Changed(i, n, v)
    PROVE  /\ p_elems' \in [0 .. SIZE - 1 -> Seq(KeyElem)]
           /\ \A j \in (0 .. SIZE - 1) \ {i} : p_elems'[j] = p_elems[j]
           /\ Len(p_elems'[i]) = Len(p_elems[i])
           /\ \A m \in DOMAIN p_elems[i] \ {n} : p_elems'[i][m] = p_elems[i][m]
           /\ p_elems'[i][n][1] = p_elems[i][n][1] /\ p_elems'[i][n][2] = v
<1>0. p_elems[i] \in Seq(KeyElem)
  BY DEF KeyTypeInv
<1>1. p_elems[i] \in Seq(KeyElem) /\ p_elems[i][n] \in KeyElem
  BY <1>0
<1>. DEFINE e == [p_elems[i][n] EXCEPT ![2] = v]
            c == [p_elems[i] EXCEPT ![n] = e]
<1>2. e = <<p_elems[i][n][1], v>> /\ e \in KeyElem
  BY <1>1 DEF KeyElem
<1>3. p_elems' = [p_elems EXCEPT ![i] = c]
  BY DEF Changed
<1>. HIDE DEF e
<1>4. /\ c \in Seq(KeyElem) /\ Len(c) = Len(p_elems[i]) /\ c[n] = e
      /\ \A m \in DOMAIN p_elems[i] \ {n} : c[m] = p_elems[i][m]
  BY <1>1, <1>2
<1>. HIDE DEF c
<1>5. p_elems'[i] = c /\ \A j \in (0 .. SIZE - 1) \ {i} : p_elems'[j] = p_elems[j]
  BY <1>3 DEF KeyTypeInv
<1>6. p_elems' \in [0 .. SIZE - 1 -> Seq(KeyElem)]
  BY <1>3, <1>4 DEF KeyTypeInv
<1>. QED  BY <1>2, <1>4, <1>5, <1>6

(* Steps that change the table, one for all their kinds.                   *)
LEMMA InsertFacts ==
    ASSUME KeyInv, NEW t \in SETTER, SetInsert(t)
    PROVE  /\ calls_left[t] # <<>> /\ p_keytable = "VALID"
           /\ <<KeyOf(t), SetValue(t)>> \in KeyElem
           /\ pos[t] = Len(Chain(t)) /\ Passed(KeyOf(t), pos[t])
           /\ Added(Index(KeyOf(t)), <<KeyOf(t), SetValue(t)>>)
<1>1. stage[t] = "insert" /\ SetterOK(t)
  BY DEF SetInsert, Enter, KeyInv
<1>2. calls_left[t] # <<>>
  BY <1>1 DEF SetterOK
<1>. QED  BY <1>1, <1>2, CallFacts DEF SetterOK, TableHolder, SetInsert, Added, KeyElem, KeyInv

LEMMA StoreFacts ==
    ASSUME KeyInv, NEW t \in SETTER, SetStore(t)
    PROVE  /\ calls_left[t] # <<>> /\ p_keytable = "VALID"
           /\ SetValue(t) \in KeyDatum
           /\ AtElement(KeyOf(t), pos[t])
           /\ Changed(Index(KeyOf(t)), pos[t] + 1, SetValue(t))
<1>1. stage[t] = "store" /\ SetterOK(t)
  BY DEF SetStore, KeyInv
<1>2. calls_left[t] # <<>>
  BY <1>1 DEF SetterOK
<1>. QED  BY <1>1, <1>2, CallFacts DEF SetterOK, SetStore, Changed, KeyInv

LEMMA ElemsStep ==
    ASSUME KeyInv, KeyNext
    PROVE  p_elems' \in [0 .. SIZE - 1 -> Seq(KeyElem)]
<1>1. CASE UNCHANGED p_elems
  BY <1>1 DEF KeyInv, KeyTypeInv
<1>2. ASSUME NEW t \in SETTER, SetInsert(t)
      PROVE  p_elems' \in [0 .. SIZE - 1 -> Seq(KeyElem)]
  <2>1. KeyTypeInv /\ Index(KeyOf(t)) \in 0 .. SIZE - 1 /\ <<KeyOf(t), SetValue(t)>> \in KeyElem
    BY <1>2, InsertFacts, CallFacts DEF KeyInv
  <2>2. Added(Index(KeyOf(t)), <<KeyOf(t), SetValue(t)>>)
    BY <1>2, InsertFacts
  <2>. QED  BY <2>1, <2>2, AddElem
<1>3. ASSUME NEW t \in SETTER, SetStore(t)
      PROVE  p_elems' \in [0 .. SIZE - 1 -> Seq(KeyElem)]
  <2>1. /\ KeyTypeInv /\ Index(KeyOf(t)) \in 0 .. SIZE - 1 /\ SetValue(t) \in KeyDatum
        /\ pos[t] + 1 \in DOMAIN p_elems[Index(KeyOf(t))]
    BY <1>3, StoreFacts, CallFacts DEF KeyInv, AtElement
  <2>2. Changed(Index(KeyOf(t)), pos[t] + 1, SetValue(t))
    BY <1>3, StoreFacts
  <2>. QED  BY <2>1, <2>2, ChangeElem
<1>. QED  BY <1>1, <1>2, <1>3 DEF KeyNext, KeyStep, SetLoad, SetCas, SetReload, SetSpin,
       TableCreate, TableCreateFails, SetFind, SetLock, LookAgain, SetUnlock,
       SetInsertFails, GetLoad, GetWalk, MigrationTarget, MigrationRequest, TableFree,
       tableVars

(* What a get finds, wherever it ends.                                     *)
LEMMA GetStep ==
    ASSUME KeyInv, NEW t \in SETTER, GetLoad(t) \/ GetWalk(t)
    PROVE  /\ calls_left[t] # <<>> /\ (CallIs(t, "get") \/ CallIs(t, "migrate"))
           /\ \/ stage[t] = "idle" /\ Enter(t, "idle", "walk") /\ p_keytable = "VALID"
                    /\ UNCHANGED <<calls_left, pos, mig_data, seen>>
              \/ stage[t] = "idle" /\ p_keytable # "VALID" /\ GetResult(t, UNSET)
              \/ stage[t] = "walk" /\ FoundNext(t) /\ GetResult(t, Chain(t)[pos[t] + 1][2])
              \/ stage[t] = "walk" /\ ~FoundNext(t) /\ pos[t] = Len(Chain(t)) /\ GetResult(t, UNSET)
              \/ stage[t] = "walk" /\ ~FoundNext(t) /\ pos[t] # Len(Chain(t))
                    /\ pos' = [pos EXCEPT ![t] = @ + 1]
                    /\ UNCHANGED <<stage, calls_left, mig_data, seen>>
           /\ UNCHANGED <<tableVars, memoryVars, migrationVars>>
BY DEF KeyInv, SetterOK, GetLoad, GetWalk, CallIs

LEMMA FoundDatum ==
    ASSUME KeyInv, NEW t \in SETTER, calls_left[t] # <<>>, FoundNext(t)
    PROVE  /\ Chain(t)[pos[t] + 1][2] \in KeyDatum /\ pos[t] + 1 \in 1 .. Len(Chain(t))
           /\ Chain(t)[pos[t] + 1][1] = KeyOf(t)
<1>1. Chain(t) \in Seq(KeyElem) /\ pos[t] + 1 \in 1 .. Len(Chain(t))
  BY CallFacts DEF KeyInv, KeyTypeInv, FoundNext
<1>2. Chain(t)[pos[t] + 1] \in KeyElem
  BY <1>1
<1>. QED  BY <1>1, <1>2 DEF KeyElem, FoundNext

LEMMA KeyTypeStep ==
    ASSUME KeyInv, KeyNext
    PROVE  KeyTypeInv'
<1>. DEFINE Local == /\ stage' \in [SETTER -> KeyPoint]
                     /\ calls_left' \in [SETTER -> Seq(KeyCall)]
                     /\ pos' \in [SETTER -> Nat]
                     /\ mig_data' \in [SETTER -> KeyDatum]
                     /\ seen' \in [SETTER -> Seq(KeyDatum)]
            Table == /\ p_keytable' \in {"NULL", "LOCKED", "VALID", "FREED"}
                     /\ table_lock' \in BOOLEAN
            Memory == /\ origin' \in Origin /\ failing' \in Nat
                      /\ p_used_mem' \in [Origin -> Nat] /\ allocated' \in [Origin -> Nat]
<1>. USE DEF KeyPoint, SetPoint, TableHolder
<1>1. KeyTypeInv /\ \A t \in SETTER : SetterOK(t) /\ TableInv
  BY DEF KeyInv
<1>2. ASSUME NEW t \in SETTER, KeyStep(t) PROVE calls_left[t] # <<>>
  BY <1>1, <1>2 DEF SetterOK, CallIs, KeyStep, SetLoad, SetCas, SetReload, SetSpin,
       TableCreate, TableCreateFails, SetFind, SetLock, LookAgain, SetUnlock, SetStore,
       SetInsert, SetInsertFails, GetLoad, GetWalk, MigrationTarget, MigrationRequest,
       Enter
<1>3. ASSUME NEW t \in SETTER, NEW v \in KeyDatum, GetResult(t, v), calls_left[t] # <<>>
      PROVE  Local
  <2>1. Tail(calls_left[t]) \in Seq(KeyCall)
    BY <1>1, <1>3, CallFacts
  <2>2. CASE CallIs(t, "get") /\ seen' = [seen EXCEPT ![t] = Append(@, v)] /\ EndKeyCall(t)
    BY <1>1, <1>3, <2>1, <2>2 DEF EndKeyCall, KeyTypeInv
  <2>3. CASE ~(CallIs(t, "get") /\ seen' = [seen EXCEPT ![t] = Append(@, v)] /\ EndKeyCall(t))
    <3>1. /\ \E w \in KeyDatum : mig_data' = [mig_data EXCEPT ![t] = w]
          /\ \E l \in {"set", "target"} : stage' = [stage EXCEPT ![t] = l]
          /\ pos' = [pos EXCEPT ![t] = 0]
          /\ UNCHANGED <<calls_left, seen>>
      BY <1>3, <2>3 DEF GetResult, KeyDatum
    <3>. QED  BY <1>1, <3>1 DEF KeyTypeInv
  <2>. QED  BY <2>2, <2>3
<1>4. ASSUME NEW t \in SETTER, GetLoad(t) \/ GetWalk(t) PROVE Local
  <2>1. calls_left[t] # <<>>
    BY <1>4, GetStep
  <2>2. ASSUME FoundNext(t) PROVE Chain(t)[pos[t] + 1][2] \in KeyDatum
    BY <2>1, <2>2, FoundDatum
  <2>3. UNSET \in KeyDatum
    BY DEF KeyDatum
  <2>4. CASE \E v \in KeyDatum : GetResult(t, v)
    BY <1>3, <2>1, <2>4
  <2>5. CASE /\ UNCHANGED <<calls_left, mig_data, seen>>
             /\ \/ Enter(t, "idle", "walk") /\ UNCHANGED pos
                \/ pos' = [pos EXCEPT ![t] = @ + 1] /\ UNCHANGED stage
    <3>1. CASE Enter(t, "idle", "walk") /\ UNCHANGED pos
      BY <1>1, <2>5, <3>1 DEF KeyTypeInv, Enter
    <3>2. CASE pos' = [pos EXCEPT ![t] = @ + 1] /\ UNCHANGED stage
      BY <1>1, <2>5, <3>2 DEF KeyTypeInv
    <3>. QED  BY <2>5, <3>1, <3>2
  <2>. HIDE DEF Local
  <2>. QED  BY <1>4, <2>2, <2>3, <2>4, <2>5, GetStep
<1>5. ASSUME NEW t \in SETTER,
             SetLoad(t) \/ SetCas(t) \/ SetReload(t) \/ SetSpin(t) \/ TableCreate(t)
                \/ SetLock(t) \/ SetInsert(t) \/ SetInsertFails(t) \/ MigrationTarget(t)
      PROVE  Local
  <2>1. UNCHANGED <<calls_left, pos, mig_data, seen>>
    BY <1>5 DEF SetLoad, SetCas, SetReload, SetSpin, TableCreate, SetLock, SetInsert,
                SetInsertFails, MigrationTarget
  <2>2. \E l \in KeyPoint : stage' = [stage EXCEPT ![t] = l]
    BY <1>1, <1>5 DEF SetLoad, SetCas, SetReload, SetSpin, TableCreate, SetLock, SetInsert,
                SetInsertFails, MigrationTarget, Enter, KeyTypeInv, SetterOK
  <2>. QED  BY <1>1, <2>1, <2>2 DEF KeyTypeInv
<1>6. ASSUME NEW t \in SETTER, EndKeyCall(t), UNCHANGED seen, calls_left[t] # <<>> PROVE Local
  BY <1>1, <1>6, CallFacts DEF EndKeyCall, KeyTypeInv
<1>7. ASSUME NEW t \in SETTER, TableCreateFails(t) \/ MigrationRequest(t) PROVE Local
  <2>1. EndKeyCall(t) /\ UNCHANGED seen /\ KeyStep(t)
    BY <1>7 DEF TableCreateFails, MigrationRequest, KeyStep
  <2>. QED  BY <1>2, <1>6, <2>1
<1>8. ASSUME NEW t \in SETTER, SetUnlock(t) \/ SetStore(t) PROVE Local
  <2>1. CASE EndKeyCall(t)
    BY <1>2, <1>6, <1>8, <2>1 DEF KeyStep, SetUnlock, SetStore
  <2>2. CASE ~EndKeyCall(t)
    BY <1>1, <1>8, <2>2 DEF SetUnlock, SetStore, Enter, KeyTypeInv
  <2>. QED  BY <2>1, <2>2
<1>9. ASSUME NEW t \in SETTER, SetFind(t) \/ LookAgain(t) PROVE Local
  <2>1. Len(Chain(t)) \in Nat /\ pos[t] \in Nat
    BY <1>1, <1>2, <1>9, CallFacts DEF KeyStep, KeyTypeInv
  <2>2. Min({pos[t] + 1, Len(Chain(t))}) \in Nat
    BY <2>1 DEF Min
  <2>3. \E n \in Nat : pos' = [pos EXCEPT ![t] = n]
    BY <1>9, <2>1, <2>2 DEF SetFind, LookAgain
  <2>4. \E l \in KeyPoint : stage' = [stage EXCEPT ![t] = l]
    BY <1>9 DEF SetFind, LookAgain, Enter
  <2>5. UNCHANGED <<calls_left, mig_data, seen>>
    BY <1>9 DEF SetFind, LookAgain
  <2>. QED  BY <1>1, <2>3, <2>4, <2>5 DEF KeyTypeInv
<1>10. Local
  <2>1. CASE TableFree
    BY <1>1, <2>1 DEF TableFree, setterVars, KeyTypeInv
  <2>. HIDE DEF Local
  <2>. QED  BY <1>4, <1>5, <1>7, <1>8, <1>9, <2>1 DEF KeyNext, KeyStep
<1>11. Table
  <2>1. ASSUME NEW t \in SETTER, SetLoad(t) \/ SetCas(t) \/ SetReload(t) \/ SetSpin(t) PROVE Table
    BY <1>1, <2>1 DEF SetLoad, SetCas, SetReload, SetSpin, tableVars, KeyTypeInv
  <2>2. ASSUME NEW t \in SETTER, TableCreate(t) \/ TableCreateFails(t) PROVE Table
    BY <1>1, <2>2 DEF TableCreate, TableCreateFails, KeyTypeInv
  <2>3. ASSUME NEW t \in SETTER, SetFind(t) \/ SetLock(t) \/ LookAgain(t) \/ SetUnlock(t)
        PROVE  Table
    BY <1>1, <2>3 DEF SetFind, SetLock, LookAgain, SetUnlock, tableVars, KeyTypeInv
  <2>4. ASSUME NEW t \in SETTER, SetStore(t) \/ SetInsert(t) \/ SetInsertFails(t) PROVE Table
    BY <1>1, <2>4 DEF SetStore, SetInsert, SetInsertFails, tableVars, KeyTypeInv
  <2>5. ASSUME NEW t \in SETTER,
               GetLoad(t) \/ GetWalk(t) \/ MigrationTarget(t) \/ MigrationRequest(t)
        PROVE  Table
    BY <1>1, <2>5 DEF GetLoad, GetWalk, MigrationTarget, MigrationRequest, tableVars, KeyTypeInv
  <2>6. TableFree => Table
    BY <1>1 DEF TableFree, KeyTypeInv
  <2>. HIDE DEF Table
  <2>. QED  BY <2>1, <2>2, <2>3, <2>4, <2>5, <2>6 DEF KeyNext, KeyStep
<1>12. Memory
  <2>1. CASE UNCHANGED memoryVars
    BY <1>1, <2>1 DEF memoryVars, KeyTypeInv
  <2>2. ASSUME NEW o \in Origin, NEW room, Allocate(o, room), UNCHANGED <<origin, failing>>
        PROVE  Memory
    BY <1>1, <2>2 DEF Allocate, KeyTypeInv
  <2>3. ASSUME AllocElem, UNCHANGED <<origin, failing>> PROVE Memory
    <3>1. CASE UNCHANGED <<p_used_mem, allocated>>
      BY <1>1, <2>3, <3>1 DEF KeyTypeInv
    <3>2. CASE Allocate("mempool", PERDESC - 1)
      BY <2>2, <2>3, <3>2 DEF Origin
    <3>. QED  BY <2>3, <3>1, <3>2 DEF AllocElem
  <2>4. ASSUME failing > 0, failing' = failing - 1, UNCHANGED <<p_used_mem, origin, allocated>>
        PROVE  Memory
    BY <1>1, <2>4 DEF KeyTypeInv
  <2>5. CASE TableFree
    <3>1. p_used_mem = allocated
      BY <2>5 DEF TableFree, KeyInv, MemoryInv
    <3>. QED  BY <1>1, <2>5, <3>1 DEF TableFree, KeyTypeInv
  <2>6. ASSUME NEW t \in SETTER, TableCreate(t) PROVE Memory
    BY <1>1, <2>2, <2>6 DEF TableCreate, KeyTypeInv
  <2>7. ASSUME NEW t \in SETTER, SetInsert(t) PROVE Memory
    BY <2>3, <2>7 DEF SetInsert
  <2>8. ASSUME NEW t \in SETTER, TableCreateFails(t) \/ SetInsertFails(t) PROVE Memory
    BY <2>4, <2>8 DEF TableCreateFails, SetInsertFails
  <2>. HIDE DEF Memory
  <2>. QED  BY <2>1, <2>5, <2>6, <2>7, <2>8
       DEF KeyNext, KeyStep, SetLoad, SetCas, SetReload, SetSpin, SetFind, SetLock,
           LookAgain, SetUnlock, SetStore, GetLoad, GetWalk, MigrationTarget,
           MigrationRequest, memoryVars
<1>. QED  BY <1>10, <1>11, <1>12, ElemsStep DEF KeyTypeInv

(* Elements keep their place and their key.                                *)
Grows ==
    \A i \in 0 .. SIZE - 1 :
        /\ Len(p_elems[i]) <= Len(p_elems'[i])
        /\ \A n \in 1 .. Len(p_elems[i]) : p_elems'[i][n][1] = p_elems[i][n][1]

SameLength == \A i \in 0 .. SIZE - 1 : Len(p_elems'[i]) = Len(p_elems[i])

LEMMA StepGrows ==
    ASSUME KeyInv, KeyNext
    PROVE  Grows /\ (SameLength \/ \E t \in SETTER : SetInsert(t))
<1>0. \A i \in 0 .. SIZE - 1 : Len(p_elems[i]) \in Nat
  BY DEF KeyInv, KeyTypeInv
<1>1. CASE UNCHANGED p_elems
  BY <1>0, <1>1 DEF Grows, SameLength
<1>2. ASSUME NEW t \in SETTER, SetInsert(t)
      PROVE  Grows
  <2>1. KeyTypeInv /\ Index(KeyOf(t)) \in 0 .. SIZE - 1 /\ <<KeyOf(t), SetValue(t)>> \in KeyElem
    BY <1>2, InsertFacts, CallFacts DEF KeyInv
  <2>2. Added(Index(KeyOf(t)), <<KeyOf(t), SetValue(t)>>)
    BY <1>2, InsertFacts
  <2>3. PICK i \in 0 .. SIZE - 1 :
           /\ \A j \in (0 .. SIZE - 1) \ {i} : p_elems'[j] = p_elems[j]
           /\ Len(p_elems'[i]) = Len(p_elems[i]) + 1
           /\ \A n \in 1 .. Len(p_elems[i]) : p_elems'[i][n] = p_elems[i][n]
    <3>1. PICK i \in 0 .. SIZE - 1 : i = Index(KeyOf(t))
      BY <2>1
    <3>3. PICK e \in KeyElem : e = <<KeyOf(t), SetValue(t)>>
      BY <2>1
    <3>2. Added(i, e)
      BY <2>2, <3>1, <3>3
    <3>4. /\ \A j \in (0 .. SIZE - 1) \ {i} : p_elems'[j] = p_elems[j]
          /\ Len(p_elems'[i]) = Len(p_elems[i]) + 1
          /\ \A n \in 1 .. Len(p_elems[i]) : p_elems'[i][n] = p_elems[i][n]
      BY <2>1, <3>2, <3>3, AddElem
    <3>. QED  BY <3>4
  <2>4. ASSUME NEW j \in 0 .. SIZE - 1
        PROVE  /\ Len(p_elems[j]) <= Len(p_elems'[j])
               /\ \A n \in 1 .. Len(p_elems[j]) : p_elems'[j][n][1] = p_elems[j][n][1]
    <3>1. CASE i = j
      BY <1>0, <2>3, <3>1
    <3>2. CASE i # j
      BY <1>0, <2>3, <3>2
    <3>. QED  BY <3>1, <3>2
  <2>. QED  BY <2>4 DEF Grows
<1>3. ASSUME NEW t \in SETTER, SetStore(t)
      PROVE  Grows /\ SameLength
  <2>1. /\ KeyTypeInv /\ Index(KeyOf(t)) \in 0 .. SIZE - 1 /\ SetValue(t) \in KeyDatum
        /\ pos[t] + 1 \in DOMAIN p_elems[Index(KeyOf(t))]
    BY <1>3, StoreFacts, CallFacts DEF KeyInv, AtElement
  <2>2. Changed(Index(KeyOf(t)), pos[t] + 1, SetValue(t))
    BY <1>3, StoreFacts
  <2>3. PICK i \in 0 .. SIZE - 1, n \in Nat :
           /\ n \in DOMAIN p_elems[i]
           /\ \A j \in (0 .. SIZE - 1) \ {i} : p_elems'[j] = p_elems[j]
           /\ Len(p_elems'[i]) = Len(p_elems[i])
           /\ \A m \in DOMAIN p_elems[i] \ {n} : p_elems'[i][m] = p_elems[i][m]
           /\ p_elems'[i][n][1] = p_elems[i][n][1] /\ p_elems'[i][n][2] = SetValue(t)
    <3>1. PICK i \in 0 .. SIZE - 1, n \in Nat : /\ i = Index(KeyOf(t)) /\ n = pos[t] + 1
                                              /\ n \in DOMAIN p_elems[i]
      BY <2>1 DEF KeyTypeInv
    <3>3. PICK v \in KeyDatum : v = SetValue(t)
      BY <2>1
    <3>2. Changed(i, n, v)
      BY <2>2, <3>1, <3>3
    <3>4. /\ \A j \in (0 .. SIZE - 1) \ {i} : p_elems'[j] = p_elems[j]
          /\ Len(p_elems'[i]) = Len(p_elems[i])
          /\ \A m \in DOMAIN p_elems[i] \ {n} : p_elems'[i][m] = p_elems[i][m]
          /\ p_elems'[i][n][1] = p_elems[i][n][1] /\ p_elems'[i][n][2] = v
      BY <2>1, <3>1, <3>2, ChangeElem
    <3>. QED  BY <3>1, <3>3, <3>4
  <2>4. ASSUME NEW j \in 0 .. SIZE - 1
        PROVE  /\ Len(p_elems[j]) = Len(p_elems'[j])
               /\ \A m \in 1 .. Len(p_elems[j]) : p_elems'[j][m][1] = p_elems[j][m][1]
    <3>1. CASE i = j
      <4>1. ASSUME NEW m \in 1 .. Len(p_elems[j]) PROVE p_elems'[j][m][1] = p_elems[j][m][1]
        <5>1. m \in DOMAIN p_elems[i]
          BY <3>1, <4>1 DEF KeyInv, KeyTypeInv
        <5>. QED  BY <2>3, <3>1, <5>1
      <4>. QED  BY <2>3, <3>1, <4>1
    <3>2. CASE i # j
      BY <2>3, <3>2
    <3>. QED  BY <3>1, <3>2
  <2>. QED  BY <1>0, <2>4 DEF Grows, SameLength
<1>. QED  BY <1>1, <1>2, <1>3 DEF KeyNext, KeyStep, SetLoad, SetCas, SetReload, SetSpin,
       TableCreate, TableCreateFails, SetFind, SetLock, LookAgain, SetUnlock,
       SetInsertFails, GetLoad, GetWalk, MigrationTarget, MigrationRequest, TableFree,
       tableVars

LEMMA PassedGrows ==
    ASSUME KeyTypeInv, KeyTypeInv', Grows, NEW k \in KEYID, NEW n \in Nat
    PROVE  /\ Passed(k, n) => Passed(k, n)'
           /\ AtElement(k, n) => AtElement(k, n)'
<1>1. /\ Index(k) \in 0 .. SIZE - 1 /\ Len(p_elems[Index(k)]) \in Nat
      /\ Len(p_elems'[Index(k)]) \in Nat
      /\ DOMAIN p_elems[Index(k)] = 1 .. Len(p_elems[Index(k)])
      /\ DOMAIN p_elems'[Index(k)] = 1 .. Len(p_elems'[Index(k)])
  BY IndexType DEF KeyTypeInv
<1>2. /\ Len(p_elems[Index(k)]) <= Len(p_elems'[Index(k)])
      /\ \A m \in 1 .. Len(p_elems[Index(k)]) : p_elems'[Index(k)][m][1] = p_elems[Index(k)][m][1]
  BY <1>1 DEF Grows
<1>. QED  BY <1>1, <1>2 DEF Passed, AtElement, Index

(* Who does not step keeps what it knows.                                  *)
LEMMA OtherSetter ==
    ASSUME KeyInv, KeyTypeInv', KeyNext, NEW u \in SETTER,
           stage'[u] = stage[u], pos'[u] = pos[u], calls_left'[u] = calls_left[u],
           SameLength \/ stage[u] # "insert",
           calls_left[u] # <<>> => p_keytable' # "FREED",
           p_keytable = "VALID" => p_keytable' = "VALID" \/ stage[u] = "idle",
           stage[u] = "create" => p_keytable' = p_keytable
    PROVE  SetterOK(u)'
<1>1. SetterOK(u) /\ KeyTypeInv /\ Grows
  BY StepGrows DEF KeyInv
<1>2. /\ \A n : CallIs(u, n)' <=> CallIs(u, n)
      /\ KeyOf(u)' = KeyOf(u) /\ (Chain(u) = p_elems[Index(KeyOf(u))])
      /\ Chain(u)' = p_elems'[Index(KeyOf(u))]
  BY DEF CallIs, KeyOf, Chain, Index
<1>3. CASE calls_left[u] = <<>>
  <2>1. stage[u] = "idle"
    BY <1>1, <1>3 DEF SetterOK
  <2>. QED  BY <1>1, <2>1 DEF SetterOK, SetPoint, TableHolder
<1>4. CASE calls_left[u] # <<>>
  <2>1. KeyOf(u) \in KEYID /\ Index(KeyOf(u)) \in 0 .. SIZE - 1 /\ pos[u] \in Nat
    BY <1>1, <1>4, CallFacts DEF KeyTypeInv
  <2>2. /\ Passed(KeyOf(u), pos[u]) => Passed(KeyOf(u), pos[u])'
        /\ AtElement(KeyOf(u), pos[u]) => AtElement(KeyOf(u), pos[u])'
    <3>1. \A k \in KEYID, n \in Nat : /\ Passed(k, n) => Passed(k, n)'
                                      /\ AtElement(k, n) => AtElement(k, n)'
      BY <1>1, PassedGrows
    <3>2. PICK k \in KEYID, n \in Nat : k = KeyOf(u) /\ n = pos[u]
      BY <2>1
    <3>3. /\ Passed(KeyOf(u), pos[u])' <=> Passed(k, n)'
          /\ AtElement(KeyOf(u), pos[u])' <=> AtElement(k, n)'
      BY <1>2, <3>2 DEF Passed, AtElement, Index
    <3>. QED  BY <3>1, <3>2, <3>3
  <2>3. stage[u] = "insert" => Len(Chain(u)') = Len(Chain(u))
    BY <1>2, <2>1 DEF SameLength
  <2>. QED  BY <1>1, <1>2, <1>4, <2>2, <2>3 DEF SetterOK, SetPoint, TableHolder
<1>. QED  BY <1>3, <1>4

LEMMA CallInStep ==
    ASSUME KeyInv, NEW t \in SETTER, KeyStep(t)
    PROVE  calls_left[t] # <<>> /\ p_keytable # "FREED"
<1>1. SetterOK(t)
  BY DEF KeyInv
<1>. QED
  BY <1>1 DEF SetterOK, CallIs, KeyStep, SetLoad, SetCas, SetReload, SetSpin,
       TableCreate, TableCreateFails, SetFind, SetLock, LookAgain, SetUnlock, SetStore,
       SetInsert, SetInsertFails, GetLoad, GetWalk, MigrationTarget, MigrationRequest,
       Enter, SetPoint, TableHolder

(* A step of t changes nothing local to others, and the state of the table *)
(* in four ways.                                                           *)
LEMMA KeyLocalStep ==
    ASSUME KeyInv, NEW t \in SETTER, KeyStep(t)
    PROVE  /\ \A u \in SETTER \ {t} : /\ stage'[u] = stage[u] /\ pos'[u] = pos[u]
                                      /\ calls_left'[u] = calls_left[u]
           /\ \/ UNCHANGED p_keytable
              \/ p_keytable = "NULL" /\ p_keytable' = "LOCKED" /\ stage'[t] = "create"
              \/ p_keytable' \in {"NULL", "VALID"} /\ stage[t] = "create"
                    /\ stage'[t] # "create"
<1>1. KeyTypeInv /\ calls_left[t] # <<>>
  BY CallInStep DEF KeyInv
<1>2. CASE GetLoad(t) \/ GetWalk(t)
  <2>1. UNCHANGED p_keytable
    BY <1>2, GetStep DEF tableVars
  <2>2. \/ EndKeyCall(t)
        \/ /\ UNCHANGED calls_left
           /\ pos' = [pos EXCEPT ![t] = 0] \/ pos' = [pos EXCEPT ![t] = @ + 1] \/ UNCHANGED pos
           /\ (\E l : stage' = [stage EXCEPT ![t] = l]) \/ UNCHANGED stage
    <3>1. ASSUME NEW v, GetResult(t, v), ~EndKeyCall(t)
          PROVE  /\ UNCHANGED calls_left /\ pos' = [pos EXCEPT ![t] = 0]
                 /\ \E l : stage' = [stage EXCEPT ![t] = l]
      BY <3>1 DEF GetResult
    <3>2. CASE \E v : GetResult(t, v)
      BY <3>1, <3>2
    <3>3. CASE Enter(t, "idle", "walk") /\ UNCHANGED <<calls_left, pos, mig_data, seen>>
      BY <3>3 DEF Enter
    <3>4. CASE pos' = [pos EXCEPT ![t] = @ + 1] /\ UNCHANGED <<stage, calls_left, mig_data, seen>>
      BY <3>4
    <3>. QED  BY <1>2, <3>2, <3>3, <3>4, GetStep
  <2>3. CASE EndKeyCall(t)
    BY <1>1, <2>1, <2>3 DEF EndKeyCall, KeyTypeInv
  <2>. QED  BY <1>1, <2>1, <2>2, <2>3 DEF KeyTypeInv
<1>3. CASE SetLoad(t) \/ SetCas(t) \/ SetReload(t) \/ SetSpin(t) \/ TableCreate(t)
              \/ TableCreateFails(t)
  BY <1>1, <1>3 DEF SetLoad, SetCas, SetReload, SetSpin, TableCreate, TableCreateFails,
                    EndKeyCall, Enter, tableVars, KeyTypeInv
<1>4. CASE SetFind(t) \/ SetLock(t) \/ LookAgain(t) \/ SetInsert(t) \/ SetInsertFails(t)
  BY <1>1, <1>4 DEF SetFind, SetLock, LookAgain, SetInsert, SetInsertFails,
                    EndKeyCall, Enter, tableVars, KeyTypeInv
<1>5. CASE SetUnlock(t) \/ SetStore(t)
  BY <1>1, <1>5 DEF SetUnlock, SetStore, EndKeyCall, Enter, tableVars, KeyTypeInv
<1>6. CASE MigrationTarget(t) \/ MigrationRequest(t)
  BY <1>1, <1>6 DEF MigrationTarget, MigrationRequest, EndKeyCall, Enter, tableVars,
                    KeyTypeInv
<1>. QED  BY <1>2, <1>3, <1>4, <1>5, <1>6 DEF KeyStep

LEMMA OthersKeep ==
    ASSUME KeyInv, KeyTypeInv', NEW t \in SETTER, KeyStep(t), NEW u \in SETTER \ {t}
    PROVE  SetterOK(u)'
<1>1. KeyNext
  BY DEF KeyNext
<1>2. /\ stage'[u] = stage[u] /\ pos'[u] = pos[u] /\ calls_left'[u] = calls_left[u]
      /\ \/ UNCHANGED p_keytable
         \/ p_keytable = "NULL" /\ p_keytable' = "LOCKED" /\ stage'[t] = "create"
         \/ p_keytable' \in {"NULL", "VALID"} /\ stage[t] = "create"
  BY KeyLocalStep
<1>3. SetterOK(u) /\ SetterOK(t) /\ TableInv /\ calls_left[t] # <<>> /\ p_keytable # "FREED"
  BY CallInStep DEF KeyInv
<1>4. SameLength \/ stage[u] # "insert"
  <2>1. ASSUME NEW v \in SETTER, SetInsert(v), stage[u] = "insert" PROVE FALSE
    <3>1. stage[v] = "insert" /\ stage'[v] = "unlock"
      BY <2>1 DEF SetInsert, Enter, KeyInv, KeyTypeInv
    <3>2. u = v
      BY <1>3, <2>1, <3>1 DEF TableInv, TableHolder
    <3>. QED  BY <1>2, <2>1, <3>1, <3>2
  <2>. QED  BY <1>1, <2>1, StepGrows
<1>5. /\ p_keytable' # "FREED"
      /\ p_keytable = "VALID" => p_keytable' = "VALID"
      /\ stage[u] = "create" => p_keytable' = p_keytable
  BY <1>2, <1>3 DEF SetterOK, TableInv
<1>. QED  BY <1>1, <1>2, <1>4, <1>5, OtherSetter

LEMMA EndedCall ==
    ASSUME KeyTypeInv, NEW t \in SETTER, EndKeyCall(t), p_keytable' # "FREED"
    PROVE  SetterOK(t)' /\ stage'[t] = "idle"
<1>1. stage'[t] = "idle" /\ pos'[t] = 0
  BY DEF EndKeyCall, KeyTypeInv
<1>. QED  BY <1>1 DEF SetterOK, SetPoint, TableHolder

(* The walk goes on behind an element of another key.                      *)
LEMMA WalksOn ==
    ASSUME KeyTypeInv, NEW t \in SETTER, calls_left[t] # <<>>,
           Passed(KeyOf(t), pos[t]), ~FoundNext(t)
    PROVE  /\ pos[t] < Len(Chain(t)) => Passed(KeyOf(t), pos[t] + 1)
           /\ Min({pos[t] + 1, Len(Chain(t))}) \in Nat
           /\ Passed(KeyOf(t), Min({pos[t] + 1, Len(Chain(t))}))
           /\ pos[t] >= Len(Chain(t)) => Min({pos[t] + 1, Len(Chain(t))}) = Len(Chain(t))
<1>1. Chain(t) \in Seq(KeyElem) /\ pos[t] \in Nat /\ Len(Chain(t)) \in Nat /\ pos[t] <= Len(Chain(t))
  BY CallFacts DEF KeyTypeInv, Passed, Chain
<1>2. ASSUME pos[t] < Len(Chain(t))
      PROVE  Passed(KeyOf(t), pos[t] + 1) /\ Min({pos[t] + 1, Len(Chain(t))}) = pos[t] + 1
  <2>1. Chain(t)[pos[t] + 1][1] # KeyOf(t)
    BY <1>2 DEF FoundNext
  <2>2. Passed(KeyOf(t), pos[t] + 1)
    BY <1>1, <1>2, <2>1 DEF Passed, Chain
  <2>. QED  BY <1>1, <1>2, <2>2 DEF Min
<1>3. ASSUME pos[t] >= Len(Chain(t)) PROVE Min({pos[t] + 1, Len(Chain(t))}) = Len(Chain(t)) /\ pos[t] = Len(Chain(t))
  BY <1>1, <1>3 DEF Min
<1>. QED  BY <1>1, <1>2, <1>3

LEMMA FoundIt ==
    ASSUME KeyInv, NEW t \in SETTER, calls_left[t] # <<>>, FoundNext(t)
    PROVE  AtElement(KeyOf(t), pos[t])
<1>1. Chain(t) \in Seq(KeyElem) /\ pos[t] + 1 \in 1 .. Len(Chain(t))
  BY FoundDatum, CallFacts DEF KeyInv
<1>. QED  BY <1>1 DEF AtElement, Chain, FoundNext

LEMMA SameCall ==
    ASSUME NEW t \in SETTER, calls_left'[t] = calls_left[t]
    PROVE  /\ KeyOf(t)' = KeyOf(t)
           /\ \A n : CallIs(t, n)' <=> CallIs(t, n)
           /\ UNCHANGED p_elems =>
                 /\ Chain(t)' = Chain(t)
                 /\ Passed(KeyOf(t), pos[t])' <=> Passed(KeyOf(t), pos'[t])
                 /\ AtElement(KeyOf(t), pos[t])' <=> AtElement(KeyOf(t), pos'[t])
BY DEF KeyOf, CallIs, Chain, Index, Passed, AtElement

LEMMA OwnStep ==
    ASSUME KeyInv, KeyTypeInv', NEW t \in SETTER, KeyStep(t)
    PROVE  SetterOK(t)'
<1>. USE DEF SetPoint, TableHolder
<1>1. /\ KeyTypeInv /\ SetterOK(t) /\ TableInv /\ calls_left[t] # <<>> /\ p_keytable # "FREED"
      /\ p_keytable' # "FREED"
  BY CallInStep, KeyLocalStep DEF KeyInv
<1>2. KeyOf(t) \in KEYID /\ Index(KeyOf(t)) \in 0 .. SIZE - 1 /\ pos[t] \in Nat
  BY <1>1, CallFacts DEF KeyTypeInv
<1>3. CASE EndKeyCall(t)
  BY <1>1, <1>3, EndedCall
<1>4. ASSUME UNCHANGED <<p_elems, calls_left, pos>>
      PROVE  /\ KeyOf(t)' = KeyOf(t) /\ Chain(t)' = Chain(t)
             /\ \A n : CallIs(t, n)' <=> CallIs(t, n)
             /\ Passed(KeyOf(t), pos[t])' <=> Passed(KeyOf(t), pos[t])
             /\ AtElement(KeyOf(t), pos[t])' <=> AtElement(KeyOf(t), pos[t])
             /\ calls_left'[t] = calls_left[t] /\ pos'[t] = pos[t]
  BY <1>4, SameCall
<1>5. Passed(KeyOf(t), 0)
  BY <1>1, <1>2 DEF Passed, KeyTypeInv
<1>6. CASE SetLoad(t) \/ SetReload(t) \/ SetSpin(t)
  <2>1. /\ UNCHANGED <<p_keytable, p_elems, calls_left, pos>>
        /\ stage[t] \in {"idle", "set", "reload", "spin"}
        /\ stage'[t] \in {"find", "cas", "spin"}
        /\ CallIs(t, "set") \/ CallIs(t, "migrate")
    BY <1>1, <1>6 DEF SetLoad, SetReload, SetSpin, Enter, tableVars, KeyTypeInv, SetterOK
  <2>. QED  BY <1>1, <1>4, <1>5, <2>1 DEF SetterOK
<1>7. CASE SetCas(t) \/ TableCreate(t)
  <2>1. /\ UNCHANGED <<p_elems, calls_left, pos>>
        /\ stage[t] \in {"cas", "create"} /\ stage'[t] \in {"create", "reload", "find"}
        /\ stage'[t] = "create" => p_keytable' = "LOCKED"
    BY <1>1, <1>7 DEF SetCas, TableCreate, Enter, KeyTypeInv
  <2>. QED  BY <1>1, <1>4, <1>5, <2>1 DEF SetterOK
<1>8. CASE SetFind(t) \/ LookAgain(t)
  <2>1. /\ UNCHANGED <<p_keytable, p_elems, calls_left>> /\ stage[t] \in {"find", "again"}
        /\ p_keytable = "VALID"
    BY <1>1, <1>8 DEF SetFind, LookAgain, Enter, tableVars, SetterOK
  <2>2. Passed(KeyOf(t), pos[t]) /\ (CallIs(t, "set") \/ CallIs(t, "migrate"))
    BY <1>1, <2>1 DEF SetterOK
  <2>3. CASE FoundNext(t)
    <3>1. AtElement(KeyOf(t), pos[t])
      BY <1>1, <2>3, FoundIt
    <3>2. UNCHANGED pos
      BY <1>1, <1>8, <2>3 DEF SetFind, LookAgain, KeyTypeInv
    <3>3. stage'[t] \in {"store", "unlock_store"}
      BY <1>1, <1>8, <2>3 DEF SetFind, LookAgain, Enter, KeyTypeInv
    <3>. QED  BY <1>1, <1>4, <2>1, <2>2, <3>1, <3>2, <3>3 DEF SetterOK
  <2>4. CASE ~FoundNext(t)
    <3>1. /\ pos'[t] = Min({pos[t] + 1, Len(Chain(t))})
          /\ stage'[t] \in {"find", "again", "lock", "insert"}
          /\ stage'[t] \in {"lock", "insert"} => ~(pos[t] < Len(Chain(t)))
      BY <1>1, <1>8, <2>4 DEF SetFind, LookAgain, Enter, KeyTypeInv
    <3>2. Chain(t) \in Seq(KeyElem)
      BY <1>1, CallFacts
    <3>3. /\ Passed(KeyOf(t), pos'[t])
          /\ stage'[t] = "insert" => pos'[t] = Len(Chain(t))
      BY <1>1, <1>2, <2>2, <2>4, <3>1, <3>2, WalksOn
    <3>. QED  BY <1>1, <2>1, <2>2, <3>1, <3>3, SameCall DEF SetterOK
  <2>. QED  BY <2>3, <2>4
<1>9. CASE SetLock(t) \/ SetInsertFails(t)
  <2>1. /\ UNCHANGED <<p_keytable, p_elems, calls_left, pos>>
        /\ \/ stage[t] = "lock" /\ stage'[t] = "again"
           \/ stage[t] = "insert" /\ stage'[t] = "unlock_fail"
    BY <1>1, <1>9 DEF SetLock, SetInsertFails, Enter, tableVars, KeyTypeInv
  <2>. QED  BY <1>1, <1>4, <2>1 DEF SetterOK
<1>10. CASE SetUnlock(t) /\ ~EndKeyCall(t)
  <2>1. /\ UNCHANGED <<p_keytable, p_elems, calls_left, pos>>
        /\ \/ stage[t] = "unlock_store" /\ stage'[t] = "store"
           \/ stage[t] = "unlock" /\ stage'[t] = "target" /\ CallIs(t, "migrate")
    BY <1>1, <1>10 DEF SetUnlock, Enter, KeyTypeInv
  <2>. QED  BY <1>1, <1>4, <2>1 DEF SetterOK
<1>11. CASE SetStore(t) /\ ~EndKeyCall(t)
  <2>1. /\ UNCHANGED <<p_keytable, calls_left>> /\ stage[t] = "store" /\ stage'[t] = "target"
        /\ ~CallIs(t, "set")
    BY <1>1, <1>11 DEF SetStore, Enter, KeyTypeInv
  <2>2. CallIs(t, "migrate")
    BY <1>1, <2>1 DEF SetterOK
  <2>. QED  BY <1>1, <2>1, <2>2, SameCall DEF SetterOK
<1>12. CASE SetInsert(t)
  <2>1. UNCHANGED <<p_keytable, calls_left>> /\ stage[t] = "insert" /\ stage'[t] = "unlock"
    BY <1>1, <1>12 DEF SetInsert, Enter, KeyTypeInv
  <2>. QED  BY <1>1, <2>1, SameCall DEF SetterOK
<1>13. CASE (GetLoad(t) \/ GetWalk(t)) /\ ~EndKeyCall(t)
  <2>1. UNCHANGED <<p_keytable, p_elems>>
    BY <1>13, GetStep DEF tableVars
  <2>2. ASSUME NEW v, GetResult(t, v)
        PROVE  /\ UNCHANGED calls_left /\ pos'[t] = 0 /\ stage'[t] \in {"set", "target"}
               /\ CallIs(t, "migrate")
    BY <1>1, <1>13, <2>2 DEF GetResult, KeyTypeInv
  <2>3. CASE \E v : GetResult(t, v)
    BY <1>1, <2>1, <2>2, <2>3, SameCall DEF SetterOK
  <2>4. CASE /\ Enter(t, "idle", "walk") /\ p_keytable = "VALID"
             /\ UNCHANGED <<calls_left, pos, mig_data, seen>>
    <3>1. stage[t] = "idle" /\ stage'[t] = "walk" /\ (CallIs(t, "get") \/ CallIs(t, "migrate"))
      BY <1>1, <1>13, <2>4, GetStep DEF Enter, KeyTypeInv
    <3>. QED  BY <1>1, <1>4, <1>5, <2>1, <2>4, <3>1 DEF SetterOK
  <2>5. CASE /\ stage[t] = "walk" /\ ~FoundNext(t) /\ pos[t] # Len(Chain(t))
             /\ pos' = [pos EXCEPT ![t] = @ + 1]
             /\ UNCHANGED <<stage, calls_left, mig_data, seen>>
    <3>1. Passed(KeyOf(t), pos[t]) /\ Len(Chain(t)) \in Nat /\ pos[t] <= Len(Chain(t))
      BY <1>1, <2>5, CallFacts DEF SetterOK, Passed, Chain
    <3>2. Passed(KeyOf(t), pos[t] + 1)
      <4>1. pos[t] < Len(Chain(t))
        BY <1>2, <2>5, <3>1
      <4>. QED  BY <1>1, <2>5, <3>1, <4>1, WalksOn
    <3>3. pos'[t] = pos[t] + 1
      BY <1>1, <2>5 DEF KeyTypeInv
    <3>. QED  BY <1>1, <2>1, <2>5, <3>2, <3>3, SameCall DEF SetterOK
  <2>. QED  BY <1>13, <2>3, <2>4, <2>5, GetStep
<1>14. CASE MigrationTarget(t)
  <2>1. /\ UNCHANGED <<p_keytable, p_elems, calls_left, pos>>
        /\ stage[t] = "target" /\ stage'[t] = "request"
    BY <1>1, <1>14 DEF MigrationTarget, Enter, tableVars, KeyTypeInv
  <2>. QED  BY <1>1, <1>4, <2>1 DEF SetterOK
<1>15. CASE TableCreateFails(t) \/ MigrationRequest(t)
  BY <1>3, <1>15 DEF TableCreateFails, MigrationRequest
<1>. QED  BY <1>3, <1>6, <1>7, <1>8, <1>9, <1>10, <1>11, <1>12, <1>13, <1>14, <1>15 DEF KeyStep

LEMMA ElemsChange ==
    ASSUME KeyInv, NEW t \in SETTER, KeyStep(t)
    PROVE  UNCHANGED p_elems \/ (p_keytable = "VALID" /\ p_keytable' = "VALID")
<1>1. ASSUME SetInsert(t) \/ SetStore(t) PROVE p_keytable = "VALID" /\ p_keytable' = "VALID"
  BY <1>1, InsertFacts, StoreFacts DEF SetInsert, SetStore
<1>. QED  BY <1>1 DEF KeyStep, SetLoad, SetCas, SetReload, SetSpin,
       TableCreate, TableCreateFails, SetFind, SetLock, LookAgain, SetUnlock,
       SetInsertFails, GetLoad, GetWalk, MigrationTarget, MigrationRequest, tableVars

LEMMA LockStep ==
    ASSUME KeyInv, NEW t \in SETTER, KeyStep(t)
    PROVE  \/ ~table_lock /\ table_lock' /\ stage'[t] \in TableHolder
           \/ ~table_lock' /\ stage[t] \in TableHolder /\ stage'[t] \notin TableHolder
           \/ table_lock' = table_lock /\ (stage'[t] \in TableHolder <=> stage[t] \in TableHolder)
<1>. USE DEF TableHolder
<1>1. KeyTypeInv /\ p_keytable # "FREED"
  BY CallInStep DEF KeyInv
<1>2. CASE GetLoad(t) \/ GetWalk(t)
  <2>1. stage[t] \in {"idle", "walk"} /\ UNCHANGED table_lock
    BY <1>2, GetStep DEF tableVars
  <2>2. ASSUME NEW v, GetResult(t, v) PROVE stage'[t] \in {"idle", "set", "target"}
    BY <1>1, <2>2 DEF GetResult, EndKeyCall, KeyTypeInv
  <2>3. stage'[t] \in {"idle", "walk", "set", "target"}
    BY <1>1, <1>2, <2>1, <2>2, GetStep DEF Enter, KeyTypeInv
  <2>. QED  BY <2>1, <2>3
<1>3. CASE SetLoad(t) \/ SetCas(t) \/ SetReload(t) \/ SetSpin(t) \/ TableCreate(t)
              \/ TableCreateFails(t)
  BY <1>1, <1>3 DEF SetLoad, SetCas, SetReload, SetSpin, TableCreate, TableCreateFails,
                    EndKeyCall, Enter, tableVars, KeyTypeInv
<1>4. CASE SetFind(t) \/ SetLock(t) \/ LookAgain(t) \/ SetInsert(t) \/ SetInsertFails(t)
  BY <1>1, <1>4 DEF SetFind, SetLock, LookAgain, SetInsert, SetInsertFails,
                    Enter, tableVars, KeyTypeInv
<1>5. CASE SetUnlock(t) \/ SetStore(t)
  BY <1>1, <1>5 DEF SetUnlock, SetStore, EndKeyCall, Enter, KeyTypeInv
<1>6. CASE MigrationTarget(t) \/ MigrationRequest(t)
  BY <1>1, <1>6 DEF MigrationTarget, MigrationRequest, EndKeyCall, Enter, tableVars,
                    KeyTypeInv
<1>. QED  BY <1>2, <1>3, <1>4, <1>5, <1>6 DEF KeyStep

LEMMA TableStep ==
    ASSUME KeyInv, KeyNext
    PROVE  TableInv'
<1>1. TableInv /\ KeyTypeInv /\ \A t \in SETTER : SetterOK(t)
  BY DEF KeyInv
<1>2. CASE TableFree
  BY <1>1, <1>2 DEF TableFree, setterVars, TableInv
<1>3. ASSUME NEW t \in SETTER, KeyStep(t) PROVE TableInv'
  <2>1. \A u \in SETTER \ {t} : stage'[u] = stage[u]
    BY <1>3, KeyLocalStep
  <2>2. /\ stage[t] = "create" => p_keytable = "LOCKED"
        /\ \A u \in SETTER : stage[u] = "create" => p_keytable = "LOCKED"
    BY <1>1 DEF SetterOK
  <2>3. p_keytable' \in {"NULL", "LOCKED"} => \A i \in 0 .. SIZE - 1 : p_elems'[i] = <<>>
    BY <1>1, <1>3, <2>2, ElemsChange, KeyLocalStep DEF TableInv
  <2>4. stage'[t] = "create" => stage[t] = "create" \/ p_keytable = "NULL"
    <3>1. CASE GetLoad(t) \/ GetWalk(t)
      <4>1. ASSUME NEW v, GetResult(t, v) PROVE stage'[t] \in {"idle", "set", "target"}
        BY <1>1, <4>1 DEF GetResult, EndKeyCall, KeyTypeInv
      <4>. QED  BY <1>1, <3>1, <4>1, GetStep DEF Enter, KeyTypeInv
    <3>. QED
      BY <1>1, <1>3, <3>1, CallInStep
         DEF KeyStep, SetLoad, SetCas, SetReload, SetSpin, TableCreate, TableCreateFails,
             SetFind, SetLock, LookAgain, SetUnlock, SetStore, SetInsert, SetInsertFails,
             MigrationTarget, MigrationRequest, EndKeyCall, Enter, KeyTypeInv
  <2>5. ASSUME NEW u \in SETTER, NEW v \in SETTER, stage'[u] = "create", stage'[v] = "create"
        PROVE  u = v
    BY <1>1, <2>1, <2>2, <2>4, <2>5 DEF TableInv
  <2>6. /\ \A u \in SETTER : stage'[u] \in TableHolder => table_lock'
        /\ \A u, v \in SETTER : stage'[u] \in TableHolder /\ stage'[v] \in TableHolder => u = v
    BY <1>1, <1>3, <2>1, LockStep DEF TableInv
  <2>. QED  BY <2>3, <2>5, <2>6 DEF TableInv
<1>. QED  BY <1>2, <1>3 DEF KeyNext

LEMMA UniqueStep ==
    ASSUME KeyInv, KeyNext
    PROVE  UniqueInv'
<1>1. UniqueInv /\ KeyTypeInv
  BY DEF KeyInv
<1>2. CASE UNCHANGED p_elems
  BY <1>1, <1>2 DEF UniqueInv
<1>3. ASSUME NEW t \in SETTER, SetInsert(t) PROVE UniqueInv'
  <2>1. PICK i \in 0 .. SIZE - 1, k \in KEYID, e \in KeyElem :
           i = Index(k) /\ k = KeyOf(t) /\ e = <<k, SetValue(t)>>
    BY <1>1, <1>3, InsertFacts, CallFacts
  <2>2. Added(i, e) /\ Passed(k, Len(p_elems[i]))
    BY <1>3, <2>1, InsertFacts DEF Chain
  <2>3. /\ \A j \in (0 .. SIZE - 1) \ {i} : p_elems'[j] = p_elems[j]
        /\ p_elems' \in [0 .. SIZE - 1 -> Seq(KeyElem)]
        /\ Len(p_elems'[i]) = Len(p_elems[i]) + 1 /\ p_elems'[i][Len(p_elems[i]) + 1] = e
        /\ \A n \in 1 .. Len(p_elems[i]) : p_elems'[i][n] = p_elems[i][n]
    BY <1>1, <2>2, AddElem
  <2>4. /\ e[1] = k /\ \A m \in 1 .. Len(p_elems[i]) : p_elems[i][m][1] # k
        /\ Len(p_elems[i]) \in Nat
    BY <1>1, <2>1, <2>2 DEF Passed, KeyTypeInv
  <2>5. ASSUME NEW j \in 0 .. SIZE - 1, NEW m \in DOMAIN p_elems'[j], NEW n \in DOMAIN p_elems'[j],
               p_elems'[j][m][1] = p_elems'[j][n][1]
        PROVE  m = n
    <3>1. CASE j # i
      BY <1>1, <2>3, <2>5, <3>1 DEF UniqueInv
    <3>2. CASE j = i
      <4>1. m \in 1 .. Len(p_elems[i]) + 1 /\ n \in 1 .. Len(p_elems[i]) + 1
        BY <2>3, <2>5, <3>2
      <4>2. DOMAIN p_elems[i] = 1 .. Len(p_elems[i])
        BY <1>1 DEF KeyTypeInv
      <4>3. CASE m = Len(p_elems[i]) + 1 \/ n = Len(p_elems[i]) + 1
        BY <2>3, <2>4, <2>5, <3>2, <4>1, <4>3
      <4>4. CASE m \in 1 .. Len(p_elems[i]) /\ n \in 1 .. Len(p_elems[i])
        BY <1>1, <2>3, <2>5, <3>2, <4>2, <4>4 DEF UniqueInv
      <4>. QED  BY <2>4, <4>1, <4>3, <4>4
    <3>. QED  BY <3>1, <3>2
  <2>. QED  BY <2>5 DEF UniqueInv
<1>4. ASSUME SameLength, Grows, KeyTypeInv' PROVE UniqueInv'
  <2>1. ASSUME NEW j \in 0 .. SIZE - 1, NEW m \in DOMAIN p_elems'[j], NEW n \in DOMAIN p_elems'[j],
               p_elems'[j][m][1] = p_elems'[j][n][1]
        PROVE  m = n
    <3>1. /\ DOMAIN p_elems'[j] = 1 .. Len(p_elems'[j]) /\ DOMAIN p_elems[j] = 1 .. Len(p_elems[j])
          /\ Len(p_elems'[j]) = Len(p_elems[j])
      BY <1>1, <1>4 DEF SameLength, KeyTypeInv
    <3>2. p_elems'[j][m][1] = p_elems[j][m][1] /\ p_elems'[j][n][1] = p_elems[j][n][1]
      BY <1>4, <2>1, <3>1 DEF Grows
    <3>. QED  BY <1>1, <2>1, <3>1, <3>2 DEF UniqueInv
  <2>. QED  BY <2>1 DEF UniqueInv
<1>. QED  BY <1>3, <1>4, StepGrows, KeyTypeStep

(* The value of a key is the one in its element.                           *)
LEMMA KeyInOnePlace ==
    ASSUME UniqueInv, NEW k \in KEYID, NEW n \in Places(k)
    PROVE  Places(k) = {n} /\ ValueOf(k) = ValueAt(k, n)
<1>1. Index(k) \in 0 .. SIZE - 1
  BY IndexType
<1>2. Places(k) = {n}
  BY <1>1 DEF Places, UniqueInv
<1>3. Min({n}) = n
  BY DEF Min
<1>. QED  BY <1>2, <1>3 DEF ValueOf

LEMMA MemoryStep ==
    ASSUME KeyInv, KeyNext
    PROVE  MemoryInv'
<1>1. KeyTypeInv /\ MemoryInv
  BY DEF KeyInv
<1>2. CASE TableFree
  BY <1>2 DEF TableFree, MemoryInv
<1>3. ASSUME NEW t \in SETTER, KeyStep(t) PROVE MemoryInv'
  <2>1. p_used_mem = allocated
    BY <1>1, <1>3, CallInStep DEF MemoryInv
  <2>2. CASE UNCHANGED <<p_used_mem, allocated>>
    BY <2>1, <2>2 DEF MemoryInv
  <2>3. ASSUME NEW o \in Origin, NEW room, Allocate(o, room) PROVE MemoryInv'
    BY <2>1, <2>3 DEF Allocate, MemoryInv
  <2>4. CASE TableCreate(t)
    BY <1>1, <2>3, <2>4 DEF TableCreate, KeyTypeInv
  <2>5. CASE SetInsert(t)
    BY <2>2, <2>3, <2>5 DEF SetInsert, AllocElem, Origin
  <2>. QED
    BY <1>3, <2>2, <2>4, <2>5
       DEF KeyStep, SetLoad, SetCas, SetReload, SetSpin, TableCreateFails, SetFind, SetLock,
           LookAgain, SetUnlock, SetStore, SetInsertFails, GetLoad, GetWalk,
           MigrationTarget, MigrationRequest, memoryVars
<1>. QED  BY <1>2, <1>3 DEF KeyNext

LEMMA FreedStep ==
    ASSUME KeyInv, KeyNext
    PROVE  FreedOnce'
<1>1. CASE TableFree
  <2>1. p_used_mem = allocated /\ KeyTypeInv /\ UniqueInv
    BY <1>1 DEF TableFree, KeyInv, MemoryInv
  <2>2. \A o \in Origin : allocated'[o] = 0
    BY <1>1, <2>1 DEF TableFree, KeyTypeInv
  <2>3. ASSUME NEW k \in KEYID
        PROVE  IF ValueOf(k) = UNSET THEN destructed'[k] = {}
               ELSE \E n \in Places(k) : destructed'[k] = {<<n, ValueOf(k)>>}
    <3>1. destructed'[k] = {<<n, ValueAt(k, n)>> : n \in {m \in Places(k) : ValueAt(k, m) # UNSET}}
      BY <1>1 DEF TableFree
    <3>2. CASE Places(k) = {}
      BY <3>1, <3>2 DEF ValueOf
    <3>3. ASSUME NEW n \in Places(k)
          PROVE  IF ValueOf(k) = UNSET THEN destructed'[k] = {}
                 ELSE \E m \in Places(k) : destructed'[k] = {<<m, ValueOf(k)>>}
      <4>1. Places(k) = {n} /\ ValueOf(k) = ValueAt(k, n)
        BY <2>1, KeyInOnePlace
      <4>2. CASE ValueOf(k) = UNSET
        BY <3>1, <4>1, <4>2
      <4>3. CASE ValueOf(k) # UNSET
        <5>1. {m \in Places(k) : ValueAt(k, m) # UNSET} = {n}
          BY <4>1, <4>3
        <5>2. destructed'[k] = {<<n, ValueAt(k, n)>>}
          BY <3>1, <5>1
        <5>. QED  BY <4>1, <4>3, <5>2
      <4>. QED  BY <4>2, <4>3
    <3>. QED  BY <3>2, <3>3
  <2>4. \A k \in KEYID : ValueOf(k)' = ValueOf(k) /\ Places(k)' = Places(k)
    BY <1>1 DEF TableFree, ValueOf, Places, ValueAt, Index
  <2>. QED  BY <2>2, <2>3, <2>4 DEF FreedOnce
<1>2. ASSUME NEW t \in SETTER, KeyStep(t) PROVE FreedOnce'
  BY <1>2, KeyLocalStep, CallInStep DEF FreedOnce
<1>. QED  BY <1>1, <1>2 DEF KeyNext

LEMMA KeyInitInv == KeyInit => KeyInv
<1>. SUFFICES ASSUME KeyInit PROVE KeyInv
  OBVIOUS
<1>1. KeyTypeInv
  <2>1. PICK use \in KEYUSES : origin = use[1] /\ failing = use[2] /\ calls_left = use[3]
    BY DEF KeyInit
  <2>2. origin \in Origin /\ failing \in Nat /\ calls_left \in [SETTER -> Seq(KeyCall)]
    BY <2>1, KeyTableAssumption
  <2>3. p_elems \in [0 .. SIZE - 1 -> Seq(KeyElem)]
    BY DEF KeyInit
  <2>4. /\ stage \in [SETTER -> KeyPoint] /\ pos \in [SETTER -> Nat]
        /\ mig_data \in [SETTER -> KeyDatum] /\ seen \in [SETTER -> Seq(KeyDatum)]
    BY DEF KeyInit, KeyPoint, KeyDatum
  <2>. QED  BY <2>2, <2>3, <2>4 DEF KeyInit, KeyTypeInv
<1>2. ASSUME NEW t \in SETTER PROVE SetterOK(t)
  <2>1. stage[t] = "idle" /\ pos[t] = 0 /\ p_keytable = "NULL"
    BY DEF KeyInit
  <2>. QED  BY <2>1 DEF SetterOK, SetPoint, TableHolder
<1>3. TableInv
  BY DEF TableInv, KeyInit, TableHolder
<1>4. UniqueInv
  BY DEF UniqueInv, KeyInit
<1>5. MemoryInv /\ FreedOnce
  BY DEF MemoryInv, FreedOnce, KeyInit
<1>. QED  BY <1>1, <1>2, <1>3, <1>4, <1>5 DEF KeyInv

LEMMA KeyNextInv ==
    ASSUME KeyInv, KeyNext
    PROVE  KeyInv'
<1>1. KeyTypeInv'
  BY KeyTypeStep
<1>2. ASSUME NEW u \in SETTER PROVE SetterOK(u)'
  <2>1. ASSUME NEW t \in SETTER, KeyStep(t) PROVE SetterOK(u)'
    BY <1>1, <2>1, OwnStep, OthersKeep
  <2>2. CASE TableFree
    <3>1. calls_left'[u] = <<>> /\ stage'[u] = stage[u] /\ pos'[u] = pos[u]
      BY <2>2 DEF TableFree, setterVars
    <3>2. stage[u] = "idle" /\ pos[u] = 0
      BY <2>2 DEF TableFree, KeyInv, SetterOK
    <3>. QED  BY <3>1, <3>2 DEF SetterOK, SetPoint, TableHolder
  <2>. QED  BY <2>1, <2>2 DEF KeyNext
<1>. QED  BY <1>1, <1>2, TableStep, UniqueStep, MemoryStep, FreedStep DEF KeyInv

LEMMA KeyStutter ==
    ASSUME KeyInv, UNCHANGED keyVars
    PROVE  KeyInv'
<1>. USE DEF keyVars, tableVars, memoryVars, migrationVars, setterVars
<1>1. KeyTypeInv'
  BY DEF KeyInv, KeyTypeInv
<1>2. ASSUME NEW u \in SETTER PROVE SetterOK(u)'
  BY DEF KeyInv, SetterOK, CallIs, Passed, AtElement, Chain, KeyOf, Index
<1>3. TableInv' /\ UniqueInv' /\ MemoryInv'
  BY DEF KeyInv, TableInv, UniqueInv, MemoryInv
<1>4. FreedOnce'
  <2>1. \A k \in KEYID : Places(k)' = Places(k) /\ ValueOf(k)' = ValueOf(k)
    BY DEF ValueOf, Places, ValueAt, Index
  <2>. QED  BY <2>1 DEF KeyInv, FreedOnce
<1>. QED  BY <1>1, <1>2, <1>3, <1>4 DEF KeyInv

LEMMA KeyInvariance == KeySpec => []KeyInv
<1>1. KeyInv /\ [KeyNext]_keyVars => KeyInv'
  BY KeyNextInv, KeyStutter
<1>. QED  BY <1>1, KeyInitInv, PTL DEF KeySpec

(* When the table is freed, the destructor of each key is called with its  *)
(* last value, once, unless that is NULL, and no memory is kept.           *)
THEOREM TableFreedOnce == KeySpec => []FreedOnce
<1>1. KeyInv => FreedOnce
  BY DEF KeyInv
<1>. QED  BY <1>1, KeyInvariance, PTL

-----------------------------------------------------------------------------
(* The table implements AbstractKeys.                                      *)

LEMMA ValuesSame == ASSUME UNCHANGED p_elems PROVE Values' = Values
BY DEF Values, ValueOf, Places, ValueAt, Index

LEMMA SettingStep ==
    ASSUME KeyInv, NEW t \in SETTER, KeyStep(t)
    PROVE  /\ Setting' = [Setting EXCEPT ![t] = Setting'[t]]
           /\ stage'[t] \notin SetPoint => Setting'[t] = <<>>
           /\ stage'[t] \in SetPoint /\ UNCHANGED calls_left =>
                 Setting'[t] = <<KeyOf(t), SetValue(t)>>
<1>1. \A u \in SETTER \ {t} : stage'[u] = stage[u] /\ calls_left'[u] = calls_left[u]
  BY KeyLocalStep
<1>2. \A u \in SETTER \ {t} : Setting'[u] = Setting[u]
  BY <1>1 DEF Setting, KeyOf, SetValue, CallIs
<1>3. Setting' = [u \in SETTER |-> Setting'[u]] /\ Setting = [u \in SETTER |-> Setting[u]]
  BY DEF Setting
<1>4. Setting' = [Setting EXCEPT ![t] = Setting'[t]]
  BY <1>2, <1>3
<1>5. stage'[t] \notin SetPoint => Setting'[t] = <<>>
  BY DEF Setting
<1>6. stage'[t] \in SetPoint /\ UNCHANGED calls_left => Setting'[t] = <<KeyOf(t), SetValue(t)>>
  BY DEF Setting, KeyOf, SetValue, CallIs
<1>. QED  BY <1>4, <1>5, <1>6

(* The key that a store or an insertion sets, and no other.                *)
LEMMA SetsValue ==
    ASSUME KeyInv, KeyInv', NEW t \in SETTER, SetStore(t) \/ SetInsert(t)
    PROVE  Values' = [Values EXCEPT ![KeyOf(t)] = SetValue(t)]
<1>1. KeyTypeInv /\ UniqueInv /\ KeyTypeInv' /\ UniqueInv' /\ calls_left[t] # <<>>
  BY InsertFacts, StoreFacts DEF KeyInv
<1>2. PICK i \in 0 .. SIZE - 1, k \in KEYID, v \in KeyDatum :
         i = Index(k) /\ k = KeyOf(t) /\ v = SetValue(t)
  BY <1>1, CallFacts
<1>3. PICK n \in Nat :
         /\ n \in DOMAIN p_elems'[i] /\ p_elems'[i][n] = <<k, v>>
         /\ \A j \in (0 .. SIZE - 1) \ {i} : p_elems'[j] = p_elems[j]
         /\ \A m \in DOMAIN p_elems[i] \ {n} : m \in DOMAIN p_elems'[i] /\ p_elems'[i][m] = p_elems[i][m]
         /\ \A m \in DOMAIN p_elems'[i] \ {n} : m \in DOMAIN p_elems[i]
         /\ n \in DOMAIN p_elems[i] => p_elems[i][n][1] = k
  <2>1. /\ DOMAIN p_elems[i] = 1 .. Len(p_elems[i]) /\ Len(p_elems[i]) \in Nat
        /\ DOMAIN p_elems'[i] = 1 .. Len(p_elems'[i]) /\ Len(p_elems'[i]) \in Nat
        /\ \A m \in DOMAIN p_elems[i] : p_elems[i][m] \in KeyElem
        /\ \A m \in DOMAIN p_elems'[i] : p_elems'[i][m] \in KeyElem
    <3>1. p_elems[i] \in Seq(KeyElem) /\ p_elems'[i] \in Seq(KeyElem)
      BY <1>1 DEF KeyTypeInv
    <3>. QED  BY <3>1
  <2>2. CASE SetInsert(t)
    <3>1. PICK e \in KeyElem : e = <<k, v>>
      BY <1>2 DEF KeyElem
    <3>2. Added(i, e)
      BY <1>2, <2>2, <3>1, InsertFacts
    <3>3. /\ \A j \in (0 .. SIZE - 1) \ {i} : p_elems'[j] = p_elems[j]
          /\ Len(p_elems'[i]) = Len(p_elems[i]) + 1 /\ p_elems'[i][Len(p_elems[i]) + 1] = e
          /\ \A m \in 1 .. Len(p_elems[i]) : p_elems'[i][m] = p_elems[i][m]
      BY <1>1, <3>2, AddElem
    <3>4. PICK n \in Nat : n = Len(p_elems[i]) + 1
      BY <2>1
    <3>5. /\ n \in DOMAIN p_elems'[i] /\ p_elems'[i][n] = <<k, v>>
          /\ \A m \in DOMAIN p_elems[i] \ {n} : m \in DOMAIN p_elems'[i] /\ p_elems'[i][m] = p_elems[i][m]
          /\ \A m \in DOMAIN p_elems'[i] \ {n} : m \in DOMAIN p_elems[i]
          /\ n \notin DOMAIN p_elems[i]
      BY <2>1, <3>1, <3>3, <3>4
    <3>. QED  BY <1>2, <3>3, <3>5
  <2>3. CASE SetStore(t)
    <3>1. PICK n \in Nat : n = pos[t] + 1
      BY <1>1 DEF KeyTypeInv
    <3>2. Changed(i, n, v) /\ n \in DOMAIN p_elems[i] /\ p_elems[i][n][1] = k
      BY <1>2, <2>3, <3>1, StoreFacts DEF AtElement
    <3>3. /\ \A j \in (0 .. SIZE - 1) \ {i} : p_elems'[j] = p_elems[j]
          /\ Len(p_elems'[i]) = Len(p_elems[i])
          /\ \A m \in DOMAIN p_elems[i] \ {n} : p_elems'[i][m] = p_elems[i][m]
          /\ p_elems'[i][n][1] = p_elems[i][n][1] /\ p_elems'[i][n][2] = v
      BY <1>1, <3>2, ChangeElem
    <3>4. n \in DOMAIN p_elems'[i] /\ p_elems'[i][n] = <<k, v>>
      BY <2>1, <3>2, <3>3 DEF KeyElem
    <3>. QED  BY <1>2, <2>1, <3>2, <3>3, <3>4
  <2>. QED  BY <2>2, <2>3
<1>4. ValueOf(k)' = v
  <2>1. n \in Places(k)'
    BY <1>2, <1>3 DEF Places, Index
  <2>2. Places(k)' = {n}
    BY <1>1, <1>2, <1>3, <2>1 DEF Places, UniqueInv, Index
  <2>3. ValueAt(k, n)' = v
    BY <1>2, <1>3 DEF ValueAt, Index
  <2>4. Min({n}) = n
    BY DEF Min
  <2>. QED  BY <2>2, <2>3, <2>4 DEF ValueOf
<1>5. ASSUME NEW c \in KEYID \ {k} PROVE ValueOf(c)' = ValueOf(c)
  <2>1. Index(c) \in 0 .. SIZE - 1 /\ Index(c)' = Index(c)
    BY IndexType DEF Index
  <2>2. Places(c)' = Places(c) /\ \A m \in Places(c) : ValueAt(c, m)' = ValueAt(c, m)
    <3>1. CASE Index(c) # i
      BY <1>2, <1>3, <2>1, <3>1 DEF Places, ValueAt
    <3>2. CASE Index(c) = i
      BY <1>2, <1>3, <2>1, <3>2 DEF Places, ValueAt
    <3>. QED  BY <3>1, <3>2
  <2>3. CASE Places(c) = {}
    BY <2>2, <2>3 DEF ValueOf
  <2>4. ASSUME NEW m \in Places(c) PROVE ValueOf(c)' = ValueOf(c)
    <3>1. Places(c) = {m} /\ Places(c)' = {m} /\ Min({m}) = m
      BY <1>1, <2>2, <2>4, KeyInOnePlace DEF Min
    <3>. QED  BY <2>2, <2>4, <3>1 DEF ValueOf
  <2>. QED  BY <2>3, <2>4
<1>. QED  BY <1>2, <1>3, <1>4, <1>5 DEF Values

AbstractKeyStep(t) ==
    \/ \E k \in KEYID, v \in DATUM \cup SETTER \cup {UNSET} : AbstractK!Call(t, k, v)
    \/ AbstractK!Set(t)
    \/ AbstractK!Fail(t)
    \/ \E k \in KEYID : AbstractK!Get(t, k)

(* Steps that nobody can tell from the outside.                            *)
LEMMA QuietKeyStep ==
    ASSUME KeyInv, NEW t \in SETTER, KeyStep(t),
           stage[t] \in SetPoint <=> stage'[t] \in SetPoint,
           stage[t] \in SetPoint => UNCHANGED calls_left,
           UNCHANGED <<p_elems, failing, seen>>
    PROVE  UNCHANGED AbstractK!keysVars
<1>1. Values' = Values
  BY ValuesSame
<1>2. Setting'[t] = Setting[t]
  BY SettingStep DEF Setting
<1>3. Setting' = Setting
  BY <1>2, SettingStep DEF Setting
<1>. QED  BY <1>1, <1>3 DEF AbstractK!keysVars

LEMMA KeyStepImplements ==
    ASSUME KeyInv, KeyInv', NEW t \in SETTER, KeyStep(t)
    PROVE  AbstractKeyStep(t) \/ UNCHANGED AbstractK!keysVars
<1>1. KeyTypeInv /\ SetterOK(t) /\ calls_left[t] # <<>> /\ p_keytable # "FREED"
  BY CallInStep DEF KeyInv
<1>2. /\ KeyOf(t) \in KEYID /\ SetValue(t) \in DATUM \cup SETTER \cup {UNSET}
      /\ <<KeyOf(t), SetValue(t)>> # <<>>
      /\ <<KeyOf(t), SetValue(t)>>[1] = KeyOf(t) /\ <<KeyOf(t), SetValue(t)>>[2] = SetValue(t)
  BY <1>1, CallFacts DEF KeyDatum
<1>3. /\ Setting' = [Setting EXCEPT ![t] = Setting'[t]]
      /\ stage'[t] \notin SetPoint => Setting'[t] = <<>>
      /\ stage'[t] \in SetPoint /\ UNCHANGED calls_left =>
            Setting'[t] = <<KeyOf(t), SetValue(t)>>
      /\ Setting[t] = IF stage[t] \in SetPoint THEN <<KeyOf(t), SetValue(t)>> ELSE <<>>
  BY SettingStep DEF Setting
<1>4. CASE SetLoad(t)
  <2>1. /\ stage[t] \in {"idle", "set"} /\ stage'[t] \in {"find", "cas"}
        /\ UNCHANGED <<p_elems, calls_left, failing, seen>>
    BY <1>1, <1>4 DEF SetLoad, Enter, tableVars, memoryVars, KeyTypeInv
  <2>2. Setting[t] = <<>> /\ Setting'[t] = <<KeyOf(t), SetValue(t)>>
    BY <1>3, <2>1 DEF SetPoint
  <2>3. AbstractK!Call(t, KeyOf(t), SetValue(t))
    BY <1>3, <2>1, <2>2, ValuesSame DEF AbstractK!Call
  <2>. QED  BY <1>2, <2>3 DEF AbstractKeyStep
<1>5. CASE SetCas(t) \/ SetReload(t) \/ SetSpin(t) \/ TableCreate(t) \/ SetFind(t)
              \/ SetLock(t) \/ LookAgain(t)
  <2>1. /\ stage[t] \in SetPoint /\ stage'[t] \in SetPoint
        /\ UNCHANGED <<p_elems, calls_left, failing, seen>>
    BY <1>1, <1>5 DEF SetCas, SetReload, SetSpin, TableCreate, SetFind, SetLock, LookAgain,
         Enter, tableVars, memoryVars, KeyTypeInv, SetPoint
  <2>. QED  BY <2>1, QuietKeyStep
<1>6. CASE SetUnlock(t)
  <2>1. /\ UNCHANGED <<p_elems, failing, seen>>
        /\ stage[t] \in SetPoint <=> stage'[t] \in SetPoint
        /\ stage[t] \in SetPoint => UNCHANGED calls_left
    BY <1>1, <1>6 DEF SetUnlock, EndKeyCall, Enter, memoryVars, KeyTypeInv, SetPoint
  <2>. QED  BY <2>1, QuietKeyStep
<1>7. CASE MigrationTarget(t) \/ MigrationRequest(t)
  <2>1. /\ UNCHANGED <<p_elems, failing, seen>>
        /\ stage[t] \notin SetPoint /\ stage'[t] \notin SetPoint
    BY <1>1, <1>7 DEF MigrationTarget, MigrationRequest, EndKeyCall, Enter, tableVars,
         memoryVars, KeyTypeInv, SetPoint
  <2>. QED  BY <2>1, QuietKeyStep
<1>8. CASE TableCreateFails(t) \/ SetInsertFails(t)
  <2>1. /\ stage[t] \in SetPoint /\ stage'[t] \notin SetPoint
        /\ UNCHANGED <<p_elems, seen>> /\ failing > 0 /\ failing' = failing - 1
    BY <1>1, <1>8 DEF TableCreateFails, SetInsertFails, EndKeyCall, Enter, tableVars,
         KeyTypeInv, SetPoint
  <2>2. Setting[t] # <<>> /\ Setting'[t] = <<>>
    BY <1>2, <1>3, <2>1
  <2>3. AbstractK!Fail(t)
    BY <1>3, <2>1, <2>2, ValuesSame DEF AbstractK!Fail
  <2>. QED  BY <2>3 DEF AbstractKeyStep
<1>9. CASE SetStore(t) \/ SetInsert(t)
  <2>1. /\ stage[t] \in SetPoint /\ stage'[t] \notin SetPoint
        /\ UNCHANGED <<failing, seen>>
    BY <1>1, <1>9 DEF SetStore, SetInsert, EndKeyCall, Enter, memoryVars, KeyTypeInv,
         SetPoint
  <2>2. /\ Setting[t] # <<>> /\ Setting'[t] = <<>>
        /\ Setting[t][1] = KeyOf(t) /\ Setting[t][2] = SetValue(t)
    BY <1>2, <1>3, <2>1
  <2>3. Values' = [Values EXCEPT ![Setting[t][1]] = Setting[t][2]]
    BY <1>9, <2>2, SetsValue
  <2>4. AbstractK!Set(t)
    BY <1>3, <2>1, <2>2, <2>3 DEF AbstractK!Set
  <2>. QED  BY <2>4 DEF AbstractKeyStep
<1>10. CASE GetLoad(t) \/ GetWalk(t)
  <2>1. UNCHANGED <<p_elems, failing>> /\ stage[t] \in {"idle", "walk"}
    BY <1>10, GetStep DEF tableVars, memoryVars
  <2>2. ASSUME NEW v, GetResult(t, v), v = ValueOf(KeyOf(t))
        PROVE  AbstractKeyStep(t) \/ UNCHANGED AbstractK!keysVars
    <3>1. stage'[t] \in {"idle", "set", "target"}
      BY <1>1, <2>2 DEF GetResult, EndKeyCall, KeyTypeInv
    <3>2. Setting' = Setting
      BY <1>3, <2>1, <3>1 DEF SetPoint, Setting
    <3>3. CASE seen' = [seen EXCEPT ![t] = Append(@, v)]
      <4>1. v = Values[KeyOf(t)]
        BY <1>2, <2>2 DEF Values
      <4>2. AbstractK!Get(t, KeyOf(t))
        BY <2>1, <3>2, <3>3, <4>1, ValuesSame DEF AbstractK!Get
      <4>. QED  BY <1>2, <4>2 DEF AbstractKeyStep
    <3>4. CASE UNCHANGED seen
      BY <2>1, <3>1, <3>4, QuietKeyStep DEF SetPoint
    <3>. QED  BY <2>2, <3>3, <3>4 DEF GetResult
  <2>3. CASE p_keytable # "VALID" /\ GetResult(t, UNSET)
    <3>1. p_elems[Index(KeyOf(t))] = <<>>
      BY <1>1, <1>2, <2>3, IndexType DEF KeyInv, TableInv, KeyTypeInv
    <3>2. ValueOf(KeyOf(t)) = UNSET
      BY <3>1 DEF ValueOf, Places
    <3>. QED  BY <2>2, <2>3, <3>2
  <2>4. CASE stage[t] = "walk" /\ FoundNext(t) /\ GetResult(t, Chain(t)[pos[t] + 1][2])
    <3>1. pos[t] + 1 \in Places(KeyOf(t))
      BY <1>1, <2>4, FoundIt DEF AtElement, Places
    <3>2. ValueOf(KeyOf(t)) = Chain(t)[pos[t] + 1][2]
      BY <1>2, <3>1, KeyInOnePlace DEF ValueAt, Chain, KeyInv
    <3>. QED  BY <2>2, <2>4, <3>2
  <2>5. CASE /\ stage[t] = "walk" /\ ~FoundNext(t) /\ pos[t] = Len(Chain(t))
             /\ GetResult(t, UNSET)
    <3>1. Passed(KeyOf(t), pos[t]) /\ Chain(t) = p_elems[Index(KeyOf(t))]
      BY <1>1, <2>5 DEF SetterOK, Chain
    <3>2. Chain(t) \in Seq(KeyElem)
      BY <1>1, CallFacts
    <3>3. Places(KeyOf(t)) = {}
      BY <2>5, <3>1, <3>2 DEF Places, Passed
    <3>. QED  BY <2>2, <2>5, <3>3 DEF ValueOf
  <2>6. CASE /\ UNCHANGED seen
             /\ \/ stage[t] = "idle" /\ Enter(t, "idle", "walk")
                \/ stage[t] = "walk" /\ UNCHANGED stage
    <3>1. stage[t] \notin SetPoint /\ stage'[t] \notin SetPoint
      BY <1>1, <2>6 DEF Enter, SetPoint, KeyTypeInv
    <3>. QED  BY <2>1, <2>6, <3>1, QuietKeyStep
  <2>. QED  BY <1>10, <2>3, <2>4, <2>5, <2>6, GetStep
<1>. QED  BY <1>4, <1>5, <1>6, <1>7, <1>8, <1>9, <1>10 DEF KeyStep

(* The table of the data of a work unit keeps the promises of AbstractKeys:*)
(* a get finds the last value that was set, although it takes no lock.     *)
THEOREM KeysImplementation == KeySpec => ImplementsAbstractKeys
<1>1. KeyInit => AbstractK!Init
  <2>. SUFFICES ASSUME KeyInit PROVE AbstractK!Init
    OBVIOUS
  <2>1. \A k \in KEYID : ValueOf(k) = UNSET
    BY IndexType DEF KeyInit, ValueOf, Places
  <2>2. Setting = [t \in SETTER |-> <<>>]
    BY DEF KeyInit, Setting, SetPoint
  <2>3. failing \in Nat
    BY KeyInitInv DEF KeyInv, KeyTypeInv
  <2>. QED  BY <2>1, <2>2, <2>3 DEF KeyInit, Values, AbstractK!Init
<1>2. KeyInv /\ KeyInv' /\ [KeyNext]_keyVars => [AbstractK!Next]_(AbstractK!keysVars)
  <2>. SUFFICES ASSUME KeyInv, KeyInv', KeyNext \/ UNCHANGED keyVars
                PROVE  AbstractK!Next \/ UNCHANGED AbstractK!keysVars
    OBVIOUS
  <2>1. ASSUME NEW t \in SETTER, KeyStep(t)
        PROVE  AbstractK!Next \/ UNCHANGED AbstractK!keysVars
    BY <2>1, KeyStepImplements DEF AbstractKeyStep, AbstractK!Next
  <2>2. CASE TableFree \/ UNCHANGED keyVars
    <3>1. UNCHANGED <<p_elems, failing, seen, stage, calls_left>>
      BY <2>2 DEF TableFree, setterVars, keyVars, tableVars, memoryVars
    <3>2. Setting' = Setting
      BY <3>1 DEF Setting, KeyOf, SetValue, CallIs
    <3>. QED  BY <3>1, <3>2, ValuesSame DEF AbstractK!keysVars
  <2>. QED  BY <2>1, <2>2 DEF KeyNext
<1>. QED  BY <1>1, <1>2, KeyInvariance, PTL DEF KeySpec, ImplementsAbstractKeys, AbstractK!Spec

-----------------------------------------------------------------------------
(* The mutex.                                                              *)

USE DEF Thread, State, YthreadTypeOK, WaitlistTypeOK, ythreadVars, waitlistVars

(* The variables keep their types.                                         *)
LEMMA InitTypeOK == MutexInit => TypeOK
<1>. SUFFICES ASSUME MutexInit PROVE TypeOK
  OBVIOUS
<1>1. YthreadTypeOK(Point) /\ WaitlistTypeOK
  BY InitTypes DEF MutexInit, Point
<1>2. 0 \in 0 .. MAXNEST /\ todo \in [Thread -> Nat]
  BY MutexAssumption DEF MutexInit
<1>. QED
  BY <1>1, <1>2 DEF MutexInit, TypeOK

LEMMA StepTypeOK == TypeOK /\ [MutexNext]_vars => TypeOK'
<1>. SUFFICES ASSUME TypeOK, [MutexNext]_vars PROVE TypeOK'
  OBVIOUS
<1>. USE DEF TypeOK, Point, PLockPoint, WaitLockPoint, WaitPoint, OwnPoint,
             waitlistVars, mutexVars, ythreadVars, GoTo, At
<1>1. ASSUME NEW t \in Thread, LockCall(t) PROVE TypeOK'
  BY <1>1 DEF LockCall, TakeRound
<1>2. ASSUME NEW t \in Thread, LockTry(t) PROVE TypeOK'
  BY <1>2 DEF LockTry, TryAcquire
<1>3. ASSUME NEW t \in Thread, LockWaiterLock(t) PROVE TypeOK'
  BY <1>3 DEF LockWaiterLock, SpinAcquire
<1>4. ASSUME NEW t \in Thread, LockRetry(t) PROVE TypeOK'
  <2>1. CASE TryAcquire(t, "lock_retry", "lock_got") /\ UNCHANGED todo
    BY <2>1 DEF TryAcquire
  <2>2. CASE WaitAppend(t) /\ UNCHANGED mutexVars
    BY <2>2, WaitAppendTypes
  <2>. QED  BY <1>4, <2>1, <2>2 DEF LockRetry
<1>5. ASSUME NEW t \in Thread, LockGot(t) PROVE TypeOK'
  BY <1>5 DEF LockGot, SpinRelease
<1>6. ASSUME NEW t \in Thread, LockWait(t) PROVE TypeOK'
  BY <1>6, WaitStepTypes DEF LockWait
<1>7. ASSUME NEW t \in Thread, Own(t) PROVE TypeOK'
  BY <1>7 DEF Own
<1>8. ASSUME NEW t \in Thread, LockNested(t) PROVE TypeOK'
  BY <1>8, MutexAssumption DEF LockNested
<1>9. ASSUME NEW t \in Thread, TryLock(t) PROVE TypeOK'
  <2>1. todo' \in [Thread -> Nat]
    BY <1>9 DEF TryLock, TakeRound
  <2>2. CASE TryAcquire(t, "idle", "own")
    BY <1>9, <2>1, <2>2 DEF TryLock, TryAcquire
  <2>3. CASE ~TryAcquire(t, "idle", "own")
    BY <1>9, <2>1, <2>3 DEF TryLock
  <2>. QED  BY <2>2, <2>3
<1>10. ASSUME NEW t \in Thread, SpinLockCall(t) PROVE TypeOK'
  BY <1>10 DEF SpinLockCall, TakeRound
<1>11. ASSUME NEW t \in Thread, SpinLock(t) PROVE TypeOK'
  BY <1>11 DEF SpinLock, TryAcquire
<1>12. ASSUME NEW t \in Thread, CriticalYield(t) PROVE TypeOK'
  BY <1>12, SwitchTypes DEF CriticalYield
<1>13. ASSUME NEW t \in Thread, UnlockNested(t) PROVE TypeOK'
  BY <1>13, MutexAssumption DEF UnlockNested
<1>14. ASSUME NEW t \in Thread, UnlockCall(t) PROVE TypeOK'
  BY <1>14 DEF UnlockCall
<1>15. ASSUME NEW t \in Thread, UnlockWaiterLock(t) PROVE TypeOK'
  BY <1>15 DEF UnlockWaiterLock, SpinAcquire
<1>16. ASSUME NEW t \in Thread, UnlockRelease(t) PROVE TypeOK'
  BY <1>16 DEF UnlockRelease
<1>17. ASSUME NEW t \in Thread, UnlockBroadcast(t) PROVE TypeOK'
  <2>1. Broadcast(t, "broadcast", "broadcast_dec", "unlock_end")
    BY <1>17 DEF UnlockBroadcast
  <2>2. {"broadcast", "broadcast_dec", "unlock_end"} \subseteq Point
    OBVIOUS
  <2>. HIDE DEF Point, YthreadTypeOK, WaitlistTypeOK
  <2>3. YthreadTypeOK(Point)' /\ WaitlistTypeOK'
    BY <2>1, <2>2, BroadcastTypes
  <2>. QED  BY <1>17, <2>3 DEF UnlockBroadcast
<1>18. ASSUME NEW t \in Thread, UnlockEnd(t) PROVE TypeOK'
  BY <1>18 DEF UnlockEnd, SpinRelease
<1>19. ASSUME NEW t \in Thread, ThreadExit(t) PROVE TypeOK'
  BY <1>19, SwitchTypes DEF ThreadExit
<1>20. ASSUME NEW e \in XSTREAM, MutexSchedule(e) PROVE TypeOK'
  BY <1>20, SwitchTypes DEF MutexSchedule
<1>21. CASE UNCHANGED vars
  BY <1>21 DEF vars
<1>. QED
  BY <1>1, <1>2, <1>3, <1>4, <1>5, <1>6, <1>7, <1>8, <1>9, <1>10, <1>11, <1>12, <1>13,
     <1>14, <1>15, <1>16, <1>17, <1>18, <1>19, <1>20, <1>21
  DEF MutexNext, MutexStep, AllDone

(* p_lock is held by one thread, and is taken only when somebody holds it. *)
PLockExclusion ==
    /\ \A t, u \in Thread : pc[t] \in PLockPoint /\ pc[u] \in PLockPoint => t = u
    /\ p_lock <=> \E t \in Thread : pc[t] \in PLockPoint

(* The list has waiters only while the mutex is owned, or while the thread *)
(* that released it is still waking them.                                  *)
WaitersNeedOwner ==
    waitlist # <<>> =>
        lock \/ \E t \in Thread : pc[t] \in {"broadcast", "broadcast_dec"}

(* A recursive mutex names its owner from the time it is taken until its   *)
(* last unlock, and counts nested locks only meanwhile.                    *)
OwnerNamed ==
    /\ \A t \in Thread : owner_id = t <=> recursive /\ pc[t] \in {"critical", "leaving"}
    /\ nesting_cnt > 0 => \E t \in Thread : owner_id = t

LockInv == MutualExclusion /\ PLockExclusion /\ WaitersNeedOwner /\ OwnerNamed

IInv == TypeOK /\ LockInv /\ WaitInv /\ CountInv("broadcast_dec")

LEMMA InitLockInv == MutexInit => LockInv
  BY ThreadAssumption
     DEF MutexInit, YthreadInit, WaitlistInit, LockInv, MutualExclusion, PLockExclusion,
         WaitersNeedOwner, OwnerNamed, OwnPoint, PLockPoint, WaitLockPoint

(* Each step keeps the two spinlocks exclusive, and the list served.       *)
LEMMA StepLockInv == TypeOK /\ LockInv /\ [MutexNext]_vars => LockInv'
<1>. SUFFICES ASSUME TypeOK, LockInv, [MutexNext]_vars PROVE LockInv'
  OBVIOUS
<1>. USE DEF TypeOK, LockInv, MutualExclusion, PLockExclusion, WaitersNeedOwner, OwnerNamed,
             OwnPoint, PLockPoint, WaitLockPoint, mutexVars, GoTo, At
<1>1. ASSUME NEW t \in Thread, LockCall(t) PROVE LockInv'
  BY <1>1 DEF LockCall
<1>2. ASSUME NEW t \in Thread, LockTry(t) PROVE LockInv'
  <2>1. CASE TryAcquire(t, "lock_try", "own")
    BY <1>2, <2>1 DEF LockTry, TryAcquire
  <2>2. CASE ~TryAcquire(t, "lock_try", "own")
    <3>1. /\ pc[t] = "lock_try" /\ pc' = [pc EXCEPT ![t] = "lock_wait"]
          /\ UNCHANGED <<waitlist, p_lock, lock, recursive, owner_id, nesting_cnt>>
      BY <1>2, <2>2 DEF LockTry
    <3>2. MutualExclusion' /\ PLockExclusion' /\ WaitersNeedOwner'
      BY <3>1
    <3>3. OwnerNamed'
      BY <3>1
    <3>. QED  BY <3>2, <3>3
  <2>. QED  BY <2>1, <2>2
<1>3. ASSUME NEW t \in Thread, LockWaiterLock(t) PROVE LockInv'
  BY <1>3 DEF LockWaiterLock, SpinAcquire
<1>4. ASSUME NEW t \in Thread, LockRetry(t) PROVE LockInv'
  <2>1. CASE TryAcquire(t, "lock_retry", "lock_got")
    BY <1>4, <2>1 DEF LockRetry, TryAcquire
  <2>2. CASE ~TryAcquire(t, "lock_retry", "lock_got")
    <3>1. /\ pc[t] = "lock_retry" /\ lock
          /\ \/ pc' = [pc EXCEPT ![t] = "suspend"]
             \/ pc' = [pc EXCEPT ![t] = "ext_check"]
          /\ UNCHANGED <<p_lock, lock, recursive, owner_id, nesting_cnt>>
      BY <1>4, <2>2 DEF LockRetry, WaitAppend
    <3>2. MutualExclusion'
      BY <3>1
    <3>5. WaitersNeedOwner'
      BY <3>1
    <3>3. PLockExclusion'
      BY <3>1
    <3>4. OwnerNamed'
      BY <3>1
    <3>. QED  BY <3>2, <3>3, <3>4, <3>5
  <2>. QED  BY <2>1, <2>2
<1>5. ASSUME NEW t \in Thread, LockGot(t) PROVE LockInv'
  BY <1>5 DEF LockGot, SpinRelease
<1>6. ASSUME NEW t \in Thread, LockWait(t) PROVE LockInv'
  <2>1. CASE SuspendBlock(t)
    BY <1>6, <2>1 DEF LockWait, SuspendBlock, CallbackBlock
  <2>2. CASE SuspendUnlock(t)
    BY <1>6, <2>2 DEF LockWait, SuspendUnlock
  <2>3. CASE WaitResumed(t, "lock_try")
    BY <1>6, <2>3 DEF LockWait, WaitResumed
  <2>4. CASE ExtReady(t, "lock_try")
    BY <1>6, <2>4 DEF LockWait, ExtReady, SpinRelease
  <2>5. CASE ExtFutexWait(t)
    BY <1>6, <2>5 DEF LockWait, ExtFutexWait
  <2>6. CASE ExtFutexWake(t, "lock_try")
    BY <1>6, <2>6 DEF LockWait, ExtFutexWake
  <2>7. CASE ExtRelock(t)
    BY <1>6, <2>7 DEF LockWait, ExtRelock, SpinAcquire
  <2>. QED  BY <1>6, <2>1, <2>2, <2>3, <2>4, <2>5, <2>6, <2>7 DEF LockWait, WaitStep
<1>7. ASSUME NEW t \in Thread, Own(t) PROVE LockInv'
  BY <1>7 DEF Own
<1>8. ASSUME NEW t \in Thread, LockNested(t) PROVE LockInv'
  BY <1>8 DEF LockNested
<1>9. ASSUME NEW t \in Thread, TryLock(t) PROVE LockInv'
  BY <1>9 DEF TryLock, TryAcquire
<1>10. ASSUME NEW t \in Thread, SpinLockCall(t) PROVE LockInv'
  BY <1>10 DEF SpinLockCall
<1>11. ASSUME NEW t \in Thread, SpinLock(t) PROVE LockInv'
  BY <1>11 DEF SpinLock, TryAcquire
<1>12. ASSUME NEW t \in Thread, CriticalYield(t) PROVE LockInv'
  BY <1>12 DEF CriticalYield, Yield
<1>13. ASSUME NEW t \in Thread, UnlockNested(t) PROVE LockInv'
  BY <1>13 DEF UnlockNested
<1>14. ASSUME NEW t \in Thread, UnlockCall(t) PROVE LockInv'
  BY <1>14, ThreadAssumption DEF UnlockCall
<1>15. ASSUME NEW t \in Thread, UnlockWaiterLock(t) PROVE LockInv'
  BY <1>15 DEF UnlockWaiterLock, SpinAcquire
<1>16. ASSUME NEW t \in Thread, UnlockRelease(t) PROVE LockInv'
  BY <1>16 DEF UnlockRelease
<1>17. ASSUME NEW t \in Thread, UnlockBroadcast(t) PROVE LockInv'
  <2>1. CASE BroadcastOne(t, "broadcast", "broadcast_dec")
    <3>1. \/ pc' = [pc EXCEPT ![t] = "broadcast_dec"]
          \/ UNCHANGED pc
      BY <2>1 DEF BroadcastOne, ResumePush
    <3>2. pc[t] = "broadcast" /\ UNCHANGED <<mutexVars, p_lock>> /\ waitlist # <<>>
      BY <1>17, <2>1 DEF UnlockBroadcast, BroadcastOne
    <3>3. CASE UNCHANGED pc
      BY <3>2, <3>3
    <3>4. CASE pc' = [pc EXCEPT ![t] = "broadcast_dec"]
      BY <3>2, <3>4
    <3>. QED  BY <3>1, <3>3, <3>4
  <2>2. CASE BroadcastDec(t, "broadcast_dec", "broadcast")
    BY <1>17, <2>2 DEF UnlockBroadcast, BroadcastDec, ResumeDecNumBlocked
  <2>3. CASE BroadcastEnd(t, "broadcast", "unlock_end")
    BY <1>17, <2>3 DEF UnlockBroadcast, BroadcastEnd
  <2>. QED  BY <1>17, <2>1, <2>2, <2>3 DEF UnlockBroadcast, Broadcast
<1>18. ASSUME NEW t \in Thread, UnlockEnd(t) PROVE LockInv'
  BY <1>18 DEF UnlockEnd, SpinRelease
<1>19. ASSUME NEW t \in Thread, ThreadExit(t) PROVE LockInv'
  BY <1>19 DEF ThreadExit, Exit
<1>20. ASSUME NEW e \in XSTREAM, MutexSchedule(e) PROVE LockInv'
  BY <1>20 DEF MutexSchedule, Schedule
<1>21. CASE UNCHANGED vars
  BY <1>21 DEF vars
<1>. QED
  BY <1>1, <1>2, <1>3, <1>4, <1>5, <1>6, <1>7, <1>8, <1>9, <1>10, <1>11, <1>12, <1>13, <1>14, <1>15, <1>16, <1>17, <1>18, <1>19, <1>20, <1>21
  DEF MutexNext, MutexStep, AllDone

(* A step of a running thread that is outside the waits, and stays outside. *)
LEMMA MoveStep ==
    ASSUME TypeOK, WaitInv, NEW t \in Thread, Running(t), pc[t] \notin WaitPoint,
           \/ UNCHANGED pc
           \/ \E l \in Point \ WaitPoint : GoTo(t, l),
           UNCHANGED <<state, p_thread, pool, waitlist>>
    PROVE  WaitInv'
<1>1. t \notin Waiters
  BY RunningNotWaiter DEF TypeOK
<1>2. CASE UNCHANGED pc
  <2>. GoTo(t, pc[t]) /\ pc[t] \notin {"suspend", "suspend_unlock"}
    BY <1>2 DEF GoTo, TypeOK, WaitPoint
  <2>. QED  BY <1>1, LocalStep DEF TypeOK
<1>3. ASSUME NEW l \in Point \ WaitPoint, GoTo(t, l) PROVE WaitInv'
  BY <1>1, <1>3, LocalStep DEF TypeOK, WaitPoint
<1>. QED  BY <1>2, <1>3

(* No waiter is suspending while another thread holds p_lock.              *)
LEMMA HolderAlone ==
    ASSUME PLockExclusion, NEW t \in Thread, pc[t] \in PLockPoint \ WaitLockPoint
    PROVE  \A u \in Thread : pc[u] \notin {"suspend", "suspend_unlock"}
  BY DEF PLockExclusion, PLockPoint, WaitLockPoint

(* Each step keeps every thread in one place.                              *)
LEMMA StepWaitInv == TypeOK /\ LockInv /\ WaitInv /\ [MutexNext]_vars => WaitInv'
<1>. SUFFICES ASSUME TypeOK, LockInv, WaitInv, [MutexNext]_vars PROVE WaitInv'
  OBVIOUS
<1>. USE DEF mutexVars
<1>1. ASSUME NEW t \in Thread, LockCall(t) PROVE WaitInv'
  BY <1>1, MoveStep DEF LockCall, At, Point, PLockPoint, WaitLockPoint, WaitPoint, OwnPoint
<1>2. ASSUME NEW t \in Thread, LockTry(t) PROVE WaitInv'
  BY <1>2, MoveStep DEF LockTry, TryAcquire, At, Point, PLockPoint, WaitLockPoint, WaitPoint, OwnPoint
<1>3. ASSUME NEW t \in Thread, LockWaiterLock(t) PROVE WaitInv'
  BY <1>3, MoveStep DEF LockWaiterLock, SpinAcquire, At, Point, PLockPoint, WaitLockPoint, WaitPoint, OwnPoint
<1>4. ASSUME NEW t \in Thread, LockGot(t) PROVE WaitInv'
  BY <1>4, MoveStep DEF LockGot, SpinRelease, At, Point, PLockPoint, WaitLockPoint, WaitPoint, OwnPoint
<1>5. ASSUME NEW t \in Thread, Own(t) PROVE WaitInv'
  BY <1>5, MoveStep DEF Own, At, Point, PLockPoint, WaitLockPoint, WaitPoint, OwnPoint
<1>6. ASSUME NEW t \in Thread, LockNested(t) PROVE WaitInv'
  BY <1>6, MoveStep DEF LockNested, At, Point, PLockPoint, WaitLockPoint, WaitPoint, OwnPoint
<1>7. ASSUME NEW t \in Thread, SpinLockCall(t) PROVE WaitInv'
  BY <1>7, MoveStep DEF SpinLockCall, At, Point, PLockPoint, WaitLockPoint, WaitPoint, OwnPoint
<1>8. ASSUME NEW t \in Thread, SpinLock(t) PROVE WaitInv'
  BY <1>8, MoveStep DEF SpinLock, TryAcquire, At, Point, PLockPoint, WaitLockPoint, WaitPoint, OwnPoint
<1>9. ASSUME NEW t \in Thread, UnlockNested(t) PROVE WaitInv'
  BY <1>9, MoveStep DEF UnlockNested, At, Point, PLockPoint, WaitLockPoint, WaitPoint, OwnPoint
<1>10. ASSUME NEW t \in Thread, UnlockCall(t) PROVE WaitInv'
  BY <1>10, MoveStep DEF UnlockCall, At, Point, PLockPoint, WaitLockPoint, WaitPoint, OwnPoint
<1>11. ASSUME NEW t \in Thread, UnlockWaiterLock(t) PROVE WaitInv'
  BY <1>11, MoveStep DEF UnlockWaiterLock, SpinAcquire, At, Point, PLockPoint, WaitLockPoint, WaitPoint, OwnPoint
<1>12. ASSUME NEW t \in Thread, UnlockRelease(t) PROVE WaitInv'
  BY <1>12, MoveStep DEF UnlockRelease, At, Point, PLockPoint, WaitLockPoint, WaitPoint, OwnPoint
<1>13. ASSUME NEW t \in Thread, UnlockEnd(t) PROVE WaitInv'
  BY <1>13, MoveStep DEF UnlockEnd, SpinRelease, At, Point, PLockPoint, WaitLockPoint, WaitPoint, OwnPoint
<1>14. ASSUME NEW t \in Thread, LockRetry(t) PROVE WaitInv'
  <2>1. CASE TryAcquire(t, "lock_retry", "lock_got")
    BY <2>1, MoveStep DEF TryAcquire, At, Point, OwnPoint, WaitPoint
  <2>2. CASE At(t, "lock_retry") /\ WaitAppend(t)
    BY <2>2, WaitAppendStep DEF TypeOK, At, WaitPoint
  <2>. QED  BY <1>14, <2>1, <2>2 DEF LockRetry
<1>15. ASSUME NEW t \in Thread, LockWait(t) PROVE WaitInv'
  BY <1>15, WaitStepStep DEF LockWait, TypeOK, WaitPoint
<1>16. ASSUME NEW t \in Thread, TryLock(t) PROVE WaitInv'
  <2>1. CASE TryAcquire(t, "idle", "own")
    BY <2>1, MoveStep DEF TryAcquire, At, Point, OwnPoint, WaitPoint
  <2>2. CASE ~TryAcquire(t, "idle", "own")
    BY <1>16, <2>2, MoveStep DEF TryLock, At, WaitPoint
  <2>. QED  BY <2>1, <2>2
<1>17. ASSUME NEW t \in Thread, CriticalYield(t) PROVE WaitInv'
  BY <1>17, YieldStep DEF CriticalYield, TypeOK, At, WaitPoint
<1>18. ASSUME NEW t \in Thread, UnlockBroadcast(t) PROVE WaitInv'
  <2>1. CASE BroadcastOne(t, "broadcast", "broadcast_dec")
    <3>1. \A u \in Thread : pc[u] \notin {"suspend", "suspend_unlock"}
      BY <2>1, HolderAlone DEF LockInv, BroadcastOne, At, PLockPoint, WaitLockPoint
    <3>2. t \notin Waiters
      BY <2>1, RunningNotWaiter DEF TypeOK, BroadcastOne, At, WaitPoint
    <3>3. waitlist # <<>> /\ waitlist' = Tail(waitlist)
      BY <2>1 DEF BroadcastOne
    <3>4. /\ \A u \in Thread : u # t => pc'[u] = pc[u]
          /\ pc'[t] \notin WaitPoint
      BY <2>1, <3>1 DEF BroadcastOne, At, ResumePush, GoTo, TypeOK, WaitPoint
    <3>5. \/ Head(waitlist) \in ULT /\ AddThread(Head(waitlist)) /\ UNCHANGED p_thread
          \/ /\ Head(waitlist) \in EXT
             /\ state' = [state EXCEPT ![Head(waitlist)] = "READY"]
             /\ UNCHANGED <<p_thread, pool>>
      BY <2>1 DEF BroadcastOne, ResumePush
    <3>. QED  BY <3>1, <3>2, <3>3, <3>4, <3>5, WakeHeadStep DEF TypeOK
  <2>2. CASE BroadcastDec(t, "broadcast_dec", "broadcast")
    BY <2>2, MoveStep
    DEF BroadcastDec, ResumeDecNumBlocked, At, Point, PLockPoint, WaitLockPoint, WaitPoint
  <2>3. CASE BroadcastEnd(t, "broadcast", "unlock_end")
    BY <2>3, MoveStep DEF BroadcastEnd, At, Point, PLockPoint, WaitLockPoint, WaitPoint
  <2>. QED  BY <1>18, <2>1, <2>2, <2>3 DEF UnlockBroadcast, Broadcast
<1>19. ASSUME NEW t \in Thread, ThreadExit(t) PROVE WaitInv'
  BY <1>19, ExitStep DEF ThreadExit, TypeOK, At, WaitPoint
<1>20. ASSUME NEW e \in XSTREAM, MutexSchedule(e) PROVE WaitInv'
  BY <1>20, ScheduleStep DEF MutexSchedule, TypeOK
<1>21. CASE UNCHANGED vars
  BY <1>21 DEF vars, WaitInv, UltInOnePlace, WaitersSuspended, OnXstream, Waiters
<1>. QED
  BY <1>1, <1>2, <1>3, <1>4, <1>5, <1>6, <1>7, <1>8, <1>9, <1>10, <1>11, <1>12, <1>13, <1>14, <1>15, <1>16, <1>17, <1>18, <1>19, <1>20, <1>21
  DEF MutexNext, MutexStep, AllDone

(* A step that moves a running thread that is not about to decrease the    *)
(* count.                                                                  *)
LEMMA MoveCounted ==
    ASSUME TypeOK, CountInv("broadcast_dec"), NEW t \in Thread, pc[t] # "broadcast_dec",
           \/ UNCHANGED pc
           \/ \E l \in Point \ {"broadcast_dec"} : GoTo(t, l),
           UNCHANGED <<state, num_blocked>>
    PROVE  CountInv("broadcast_dec")'
<1>1. CASE UNCHANGED pc
  <2>1. /\ \A u \in ULT : state'[u] = "BLOCKED" <=> state[u] = "BLOCKED"
        /\ \A u \in Thread : pc'[u] = "broadcast_dec" <=> pc[u] = "broadcast_dec"
    BY <1>1
  <2>. QED  BY <2>1, CountSame
<1>2. ASSUME NEW l \in Point \ {"broadcast_dec"}, GoTo(t, l) PROVE CountInv("broadcast_dec")'
  BY <1>2, CountMove DEF TypeOK
<1>. QED  BY <1>1, <1>2

(* Each step keeps num_blocked exact.                                      *)
LEMMA StepCounted ==
    TypeOK /\ LockInv /\ WaitInv /\ CountInv("broadcast_dec") /\ [MutexNext]_vars
        => CountInv("broadcast_dec")'
<1>. SUFFICES ASSUME TypeOK, LockInv, WaitInv, CountInv("broadcast_dec"), [MutexNext]_vars
              PROVE  CountInv("broadcast_dec")'
  OBVIOUS
<1>. USE DEF mutexVars, At, Point, PLockPoint, WaitLockPoint, WaitPoint, OwnPoint
<1>1. ASSUME NEW t \in Thread, LockCall(t) \/ LockTry(t) \/ LockWaiterLock(t)
      PROVE  CountInv("broadcast_dec")'
  BY <1>1, MoveCounted DEF LockCall, LockTry, TryAcquire, LockWaiterLock, SpinAcquire
<1>2. ASSUME NEW t \in Thread, LockGot(t) \/ Own(t) \/ LockNested(t)
      PROVE  CountInv("broadcast_dec")'
  BY <1>2, MoveCounted DEF LockGot, SpinRelease, Own, LockNested
<1>3. ASSUME NEW t \in Thread, SpinLockCall(t) \/ SpinLock(t)
      PROVE  CountInv("broadcast_dec")'
  BY <1>3, MoveCounted DEF SpinLockCall, SpinLock, TryAcquire
<1>4. ASSUME NEW t \in Thread, UnlockNested(t) \/ UnlockCall(t)
      PROVE  CountInv("broadcast_dec")'
  BY <1>4, MoveCounted DEF UnlockNested, UnlockCall
<1>5. ASSUME NEW t \in Thread, UnlockWaiterLock(t) \/ UnlockRelease(t) \/ UnlockEnd(t)
      PROVE  CountInv("broadcast_dec")'
  BY <1>5, MoveCounted DEF UnlockWaiterLock, SpinAcquire, UnlockRelease, UnlockEnd, SpinRelease
<1>6. ASSUME NEW t \in Thread, LockRetry(t) PROVE CountInv("broadcast_dec")'
  <2>1. CASE TryAcquire(t, "lock_retry", "lock_got")
    BY <2>1, MoveCounted DEF TryAcquire
  <2>2. CASE At(t, "lock_retry") /\ WaitAppend(t)
    BY <2>2, WaitAppendCounted DEF TypeOK
  <2>. QED  BY <1>6, <2>1, <2>2 DEF LockRetry
<1>7. ASSUME NEW t \in Thread, LockWait(t) PROVE CountInv("broadcast_dec")'
  BY <1>7, WaitStepCounted DEF LockWait, TypeOK
<1>8. ASSUME NEW t \in Thread, TryLock(t) PROVE CountInv("broadcast_dec")'
  <2>1. CASE TryAcquire(t, "idle", "own")
    BY <2>1, MoveCounted DEF TryAcquire
  <2>2. CASE ~TryAcquire(t, "idle", "own")
    BY <1>8, <2>2, MoveCounted DEF TryLock
  <2>. QED  BY <2>1, <2>2
<1>9. ASSUME NEW t \in Thread, CriticalYield(t) \/ ThreadExit(t)
      PROVE  CountInv("broadcast_dec")'
  <2>1. \E l : /\ Running(t) /\ pc[t] \notin {"broadcast_dec", "suspend_unlock"}
               /\ l # "broadcast_dec" /\ (Yield(t, l) \/ Exit(t, l))
    BY <1>9 DEF CriticalYield, ThreadExit
  <2>. QED  BY <2>1, SwitchCounted DEF TypeOK
<1>10. ASSUME NEW t \in Thread, UnlockBroadcast(t) PROVE CountInv("broadcast_dec")'
  <2>1. At(t, "broadcast") => \A u \in Thread : pc[u] \notin {"suspend", "suspend_unlock"}
    BY HolderAlone DEF LockInv
  <2>2. Broadcast(t, "broadcast", "broadcast_dec", "unlock_end")
    BY <1>10 DEF UnlockBroadcast
  <2>. QED  BY <2>1, <2>2, BroadcastCounted DEF TypeOK
<1>11. ASSUME NEW e \in XSTREAM, MutexSchedule(e) PROVE CountInv("broadcast_dec")'
  <2>1. Schedule(e)
    BY <1>11 DEF MutexSchedule
  <2>. QED  BY <2>1, SwitchCounted DEF TypeOK
<1>12. CASE UNCHANGED vars
  BY <1>12, CountSame DEF vars
<1>. QED
  BY <1>1, <1>2, <1>3, <1>4, <1>5, <1>6, <1>7, <1>8, <1>9, <1>10, <1>11, <1>12
  DEF MutexNext, MutexStep, AllDone

LEMMA Inductive ==
    /\ MutexInit => IInv
    /\ IInv /\ [MutexNext]_vars => IInv'
<1>1. MutexInit => IInv
  <2>1. MutexInit => WaitInv
    BY WaitInitInv DEF MutexInit, WaitPoint
  <2>2. MutexInit => CountInv("broadcast_dec")
    BY CountInit DEF MutexInit
  <2>. QED  BY <2>1, <2>2, InitTypeOK, InitLockInv DEF IInv
<1>2. IInv /\ [MutexNext]_vars => IInv'
  BY StepTypeOK, StepLockInv, StepWaitInv, StepCounted DEF IInv
<1>. QED  BY <1>1, <1>2

(* The points, the list, the count and the owner fit together at every     *)
(* step.                                                                   *)
THEOREM Invariance == MutexSpec => []IInv
  BY Inductive, PTL DEF MutexSpec

(* The variables of the mutex keep their types.                            *)
THEOREM TypeCorrect == MutexSpec => []TypeOK
  BY Invariance, PTL DEF IInv

(* Whatever the number of threads and however their test-and-sets of lock  *)
(* interleave, one thread owns the mutex.                                  *)
THEOREM Exclusion == MutexSpec => []MutualExclusion
  BY Invariance, PTL DEF IInv, LockInv

(* No thread is left waiting for a mutex that nobody owns.                 *)
THEOREM Wakeup == MutexSpec => []NoLostWakeup
<1>1. IInv => NoLostWakeup
  BY DEF IInv, LockInv, WaitersNeedOwner, PLockExclusion, NoLostWakeup, PLockPoint
<1>. QED  BY <1>1, Invariance, PTL

(* The assertion of ABTI_ythread_resume_and_push never fails in unlock.    *)
THEOREM ResumeAssertion == MutexSpec => []ResumesBlockedWaiters
<1>1. ASSUME IInv, NEW t \in Thread, pc[t] = "broadcast", waitlist # <<>>
      PROVE  state[Head(waitlist)] = "BLOCKED"
  <2>1. \A u \in Thread : pc[u] \notin {"suspend", "suspend_unlock"}
    BY <1>1, HolderAlone DEF IInv, LockInv, PLockPoint, WaitLockPoint
  <2>2. Head(waitlist) \in Waiters /\ Head(waitlist) \in Thread
    BY <1>1, TailRange DEF IInv, TypeOK, Waiters
  <2>. QED  BY <1>1, <2>1, <2>2 DEF IInv, WaitInv, UltInOnePlace, WaitersSuspended
<1>2. IInv => ResumesBlockedWaiters
  BY <1>1 DEF ResumesBlockedWaiters, ResumesBlocked
<1>. QED  BY <1>2, Invariance, PTL

(* A ULT is never pushed twice, run twice at a time, or dropped.           *)
THEOREM OnePlace == MutexSpec => []UltInOnePlace
  BY Invariance, PTL DEF IInv, WaitInv

(* The pool never counts a ULT too few or too many: with one that is still *)
(* to come back it never looks empty to a scheduler.                       *)
THEOREM Counted == MutexSpec => []BlockedUltsCounted
<1>1. IInv => BlockedUltsCounted
  BY DEF IInv, CountInv, BlockedUltsCounted
<1>. QED  BY <1>1, Invariance, PTL

-----------------------------------------------------------------------------
(* The mutex implements AbstractMutex: the owner is the thread that LockInv *)
(* allows at a point of ownership; all steps but six leave it alone.        *)

Depth == IF Owner = NULL THEN 0 ELSE nesting_cnt + 1

(* Only one thread can be the owner.                                       *)
LEMMA OwnerIs ==
    ASSUME MutualExclusion, NEW t \in Thread, pc[t] \in OwnPoint
    PROVE  Owner = t
  BY DEF MutualExclusion, Owner

(* Nobody at a point of ownership: the mutex is free.                      *)
LEMMA NoOwner ==
    ASSUME \A t \in Thread : pc[t] \notin OwnPoint
    PROVE  Owner = NULL
  BY DEF Owner

(* A thread is not mistaken for a free mutex.                              *)
LEMMA ThreadNotNull == \A t \in Thread : t # NULL
  BY ThreadAssumption

(* A step that moves nobody to or from a point of ownership.               *)
StaysOwner ==
    /\ \A u \in Thread : pc'[u] \in OwnPoint <=> pc[u] \in OwnPoint
    /\ UNCHANGED nesting_cnt

(* Such a step changes nothing that AbstractMutex speaks of.               *)
LEMMA SameOwner ==
    ASSUME MutualExclusion, MutualExclusion', StaysOwner
    PROVE  UNCHANGED <<Owner, Depth>>
<1>1. CASE \E t \in Thread : pc[t] \in OwnPoint
  <2>1. PICK t \in Thread : pc[t] \in OwnPoint
    BY <1>1
  <2>2. Owner = t
    BY <2>1, OwnerIs
  <2>3. Owner' = t
    BY <2>1 DEF StaysOwner, MutualExclusion, Owner
  <2>. QED  BY <2>2, <2>3 DEF StaysOwner, Depth
<1>2. CASE \A t \in Thread : pc[t] \notin OwnPoint
  <2>1. Owner = NULL /\ Owner' = NULL
    BY <1>2 DEF StaysOwner, Owner
  <2>. QED  BY <2>1 DEF StaysOwner, Depth
<1>. QED  BY <1>1, <1>2

(* A test-and-set that succeeds.                                           *)
LEMMA AcquireStep ==
    ASSUME TypeOK, LockInv, LockInv', NEW t \in Thread,
           NEW from, NEW next \in OwnPoint, TryAcquire(t, from, next)
    PROVE  Abstract!Acquire(t)
<1>1. \A u \in Thread : pc[u] \notin OwnPoint
  BY DEF LockInv, MutualExclusion, TryAcquire
<1>2. Owner = NULL
  BY <1>1, NoOwner
<1>3. nesting_cnt = 0
  BY <1>1, MutexAssumption DEF LockInv, OwnerNamed, TypeOK, OwnPoint
<1>4. pc'[t] \in OwnPoint /\ nesting_cnt' = nesting_cnt
  BY DEF TryAcquire, GoTo, TypeOK
<1>5. Owner' = t
  BY <1>4 DEF LockInv, MutualExclusion, Owner
<1>. QED  BY <1>2, <1>3, <1>4, <1>5, ThreadNotNull DEF Abstract!Acquire

(* A thread that owner_id names is the owner.                              *)
LEMMA NestedStep ==
    ASSUME TypeOK, LockInv, LockInv', NEW t \in Thread, LockNested(t)
    PROVE  Abstract!Reacquire(t)
<1>1. pc[t] \in {"critical", "leaving"}
  BY DEF LockNested, LockInv, OwnerNamed
<1>2. Owner = t
  BY <1>1, OwnerIs DEF LockInv, OwnPoint
<1>3. pc'[t] = "critical" /\ nesting_cnt' = nesting_cnt + 1
  BY DEF LockNested, GoTo, TypeOK
<1>4. Owner' = t
  BY <1>3 DEF LockInv, MutualExclusion, Owner, OwnPoint
<1>. QED  BY <1>2, <1>3, <1>4, ThreadNotNull DEF Abstract!Reacquire

(* A nested unlock keeps the owner.                                        *)
LEMMA UnlockNestedStep ==
    ASSUME TypeOK, LockInv, LockInv', NEW t \in Thread, UnlockNested(t)
    PROVE  Abstract!Release(t)
<1>1. Owner = t
  BY OwnerIs DEF UnlockNested, LockInv, OwnPoint
<1>2. pc'[t] = "leaving" /\ nesting_cnt > 0 /\ nesting_cnt' = nesting_cnt - 1
  BY DEF UnlockNested, GoTo, TypeOK
<1>3. Owner' = t
  BY <1>2 DEF LockInv, MutualExclusion, Owner, OwnPoint
<1>4. nesting_cnt \in Int
  BY MutexAssumption DEF TypeOK
<1>. QED  BY <1>1, <1>2, <1>3, <1>4, ThreadNotNull DEF Abstract!Release

(* The store that releases lock: nothing nested is left.                   *)
LEMMA ReleaseStep ==
    ASSUME TypeOK, LockInv, LockInv', NEW t \in Thread, UnlockRelease(t)
    PROVE  Abstract!Release(t)
<1>1. pc[t] = "unlock_release" /\ pc'[t] = "broadcast" /\ nesting_cnt' = nesting_cnt
  BY DEF UnlockRelease, At, GoTo, TypeOK
<1>2. Owner = t
  BY <1>1, OwnerIs DEF LockInv, OwnPoint
<1>3. nesting_cnt = 0
  BY <1>1, MutexAssumption DEF LockInv, MutualExclusion, OwnerNamed, OwnPoint, TypeOK
<1>4. \A u \in Thread : pc'[u] \notin OwnPoint
  BY <1>1 DEF LockInv, MutualExclusion, OwnPoint, UnlockRelease, GoTo, TypeOK
<1>5. Owner' = NULL
  BY <1>4 DEF Owner
<1>. QED  BY <1>2, <1>3, <1>5, ThreadNotNull DEF Abstract!Release

(* What is left are the steps of waiting, of waking and of the schedulers. *)
OtherStep(t) ==
    \/ LockCall(t) \/ LockWaiterLock(t) \/ LockGot(t) \/ LockWait(t) \/ Own(t)
    \/ SpinLockCall(t) \/ CriticalYield(t) \/ UnlockCall(t)
    \/ UnlockWaiterLock(t) \/ UnlockBroadcast(t) \/ UnlockEnd(t) \/ ThreadExit(t)

(* None of them moves the ownership.                                       *)
LEMMA OtherSteps ==
    ASSUME TypeOK, NEW t \in Thread, OtherStep(t)
    PROVE  StaysOwner
<1>. USE DEF TypeOK, StaysOwner, OwnPoint, mutexVars, GoTo, At
<1>1. CASE LockCall(t) \/ SpinLockCall(t)
  BY <1>1 DEF LockCall, SpinLockCall
<1>2. CASE LockWaiterLock(t) \/ UnlockWaiterLock(t)
  BY <1>2 DEF LockWaiterLock, UnlockWaiterLock, SpinAcquire
<1>3. CASE LockGot(t) \/ UnlockEnd(t)
  BY <1>3 DEF LockGot, UnlockEnd, SpinRelease
<1>4. CASE LockWait(t)
  <2>1. CASE SuspendBlock(t)
    BY <1>4, <2>1 DEF LockWait, SuspendBlock, CallbackBlock
  <2>2. CASE SuspendUnlock(t)
    BY <1>4, <2>2 DEF LockWait, SuspendUnlock
  <2>3. CASE WaitResumed(t, "lock_try")
    BY <1>4, <2>3 DEF LockWait, WaitResumed
  <2>4. CASE ExtReady(t, "lock_try")
    BY <1>4, <2>4 DEF LockWait, ExtReady, SpinRelease
  <2>5. CASE ExtFutexWait(t)
    BY <1>4, <2>5 DEF LockWait, ExtFutexWait
  <2>6. CASE ExtFutexWake(t, "lock_try")
    BY <1>4, <2>6 DEF LockWait, ExtFutexWake
  <2>7. CASE ExtRelock(t)
    BY <1>4, <2>7 DEF LockWait, ExtRelock, SpinAcquire
  <2>. QED  BY <1>4, <2>1, <2>2, <2>3, <2>4, <2>5, <2>6, <2>7 DEF LockWait, WaitStep
<1>5. CASE Own(t)
  BY <1>5 DEF Own
<1>6. CASE CriticalYield(t)
  BY <1>6 DEF CriticalYield, Yield
<1>7. CASE UnlockCall(t)
  BY <1>7 DEF UnlockCall
<1>8. CASE UnlockBroadcast(t)
  <2>1. CASE BroadcastOne(t, "broadcast", "broadcast_dec")
    BY <1>8, <2>1 DEF UnlockBroadcast, BroadcastOne, ResumePush
  <2>2. CASE BroadcastDec(t, "broadcast_dec", "broadcast")
    BY <1>8, <2>2 DEF UnlockBroadcast, BroadcastDec, ResumeDecNumBlocked
  <2>3. CASE BroadcastEnd(t, "broadcast", "unlock_end")
    BY <1>8, <2>3 DEF UnlockBroadcast, BroadcastEnd
  <2>. QED  BY <1>8, <2>1, <2>2, <2>3 DEF UnlockBroadcast, Broadcast
<1>9. CASE ThreadExit(t)
  BY <1>9 DEF ThreadExit, Exit
<1>. QED
  BY <1>1, <1>2, <1>3, <1>4, <1>5, <1>6, <1>7, <1>8, <1>9 DEF OtherStep

(* Every step of the mutex is one of AbstractMutex, or leaves the owner    *)
(* and the depth as they are.                                              *)
LEMMA AbstractStep ==
    ASSUME TypeOK, LockInv, LockInv', [MutexNext]_vars
    PROVE  [Abstract!Next]_(Abstract!mutexVars)
<1>0. StaysOwner => UNCHANGED Abstract!mutexVars
  BY SameOwner DEF LockInv, Abstract!mutexVars, Depth
<1>1. ASSUME NEW t \in Thread, OtherStep(t)
      PROVE  UNCHANGED Abstract!mutexVars
  BY <1>0, <1>1, OtherSteps
<1>2. ASSUME NEW t \in Thread, LockTry(t) \/ LockRetry(t) \/ TryLock(t) \/ SpinLock(t)
      PROVE  Abstract!Acquire(t) \/ UNCHANGED Abstract!mutexVars
  <2>1. CASE \/ TryAcquire(t, "lock_try", "own") \/ TryAcquire(t, "lock_retry", "lock_got")
             \/ TryAcquire(t, "idle", "own") \/ TryAcquire(t, "spin", "own")
    BY <2>1, AcquireStep DEF OwnPoint
  <2>2. CASE ~(\/ TryAcquire(t, "lock_try", "own") \/ TryAcquire(t, "lock_retry", "lock_got")
               \/ TryAcquire(t, "idle", "own") \/ TryAcquire(t, "spin", "own"))
    <3>1. /\ UNCHANGED nesting_cnt
          /\ \/ UNCHANGED pc
             \/ /\ pc[t] \in {"lock_try", "lock_retry"}
                /\ \E l \in {"lock_wait", "suspend", "ext_check"} : GoTo(t, l)
      BY <1>2, <2>2 DEF LockTry, LockRetry, TryLock, SpinLock, WaitAppend, At, mutexVars
    <3>2. StaysOwner
      BY <3>1 DEF StaysOwner, OwnPoint, GoTo, TypeOK
    <3>. QED  BY <1>0, <3>2
  <2>. QED  BY <2>1, <2>2
<1>3. ASSUME NEW t \in Thread, MutexStep(t)
      PROVE  Abstract!Next \/ UNCHANGED Abstract!mutexVars
  BY <1>1, <1>2, <1>3, NestedStep, UnlockNestedStep, ReleaseStep
     DEF MutexStep, OtherStep, Abstract!Next
<1>4. ASSUME NEW e \in XSTREAM, MutexSchedule(e)
      PROVE  UNCHANGED Abstract!mutexVars
  <2>1. StaysOwner
    BY <1>4 DEF MutexSchedule, Schedule, StaysOwner, mutexVars
  <2>. QED  BY <1>0, <2>1
<1>5. CASE UNCHANGED vars
  <2>1. StaysOwner
    BY <1>5 DEF vars, StaysOwner, mutexVars
  <2>. QED  BY <1>0, <2>1
<1>. QED  BY <1>3, <1>4, <1>5 DEF MutexNext, AllDone

(* At first nobody owns the mutex.                                         *)
LEMMA AbstractInit == MutexInit => Abstract!Init
<1>. SUFFICES ASSUME MutexInit PROVE Abstract!Init
  OBVIOUS
<1>1. \A t \in Thread : pc[t] \notin OwnPoint
  BY DEF MutexInit, YthreadInit, OwnPoint
<1>2. Owner = NULL
  BY <1>1, NoOwner
<1>. QED  BY <1>2 DEF Abstract!Init

(* The mutex of mutex.c keeps the promises of AbstractMutex for any number *)
(* of threads: one owner at a time, who may lock it again if it is         *)
(* recursive, and it is free when its owner has undone all of its locks,   *)
(* although owner_id and nesting_cnt are read and written outside every    *)
(* spinlock.                                                               *)
THEOREM Implementation == MutexSpec => ImplementsAbstractMutex
<1>1. IInv /\ IInv' /\ [MutexNext]_vars => [Abstract!Next]_(Abstract!mutexVars)
  BY AbstractStep DEF IInv
<1>. QED
  BY <1>1, AbstractInit, Invariance, PTL
     DEF MutexSpec, ImplementsAbstractMutex, Abstract!Spec

-----------------------------------------------------------------------------
(* Eventuals and futures.                                                  *)

(* Points at which the waiters are woken.                                  *)
EventualWakePoint == {"broadcast", "broadcast_dec"}

(* Points of a thread that holds the lock.                                 *)
EventualLockPoint == {"locked", "store", "release"} \cup EventualWakePoint \cup WaitLockPoint

EventualPoint == {"idle", "value", "done"} \cup EventualLockPoint \cup WaitPoint

EventualTypeOK ==
    /\ YthreadTypeOK(EventualPoint) /\ WaitlistTypeOK
    /\ kind \in {"eventual", "future"}
    /\ ready \in BOOLEAN
    /\ counter \in 0 .. NUM_COMPARTMENTS
    /\ called \in BOOLEAN
    /\ freed \in BOOLEAN
    /\ is_ready \in [Thread -> BOOLEAN]
    /\ program \in [Thread -> Seq(EventualOperation)]

(* The lock is held by one thread, or for ever by the one that freed the   *)
(* object.                                                                 *)
EventualLockInv ==
    /\ \A t, u \in Thread : pc[t] \in EventualLockPoint /\ pc[u] \in EventualLockPoint => t = u
    /\ p_lock <=> freed \/ \E t \in Thread : pc[t] \in EventualLockPoint
    /\ freed => \A t \in Thread : pc[t] \notin EventualLockPoint

USE DEF EventualWakePoint, EventualLockPoint, EventualPoint, WaitLockPoint, WaitPoint

(* The rest of a program.                                                  *)
LEMMA ProgramTail ==
    ASSUME NEW S, NEW p \in Seq(S), p # <<>>
    PROVE  /\ Tail(p) \in Seq(S)
           /\ Len(p) \in Nat \ {0}
           /\ Len(Tail(p)) = Len(p) - 1
           /\ DOMAIN Tail(p) = 1 .. Len(p) - 1
           /\ DOMAIN p = 1 .. Len(p)
           /\ \A i \in 1 .. Len(p) - 1 : Tail(p)[i] = p[i + 1]
           /\ Head(p) = p[1]
  OBVIOUS

(* Initially nobody waits, and the object was not set.                     *)
LEMMA EventualInitTypes == ASSUME EventualInit PROVE EventualTypeOK /\ EventualLockInv
<1>. USE EventualAssumption DEF EventualInit
<1>1. YthreadTypeOK(EventualPoint) /\ WaitlistTypeOK
  BY InitTypes
<1>2. kind \in {"eventual", "future"} /\ program \in [Thread -> Seq(EventualOperation)]
  <2>1. PICK use \in USES : kind = use[1] /\ program = use[2]
    OBVIOUS
  <2>. QED  BY <2>1
<1>3. EventualTypeOK
  <2>1. counter \in 0 .. NUM_COMPARTMENTS /\ is_ready \in [Thread -> BOOLEAN]
    OBVIOUS
  <2>2. ready \in BOOLEAN /\ called \in BOOLEAN /\ freed \in BOOLEAN
    OBVIOUS
  <2>. QED  BY <1>1, <1>2, <2>1, <2>2 DEF EventualTypeOK
<1>4. EventualLockInv
  BY DEF EventualLockInv, YthreadInit, WaitlistInit
<1>. QED  BY <1>3, <1>4

(* The end of an operation is a point of its thread, with one operation    *)
(* less to do.                                                             *)
LEMMA EndOperationTypes ==
    ASSUME EventualTypeOK, NEW t \in Thread, program[t] # <<>>, EndOperation(t)
    PROVE  /\ program' \in [Thread -> Seq(EventualOperation)]
           /\ program'[t] = Tail(program[t])
           /\ \A u \in Thread : u # t => program'[u] = program[u] /\ pc'[u] = pc[u]
           /\ pc' \in [Thread -> EventualPoint]
           /\ pc'[t] = "idle"
<1>1. Tail(program[t]) \in Seq(EventualOperation)
  BY ProgramTail DEF EventualTypeOK
<1>. QED  BY <1>1 DEF EventualTypeOK, EndOperation, GoTo

(* The operation each thread is in.                                        *)
EventualPointInv ==
    \A t \in Thread :
        /\ pc[t] \notin {"idle", "done"} => program[t] # <<>> /\ Head(program[t]) # "free"
        /\ pc[t] \in WaitPoint \cup {"value"} => Head(program[t]) = "wait"
        /\ pc[t] \in EventualWakePoint \cup {"store"} => Head(program[t]) = "set"
        /\ pc[t] = "release" => Head(program[t]) \in {"set", "test", "reset"}

(* The variables keep their types.                                         *)
LEMMA EventualStepTypes ==
    ASSUME EventualTypeOK, EventualPointInv, [EventualNext]_eventualVars
    PROVE  EventualTypeOK'
<1>. USE EventualAssumption
     DEF EventualTypeOK, waitlistVars, objectVars, ythreadVars, GoTo, At, Does
<1>1. ASSUME NEW t \in Thread, Acquire(t) PROVE EventualTypeOK'
  BY <1>1 DEF Acquire, SpinAcquire
<1>2. ASSUME NEW t \in Thread, Release(t) PROVE EventualTypeOK'
  BY <1>2, EndOperationTypes DEF Release, EventualPointInv
<1>3. ASSUME NEW t \in Thread, FreeObject(t) PROVE EventualTypeOK'
  BY <1>3, EndOperationTypes DEF FreeObject
<1>4. ASSUME NEW t \in Thread, WaitUnready(t) PROVE EventualTypeOK'
  <2>1. YthreadTypeOK(EventualPoint)' /\ WaitlistTypeOK'
    BY <1>4, WaitAppendTypes DEF WaitUnready
  <2>. QED  BY <1>4, <2>1 DEF WaitUnready
<1>5. ASSUME NEW t \in Thread, WaitReady(t) PROVE EventualTypeOK'
  BY <1>5 DEF WaitReady, SpinRelease
<1>6. ASSUME NEW t \in Thread, EventualWaitStep(t) PROVE EventualTypeOK'
  <2>1. YthreadTypeOK(EventualPoint)' /\ WaitlistTypeOK'
    BY <1>6, WaitStepTypes DEF EventualWaitStep
  <2>. QED  BY <1>6, <2>1 DEF EventualWaitStep
<1>7. ASSUME NEW t \in Thread, ReadValue(t) PROVE EventualTypeOK'
  BY <1>7, EndOperationTypes DEF ReadValue, EventualPointInv
<1>8. ASSUME NEW t \in Thread, EventualTest(t) \/ EventualSet(t) \/ EventualReset(t)
      PROVE  EventualTypeOK'
  BY <1>8 DEF EventualTest, EventualSet, EventualReset
<1>9. ASSUME NEW t \in Thread, FutureTest(t) PROVE EventualTypeOK'
  <2>1. is_ready' \in [Thread -> BOOLEAN]
    BY <1>9 DEF FutureTest
  <2>2. program[t] # <<>>
    BY <1>9 DEF FutureTest
  <2>3. pc' \in [Thread -> EventualPoint] /\ program' \in [Thread -> Seq(EventualOperation)]
    BY <1>9, <2>2, EndOperationTypes DEF FutureTest
  <2>. QED  BY <1>9, <2>1, <2>3 DEF FutureTest
<1>10. ASSUME NEW t \in Thread,
              FutureSet(t) \/ FutureCallback(t) \/ FutureStore(t) \/ FutureReset(t)
       PROVE  EventualTypeOK'
  <2>1. counter' \in 0 .. NUM_COMPARTMENTS
    <3>1. CASE FutureSet(t)
      BY <3>1 DEF FutureSet
    <3>2. CASE FutureCallback(t)
      BY <3>2 DEF FutureCallback
    <3>3. CASE FutureStore(t) \/ FutureReset(t)
      BY <3>3 DEF FutureStore, FutureReset
    <3>. QED  BY <1>10, <3>1, <3>2, <3>3
  <2>3. called' \in BOOLEAN
    BY <1>10 DEF FutureSet, FutureCallback, FutureStore, FutureReset
  <2>2. /\ pc' \in [Thread -> EventualPoint]
        /\ UNCHANGED <<state, p_thread, pool, num_blocked, p_lock, waitlist, futex, kind, ready,
                       freed, is_ready, program>>
    BY <1>10 DEF FutureSet, FutureCallback, FutureStore, FutureReset
  <2>. QED  BY <2>1, <2>2, <2>3
<1>11. ASSUME NEW t \in Thread, WakeAll(t) PROVE EventualTypeOK'
  <2>1. Broadcast(t, "broadcast", "broadcast_dec", "release")
    BY <1>11 DEF WakeAll
  <2>2. {"broadcast", "broadcast_dec", "release"} \subseteq EventualPoint
    OBVIOUS
  <2>. HIDE DEF EventualPoint, YthreadTypeOK, WaitlistTypeOK
  <2>3. YthreadTypeOK(EventualPoint)' /\ WaitlistTypeOK'
    BY <2>1, <2>2, BroadcastTypes
  <2>. QED  BY <1>11, <2>3 DEF WakeAll
<1>12. ASSUME NEW t \in Thread, SetError(t) PROVE EventualTypeOK'
  BY <1>12, EndOperationTypes DEF SetError, Eventual, Future
<1>13. ASSUME NEW t \in Thread, UserExit(t) PROVE EventualTypeOK'
  BY <1>13, SwitchTypes DEF UserExit
<1>14. ASSUME NEW e \in XSTREAM, EventualSchedule(e) PROVE EventualTypeOK'
  BY <1>14, SwitchTypes DEF EventualSchedule
<1>15. CASE UNCHANGED eventualVars
  BY <1>15 DEF eventualVars
<1>. QED
  BY <1>1, <1>2, <1>3, <1>4, <1>5, <1>6, <1>7, <1>8, <1>9, <1>10, <1>11, <1>12, <1>13, <1>14,
     <1>15
  DEF EventualNext, EventualStep

(* The steps of a wait move the lock with its holder, and leave the list   *)
(* and the object alone.                                                   *)
LEMMA EventualWaitLocks ==
    ASSUME EventualTypeOK, EventualLockInv, NEW t \in Thread, EventualWaitStep(t)
    PROVE  /\ EventualLockInv'
           /\ UNCHANGED <<waitlist, objectVars>>
           /\ \A u \in Thread \ {t} : pc'[u] = pc[u]
           /\ pc[t] \in WaitPoint
           /\ pc'[t] \in WaitPoint \cup {"value"}
<1>. USE DEF EventualTypeOK, EventualLockInv, objectVars, waitlistVars, GoTo, At, EventualWaitStep
<1>1. CASE SuspendBlock(t)
  BY <1>1 DEF SuspendBlock, CallbackBlock
<1>2. CASE SuspendUnlock(t)
  BY <1>2 DEF SuspendUnlock
<1>3. CASE WaitResumed(t, "value")
  BY <1>3 DEF WaitResumed
<1>4. CASE ExtReady(t, "value")
  BY <1>4 DEF ExtReady, SpinRelease
<1>5. CASE ExtFutexWait(t)
  BY <1>5 DEF ExtFutexWait
<1>6. CASE ExtFutexWake(t, "value")
  BY <1>6 DEF ExtFutexWake
<1>7. CASE ExtRelock(t)
  BY <1>7 DEF ExtRelock, SpinAcquire
<1>. QED  BY <1>1, <1>2, <1>3, <1>4, <1>5, <1>6, <1>7 DEF WaitStep

(* Waking the waiters: what it moves.                                      *)
LEMMA WakeAllMoves ==
    ASSUME EventualTypeOK, NEW t \in Thread, WakeAll(t)
    PROVE  /\ UNCHANGED <<objectVars, p_lock>>
           /\ \A u \in Thread \ {t} : pc'[u] = pc[u]
           /\ pc[t] \in EventualWakePoint
           /\ pc'[t] \in EventualWakePoint \cup {"release"}
           /\ pc'[t] = "release" => waitlist' = <<>>
<1>. USE DEF EventualTypeOK, objectVars, waitlistVars, GoTo, At, WakeAll
<1>1. CASE BroadcastOne(t, "broadcast", "broadcast_dec")
  BY <1>1 DEF BroadcastOne, ResumePush
<1>2. CASE BroadcastDec(t, "broadcast_dec", "broadcast")
  BY <1>2 DEF BroadcastDec, ResumeDecNumBlocked
<1>3. CASE BroadcastEnd(t, "broadcast", "release")
  BY <1>3 DEF BroadcastEnd
<1>. QED  BY <1>1, <1>2, <1>3 DEF Broadcast

(* One thread holds the lock at a time.                                    *)
LEMMA EventualStepLocks ==
    ASSUME EventualTypeOK, EventualPointInv, EventualLockInv, [EventualNext]_eventualVars
    PROVE  EventualLockInv'
<1>. USE DEF EventualTypeOK, EventualLockInv, waitlistVars, objectVars, GoTo, At
<1>1. ASSUME NEW t \in Thread, Acquire(t) PROVE EventualLockInv'
  BY <1>1 DEF Acquire, SpinAcquire
<1>2. ASSUME NEW t \in Thread, Release(t) \/ SetError(t) PROVE EventualLockInv'
  <2>1. CASE Release(t)
    BY <2>1 DEF Release, EndOperation
  <2>2. CASE SetError(t)
    BY <2>2 DEF SetError, Eventual, Future, EndOperation
  <2>. QED  BY <1>2, <2>1, <2>2
<1>3. ASSUME NEW t \in Thread, FreeObject(t) PROVE EventualLockInv'
  BY <1>3 DEF FreeObject, EndOperation
<1>4. ASSUME NEW t \in Thread, WaitUnready(t) PROVE EventualLockInv'
  BY <1>4 DEF WaitUnready, WaitAppend, Eventual, Future
<1>5. ASSUME NEW t \in Thread, WaitReady(t) PROVE EventualLockInv'
  BY <1>5 DEF WaitReady, SpinRelease
<1>6. ASSUME NEW t \in Thread, EventualWaitStep(t) PROVE EventualLockInv'
  BY <1>6, EventualWaitLocks
<1>7. ASSUME NEW t \in Thread, ReadValue(t) PROVE EventualLockInv'
  BY <1>7 DEF ReadValue, EndOperation
<1>8. ASSUME NEW t \in Thread, EventualTest(t) \/ EventualSet(t) \/ EventualReset(t)
      PROVE  EventualLockInv'
  <2>1. /\ pc[t] = "locked"
        /\ \E l \in {"release", "broadcast"} : pc' = [pc EXCEPT ![t] = l]
        /\ UNCHANGED <<p_lock, freed>>
    BY <1>8 DEF EventualTest, EventualSet, EventualReset, Eventual
  <2>. QED  BY <2>1
<1>9. ASSUME NEW t \in Thread, FutureTest(t) PROVE EventualLockInv'
  BY <1>9 DEF FutureTest, EndOperation
<1>10. ASSUME NEW t \in Thread,
              FutureSet(t) \/ FutureCallback(t) \/ FutureStore(t) \/ FutureReset(t)
       PROVE  EventualLockInv'
  <2>1. /\ pc[t] \in {"locked", "store"}
        /\ \E l \in {"release", "store", "broadcast"} : pc' = [pc EXCEPT ![t] = l]
        /\ UNCHANGED <<p_lock, freed>>
    BY <1>10 DEF FutureSet, FutureCallback, FutureStore, FutureReset, Future
  <2>. QED  BY <2>1
<1>11. ASSUME NEW t \in Thread, WakeAll(t) PROVE EventualLockInv'
  BY <1>11, WakeAllMoves
<1>12. ASSUME NEW t \in Thread, UserExit(t) PROVE EventualLockInv'
  BY <1>12 DEF UserExit, Exit
<1>13. ASSUME NEW e \in XSTREAM, EventualSchedule(e) PROVE EventualLockInv'
  BY <1>13 DEF EventualSchedule, Schedule
<1>14. CASE UNCHANGED eventualVars
  BY <1>14 DEF eventualVars
<1>. QED
  BY <1>1, <1>2, <1>3, <1>4, <1>5, <1>6, <1>7, <1>8, <1>9, <1>10, <1>11, <1>12, <1>13, <1>14
  DEF EventualNext, EventualStep

(* The operations go on in their order.                                    *)
LEMMA EventualStepPoints ==
    ASSUME EventualTypeOK, EventualLockInv, EventualPointInv, [EventualNext]_eventualVars
    PROVE  EventualPointInv'
<1>. USE DEF EventualTypeOK, EventualPointInv, waitlistVars, objectVars, GoTo, At
<1>0. ASSUME NEW t \in Thread, EndOperation(t), program[t] # <<>> PROVE EventualPointInv'
  BY <1>0, EndOperationTypes
<1>1. ASSUME NEW t \in Thread, Acquire(t) PROVE EventualPointInv'
  <2>1. /\ pc' = [pc EXCEPT ![t] = "locked"] /\ UNCHANGED program
        /\ program[t] # <<>> /\ Head(program[t]) # "free"
    BY <1>1 DEF Acquire, SpinAcquire, Does, EventualOperation
  <2>. QED  BY <2>1
<1>2. ASSUME NEW t \in Thread, Release(t) PROVE EventualPointInv'
  BY <1>0, <1>2 DEF Release
<1>3. ASSUME NEW t \in Thread, FreeObject(t) PROVE EventualPointInv'
  BY <1>0, <1>3 DEF FreeObject, Does
<1>4. ASSUME NEW t \in Thread, WaitUnready(t) \/ WaitReady(t) PROVE EventualPointInv'
  <2>1. /\ program[t] # <<>> /\ Head(program[t]) = "wait" /\ UNCHANGED program
        /\ \E l \in WaitPoint \cup {"value"} : pc' = [pc EXCEPT ![t] = l]
    BY <1>4 DEF WaitUnready, WaitReady, WaitAppend, SpinRelease, Eventual, Future, Does
  <2>. QED  BY <2>1
<1>5. ASSUME NEW t \in Thread, EventualWaitStep(t) PROVE EventualPointInv'
  BY <1>5, EventualWaitLocks
<1>6. ASSUME NEW t \in Thread, ReadValue(t) PROVE EventualPointInv'
  BY <1>0, <1>6 DEF ReadValue
<1>7. ASSUME NEW t \in Thread, EventualTest(t) \/ EventualReset(t) \/ FutureReset(t)
                                  \/ FutureSet(t)
      PROVE  EventualPointInv'
  <2>1. /\ program[t] # <<>> /\ Head(program[t]) \in {"set", "test", "reset"}
        /\ UNCHANGED program /\ pc' = [pc EXCEPT ![t] = "release"]
    BY <1>7 DEF EventualTest, EventualReset, FutureReset, FutureSet, Eventual, Future, Does
  <2>. QED  BY <2>1
<1>8. ASSUME NEW t \in Thread, EventualSet(t) \/ FutureCallback(t) \/ FutureStore(t)
      PROVE  EventualPointInv'
  <2>1. /\ program[t] # <<>> /\ Head(program[t]) = "set" /\ UNCHANGED program
        /\ \E l \in {"broadcast", "store"} : pc' = [pc EXCEPT ![t] = l]
    BY <1>8 DEF EventualSet, FutureCallback, FutureStore, Eventual, Future, Does
  <2>. QED  BY <2>1
<1>9. ASSUME NEW t \in Thread, FutureTest(t) PROVE EventualPointInv'
  <2>1. CASE EndOperation(t)
    BY <1>0, <1>9, <2>1 DEF FutureTest, Does
  <2>2. CASE UNCHANGED <<pc, program>>
    BY <2>2
  <2>. QED  BY <1>9, <2>1, <2>2 DEF FutureTest
<1>10. ASSUME NEW t \in Thread, WakeAll(t) PROVE EventualPointInv'
  BY <1>10, WakeAllMoves
<1>11. ASSUME NEW t \in Thread, SetError(t) PROVE EventualPointInv'
  BY <1>0, <1>11 DEF SetError, Eventual, Future, Does
<1>12. ASSUME NEW t \in Thread, UserExit(t) PROVE EventualPointInv'
  BY <1>12 DEF UserExit, Exit
<1>13. ASSUME NEW e \in XSTREAM, EventualSchedule(e) PROVE EventualPointInv'
  BY <1>13 DEF EventualSchedule, Schedule
<1>14. CASE UNCHANGED eventualVars
  BY <1>14 DEF eventualVars
<1>. QED
  BY <1>1, <1>2, <1>3, <1>4, <1>5, <1>6, <1>7, <1>8, <1>9, <1>10, <1>11, <1>12, <1>13, <1>14
  DEF EventualNext, EventualStep

(* How often the object was set.                                           *)
SetCount == IF kind = "future" THEN counter ELSE IF ready THEN 1 ELSE 0

(* The callback is called before the last set is stored, with the lock;    *)
(* nobody is left on the list when all are woken.                          *)
ReadinessInv ==
    /\ kind = "eventual" => counter = 0 /\ ~called
    /\ \A t \in Thread :
         /\ pc[t] = "store" => kind = "future" /\ called /\ counter = NUM_COMPARTMENTS - 1
         /\ pc[t] \in EventualWakePoint => IsReady
         /\ pc[t] = "release" /\ Head(program[t]) = "set" => SetCount >= 1
    /\ kind = "future" /\ (\A t \in Thread : pc[t] # "store")
         => (called <=> counter = NUM_COMPARTMENTS)
    /\ IsReady /\ (\A t \in Thread : pc[t] \notin EventualWakePoint) => waitlist = <<>>

(* A step at points that say nothing of the readiness.                     *)
LEMMA SameReadiness ==
    ASSUME ReadinessInv, UNCHANGED <<kind, ready, counter, called, waitlist>>,
           \A t \in Thread :
              /\ pc'[t] \in EventualWakePoint <=> pc[t] \in EventualWakePoint
              /\ pc'[t] = "store" <=> pc[t] = "store"
              /\ pc'[t] = "release" /\ Head(program'[t]) = "set"
                    => pc[t] = "release" /\ Head(program[t]) = "set"
    PROVE  ReadinessInv'
  BY DEF ReadinessInv, IsReady, SetCount

LEMMA StepReadiness ==
    ASSUME EventualTypeOK, EventualLockInv, EventualPointInv, ReadinessInv,
           [EventualNext]_eventualVars
    PROVE  ReadinessInv'
<1>. USE DEF EventualTypeOK, waitlistVars, objectVars, GoTo, At
<1>0. ASSUME NEW t \in Thread, EndOperation(t), program[t] # <<>>,
             pc[t] \notin EventualWakePoint \cup {"store"},
             UNCHANGED <<kind, ready, counter, called, waitlist>>
      PROVE  ReadinessInv'
  BY <1>0, EndOperationTypes, SameReadiness
<1>1. ASSUME NEW t \in Thread, Acquire(t) PROVE ReadinessInv'
  BY <1>1, SameReadiness DEF Acquire, SpinAcquire
<1>2. ASSUME NEW t \in Thread, Release(t) PROVE ReadinessInv'
  BY <1>0, <1>2 DEF Release, EventualPointInv
<1>3. ASSUME NEW t \in Thread, FreeObject(t) PROVE ReadinessInv'
  BY <1>0, <1>3 DEF FreeObject, Does
<1>4. ASSUME NEW t \in Thread, WaitUnready(t) PROVE ReadinessInv'
  <2>1. /\ UNCHANGED <<kind, ready, counter, called, program>> /\ ~IsReady
        /\ \E l \in WaitPoint : pc' = [pc EXCEPT ![t] = l]
        /\ pc[t] = "locked"
    BY <1>4 DEF WaitUnready, WaitAppend, Eventual, Future
  <2>. QED  BY <2>1 DEF ReadinessInv, IsReady, SetCount
<1>5. ASSUME NEW t \in Thread, WaitReady(t) PROVE ReadinessInv'
  BY <1>5, SameReadiness DEF WaitReady, SpinRelease, Eventual, Future
<1>6. ASSUME NEW t \in Thread, EventualWaitStep(t) PROVE ReadinessInv'
  BY <1>6, EventualWaitLocks, SameReadiness
<1>7. ASSUME NEW t \in Thread, ReadValue(t) PROVE ReadinessInv'
  BY <1>0, <1>7 DEF ReadValue, EventualPointInv
<1>8. ASSUME NEW t \in Thread, EventualTest(t) PROVE ReadinessInv'
  BY <1>8, SameReadiness DEF EventualTest, Eventual, Does
<1>9. ASSUME NEW t \in Thread, EventualSet(t) PROVE ReadinessInv'
  BY <1>9 DEF EventualSet, Eventual, ReadinessInv, IsReady, SetCount, EventualLockInv
<1>10. ASSUME NEW t \in Thread, EventualReset(t) PROVE ReadinessInv'
  BY <1>10 DEF EventualReset, Eventual, Does, ReadinessInv, IsReady, SetCount, EventualLockInv
<1>11. ASSUME NEW t \in Thread, FutureTest(t) PROVE ReadinessInv'
  <2>1. CASE EndOperation(t)
    BY <1>0, <1>11, <2>1 DEF FutureTest, Does
  <2>2. CASE UNCHANGED <<pc, program>>
    BY <1>11, <2>2, SameReadiness DEF FutureTest
  <2>. QED  BY <1>11, <2>1, <2>2 DEF FutureTest
<1>12. ASSUME NEW t \in Thread, FutureSet(t) PROVE ReadinessInv'
  BY <1>12, EventualAssumption DEF FutureSet, Future, ReadinessInv, IsReady, SetCount, EventualLockInv
<1>13. ASSUME NEW t \in Thread, FutureCallback(t) PROVE ReadinessInv'
  BY <1>13, EventualAssumption DEF FutureCallback, Future, ReadinessInv, IsReady, SetCount, EventualLockInv
<1>14. ASSUME NEW t \in Thread, FutureStore(t) PROVE ReadinessInv'
  BY <1>14, EventualAssumption DEF FutureStore, ReadinessInv, IsReady, SetCount, EventualLockInv
<1>15. ASSUME NEW t \in Thread, FutureReset(t) PROVE ReadinessInv'
  BY <1>15, EventualAssumption
  DEF FutureReset, Future, Does, ReadinessInv, IsReady, SetCount, EventualLockInv
<1>16. ASSUME NEW t \in Thread, WakeAll(t) PROVE ReadinessInv'
  <2>1. /\ UNCHANGED objectVars /\ IsReady /\ SetCount >= 1
        /\ \A u \in Thread \ {t} : pc'[u] = pc[u] /\ pc[u] \notin EventualLockPoint
        /\ pc[t] \in EventualWakePoint
        /\ pc'[t] \in EventualWakePoint \cup {"release"}
        /\ pc'[t] = "release" => waitlist' = <<>>
    BY <1>16, WakeAllMoves, EventualAssumption DEF ReadinessInv, IsReady, SetCount, EventualLockInv
  <2>. QED  BY <2>1 DEF ReadinessInv, IsReady, SetCount
<1>17. ASSUME NEW t \in Thread, SetError(t) PROVE ReadinessInv'
  BY <1>0, <1>17 DEF SetError, Eventual, Future, Does
<1>18. ASSUME NEW t \in Thread, UserExit(t) PROVE ReadinessInv'
  BY <1>18, SameReadiness DEF UserExit, Exit
<1>19. ASSUME NEW e \in XSTREAM, EventualSchedule(e) PROVE ReadinessInv'
  BY <1>19, SameReadiness DEF EventualSchedule, Schedule
<1>20. CASE UNCHANGED eventualVars
  BY <1>20, SameReadiness DEF eventualVars
<1>. QED
  BY <1>1, <1>2, <1>3, <1>4, <1>5, <1>6, <1>7, <1>8, <1>9, <1>10, <1>11, <1>12, <1>13, <1>14,
     <1>15, <1>16, <1>17, <1>18, <1>19, <1>20
  DEF EventualNext, EventualStep

(* A step of a running thread that is outside the waits, and stays outside.*)
LEMMA EventualMove ==
    ASSUME EventualTypeOK, WaitInv, NEW t \in Thread, Running(t), pc[t] \notin WaitPoint,
           NEW l \in EventualPoint \ WaitPoint, GoTo(t, l),
           UNCHANGED <<state, p_thread, pool, waitlist>>
    PROVE  WaitInv'
<1>1. t \notin Waiters
  BY RunningNotWaiter DEF EventualTypeOK
<1>. QED  BY <1>1, LocalStep DEF EventualTypeOK

(* Every thread stays in one place.                                        *)
LEMMA EventualStepWaits ==
    ASSUME EventualTypeOK, EventualLockInv, WaitInv, [EventualNext]_eventualVars
    PROVE  WaitInv'
<1>. USE DEF objectVars, At
<1>1. ASSUME NEW t \in Thread, Acquire(t) PROVE WaitInv'
  BY <1>1, EventualMove DEF Acquire, SpinAcquire
<1>2. ASSUME NEW t \in Thread, Release(t) PROVE WaitInv'
  BY <1>2, EventualMove DEF Release, EndOperation
<1>3. ASSUME NEW t \in Thread, FreeObject(t) PROVE WaitInv'
  BY <1>3, EventualMove DEF FreeObject, EndOperation
<1>4. ASSUME NEW t \in Thread, WaitUnready(t) PROVE WaitInv'
  BY <1>4, WaitAppendStep DEF WaitUnready, Eventual, Future, EventualTypeOK
<1>5. ASSUME NEW t \in Thread, WaitReady(t) PROVE WaitInv'
  BY <1>5, EventualMove DEF WaitReady, SpinRelease
<1>6. ASSUME NEW t \in Thread, EventualWaitStep(t) PROVE WaitInv'
  BY <1>6, WaitStepStep DEF EventualWaitStep, EventualTypeOK
<1>7. ASSUME NEW t \in Thread, ReadValue(t) PROVE WaitInv'
  BY <1>7, EventualMove DEF ReadValue, EndOperation
<1>8. ASSUME NEW t \in Thread, EventualTest(t) \/ EventualSet(t) \/ EventualReset(t)
      PROVE  WaitInv'
  BY <1>8, EventualMove DEF EventualTest, EventualSet, EventualReset, Eventual
<1>9. ASSUME NEW t \in Thread, FutureTest(t) PROVE WaitInv'
  <2>1. CASE EndOperation(t)
    BY <1>9, <2>1, EventualMove DEF FutureTest, EndOperation
  <2>2. CASE UNCHANGED <<pc, program>>
    BY <1>9, <2>2 DEF FutureTest, WaitInv, UltInOnePlace, WaitersSuspended, OnXstream, Waiters
  <2>. QED  BY <1>9, <2>1, <2>2 DEF FutureTest
<1>10. ASSUME NEW t \in Thread,
              FutureSet(t) \/ FutureCallback(t) \/ FutureStore(t) \/ FutureReset(t)
       PROVE  WaitInv'
  BY <1>10, EventualMove DEF FutureSet, FutureCallback, FutureStore, FutureReset, Future
<1>11. ASSUME NEW t \in Thread, WakeAll(t) PROVE WaitInv'
  <2>1. CASE BroadcastOne(t, "broadcast", "broadcast_dec")
    <3>1. \A u \in Thread : pc[u] \notin {"suspend", "suspend_unlock"}
      BY <2>1 DEF EventualLockInv, BroadcastOne
    <3>2. t \notin Waiters
      BY <2>1, RunningNotWaiter DEF EventualTypeOK, BroadcastOne
    <3>3. waitlist # <<>> /\ waitlist' = Tail(waitlist)
      BY <2>1 DEF BroadcastOne
    <3>4. /\ \A u \in Thread : u # t => pc'[u] = pc[u]
          /\ pc'[t] \notin WaitPoint
      BY <2>1, <3>1 DEF BroadcastOne, ResumePush, GoTo, EventualTypeOK
    <3>5. \/ Head(waitlist) \in ULT /\ AddThread(Head(waitlist)) /\ UNCHANGED p_thread
          \/ /\ Head(waitlist) \in EXT
             /\ state' = [state EXCEPT ![Head(waitlist)] = "READY"]
             /\ UNCHANGED <<p_thread, pool>>
      BY <2>1 DEF BroadcastOne, ResumePush
    <3>. QED  BY <3>1, <3>2, <3>3, <3>4, <3>5, WakeHeadStep DEF EventualTypeOK
  <2>2. CASE BroadcastDec(t, "broadcast_dec", "broadcast")
    BY <2>2, EventualMove DEF BroadcastDec, ResumeDecNumBlocked
  <2>3. CASE BroadcastEnd(t, "broadcast", "release")
    BY <2>3, EventualMove DEF BroadcastEnd
  <2>. QED  BY <1>11, <2>1, <2>2, <2>3 DEF WakeAll, Broadcast
<1>12. ASSUME NEW t \in Thread, SetError(t) PROVE WaitInv'
  BY <1>12, EventualMove DEF SetError, Eventual, Future, EndOperation
<1>13. ASSUME NEW t \in Thread, UserExit(t) PROVE WaitInv'
  BY <1>13, ExitStep DEF UserExit, EventualTypeOK
<1>14. ASSUME NEW e \in XSTREAM, EventualSchedule(e) PROVE WaitInv'
  BY <1>14, ScheduleStep DEF EventualSchedule, EventualTypeOK
<1>15. CASE UNCHANGED eventualVars
  BY <1>15 DEF eventualVars, WaitInv, UltInOnePlace, WaitersSuspended, OnXstream, Waiters
<1>. QED
  BY <1>1, <1>2, <1>3, <1>4, <1>5, <1>6, <1>7, <1>8, <1>9, <1>10, <1>11, <1>12, <1>13, <1>14,
     <1>15
  DEF EventualNext, EventualStep

(* Programs are read, from their heads.                                    *)
LEMMA ProgramsShrink ==
    ASSUME EventualTypeOK, EventualPointInv, NEW t \in Thread, EventualStep(t)
    PROVE  /\ kind' = kind
           /\ \A u \in Thread \ {t} : program'[u] = program[u] /\ pc'[u] = pc[u]
           /\ \/ program' = program
              \/ /\ program[t] # <<>> /\ program'[t] = Tail(program[t]) /\ pc'[t] = "idle"
                 /\ Release(t) \/ FreeObject(t) \/ ReadValue(t) \/ FutureTest(t) \/ SetError(t)
<1>. USE DEF objectVars
<1>1. CASE Acquire(t) \/ WaitReady(t) \/ UserExit(t)
  BY <1>1 DEF EventualTypeOK, Acquire, WaitReady, SpinAcquire, SpinRelease, UserExit, Exit, GoTo
<1>2. CASE WaitUnready(t)
  BY <1>2 DEF EventualTypeOK, WaitUnready, WaitAppend, GoTo
<1>3. CASE EventualWaitStep(t)
  <2>1. \A u \in Thread \ {t} : pc'[u] = pc[u]
    BY <1>3
    DEF EventualTypeOK, EventualWaitStep, WaitStep, SuspendBlock, CallbackBlock, SuspendUnlock,
        WaitResumed, ExtReady, ExtFutexWait, ExtFutexWake, ExtRelock, SpinAcquire, SpinRelease,
        GoTo
  <2>. QED  BY <1>3, <2>1 DEF EventualWaitStep
<1>4. CASE WakeAll(t)
  BY <1>4, WakeAllMoves
<1>5. CASE EventualTest(t) \/ EventualSet(t) \/ EventualReset(t)
  BY <1>5 DEF EventualTypeOK, EventualTest, EventualSet, EventualReset, GoTo
<1>6. CASE FutureSet(t) \/ FutureCallback(t) \/ FutureStore(t) \/ FutureReset(t)
  BY <1>6 DEF EventualTypeOK, FutureSet, FutureCallback, FutureStore, FutureReset, GoTo
<1>7. CASE Release(t) \/ FreeObject(t) \/ ReadValue(t) \/ SetError(t)
  <2>1. EndOperation(t) /\ program[t] # <<>> /\ kind' = kind
    BY <1>7
    DEF Release, FreeObject, ReadValue, SetError, EventualPointInv, Does, Eventual, Future, At
  <2>. QED  BY <1>7, <2>1, EndOperationTypes
<1>8. CASE FutureTest(t)
  <2>1. CASE EndOperation(t)
    BY <1>8, <2>1, EndOperationTypes DEF FutureTest, Does
  <2>2. CASE UNCHANGED <<pc, program>>
    BY <1>8, <2>2 DEF FutureTest
  <2>. QED  BY <1>8, <2>1, <2>2 DEF FutureTest
<1>. QED  BY <1>1, <1>2, <1>3, <1>4, <1>5, <1>6, <1>7, <1>8 DEF EventualStep

(* The object is ready once it was set size times.                         *)
LEMMA ReadyCount ==
    ASSUME EventualTypeOK
    PROVE  /\ SetCount \in 0 .. Size(kind) /\ Size(kind) \in Nat \ {0}
           /\ IsReady <=> SetCount = Size(kind)
  BY EventualAssumption DEF EventualTypeOK, SetCount, Size, IsReady

(* Only a reset takes a set back.                                          *)
LEMMA CountGrows ==
    ASSUME EventualTypeOK, ReadinessInv, NEW t \in Thread, EventualStep(t)
    PROVE  \/ EventualReset(t) \/ FutureReset(t)
           \/ /\ EventualSet(t) \/ FutureSet(t) \/ FutureStore(t)
              /\ SetCount' = SetCount + 1
           \/ /\ ~(EventualSet(t) \/ FutureSet(t) \/ FutureStore(t))
              /\ UNCHANGED <<kind, ready, counter>>
<1>. USE DEF objectVars
<1>1. CASE Acquire(t) \/ WaitReady(t) \/ UserExit(t) \/ WaitUnready(t) \/ EventualWaitStep(t)
           \/ WakeAll(t) \/ EventualTest(t) \/ FutureCallback(t) \/ Release(t) \/ FreeObject(t)
           \/ ReadValue(t) \/ SetError(t) \/ FutureTest(t)
  <2>1. UNCHANGED <<kind, ready, counter>>
    BY <1>1
    DEF Acquire, WaitReady, UserExit, WaitUnready, EventualWaitStep, WakeAll, EventualTest,
        FutureCallback, Release, FreeObject, ReadValue, SetError, FutureTest
  <2>2. CASE EventualSet(t)
    BY <2>1, <2>2 DEF EventualSet
  <2>3. CASE FutureSet(t)
    BY <2>1, <2>3 DEF FutureSet, EventualTypeOK
  <2>4. CASE FutureStore(t)
    BY <2>1, <2>4, EventualAssumption DEF FutureStore, ReadinessInv, At
  <2>. QED  BY <2>1, <2>2, <2>3, <2>4
<1>2. CASE EventualSet(t)
  <2>1. kind = "eventual" /\ kind' = "eventual" /\ ready = FALSE /\ ready' = TRUE
    BY <1>2 DEF EventualSet, Eventual, EventualTypeOK
  <2>2. SetCount = 0 /\ SetCount' = 1
    BY <2>1 DEF SetCount
  <2>. QED  BY <1>2, <2>2
<1>3. CASE FutureSet(t)
  BY <1>3 DEF FutureSet, Future, SetCount, EventualTypeOK
<1>4. CASE FutureStore(t)
  <2>1. kind = "future" /\ counter = NUM_COMPARTMENTS - 1
    BY <1>4 DEF FutureStore, ReadinessInv, At
  <2>. QED  BY <1>4, <2>1, EventualAssumption DEF FutureStore, SetCount, EventualTypeOK
<1>. QED  BY <1>1, <1>2, <1>3, <1>4 DEF EventualStep

-----------------------------------------------------------------------------
(* Resets and frees: thread o alone does them.                             *)

(* The object will be ready before operation i of what is left, p, when n  *)
(* sets have been made.                                                    *)
ReadyThen(p, i, n, size) ==
    \/ i > 1 /\ p[i - 1] \in {"wait", "poll"}
    \/ /\ \A j \in 1 .. i - 1 : j >= i - size => p[j] = "set"
       /\ i - 1 + n >= size

(* One operation less.                                                     *)
LEMMA ReadyThenTail ==
    ASSUME NEW p \in Seq(EventualOperation), NEW i \in 2 .. Len(p),
           NEW n \in Int, NEW m \in Nat, NEW size \in Nat \ {0}, ReadyThen(p, i, n, size),
           p[1] = "set" => m > n \/ m = size,
           p[1] \in {"wait", "poll"} => m = size
    PROVE  ReadyThen(Tail(p), i - 1, m, size)
<1>. DEFINE q == Tail(p)
<1>1. p # <<>> /\ Len(p) \in Nat
  OBVIOUS
<1>2. \A j \in 1 .. Len(p) - 1 : q[j] = p[j + 1]
  BY <1>1, ProgramTail
<1>3. CASE i > 1 /\ p[i - 1] \in {"wait", "poll"}
  <2>1. CASE i = 2
    BY <1>3, <2>1 DEF ReadyThen
  <2>2. CASE i > 2
    <3>1. q[i - 2] = p[i - 1]
      <4>. DEFINE j == i - 2
      <4>1. j \in 1 .. Len(p) - 1 /\ j + 1 = i - 1
        BY <1>1, <2>2
      <4>. HIDE DEF j
      <4>2. q[j] = p[i - 1]
        BY <1>2, <4>1
      <4>. QED  BY <4>2 DEF j
    <3>2. i - 1 > 1 /\ (i - 1) - 1 = i - 2
      BY <2>2
    <3>. QED  BY <1>3, <3>1, <3>2 DEF ReadyThen
  <2>. QED  BY <2>1, <2>2
<1>4. CASE (\A j \in 1 .. i - 1 : j >= i - size => p[j] = "set") /\ i - 1 + n >= size
  <2>1. ASSUME NEW j \in 1 .. (i - 1) - 1, j >= (i - 1) - size
        PROVE  q[j] = "set"
    <3>1. j \in 1 .. Len(p) - 1 /\ j + 1 \in 1 .. i - 1 /\ j + 1 >= i - size
      BY <1>1, <2>1
    <3>2. q[j] = p[j + 1]
      BY <1>2, <3>1
    <3>3. p[j + 1] = "set"
      <4>. DEFINE k == j + 1
      <4>1. k \in 1 .. i - 1 /\ k >= i - size
        BY <3>1
      <4>. HIDE DEF k
      <4>2. p[k] = "set"
        BY <1>4, <4>1
      <4>. QED  BY <4>2 DEF k
    <3>. QED  BY <3>2, <3>3
  <2>2. (i - 1) - 1 + m >= size
    <3>1. CASE p[1] = "set"
      BY <1>4, <3>1
    <3>2. CASE p[1] # "set"
      <4>1. ~(1 >= i - size)
        BY <1>4, <3>2
      <4>. QED  BY <4>1
    <3>. QED  BY <3>1, <3>2
  <2>. QED  BY <2>1, <2>2 DEF ReadyThen
<1>. QED  BY <1>3, <1>4 DEF ReadyThen

(* More sets.                                                              *)
LEMMA ReadyThenMore ==
    ASSUME NEW p, NEW i \in Nat, NEW n \in Int, NEW m \in Int, m >= n, NEW size \in Nat,
           ReadyThen(p, i, n, size)
    PROVE  ReadyThen(p, i, m, size)
  BY DEF ReadyThen

(* The set of o is made, but its operation is not over.                    *)
SetMade(o) ==
    \/ pc[o] \in EventualWakePoint
    \/ pc[o] = "release" /\ Head(program[o]) = "set"

SetsBefore(o) == IF SetMade(o) THEN SetCount - 1 ELSE SetCount

(* At each of its resets, the object will be ready.                        *)
ResetInv(o) ==
    \A i \in DOMAIN program[o] :
        program[o][i] = "reset" /\ ~(i = 1 /\ pc[o] = "release")
            => ReadyThen(program[o], i, SetsBefore(o), Size(kind))

(* A wait of o that was woken found the object ready: nobody else resets.  *)
WokenInv(o) ==
    pc[o] = "value" \/ (pc[o] \in WaitPoint /\ o \notin Waiters) => IsReady

OnlySets(o) ==
    \A t \in Thread \ {o} : \A i \in DOMAIN program[t] : program[t][i] = "set"

ReleaserInv(o) ==
    /\ \A t \in Thread \ {o} : \A i \in DOMAIN program[t] :
          program[t][i] \notin {"reset", "free"}
    /\ \A i \in DOMAIN program[o] :
          program[o][i] = "free" => i = Len(program[o]) /\ OnlySets(o)
    /\ freed => /\ program[o] = <<>> /\ OnlySets(o)
                /\ \A t \in Thread : pc[t] \in {"idle", "done"}

LEMMA OwnerInitially ==
    ASSUME EventualInit
    PROVE  \E o \in Thread : ResetInv(o) /\ WokenInv(o) /\ ReleaserInv(o)
<1>1. PICK use \in USES : kind = use[1] /\ program = use[2]
  BY DEF EventualInit
<1>2. UsedLegally(kind, program)
  BY <1>1, EventualAssumption
<1>3. EventualTypeOK
  BY EventualInitTypes
<1>4. PICK o \in Thread :
        /\ \A t \in Thread \ {o} : \A i \in DOMAIN program[t] :
              program[t][i] \notin {"reset", "free"}
        /\ \A i \in DOMAIN program[o] :
              program[o][i] = "reset" => ReadyBefore(program[o], i, Size(kind))
        /\ \A i \in DOMAIN program[o] :
              program[o][i] = "free" => i = Len(program[o]) /\ OnlySets(o)
  BY <1>2 DEF UsedLegally, OnlySets
<1>5. pc[o] = "idle" /\ ~freed
  BY DEF EventualInit, YthreadInit
<1>6. ReleaserInv(o) /\ WokenInv(o)
  BY <1>4, <1>5 DEF ReleaserInv, WokenInv
<1>7. ResetInv(o)
  <2>. SUFFICES ASSUME NEW i \in DOMAIN program[o], program[o][i] = "reset"
                PROVE  ReadyThen(program[o], i, SetsBefore(o), Size(kind))
    BY DEF ResetInv
  <2>1. SetsBefore(o) = SetCount /\ SetCount \in Nat /\ Size(kind) \in Nat
    BY <1>3, <1>5, ReadyCount DEF SetsBefore, SetMade
  <2>2. i \in Nat /\ ReadyBefore(program[o], i, Size(kind))
    BY <1>3, <1>4 DEF EventualTypeOK
  <2>. QED  BY <2>1, <2>2 DEF ReadyBefore, ReadyThen
<1>. QED  BY <1>6, <1>7

(* An operation of o that goes on.                                         *)
LEMMA OperationGoesOn ==
    ASSUME EventualTypeOK, EventualPointInv, NEW o \in Thread, EventualStep(o),
           UNCHANGED program
    PROVE  /\ pc[o] # "release"
           /\ SetMade(o)' /\ ~SetMade(o)
                => EventualSet(o) \/ FutureSet(o) \/ FutureStore(o)
           /\ EventualReset(o) \/ FutureReset(o) => pc'[o] = "release" /\ Head(program[o]) = "reset"
           /\ EventualSet(o) \/ FutureSet(o) \/ FutureStore(o) => SetMade(o)' /\ ~SetMade(o)
<1>. USE DEF EventualTypeOK, objectVars, GoTo, At, SetMade, Does
<1>1. CASE Acquire(o) \/ WaitReady(o) \/ UserExit(o)
  BY <1>1 DEF Acquire, WaitReady, SpinAcquire, SpinRelease, UserExit, Exit, Eventual, Future,
              EventualSet, FutureSet, FutureStore, EventualReset, FutureReset
<1>2. CASE WaitUnready(o)
  BY <1>2 DEF WaitUnready, WaitAppend, Eventual, Future, EventualSet, FutureSet, FutureStore,
              EventualReset, FutureReset
<1>3. CASE EventualWaitStep(o)
  <2>1. pc[o] \in WaitPoint /\ pc'[o] \in WaitPoint \cup {"value"}
    BY <1>3
    DEF EventualWaitStep, WaitStep, SuspendBlock, CallbackBlock, SuspendUnlock,
        WaitResumed, ExtReady, ExtFutexWait, ExtFutexWake, ExtRelock, SpinAcquire, SpinRelease
  <2>. QED  BY <2>1 DEF EventualSet, FutureSet, FutureStore, EventualReset, FutureReset, Eventual, Future
<1>4. CASE WakeAll(o)
  <2>1. pc[o] \in EventualWakePoint
    BY <1>4, WakeAllMoves
  <2>. QED  BY <2>1 DEF EventualSet, FutureSet, FutureStore, EventualReset, FutureReset, Eventual, Future
<1>5. CASE EventualTest(o) \/ EventualSet(o) \/ EventualReset(o)
  BY <1>5 DEF EventualTest, EventualSet, EventualReset, FutureSet, FutureStore, FutureReset,
              Eventual, Future
<1>6. CASE FutureSet(o) \/ FutureCallback(o) \/ FutureStore(o) \/ FutureReset(o)
  BY <1>6 DEF EventualSet, EventualReset, FutureSet, FutureCallback, FutureStore, FutureReset,
              EventualPointInv, Eventual, Future
<1>7. CASE Release(o) \/ FreeObject(o) \/ ReadValue(o) \/ SetError(o)
  <2>1. program'[o] = Tail(program[o]) /\ program[o] # <<>>
    BY <1>7, EndOperationTypes
    DEF Release, FreeObject, ReadValue, SetError, EventualPointInv, Eventual, Future
  <2>2. Len(program'[o]) = Len(program[o]) - 1 /\ Len(program[o]) \in Nat
    BY <2>1, ProgramTail
  <2>. QED  BY <2>2
<1>8. CASE FutureTest(o)
  <2>1. pc[o] = "idle" /\ pc'[o] \in {"idle"}
    BY <1>8, EndOperationTypes DEF FutureTest
  <2>. QED  BY <2>1 DEF EventualSet, FutureSet, FutureStore, EventualReset, FutureReset, Eventual, Future
<1>. QED  BY <1>1, <1>2, <1>3, <1>4, <1>5, <1>6, <1>7, <1>8 DEF EventualStep

(* The resets of o keep their grounds.                                     *)
LEMMA EventualStepResets ==
    ASSUME EventualTypeOK, EventualPointInv, ReadinessInv, NEW o \in Thread,
           ResetInv(o), WokenInv(o), ReleaserInv(o), NEW t \in Thread, EventualStep(t)
    PROVE  ResetInv(o)'
<1>0. /\ SetCount \in Int /\ Size(kind) \in Nat \ {0} /\ kind' = kind
      /\ SetsBefore(o) \in Int
      /\ program[o] \in Seq(EventualOperation)
  BY ReadyCount, ProgramsShrink DEF SetsBefore, EventualTypeOK
<1>1. CASE t # o
  <2>1. program'[o] = program[o] /\ pc'[o] = pc[o]
    BY <1>1, ProgramsShrink
  <2>2. ~EventualReset(t) /\ ~FutureReset(t)
    <3>. SUFFICES ASSUME program[t] # <<>>, Head(program[t]) = "reset" PROVE FALSE
      BY DEF EventualReset, FutureReset, Eventual, Future, Does
    <3>1. 1 \in DOMAIN program[t] /\ program[t][1] = "reset"
      BY ProgramTail DEF EventualTypeOK
    <3>. QED  BY <1>1, <3>1 DEF ReleaserInv
  <2>3. SetCount' \in Int /\ SetCount' >= SetCount
    BY <1>0, <2>2, CountGrows DEF SetCount
  <2>4. SetsBefore(o)' \in Int /\ SetsBefore(o)' >= SetsBefore(o)
    BY <1>0, <2>1, <2>3 DEF SetsBefore, SetMade
  <2>5. ASSUME NEW i \in DOMAIN program[o], ReadyThen(program[o], i, SetsBefore(o), Size(kind))
        PROVE  ReadyThen(program[o], i, SetsBefore(o)', Size(kind))
    BY <1>0, <2>4, <2>5, ReadyThenMore
  <2>. QED  BY <1>0, <2>1, <2>5 DEF ResetInv
<1>2. CASE t = o /\ program' = program
  <2>1. pc[o] # "release"
    BY <1>2, OperationGoesOn
  <2>2. CASE EventualReset(o) \/ FutureReset(o)
    <3>1. /\ pc'[o] = "release" /\ program'[o][1] = "reset" /\ program[o] # <<>>
          /\ Head(program[o]) = "reset"
      <4>1. Head(program[o]) = "reset" /\ pc'[o] = "release"
        BY <1>2, <2>2, OperationGoesOn
      <4>2. program[o] # <<>>
        BY <2>2 DEF EventualReset, FutureReset, Eventual, Future, Does
      <4>. QED  BY <1>0, <1>2, <4>1, <4>2, ProgramTail
    <3>2. SetsBefore(o)' = 0
      BY <1>2, <2>2, <3>1
      DEF SetsBefore, SetMade, EventualReset, FutureReset, SetCount, Eventual, Future,
          ReadinessInv
    <3>3. ASSUME NEW i \in DOMAIN program[o], i # 1, program[o][i] = "reset"
          PROVE  ReadyThen(program[o], i, 0, Size(kind))
      <4>1. i \in Nat /\ i > 1
        BY <1>0, <3>3
      <4>2. ReadyThen(program[o], i, SetsBefore(o), Size(kind))
        BY <3>3 DEF ResetInv
      <4>3. program[o][1] # "set"
        BY <1>2, <3>1
      <4>4. CASE program[o][i - 1] \in {"wait", "poll"}
        BY <4>1, <4>4 DEF ReadyThen
      <4>5. CASE \A j \in 1 .. i - 1 : j >= i - Size(kind) => program[o][j] = "set"
        <5>1. 1 \in 1 .. i - 1
          BY <4>1
        <5>2. ~(1 >= i - Size(kind))
          BY <4>3, <4>5, <5>1
        <5>3. i - 1 + 0 >= Size(kind)
          BY <1>0, <4>1, <5>2
        <5>. QED  BY <4>5, <5>3 DEF ReadyThen
      <4>. QED  BY <4>2, <4>4, <4>5 DEF ReadyThen
    <3>. QED  BY <1>0, <1>2, <3>1, <3>2, <3>3 DEF ResetInv
  <2>3. CASE ~EventualReset(o) /\ ~FutureReset(o)
    <3>1. SetsBefore(o)' \in Int /\ SetsBefore(o)' >= SetsBefore(o)
      <4>1. CASE EventualSet(o) \/ FutureSet(o) \/ FutureStore(o)
        <5>1. SetMade(o)' /\ ~SetMade(o)
          BY <1>2, <4>1, OperationGoesOn
        <5>2. SetCount' = SetCount + 1
          BY <1>2, <2>3, <4>1, CountGrows
        <5>. QED  BY <1>0, <5>1, <5>2 DEF SetsBefore
      <4>2. CASE ~(EventualSet(o) \/ FutureSet(o) \/ FutureStore(o))
        <5>1. SetCount' = SetCount
          BY <1>2, <2>3, <4>2, CountGrows DEF SetCount
        <5>2. SetMade(o)' => SetMade(o)
          BY <1>2, <4>2, OperationGoesOn
        <5>. QED  BY <1>0, <5>1, <5>2 DEF SetsBefore
      <4>. QED  BY <4>1, <4>2
    <3>2. ASSUME NEW i \in DOMAIN program[o], ReadyThen(program[o], i, SetsBefore(o), Size(kind))
          PROVE  ReadyThen(program[o], i, SetsBefore(o)', Size(kind))
      BY <1>0, <3>1, <3>2, ReadyThenMore
    <3>. QED  BY <1>0, <1>2, <2>1, <3>2 DEF ResetInv
  <2>. QED  BY <2>2, <2>3
<1>3. CASE t = o /\ program' # program
  <2>. DEFINE p == program[o]
              m == SetCount'
  <2>1. /\ p # <<>> /\ program'[o] = Tail(p) /\ pc'[o] = "idle"
        /\ Release(o) \/ FreeObject(o) \/ ReadValue(o) \/ FutureTest(o) \/ SetError(o)
    BY <1>3, ProgramsShrink
  <2>2. SetCount' = SetCount
    BY <2>1
    DEF Release, FreeObject, ReadValue, FutureTest, SetError, SetCount
  <2>3. SetsBefore(o)' = m /\ m \in Nat
    BY <2>1, <2>2, ReadyCount DEF SetsBefore, SetMade
  <2>4. Head(p) = p[1] /\ DOMAIN p = 1 .. Len(p) /\ Len(p) \in Nat \ {0}
        /\ DOMAIN Tail(p) = 1 .. Len(p) - 1
        /\ \A i \in 1 .. Len(p) - 1 : Tail(p)[i] = p[i + 1]
    BY <1>0, <2>1, ProgramTail
  <2>5. p[1] = "set" => m > SetsBefore(o) \/ m = Size(kind)
    <3>1. CASE Release(o)
      BY <1>0, <2>2, <2>4, <3>1 DEF Release, At, SetsBefore, SetMade
    <3>2. CASE SetError(o)
      BY <2>2, <3>2, ReadyCount DEF SetError
    <3>3. CASE FreeObject(o) \/ ReadValue(o) \/ FutureTest(o)
      BY <2>4, <3>3 DEF FreeObject, ReadValue, FutureTest, Does, EventualPointInv, At
    <3>. QED  BY <2>1, <3>1, <3>2, <3>3
  <2>6. p[1] \in {"wait", "poll"} => m = Size(kind)
    <3>1. CASE ReadValue(o)
      BY <2>2, <3>1, ReadyCount DEF ReadValue, At, WokenInv
    <3>2. CASE FutureTest(o)
      <4>1. p[1] = "poll" => is_ready'[o]
        BY <1>3, <2>4, <3>2 DEF FutureTest, Does
      <4>2. is_ready'[o] => counter = NUM_COMPARTMENTS
        BY <3>2 DEF FutureTest, EventualTypeOK
      <4>3. p[1] # "wait"
        BY <2>4, <3>2 DEF FutureTest, Does
      <4>. QED  BY <2>2, <3>2, <4>1, <4>2, <4>3 DEF FutureTest, SetCount, Size
    <3>3. CASE Release(o) \/ SetError(o) \/ FreeObject(o)
      BY <2>4, <3>3 DEF FreeObject, Release, SetError, Does, EventualPointInv, At, Eventual, Future
    <3>. QED  BY <2>1, <3>1, <3>2, <3>3
  <2>7. ASSUME NEW i \in 1 .. Len(p) - 1, Tail(p)[i] = "reset"
        PROVE  ReadyThen(Tail(p), i, m, Size(kind))
    <3>. DEFINE k == i + 1
    <3>1. k \in 2 .. Len(p) /\ k \in DOMAIN p /\ k # 1 /\ k - 1 = i
      BY <2>4
    <3>2. p[k] = "reset"
      BY <2>4, <2>7
    <3>. HIDE DEF k
    <3>3. ReadyThen(p, k, SetsBefore(o), Size(kind))
      BY <3>1, <3>2 DEF ResetInv
    <3>. HIDE DEF p, m
    <3>4. ReadyThen(Tail(p), k - 1, m, Size(kind))
      <4>1. p \in Seq(EventualOperation) /\ m \in Nat /\ Size(kind) \in Nat \ {0}
            /\ SetsBefore(o) \in Int
        BY <1>0, <2>3 DEF p
      <4>. QED  BY <2>5, <2>6, <3>1, <3>3, <4>1, ReadyThenTail
    <3>. QED  BY <3>1, <3>4
  <2>. QED  BY <1>0, <2>1, <2>3, <2>4, <2>7 DEF ResetInv
<1>. QED  BY <1>1, <1>2, <1>3

(* A woken wait of o finds the object ready.                               *)
LEMMA EventualStepWoken ==
    ASSUME EventualTypeOK, EventualLockInv, EventualPointInv, ReadinessInv, WaitInv,
           NEW o \in Thread, WokenInv(o), ReleaserInv(o), NEW t \in Thread, EventualStep(t)
    PROVE  WokenInv(o)'
<1>. USE DEF At
<1>1. CASE EventualReset(t) \/ FutureReset(t)
  <2>1. program[t] # <<>> /\ Head(program[t]) = "reset" /\ pc[t] = "locked" /\ pc'[t] = "release"
    BY <1>1 DEF EventualReset, FutureReset, Eventual, Future, Does, GoTo, EventualTypeOK
  <2>2. t = o
    <3>1. 1 \in DOMAIN program[t] /\ program[t][1] = "reset"
      BY <2>1, ProgramTail DEF EventualTypeOK
    <3>. QED  BY <3>1 DEF ReleaserInv
  <2>. QED  BY <2>1, <2>2 DEF WokenInv
<1>2. CASE ~EventualReset(t) /\ ~FutureReset(t)
  <2>1. IsReady => IsReady'
    <3>1. SetCount' >= SetCount /\ kind' = kind
      BY <1>2, CountGrows, ProgramsShrink, ReadyCount DEF SetCount
    <3>2. CASE UNCHANGED <<kind, ready, counter>>
      BY <3>2 DEF IsReady
    <3>3. CASE EventualSet(t)
      BY <3>1, <3>3 DEF EventualSet, Eventual, IsReady
    <3>5. CASE FutureStore(t)
      <4>1. kind = "future" /\ counter' = NUM_COMPARTMENTS
        BY <3>5 DEF FutureStore, ReadinessInv
      <4>. QED  BY <3>1, <4>1, EventualAssumption DEF IsReady
    <3>4. CASE FutureSet(t)
      BY <3>4, EventualAssumption DEF FutureSet, Future, IsReady, EventualTypeOK
    <3>. QED  BY <1>2, <3>2, <3>3, <3>4, <3>5, CountGrows
  <2>2. SUFFICES ASSUME ~IsReady,
                        pc'[o] = "value" \/ (pc'[o] \in WaitPoint /\ o \notin Waiters')
                 PROVE  FALSE
    BY <2>1 DEF WokenInv
  <2>3. ~(pc[o] = "value" \/ (pc[o] \in WaitPoint /\ o \notin Waiters))
    BY <2>2 DEF WokenInv
  <2>4. ~WakeAll(t)
    BY <2>2, WakeAllMoves DEF ReadinessInv
  <2>5. CASE EventualWaitStep(t)
    <3>1. UNCHANGED Waiters /\ \A u \in Thread \ {t} : pc'[u] = pc[u]
      BY <2>5, EventualWaitLocks DEF Waiters
    <3>2. t = o /\ pc[o] \in WaitPoint
      BY <2>2, <2>3, <2>5, <3>1, EventualWaitLocks
    <3>3. o \in Waiters /\ pc'[o] = "value"
      BY <2>2, <2>3, <2>5, <3>1, <3>2, EventualWaitLocks
    <3>4. /\ Running(t)
          /\ pc[t] = "waiting" \/ (pc[t] \in {"ext_check", "ext_futex"} /\ state[t] = "READY")
      BY <2>5, <3>2, <3>3
      DEF EventualWaitStep, WaitStep, SuspendBlock, CallbackBlock, SuspendUnlock, WaitResumed,
          ExtReady, ExtFutexWait, ExtFutexWake, ExtRelock, SpinAcquire, GoTo, EventualTypeOK
    <3>. QED  BY <3>2, <3>3, <3>4, RunningNotWaiter DEF EventualTypeOK
  <2>6. CASE WaitUnready(t)
    <3>1. Waiters' = Waiters \cup {t} /\ \A u \in Thread \ {t} : pc'[u] = pc[u]
      BY <2>6, AppendRange DEF WaitUnready, WaitAppend, Waiters, GoTo, EventualTypeOK
    <3>2. pc'[t] # "value"
      BY <2>6 DEF WaitUnready, WaitAppend, GoTo, EventualTypeOK
    <3>. QED  BY <2>2, <2>3, <3>1, <3>2
  <2>7. CASE ~EventualWaitStep(t) /\ ~WaitUnready(t)
    <3>1. UNCHANGED waitlist
      BY <2>4, <2>7
      DEF EventualStep, Acquire, SpinAcquire, Release, FreeObject, WaitReady, SpinRelease, ReadValue,
          EventualTest, EventualSet, EventualReset, FutureTest, FutureSet, FutureCallback,
          FutureStore, FutureReset, SetError, UserExit
    <3>2. UNCHANGED Waiters
      BY <3>1 DEF Waiters
    <3>3. t = o
      BY <2>2, <2>3, <3>2, ProgramsShrink
    <3>4. CASE program' # program
      BY <2>2, <3>3, <3>4, ProgramsShrink
    <3>5. CASE WaitReady(t)
      BY <2>2, <3>5 DEF WaitReady
    <3>6. CASE program' = program /\ ~WaitReady(t)
      <4>1. \/ pc' = pc
            \/ \E l \in {"locked", "release", "broadcast", "store", "done", "idle"} : GoTo(t, l)
        BY <2>4, <2>7, <3>6
        DEF EventualStep, Acquire, SpinAcquire, Release, FreeObject, ReadValue, EventualTest,
            EventualSet, EventualReset, FutureTest, FutureSet, FutureCallback, FutureStore,
            FutureReset, SetError, UserExit, Exit, EndOperation
      <4>. QED  BY <2>2, <2>3, <3>2, <3>3, <4>1 DEF GoTo, EventualTypeOK
    <3>. QED  BY <3>4, <3>5, <3>6
  <2>. QED  BY <2>5, <2>6, <2>7
<1>. QED  BY <1>1, <1>2

(* Who frees the object is alone with it.                                  *)
LEMMA EventualStepReleaser ==
    ASSUME EventualTypeOK, EventualLockInv, EventualPointInv,
           NEW o \in Thread, ReleaserInv(o), NEW t \in Thread, EventualStep(t)
    PROVE  ReleaserInv(o)'
<1>. USE DEF At
<1>1. \A u \in Thread :
        \/ program'[u] = program[u]
        \/ /\ program[u] # <<>> /\ program'[u] = Tail(program[u])
           /\ DOMAIN program[u] = 1 .. Len(program[u]) /\ Len(program[u]) \in Nat
           /\ DOMAIN program'[u] = 1 .. Len(program[u]) - 1
           /\ Len(program'[u]) = Len(program[u]) - 1
           /\ \A i \in 1 .. Len(program[u]) - 1 : program'[u][i] = program[u][i + 1]
  <2>. SUFFICES ASSUME NEW u \in Thread, program'[u] # program[u]
                PROVE  /\ program[u] # <<>> /\ program'[u] = Tail(program[u])
                       /\ DOMAIN program[u] = 1 .. Len(program[u]) /\ Len(program[u]) \in Nat
                       /\ DOMAIN program'[u] = 1 .. Len(program[u]) - 1
                       /\ Len(program'[u]) = Len(program[u]) - 1
                       /\ \A i \in 1 .. Len(program[u]) - 1 : program'[u][i] = program[u][i + 1]
    OBVIOUS
  <2>1. program[u] # <<>> /\ program'[u] = Tail(program[u])
    BY ProgramsShrink
  <2>2. program[u] \in Seq(EventualOperation)
    BY DEF EventualTypeOK
  <2>. QED  BY <2>1, <2>2, ProgramTail
<1>2. ASSUME NEW u \in Thread, NEW i \in DOMAIN program'[u]
      PROVE  \E k \in DOMAIN program[u] :
                /\ program'[u][i] = program[u][k]
                /\ k = Len(program[u]) => i = Len(program'[u])
  <2>1. CASE program'[u] = program[u]
    BY <2>1
  <2>2. CASE program'[u] # program[u]
    <3>1. /\ DOMAIN program[u] = 1 .. Len(program[u]) /\ Len(program[u]) \in Nat
          /\ DOMAIN program'[u] = 1 .. Len(program[u]) - 1
          /\ Len(program'[u]) = Len(program[u]) - 1
          /\ \A j \in 1 .. Len(program[u]) - 1 : program'[u][j] = program[u][j + 1]
      BY <1>1, <2>2
    <3>. DEFINE k == i + 1
    <3>2. k \in DOMAIN program[u] /\ program'[u][i] = program[u][k]
      BY <3>1
    <3>3. k = Len(program[u]) => i = Len(program'[u])
      BY <3>1
    <3>. QED  BY <3>2, <3>3
  <2>. QED  BY <2>1, <2>2
<1>3. \A u \in Thread \ {o} : \A i \in DOMAIN program'[u] : program'[u][i] \notin {"reset", "free"}
  BY <1>2 DEF ReleaserInv
<1>4. OnlySets(o) => OnlySets(o)'
  BY <1>2 DEF OnlySets
<1>5. \A i \in DOMAIN program'[o] :
        program'[o][i] = "free" => i = Len(program'[o]) /\ OnlySets(o)'
  BY <1>2, <1>4 DEF ReleaserInv
<1>6. ASSUME freed'
      PROVE  /\ program'[o] = <<>> /\ OnlySets(o)'
             /\ \A u \in Thread : pc'[u] \in {"idle", "done"}
  <2>1. CASE FreeObject(t)
    <3>1. program[t] # <<>> /\ program[t][1] = "free" /\ 1 \in DOMAIN program[t]
          /\ program'[t] = Tail(program[t])
      BY <2>1, ProgramTail, EndOperationTypes DEF FreeObject, Does, EventualTypeOK
    <3>2. t = o
      BY <3>1 DEF ReleaserInv
    <3>3. 1 = Len(program[o]) /\ OnlySets(o)
      BY <3>1, <3>2 DEF ReleaserInv
    <3>4. program'[o] = <<>>
      <4>1. program'[o] \in Seq(EventualOperation) /\ Len(program'[o]) = 0
        <5>1. program[o] \in Seq(EventualOperation) /\ program'[o] = Tail(program[o])
              /\ program[o] # <<>> /\ Len(program[o]) - 1 = 0
          BY <3>1, <3>2, <3>3 DEF EventualTypeOK
        <5>. QED  BY <5>1, ProgramTail
      <4>. QED  BY <4>1
    <3>5. ASSUME NEW u \in Thread \ {o} PROVE pc[u] \in {"idle", "done"}
      <4>1. pc[u] \notin EventualLockPoint
        BY <2>1 DEF FreeObject, EventualLockInv
      <4>2. program[u] # <<>> => Head(program[u]) = "set"
        BY <3>3, ProgramTail DEF OnlySets, EventualTypeOK
      <4>3. pc[u] \notin WaitPoint \cup {"value"}
        BY <4>2 DEF EventualPointInv
      <4>. QED  BY <4>1, <4>3 DEF EventualTypeOK
    <3>6. pc'[o] = "idle" /\ \A u \in Thread \ {o} : pc'[u] = pc[u]
      BY <2>1, <3>1, <3>2, EndOperationTypes DEF FreeObject
    <3>. QED  BY <1>4, <3>3, <3>4, <3>5, <3>6
  <2>2. CASE ~FreeObject(t)
    <3>1. freed
      BY <1>6, <2>2
      DEF EventualStep, Acquire, Release, WaitUnready, WaitReady, EventualWaitStep, ReadValue,
          EventualTest, EventualSet, EventualReset, FutureTest, FutureSet, FutureCallback,
          FutureStore, FutureReset, WakeAll, SetError, UserExit, objectVars
    <3>2. /\ program[o] = <<>> /\ OnlySets(o) /\ p_lock
          /\ \A u \in Thread : pc[u] \in {"idle", "done"}
      BY <3>1 DEF ReleaserInv, EventualLockInv
    <3>3. UserExit(t)
      <4>1. program[t] # <<>> => Head(program[t]) = "set"
        BY <3>2, ProgramTail DEF OnlySets, EventualTypeOK
      <4>2. ~Acquire(t) /\ ~FutureTest(t) /\ ~ReadValue(t) /\ ~Release(t)
        BY <3>2, <4>1 DEF Acquire, SpinAcquire, FutureTest, ReadValue, Release, Does
      <4>3. ~EventualWaitStep(t) /\ ~WakeAll(t)
        BY <3>2, EventualWaitLocks, WakeAllMoves
      <4>. QED
        BY <2>2, <3>2, <4>2, <4>3
        DEF EventualStep, WaitUnready, WaitReady, EventualTest, EventualSet, EventualReset,
            FutureSet, FutureCallback, FutureStore, FutureReset, SetError, Eventual, Future
    <3>4. \A u \in Thread : pc'[u] \in {"idle", "done"}
      BY <3>2, <3>3 DEF UserExit, Exit, GoTo, EventualTypeOK
    <3>. QED  BY <1>4, <3>2, <3>3, <3>4 DEF UserExit, objectVars
  <2>. QED  BY <2>1, <2>2
<1>. QED  BY <1>3, <1>5, <1>6 DEF ReleaserInv

EventualInv ==
    /\ EventualTypeOK /\ EventualLockInv /\ EventualPointInv /\ ReadinessInv /\ WaitInv
    /\ \E o \in Thread : ResetInv(o) /\ WokenInv(o) /\ ReleaserInv(o)

(* The invariant holds, for any use that is legal.                         *)
LEMMA EventualInductive ==
    /\ EventualInit => EventualInv
    /\ EventualInv /\ [EventualNext]_eventualVars => EventualInv'
<1>1. ASSUME EventualInit PROVE EventualInv
  <2>1. EventualTypeOK /\ EventualLockInv
    BY <1>1, EventualInitTypes
  <2>2. EventualPointInv
    BY <1>1 DEF EventualInit, YthreadInit, EventualPointInv
  <2>3. ReadinessInv
    BY <1>1, EventualAssumption
    DEF EventualInit, YthreadInit, WaitlistInit, ReadinessInv, IsReady, SetCount
  <2>4. WaitInv
    BY <1>1, WaitInitInv DEF EventualInit
  <2>. QED  BY <1>1, <2>1, <2>2, <2>3, <2>4, OwnerInitially DEF EventualInv
<1>2. ASSUME EventualInv, [EventualNext]_eventualVars PROVE EventualInv'
  <2>. USE <1>2 DEF EventualInv
  <2>1. EventualTypeOK' /\ EventualLockInv' /\ EventualPointInv' /\ ReadinessInv' /\ WaitInv'
    BY EventualStepTypes, EventualStepLocks, EventualStepPoints, StepReadiness, EventualStepWaits
  <2>2. PICK o \in Thread : ResetInv(o) /\ WokenInv(o) /\ ReleaserInv(o)
    OBVIOUS
  <2>3. ASSUME NEW t \in Thread, EventualStep(t)
        PROVE  ResetInv(o)' /\ WokenInv(o)' /\ ReleaserInv(o)'
    BY <2>2, <2>3, EventualStepResets, EventualStepWoken, EventualStepReleaser
  <2>4. CASE UNCHANGED <<pc, waitlist, objectVars>>
    <3>1. ResetInv(o)'
      BY <2>2, <2>4 DEF objectVars, ResetInv, SetsBefore, SetMade, SetCount
    <3>2. WokenInv(o)'
      BY <2>2, <2>4 DEF objectVars, WokenInv, IsReady, Waiters
    <3>3. ReleaserInv(o)'
      BY <2>2, <2>4 DEF objectVars, ReleaserInv, OnlySets
    <3>. QED  BY <2>1, <3>1, <3>2, <3>3
  <2>5. ASSUME NEW e \in XSTREAM, EventualSchedule(e) PROVE UNCHANGED <<pc, waitlist, objectVars>>
    BY <2>5 DEF EventualSchedule, Schedule
  <2>6. CASE UNCHANGED eventualVars
    BY <2>4, <2>6, <2>1, <2>2 DEF eventualVars
  <2>. QED  BY <2>1, <2>3, <2>4, <2>5, <2>6 DEF EventualNext
<1>. QED  BY <1>1, <1>2

LEMMA EventualInvariance == EventualSpec => []EventualInv
  BY EventualInductive, PTL DEF EventualSpec

-----------------------------------------------------------------------------
(* Eventuals and futures implement AbstractEventual.                       *)

(* The threads on the list are in their waits.                             *)
LEMMA WaitersInWaits ==
    ASSUME EventualTypeOK, WaitInv
    PROVE  \A t \in Waiters : t \in Thread /\ pc[t] \in WaitPoint
  BY ThreadSets DEF EventualTypeOK, WaitInv, WaitersSuspended, UltInOnePlace

(* A step that changes nothing but who is about to use the structure.      *)
LEMMA OnlyUses ==
    ASSUME EventualInv, EventualInv',
           UNCHANGED <<kind, SetCount, called, EventualWaiting, EventualReleased, is_ready, freed>>
    PROVE  AbstractE!Next \/ UNCHANGED AbstractE!eventualVars
<1>1. CASE freed
  <2>1. \A t \in Thread : pc[t] \in {"idle", "done"}
    BY <1>1 DEF EventualInv, ReleaserInv
  <2>2. \A t \in Thread : pc'[t] \in {"idle", "done"}
    BY <1>1 DEF EventualInv, ReleaserInv
  <2>3. EventualUsers = {} /\ EventualUsers' = {}
    BY <2>1, <2>2 DEF EventualUsers
  <2>. QED  BY <2>3 DEF AbstractE!eventualVars, SetCount
<1>2. CASE ~freed
  <2>1. AbstractE!Use
    BY DEF AbstractE!Use, SetCount
  <2>. QED  BY <1>2, <2>1 DEF AbstractE!Next
<1>. QED  BY <1>1, <1>2

(* Who waits, and whose wait is over, when the points in and out of the    *)
(* waits stay, and the readiness does.                                     *)
LEMMA SameWaits ==
    ASSUME UNCHANGED <<kind, ready, counter>>, IsReady \/ UNCHANGED Waiters,
           \A t \in Thread : pc'[t] \in WaitPoint \cup {"value"} <=> pc[t] \in WaitPoint \cup {"value"}
    PROVE  UNCHANGED <<EventualWaiting, EventualReleased, SetCount>>
<1>1. IsReady' <=> IsReady
  BY DEF IsReady
<1>2. EventualWaiting' = EventualWaiting
  BY <1>1 DEF EventualWaiting
<1>. QED  BY <1>2 DEF EventualReleased, SetCount

(* A wait begins, or finds the object ready.                               *)
LEMMA WaitRefined ==
    ASSUME EventualInv, NEW t \in Thread, WaitUnready(t) \/ WaitReady(t)
    PROVE  AbstractE!Next
<1>. USE DEF At, objectVars
<1>1. EventualTypeOK /\ WaitInv /\ EventualLockInv
  BY DEF EventualInv
<1>2. /\ Running(t) /\ pc[t] = "locked" /\ UNCHANGED objectVars
      /\ pc'[t] \in WaitPoint \cup {"value"} /\ \A u \in Thread \ {t} : pc'[u] = pc[u]
  BY <1>1 DEF WaitUnready, WaitReady, WaitAppend, SpinRelease, Eventual, Future, GoTo, EventualTypeOK
<1>3. t \notin Waiters
  BY <1>1, <1>2, RunningNotWaiter DEF EventualTypeOK
<1>4. ~freed
  BY <1>1, <1>2 DEF EventualLockInv
<1>5. t \notin EventualWaiting \cup EventualReleased
  BY <1>2, <1>3 DEF EventualWaiting, EventualReleased
<1>6. IsReady' <=> IsReady
  BY <1>2 DEF IsReady
<1>7. AbstractE!Ready <=> IsReady
  BY <1>1, ReadyCount DEF AbstractE!Ready, SetCount
<1>8. CASE WaitUnready(t)
  <2>0. waitlist \in Seq(Thread) /\ waitlist' = Append(waitlist, t) /\ ~IsReady
    BY <1>1, <1>8 DEF WaitUnready, WaitAppend, EventualTypeOK
  <2>1. Waiters' = Waiters \cup {t} /\ ~IsReady
    BY <2>0, AppendRange DEF Waiters
  <2>2. EventualWaiting' = EventualWaiting \cup {t}
    BY <1>6, <2>1 DEF EventualWaiting
  <2>3. EventualReleased' = EventualReleased
    BY <1>2, <2>2 DEF EventualReleased
  <2>4. AbstractE!Wait(t)
    BY <1>2, <1>5, <1>7, <2>1, <2>2, <2>3 DEF AbstractE!Wait
  <2>. QED  BY <1>4, <2>4 DEF AbstractE!Next
<1>9. CASE WaitReady(t)
  <2>1. IsReady /\ pc'[t] = "value"
    BY <1>1, <1>9 DEF WaitReady, SpinRelease, GoTo, EventualTypeOK
  <2>2. EventualWaiting' = {} /\ EventualWaiting = {}
    BY <1>6, <2>1 DEF EventualWaiting
  <2>3. EventualReleased' = EventualReleased \cup {t}
    BY <1>2, <2>2 DEF EventualReleased
  <2>4. AbstractE!Wait(t)
    BY <1>2, <1>5, <1>7, <2>1, <2>2, <2>3 DEF AbstractE!Wait
  <2>. QED  BY <1>4, <2>4 DEF AbstractE!Next
<1>. QED  BY <1>8, <1>9

(* A set, with the others at their points.                                 *)
LEMMA SetRefined ==
    ASSUME EventualInv, NEW t \in Thread, EventualSet(t) \/ FutureSet(t) \/ FutureStore(t)
    PROVE  AbstractE!Next
<1>. USE DEF At, GoTo
<1>1. EventualTypeOK /\ WaitInv /\ EventualLockInv /\ ReadinessInv
  BY DEF EventualInv
<1>2. /\ pc[t] \in EventualLockPoint \ WaitPoint /\ pc'[t] \in {"release", "broadcast"}
      /\ \A u \in Thread \ {t} : pc'[u] = pc[u]
      /\ UNCHANGED <<waitlist, kind, called, is_ready, freed>>
  BY <1>1 DEF EventualSet, FutureSet, FutureStore, Eventual, Future, EventualTypeOK, waitlistVars
<1>3. ~freed
  BY <1>1, <1>2 DEF EventualLockInv
<1>4. SetCount' = SetCount + 1 /\ SetCount \in 0 .. Size(kind) /\ Size(kind) \in Nat \ {0}
  <2>1. ~EventualReset(t) /\ ~FutureReset(t)
    BY DEF EventualSet, FutureSet, FutureStore, EventualReset, FutureReset, Eventual, Future, Does
  <2>2. EventualStep(t)
    BY DEF EventualStep
  <2>. QED  BY <1>1, <2>1, <2>2, CountGrows, ReadyCount
<1>5. EventualTypeOK'
  BY EventualStepTypes DEF EventualInv, EventualNext, EventualStep
<1>6. SetCount' \in 0 .. Size(kind) /\ (IsReady' <=> SetCount' = Size(kind))
  BY <1>2, <1>5, EventualAssumption DEF EventualTypeOK, SetCount, Size, IsReady
<1>7. ~IsReady /\ SetCount < Size(kind)
  BY <1>1, <1>4, <1>6, ReadyCount
<1>8. Waiters' = Waiters /\ EventualWaiting = Waiters
  BY <1>2, <1>7 DEF Waiters, EventualWaiting
<1>9. CASE ~IsReady'
  <2>1. UNCHANGED <<EventualWaiting, EventualReleased>>
    BY <1>2, <1>8, <1>9 DEF EventualWaiting, EventualReleased
  <2>2. AbstractE!Set
    BY <1>2, <1>4, <1>6, <1>7, <1>9, <2>1 DEF AbstractE!Set, SetCount, Size
  <2>. QED  BY <1>3, <2>2 DEF AbstractE!Next
<1>10. CASE IsReady'
  <2>1. EventualWaiting' = {}
    BY <1>10 DEF EventualWaiting
  <2>2. EventualReleased' = EventualReleased \cup EventualWaiting
    BY <1>1, <1>2, <1>8, <2>1, WaitersInWaits DEF EventualReleased
  <2>3. kind = "future" => called
    <3>1. kind = "future" => FutureSet(t) \/ FutureStore(t)
      BY DEF EventualSet, Eventual
    <3>2. ~FutureSet(t)
      <4>1. SUFFICES ASSUME FutureSet(t) PROVE FALSE
        OBVIOUS
      <4>2. counter' < NUM_COMPARTMENTS /\ kind' = "future" /\ counter' \in Nat
        BY <1>1, <1>5, <4>1 DEF FutureSet, Future, EventualTypeOK
      <4>. QED  BY <1>10, <4>2, EventualAssumption DEF IsReady
    <3>3. FutureStore(t) => called
      BY <1>1 DEF FutureStore, ReadinessInv
    <3>. QED  BY <3>1, <3>2, <3>3
  <2>4. AbstractE!Set
    BY <1>2, <1>4, <1>6, <1>7, <1>10, <2>1, <2>2, <2>3 DEF AbstractE!Set, SetCount, Size
  <2>. QED  BY <1>3, <2>4 DEF AbstractE!Next
<1>. QED  BY <1>9, <1>10

(* A reset: the object is ready, so nobody waits.                          *)
LEMMA ResetRefined ==
    ASSUME EventualInv, NEW t \in Thread, EventualReset(t) \/ FutureReset(t)
    PROVE  AbstractE!Next
<1>. USE DEF At, GoTo
<1>1. EventualTypeOK /\ WaitInv /\ EventualLockInv /\ ReadinessInv
  BY DEF EventualInv
<1>2. /\ pc[t] = "locked" /\ pc'[t] = "release"
      /\ \A u \in Thread \ {t} : pc'[u] = pc[u]
      /\ program[t] # <<>> /\ Head(program[t]) = "reset"
      /\ UNCHANGED <<waitlist, kind, is_ready, freed>>
  BY <1>1 DEF EventualReset, FutureReset, Eventual, Future, Does, EventualTypeOK, waitlistVars
<1>3. ~freed
  BY <1>1, <1>2 DEF EventualLockInv
<1>4. 1 \in DOMAIN program[t] /\ program[t][1] = "reset"
  BY <1>1, <1>2, ProgramTail DEF EventualTypeOK
<1>5. ResetInv(t)
  BY <1>4 DEF EventualInv, ReleaserInv
<1>6. ReadyThen(program[t], 1, SetCount, Size(kind))
  BY <1>2, <1>4, <1>5 DEF ResetInv, SetsBefore, SetMade
<1>7. IsReady
  BY <1>1, <1>6, ReadyCount DEF ReadyThen
<1>8. waitlist = <<>>
  BY <1>1, <1>2, <1>7 DEF ReadinessInv, EventualLockInv
<1>9. Waiters = {} /\ Waiters' = {}
  BY <1>2, <1>8 DEF Waiters, Range
<1>10. EventualWaiting = {} /\ EventualWaiting' = {}
  BY <1>9 DEF EventualWaiting
<1>11. EventualReleased' = EventualReleased
  BY <1>2, <1>10 DEF EventualReleased
<1>12. SetCount' = 0 /\ called' = FALSE
  BY <1>1 DEF EventualReset, FutureReset, Eventual, Future, SetCount, ReadinessInv
<1>13. AbstractE!Reset
  BY <1>2, <1>10, <1>11, <1>12 DEF AbstractE!Reset, SetCount
<1>. QED  BY <1>3, <1>13 DEF AbstractE!Next

(* The object is freed by who alone still waits on it.                     *)
LEMMA FreeRefined ==
    ASSUME EventualInv, EventualInv', NEW t \in Thread, FreeObject(t)
    PROVE  AbstractE!Next
<1>. USE DEF At, GoTo
<1>1. EventualTypeOK /\ WaitInv /\ EventualLockInv
  BY DEF EventualInv
<1>2. ~freed /\ freed'
  BY <1>1 DEF FreeObject, EventualLockInv
<1>3. \A u \in Thread : pc'[u] \in {"idle", "done"}
  BY <1>2 DEF EventualInv, ReleaserInv
<1>4. \A u \in Thread : pc[u] \in {"idle", "done"}
  BY <1>1, <1>3 DEF FreeObject, EndOperation, EventualTypeOK
<1>5. Waiters = {} /\ Waiters' = {}
  BY <1>1, <1>4, WaitersInWaits DEF FreeObject, Waiters
<1>6. /\ EventualWaiting = {} /\ EventualWaiting' = {} /\ EventualUsers' = {}
      /\ EventualReleased = {} /\ EventualReleased' = {}
  BY <1>3, <1>4, <1>5 DEF EventualWaiting, EventualUsers, EventualReleased
<1>7. AbstractE!Free
  BY <1>2, <1>6 DEF AbstractE!Free, FreeObject
<1>. QED  BY <1>2, <1>7 DEF AbstractE!Next

(* Every step is one of AbstractEventual, or changes nothing it speaks of. *)
LEMMA EventualAbstractStep ==
    ASSUME EventualInv, EventualInv', [EventualNext]_eventualVars
    PROVE  AbstractE!Next \/ UNCHANGED AbstractE!eventualVars
<1>. USE DEF At, GoTo
<1>0. EventualTypeOK /\ WaitInv /\ EventualLockInv /\ ReadinessInv /\ EventualPointInv
  BY DEF EventualInv
<1>1. ASSUME NEW t \in Thread, Acquire(t) \/ UserExit(t)
      PROVE  AbstractE!Next \/ UNCHANGED AbstractE!eventualVars
  <2>1. UNCHANGED <<objectVars, waitlist>>
    BY <1>1 DEF Acquire, SpinAcquire, UserExit, waitlistVars
  <2>2. \A u \in Thread : pc'[u] \in WaitPoint \cup {"value"} <=> pc[u] \in WaitPoint \cup {"value"}
    BY <1>0, <1>1 DEF Acquire, SpinAcquire, UserExit, Exit, EventualTypeOK
  <2>. QED  BY <2>1, <2>2, SameWaits, OnlyUses DEF objectVars, Waiters
<1>2. ASSUME NEW t \in Thread, Release(t) \/ SetError(t)
      PROVE  AbstractE!Next \/ UNCHANGED AbstractE!eventualVars
  <2>1. UNCHANGED <<kind, ready, counter, called, freed, is_ready, waitlist>>
    BY <1>2 DEF Release, SetError
  <2>2. \A u \in Thread : pc'[u] \in WaitPoint \cup {"value"} <=> pc[u] \in WaitPoint \cup {"value"}
    BY <1>0, <1>2 DEF Release, SetError, Eventual, Future, EndOperation, EventualTypeOK
  <2>. QED  BY <2>1, <2>2, SameWaits, OnlyUses DEF Waiters
<1>3. ASSUME NEW t \in Thread, EventualWaitStep(t)
      PROVE  AbstractE!Next \/ UNCHANGED AbstractE!eventualVars
  <2>1. UNCHANGED <<objectVars, waitlist>>
    BY <1>0, <1>3, EventualWaitLocks
  <2>2. \A u \in Thread : pc'[u] \in WaitPoint \cup {"value"} <=> pc[u] \in WaitPoint \cup {"value"}
    BY <1>0, <1>3, EventualWaitLocks
  <2>. QED  BY <2>1, <2>2, SameWaits, OnlyUses DEF objectVars, Waiters
<1>4. ASSUME NEW t \in Thread, WakeAll(t)
      PROVE  AbstractE!Next \/ UNCHANGED AbstractE!eventualVars
  <2>1. UNCHANGED objectVars /\ IsReady
    BY <1>0, <1>4, WakeAllMoves DEF ReadinessInv
  <2>2. \A u \in Thread : pc'[u] \in WaitPoint \cup {"value"} <=> pc[u] \in WaitPoint \cup {"value"}
    BY <1>0, <1>4, WakeAllMoves
  <2>. QED  BY <2>1, <2>2, SameWaits, OnlyUses DEF objectVars
<1>5. ASSUME NEW t \in Thread, ReadValue(t)
      PROVE  AbstractE!Next
  <2>1. /\ UNCHANGED <<kind, ready, counter, called, freed, is_ready, waitlist>>
        /\ pc[t] = "value" /\ pc'[t] = "idle" /\ \A u \in Thread \ {t} : pc'[u] = pc[u]
        /\ Running(t)
    BY <1>0, <1>5 DEF ReadValue, EndOperation, EventualTypeOK, waitlistVars
  <2>2. t \notin Waiters
    BY <1>0, <2>1, RunningNotWaiter DEF EventualTypeOK
  <2>3. UNCHANGED <<EventualWaiting, SetCount>> /\ t \notin EventualWaiting
    BY <2>1, <2>2 DEF EventualWaiting, SetCount, IsReady, Waiters
  <2>4. t \in EventualReleased /\ EventualReleased' = EventualReleased \ {t}
    BY <2>1, <2>3 DEF EventualReleased
  <2>5. ~freed
    BY <2>1 DEF EventualInv, ReleaserInv
  <2>6. AbstractE!Return(t)
    BY <2>1, <2>3, <2>4, <2>5 DEF AbstractE!Return, SetCount
  <2>. QED  BY <2>6 DEF AbstractE!Next
<1>6. ASSUME NEW t \in Thread, EventualTest(t) \/ FutureTest(t)
      PROVE  AbstractE!Next
  <2>1. UNCHANGED <<kind, ready, counter, called, freed, waitlist>>
    BY <1>6 DEF EventualTest, FutureTest, waitlistVars
  <2>2. \A u \in Thread : pc'[u] \in WaitPoint \cup {"value"} <=> pc[u] \in WaitPoint \cup {"value"}
    BY <1>0, <1>6 DEF EventualTest, FutureTest, Eventual, EndOperation, EventualTypeOK
  <2>3. UNCHANGED <<EventualWaiting, EventualReleased, SetCount>>
    BY <2>1, <2>2, SameWaits DEF Waiters
  <2>4. is_ready' = [is_ready EXCEPT ![t] = AbstractE!Ready]
    BY <1>0, <1>6, EventualAssumption
    DEF EventualTest, FutureTest, Eventual, AbstractE!Ready, Size, EventualTypeOK
  <2>5. ~freed
    <3>1. CASE EventualTest(t)
      BY <1>0, <3>1 DEF EventualTest, Eventual, EventualLockInv
    <3>2. CASE FutureTest(t)
      <4>1. SUFFICES ASSUME freed PROVE FALSE
        OBVIOUS
      <4>2. PICK o \in Thread : program[o] = <<>> /\ OnlySets(o)
        BY <4>1 DEF EventualInv, ReleaserInv
      <4>3. program[t] # <<>> /\ 1 \in DOMAIN program[t] /\ program[t][1] \in {"test", "poll"}
        BY <1>0, <3>2, ProgramTail DEF FutureTest, Does, EventualTypeOK
      <4>. QED  BY <4>2, <4>3 DEF OnlySets
    <3>. QED  BY <1>6, <3>1, <3>2
  <2>6. AbstractE!Test(t)
    BY <2>1, <2>3, <2>4 DEF AbstractE!Test, SetCount
  <2>. QED  BY <2>5, <2>6 DEF AbstractE!Next
<1>7. ASSUME NEW t \in Thread, FutureCallback(t)
      PROVE  AbstractE!Next
  <2>1. /\ UNCHANGED <<kind, ready, counter, freed, is_ready, waitlist>>
        /\ called' = TRUE /\ kind = "future" /\ counter + 1 = NUM_COMPARTMENTS
        /\ pc[t] = "locked"
    BY <1>7 DEF FutureCallback, Future, waitlistVars
  <2>2. \A u \in Thread : pc'[u] \in WaitPoint \cup {"value"} <=> pc[u] \in WaitPoint \cup {"value"}
    BY <1>0, <1>7 DEF FutureCallback, Future, EventualTypeOK
  <2>3. UNCHANGED <<EventualWaiting, EventualReleased, SetCount>>
    BY <2>1, <2>2, SameWaits DEF Waiters
  <2>4. ~called /\ ~freed
    BY <1>0, <2>1 DEF ReadinessInv, EventualLockInv, EventualTypeOK
  <2>5. AbstractE!Callback
    BY <1>0, <2>1, <2>3, <2>4, EventualAssumption
    DEF AbstractE!Callback, SetCount, Size, EventualTypeOK
  <2>. QED  BY <2>4, <2>5 DEF AbstractE!Next
<1>8. ASSUME NEW t \in Thread, EventualStep(t)
      PROVE  AbstractE!Next \/ UNCHANGED AbstractE!eventualVars
  BY <1>1, <1>2, <1>3, <1>4, <1>5, <1>6, <1>7, <1>8, WaitRefined, SetRefined, ResetRefined,
     FreeRefined DEF EventualStep
<1>9. CASE UNCHANGED <<pc, waitlist, objectVars>>
  BY <1>9, SameWaits, OnlyUses DEF objectVars, Waiters
<1>10. ASSUME NEW e \in XSTREAM, EventualSchedule(e) PROVE UNCHANGED <<pc, waitlist, objectVars>>
  BY <1>10 DEF EventualSchedule, Schedule
<1>. QED  BY <1>8, <1>9, <1>10 DEF EventualNext, eventualVars

(* Eventuals and futures keep the promises of AbstractEventual, whatever   *)
(* the threads, their legal uses of the object and the number of           *)
(* compartments: a wait returns only when all sets have been made, and the *)
(* callback of a future has been called by then, once; the object is reset *)
(* and freed when nobody waits on it or is still about to release it.      *)
THEOREM EventualImplementation == EventualSpec => ImplementsAbstractEventual
<1>1. EventualInit => AbstractE!Init
  <2>. SUFFICES ASSUME EventualInit PROVE AbstractE!Init
    OBVIOUS
  <2>1. EventualTypeOK /\ \A t \in Thread : pc[t] = "idle"
    BY EventualInitTypes DEF EventualInit, YthreadInit
  <2>2. Waiters = {}
    BY DEF EventualInit, WaitlistInit, Waiters, Range
  <2>3. EventualWaiting = {} /\ EventualReleased = {} /\ EventualUsers = {}
    BY <2>1, <2>2 DEF EventualWaiting, EventualReleased, EventualUsers
  <2>4. Size(kind) \in Nat \ {0} /\ (kind = "future") \in BOOLEAN
    BY <2>1, ReadyCount
  <2>. QED  BY <2>3, <2>4 DEF EventualInit, AbstractE!Init
<1>2. EventualInv /\ EventualInv' /\ [EventualNext]_eventualVars
         => [AbstractE!Next]_(AbstractE!eventualVars)
  BY EventualAbstractStep
<1>. QED
  BY <1>1, <1>2, EventualInvariance, PTL
  DEF EventualSpec, ImplementsAbstractEventual, AbstractE!Spec

-----------------------------------------------------------------------------
(* Reader-writer locks: readers exclude writers, for any number of threads *)
(* and any programs.  The proof opens no definition of the condition       *)
(* variable: MustWait and the change of the count or the flag are one step,*)
(* and everything before that step only delays it.                         *)

LockerPoint == {"out", "check", "waiting", "locked", "in", "unlock",
                "broadcast", "unlocked"}

HolderPoint == {"locked", "in", "unlock"}

(* What ReadersExcludeWriters needs to be inductive: a thread that has the *)
(* lock has a call to which its unlock belongs.                            *)
RWInv ==
    /\ reader_count \in Nat /\ write_flag \in {0, 1}
    /\ at \in [LOCKER -> LockerPoint]
    /\ calls \in [LOCKER -> Seq({"rdlock", "wrlock"})]
    /\ \A t \in LOCKER : at[t] # "out" => calls[t] # <<>>
    /\ ReadersExcludeWriters

(* A thread with a call left is a reader or a writer, not both.            *)
LEMMA OneCall ==
    ASSUME RWInv, NEW t \in LOCKER, calls[t] # <<>>
    PROVE  Calls(t, "rdlock") <=> ~Calls(t, "wrlock")
<1>1. calls[t] \in Seq({"rdlock", "wrlock"})
  BY DEF RWInv
<1>2. Head(calls[t]) \in {"rdlock", "wrlock"}
  BY <1>1
<1>. QED  BY <1>2 DEF Calls

LEMMA HoldersFinite ==
    ASSUME NEW op
    PROVE  IsFiniteSet(Holders(op)) /\ Cardinality(Holders(op)) \in Nat
<1>1. Holders(op) \subseteq LOCKER
  BY DEF Holders
<1>. QED  BY <1>1, FS_Subset, FS_CardinalityType, RWLockAssumption

(* A step that neither enters nor leaves the section of the holders.       *)
LEMMA OutsideStep ==
    ASSUME RWInv, NEW t \in LOCKER, NEW from, NEW next \in LockerPoint,
           RWGo(t, from, next), from \in HolderPoint <=> next \in HolderPoint,
           UNCHANGED <<reader_count, write_flag, calls>>,
           next # "out" => calls[t] # <<>>
    PROVE  RWInv'
<1>1. \A op : Holders(op)' = Holders(op)
  BY DEF RWInv, RWGo, Holders, Calls, HolderPoint
<1>2. ReadersExcludeWriters'
  BY <1>1 DEF RWInv, ReadersExcludeWriters
<1>3. /\ at' \in [LOCKER -> LockerPoint]
      /\ \A u \in LOCKER : at'[u] # "out" => calls'[u] # <<>>
  BY DEF RWInv, RWGo
<1>. QED  BY <1>2, <1>3 DEF RWInv

(* The call of a thread that has given the lock up is over.                *)
LEMMA ReturnStep ==
    ASSUME RWInv, NEW t \in LOCKER, RWGo(t, "unlocked", "out"),
           calls' = [calls EXCEPT ![t] = Tail(@)],
           UNCHANGED <<reader_count, write_flag>>
    PROVE  RWInv'
<1>1. \A op : Holders(op)' = Holders(op)
  BY DEF RWInv, RWGo, Holders, Calls
<1>2. ReadersExcludeWriters'
  BY <1>1 DEF RWInv, ReadersExcludeWriters
<1>3. calls[t] \in Seq({"rdlock", "wrlock"}) /\ calls[t] # <<>>
  BY DEF RWInv, RWGo
<1>4. Tail(calls[t]) \in Seq({"rdlock", "wrlock"})
  BY <1>3
<1>5. calls' \in [LOCKER -> Seq({"rdlock", "wrlock"})]
  BY <1>4 DEF RWInv
<1>6. /\ at' \in [LOCKER -> LockerPoint]
      /\ \A u \in LOCKER : at'[u] # "out" => calls'[u] # <<>>
  BY DEF RWInv, RWGo, LockerPoint
<1>. QED  BY <1>2, <1>5, <1>6 DEF RWInv

(* A reader gets the lock when there is no writer.                         *)
LEMMA RdLockStep ==
    ASSUME RWInv, NEW t \in LOCKER, RdLock(t)
    PROVE  RWInv'
<1>1. /\ at[t] = "check" /\ at' = [at EXCEPT ![t] = "locked"]
      /\ Calls(t, "rdlock") /\ write_flag = 0
      /\ reader_count' = reader_count + 1
      /\ UNCHANGED <<write_flag, calls>>
  BY DEF RdLock, RWGo, MustWait, RWInv
<1>2. t \notin Holders("rdlock") /\ ~Calls(t, "wrlock")
  BY <1>1 DEF Holders, Calls
<1>3. /\ Holders("rdlock")' = Holders("rdlock") \cup {t}
      /\ Holders("wrlock")' = Holders("wrlock")
  BY <1>1, <1>2 DEF RWInv, Holders, Calls
<1>4. Cardinality(Holders("rdlock")') = Cardinality(Holders("rdlock")) + 1
  BY <1>2, <1>3, HoldersFinite, FS_AddElement
<1>5. ReadersExcludeWriters'
  BY <1>1, <1>3, <1>4 DEF RWInv, ReadersExcludeWriters
<1>6. /\ at' \in [LOCKER -> LockerPoint]
      /\ \A u \in LOCKER : at'[u] # "out" => calls'[u] # <<>>
  BY <1>1 DEF RWInv, LockerPoint
<1>. QED  BY <1>1, <1>5, <1>6 DEF RWInv

(* A writer gets the lock when nobody has it.                              *)
LEMMA WrLockStep ==
    ASSUME RWInv, NEW t \in LOCKER, WrLock(t)
    PROVE  RWInv'
<1>1. /\ at[t] = "check" /\ at' = [at EXCEPT ![t] = "locked"]
      /\ Calls(t, "wrlock") /\ write_flag = 0 /\ reader_count = 0
      /\ write_flag' = 1
      /\ UNCHANGED <<reader_count, calls>>
  BY DEF WrLock, RWGo, MustWait, RWInv
<1>2. t \notin Holders("wrlock") /\ ~Calls(t, "rdlock")
  BY <1>1 DEF Holders, Calls
<1>3. /\ Holders("wrlock")' = Holders("wrlock") \cup {t}
      /\ Holders("rdlock")' = Holders("rdlock")
  BY <1>1, <1>2 DEF RWInv, Holders, Calls
<1>4. Cardinality(Holders("wrlock")') = Cardinality(Holders("wrlock")) + 1
  BY <1>2, <1>3, HoldersFinite, FS_AddElement
<1>5. ReadersExcludeWriters'
  BY <1>1, <1>3, <1>4 DEF RWInv, ReadersExcludeWriters
<1>6. /\ at' \in [LOCKER -> LockerPoint]
      /\ \A u \in LOCKER : at'[u] # "out" => calls'[u] # <<>>
  BY <1>1 DEF RWInv, LockerPoint
<1>. QED  BY <1>1, <1>5, <1>6 DEF RWInv

(* ABT_rwlock_unlock guesses from the flag whether its caller is a writer, *)
(* and guesses right: when the flag is set the caller is the only holder,  *)
(* when it is not every holder is a reader.                                *)
LEMMA UnlockStep ==
    ASSUME RWInv, NEW t \in LOCKER, RWUnlock(t)
    PROVE  RWInv'
<1>1. /\ at[t] = "unlock" /\ at' = [at EXCEPT ![t] = "broadcast"]
      /\ calls[t] # <<>> /\ UNCHANGED calls
  BY DEF RWUnlock, RWGo, RWInv
<1>2. \A op : Holders(op)' = Holders(op) \ {t}
  BY <1>1 DEF RWInv, Holders, Calls
<1>3. /\ t \in Holders("rdlock") => Cardinality(Holders("rdlock")') = reader_count - 1
      /\ t \in Holders("wrlock") => Cardinality(Holders("wrlock")') = write_flag - 1
  BY <1>2, HoldersFinite, FS_RemoveElement DEF RWInv, ReadersExcludeWriters
<1>4. \A op : t \notin Holders(op) => Holders(op)' = Holders(op)
  BY <1>2
<1>5. /\ reader_count = 0 => Holders("rdlock") = {}
      /\ write_flag = 0 => Holders("wrlock") = {}
  BY HoldersFinite, FS_EmptySet DEF RWInv, ReadersExcludeWriters
<1>6. t \in Holders("rdlock") <=> t \notin Holders("wrlock")
  BY <1>1, OneCall DEF Holders
<1>7. reader_count' \in Nat /\ write_flag' \in {0, 1} /\ ReadersExcludeWriters'
  <2>1. CASE write_flag # 0
    <3>1. write_flag = 1 /\ reader_count = 0 /\ write_flag' = 0 /\ reader_count' = 0
      BY <2>1 DEF RWInv, ReadersExcludeWriters, RWUnlock
    <3>2. t \notin Holders("rdlock") /\ t \in Holders("wrlock")
      BY <1>5, <1>6, <3>1
    <3>. QED  BY <1>3, <1>4, <3>1, <3>2 DEF RWInv, ReadersExcludeWriters
  <2>2. CASE write_flag = 0
    <3>1. write_flag' = 0 /\ reader_count' = reader_count - 1
      BY <2>2 DEF RWUnlock
    <3>2. t \in Holders("rdlock") /\ t \notin Holders("wrlock")
      BY <1>5, <1>6, <2>2
    <3>3. Cardinality(Holders("rdlock")) = reader_count /\ reader_count \in Nat
      BY DEF RWInv, ReadersExcludeWriters
    <3>4. reader_count # 0
      BY <1>5, <3>2
    <3>. QED  BY <1>3, <1>4, <2>2, <3>1, <3>2, <3>3, <3>4 DEF RWInv, ReadersExcludeWriters
  <2>. QED  BY <2>1, <2>2
<1>8. /\ at' \in [LOCKER -> LockerPoint]
      /\ \A u \in LOCKER : at'[u] # "out" => calls'[u] # <<>>
  BY <1>1 DEF RWInv, LockerPoint
<1>. QED  BY <1>1, <1>7, <1>8 DEF RWInv

(* A writer excludes everybody and readers only writers, and the count and *)
(* the flag say who has the lock, whoever waits and whoever is woken.      *)
THEOREM ReadWriteExclusion == RWSpec => []ReadersExcludeWriters
<1>1. RWInit => RWInv
  <2>. SUFFICES ASSUME RWInit PROVE RWInv
    OBVIOUS
  <2>1. \A op : Holders(op) = {}
    BY DEF RWInit, Holders
  <2>2. Cardinality({}) = 0
    BY FS_EmptySet
  <2>3. calls \in [LOCKER -> Seq({"rdlock", "wrlock"})]
    BY RWLockAssumption DEF RWInit
  <2>. QED  BY <2>1, <2>2, <2>3 DEF RWInit, RWInv, LockerPoint, ReadersExcludeWriters
<1>2. RWInv /\ [RWNext]_rwVars => RWInv'
  <2>. SUFFICES ASSUME RWInv, [RWNext]_rwVars PROVE RWInv'
    OBVIOUS
  <2>. USE DEF LockerPoint, HolderPoint
  <2>1. ASSUME NEW t \in LOCKER, RWLockMutex(t) PROVE RWInv'
    <3>. calls[t] # <<>> /\ UNCHANGED <<reader_count, write_flag, calls>>
      BY <2>1 DEF RWLockMutex
    <3>1. CASE RWGo(t, "out", "check")
      BY <3>1, OutsideStep
    <3>2. CASE RWGo(t, "in", "unlock")
      BY <3>2, OutsideStep
    <3>. QED  BY <2>1, <3>1, <3>2 DEF RWLockMutex
  <2>2. ASSUME NEW t \in LOCKER, RWUnlockMutex(t) PROVE RWInv'
    <3>1. CASE RWGo(t, "locked", "in") /\ UNCHANGED calls
      <4>. calls[t] # <<>> /\ UNCHANGED <<reader_count, write_flag>>
        BY <2>2, <3>1 DEF RWUnlockMutex, RWGo, RWInv
      <4>. QED  BY <3>1, OutsideStep
    <3>2. CASE RWGo(t, "unlocked", "out") /\ calls' = [calls EXCEPT ![t] = Tail(@)]
      BY <2>2, <3>2, ReturnStep DEF RWUnlockMutex
    <3>. QED  BY <2>2, <3>1, <3>2 DEF RWUnlockMutex
  <2>3. ASSUME NEW t \in LOCKER, RWWait(t) PROVE RWInv'
    <3>. /\ RWGo(t, "check", "waiting") /\ calls[t] # <<>>
         /\ UNCHANGED <<reader_count, write_flag, calls>>
      BY <2>3 DEF RWWait, RWGo, RWInv
    <3>. QED  BY OutsideStep
  <2>4. ASSUME NEW t \in LOCKER, RWWoken(t) PROVE RWInv'
    <3>. /\ RWGo(t, "waiting", "check") /\ calls[t] # <<>>
         /\ UNCHANGED <<reader_count, write_flag, calls>>
      BY <2>4 DEF RWWoken, RWGo, RWInv
    <3>. QED  BY OutsideStep
  <2>5. ASSUME NEW t \in LOCKER, RWBroadcast(t) PROVE RWInv'
    <3>. /\ RWGo(t, "broadcast", "unlocked") /\ calls[t] # <<>>
         /\ UNCHANGED <<reader_count, write_flag, calls>>
      BY <2>5 DEF RWBroadcast, RWGo, RWInv
    <3>. QED  BY OutsideStep
  <2>6. CASE UNCHANGED rwVars
    <3>1. \A op : Holders(op)' = Holders(op)
      BY <2>6 DEF rwVars, Holders, Calls
    <3>. QED  BY <2>6, <3>1 DEF RWInv, ReadersExcludeWriters, rwVars
  <2>. QED  BY <2>1, <2>2, <2>3, <2>4, <2>5, <2>6, RdLockStep, WrLockStep, UnlockStep
            DEF RWNext, RWStep
<1>3. RWInv => ReadersExcludeWriters
  BY DEF RWInv
<1>. QED  BY <1>1, <1>2, <1>3, PTL DEF RWSpec
=============================================================================
