----------------------------- MODULE SharedProofs -----------------------------
(***************************************************************************)
(* What threads share, for any number of them.  The barrier of ESs         *)
(* implements AbstractBarrier, for any number of waits and any range of    *)
(* the tag.  The units of user-defined pools are mapped to their threads,  *)
(* for any hash function, threads, pools and units.  The tree reduction    *)
(* returns the whole array, for any number of threads and of elements.     *)
(***************************************************************************)
EXTENDS XstreamBarrier, UnitMap, TreeReduction, FiniteSetTheorems, WellFoundedInduction, TLAPS

-----------------------------------------------------------------------------
(* The barrier of ESs.                                                     *)

InLock(t) == at[t] \in {"tag", "unlock"}

TypeInv ==
    /\ counter \in Nat
    /\ tag \in 0 .. TAGS - 1
    /\ lock \in BOOLEAN
    /\ cur_tag \in [WAITER -> 0 .. TAGS - 1]
    /\ at \in [WAITER -> {"out", "spin", "tag", "unlock"}]

LockInv ==
    /\ lock <=> \E t \in WAITER : InLock(t)
    /\ \A t, u \in WAITER : InLock(t) /\ InLock(u) => t = u

(* The counter is the number of waiters whose group is not complete, until *)
(* the last one arrives.  Then all the others are waiting for the tag.     *)
CountInv ==
    /\ (\A t \in WAITER : at[t] # "tag") => counter = Cardinality(Unreleased)
    /\ \A t \in WAITER : at[t] = "tag" => Unreleased = WAITER \ {t} /\ counter = 0

XBInv == TypeInv /\ LockInv /\ CountInv

(* Unreleased is a finite set of which the lemmas about cardinalities      *)
(* speak.                                                                  *)
LEMMA UnreleasedFinite ==
    ASSUME XstreamBarrierConstants
    PROVE  /\ IsFiniteSet(Unreleased)
           /\ Cardinality(Unreleased) \in Nat
<1>1. Unreleased \subseteq WAITER
  BY DEF Unreleased, Spinning
<1>. QED  BY <1>1, FS_Subset, FS_CardinalityType DEF XstreamBarrierConstants

(* AbstractBarrier means the same by it.                                   *)
LEMMA SameCardinality == \A S : Abstract!Cardinality(S) = Cardinality(S)
BY Zenon DEF Abstract!Cardinality, Cardinality

(* When all but one wait, the one that does not is the last.               *)
LEMMA AllButOne ==
    ASSUME XstreamBarrierConstants, NEW t \in WAITER, t \notin Unreleased,
           Cardinality(Unreleased) + 1 = NUM_WAITERS
    PROVE  Unreleased = WAITER \ {t}
<1>1. /\ IsFiniteSet(WAITER \ {t})
      /\ Cardinality(WAITER \ {t}) = Cardinality(WAITER) - 1
  BY FS_RemoveElement DEF XstreamBarrierConstants
<1>2. Unreleased \subseteq WAITER \ {t}
  BY DEF Unreleased, Spinning
<1>3. Cardinality(Unreleased) = Cardinality(WAITER \ {t})
  BY <1>1, UnreleasedFinite DEF XstreamBarrierConstants
<1>. QED  BY <1>1, <1>2, <1>3, FS_Subset

(* A thread arrives, and waits.                                            *)
LEMMA EarlyStep ==
    ASSUME XstreamBarrierConstants, XBInv, NEW t \in WAITER, ArriveEarly(t)
    PROVE  XBInv' /\ Abstract!Enter(t)
<1>. USE DEF ArriveEarly, Move
<1>1. TypeInv' /\ LockInv'
  BY DEF XBInv, TypeInv, LockInv, InLock
<1>2. \A u \in WAITER : at[u] # "tag"
  BY DEF XBInv, LockInv, InLock
<1>3. t \notin Unreleased /\ Unreleased' = Unreleased \cup {t}
  BY DEF XBInv, TypeInv, Unreleased, Spinning
<1>4. Cardinality(Unreleased') = Cardinality(Unreleased) + 1
  BY <1>3, UnreleasedFinite, FS_AddElement
<1>5. counter' = Cardinality(Unreleased')
  BY <1>2, <1>4 DEF XBInv, CountInv
<1>6. CountInv'
  BY <1>2, <1>5 DEF XBInv, TypeInv, CountInv
<1>7. Unreleased \subseteq WAITER \ {t}
  BY <1>3 DEF Unreleased, Spinning
<1>8. Cardinality(Unreleased) + 1 < NUM_WAITERS
  <2>1. /\ IsFiniteSet(WAITER \ {t})
        /\ Cardinality(WAITER \ {t}) = Cardinality(WAITER) - 1
    BY FS_RemoveElement DEF XstreamBarrierConstants
  <2>2. Cardinality(Unreleased) <= Cardinality(WAITER \ {t})
    BY <1>7, <2>1, FS_Subset
  <2>3. Cardinality(Unreleased) + 1 # NUM_WAITERS
    BY <1>2 DEF XBInv, CountInv
  <2>. QED  BY <2>1, <2>2, <2>3, UnreleasedFinite DEF XstreamBarrierConstants
<1>9. Released' = Released /\ t \notin Released
  <2>1. Spinning' = Spinning \cup {t}
    BY DEF XBInv, TypeInv, Spinning
  <2>2. \A u \in WAITER : at'[u] = "unlock" <=> at[u] = "unlock"
    BY DEF XBInv, TypeInv
  <2>. QED  BY <1>3, <2>1, <2>2 DEF Released, Spinning
<1>10. Abstract!Enter(t)
  BY <1>3, <1>8, <1>9, SameCardinality DEF Abstract!Enter
<1>. QED  BY <1>1, <1>6, <1>10 DEF XBInv

(* The last thread arrives and takes the lock.                             *)
LEMMA FinalStep ==
    ASSUME XstreamBarrierConstants, XBInv, NEW t \in WAITER, ArriveFinal(t)
    PROVE  XBInv' /\ UNCHANGED <<Unreleased, Released>>
<1>. USE DEF ArriveFinal, Move
<1>1. TypeInv' /\ LockInv'
  BY DEF XBInv, TypeInv, LockInv, InLock
<1>2. \A u \in WAITER : at[u] # "tag"
  BY DEF XBInv, LockInv, InLock
<1>3. \A u \in WAITER : at'[u] = "tag" <=> u = t
  BY <1>2 DEF XBInv, TypeInv
<1>4. t \notin Unreleased /\ Unreleased' = Unreleased /\ Spinning' = Spinning
  BY DEF XBInv, TypeInv, Unreleased, Spinning
<1>5. \A u \in WAITER : at'[u] = "unlock" <=> at[u] = "unlock"
  BY DEF XBInv, TypeInv
<1>6. Unreleased = WAITER \ {t}
  BY <1>2, <1>4, AllButOne DEF XBInv, CountInv
<1>7. CountInv'
  BY <1>3, <1>4, <1>6 DEF CountInv
<1>. QED  BY <1>1, <1>4, <1>5, <1>7 DEF XBInv, Released

(* Another tag: nobody waits for it yet.                                   *)
LEMMA NextTag ==
    ASSUME XstreamBarrierConstants, NEW g \in 0 .. TAGS - 1
    PROVE  (g + 1) % TAGS \in 0 .. TAGS - 1 /\ (g + 1) % TAGS # g
<1>1. CASE g + 1 = TAGS
  BY <1>1 DEF XstreamBarrierConstants
<1>2. CASE g + 1 # TAGS
  <2>1. (g + 1) % TAGS = g + 1
    BY <1>2 DEF XstreamBarrierConstants
  <2>. QED  BY <1>2, <2>1 DEF XstreamBarrierConstants
<1>. QED  BY <1>1, <1>2

(* The group is complete.                                                  *)
LEMMA TagStep ==
    ASSUME XstreamBarrierConstants, XBInv, NEW t \in WAITER, StoreTag(t)
    PROVE  XBInv' /\ Abstract!Enter(t)
<1>. USE DEF StoreTag, Move
<1>1. tag' \in 0 .. TAGS - 1 /\ tag' # tag
  BY NextTag DEF XBInv, TypeInv
<1>2. TypeInv' /\ LockInv'
  BY <1>1 DEF XBInv, TypeInv, LockInv, InLock
<1>3. Unreleased = WAITER \ {t} /\ counter = 0
  BY DEF XBInv, CountInv
<1>4. \A u \in WAITER \ {t} : at[u] = "spin" /\ cur_tag[u] = tag
  BY <1>3 DEF Unreleased, Spinning
<1>5. /\ \A u \in WAITER : at'[u] # "tag"
      /\ at'[t] = "unlock"
      /\ \A u \in WAITER \ {t} : at'[u] = "spin"
  BY <1>4 DEF XBInv, TypeInv
<1>6. Spinning' = WAITER \ {t} /\ Unreleased' = {}
  BY <1>1, <1>4, <1>5 DEF Unreleased, Spinning
<1>7. CountInv'
  BY <1>3, <1>5, <1>6, FS_EmptySet DEF CountInv
<1>8. Released = {} /\ Released' = WAITER
  BY <1>3, <1>4, <1>5, <1>6 DEF Released, Spinning
<1>9. ~(Cardinality(Unreleased) + 1 < NUM_WAITERS)
  BY <1>3, FS_RemoveElement DEF XstreamBarrierConstants
<1>10. Abstract!Enter(t)
  BY <1>3, <1>6, <1>8, <1>9, SameCardinality DEF Abstract!Enter
<1>. QED  BY <1>2, <1>7, <1>10 DEF XBInv

(* A thread of a complete group returns: the last one, or one that spins.  *)
LEMMA LeaveStep ==
    ASSUME XstreamBarrierConstants, XBInv, NEW t \in WAITER, ReleaseLock(t) \/ SpinOver(t)
    PROVE  XBInv' /\ Abstract!Leave(t)
<1>. USE DEF ReleaseLock, SpinOver, Returns, Move
<1>1. TypeInv' /\ LockInv'
  <2>1. TypeInv'
    BY DEF XBInv, TypeInv
  <2>2. CASE ReleaseLock(t)
    <3>1. \A u \in WAITER : ~InLock(u)'
      BY <2>2 DEF XBInv, TypeInv, LockInv, InLock
    <3>. QED  BY <2>1, <2>2, <3>1 DEF LockInv
  <2>3. CASE SpinOver(t)
    <3>1. \A u \in WAITER : InLock(u)' <=> InLock(u)
      BY <2>3 DEF XBInv, TypeInv, InLock
    <3>. QED  BY <2>1, <2>3, <3>1 DEF XBInv, LockInv
  <2>. QED  BY <2>2, <2>3
<1>2. at' = [at EXCEPT ![t] = "out"] /\ UNCHANGED <<counter, tag, cur_tag>>
  OBVIOUS
<1>3. t \in Released /\ t \notin Unreleased
  BY DEF Released, Unreleased, Spinning
<1>4. Unreleased' = Unreleased /\ Released' = Released \ {t}
  BY <1>2, <1>3 DEF XBInv, TypeInv, Released, Unreleased, Spinning
<1>5. \A u \in WAITER : at'[u] = "tag" <=> at[u] = "tag"
  BY DEF XBInv, TypeInv
<1>6. CountInv'
  BY <1>2, <1>4, <1>5 DEF XBInv, CountInv
<1>7. Abstract!Leave(t)
  BY <1>3, <1>4 DEF Abstract!Leave
<1>. QED  BY <1>1, <1>6, <1>7 DEF XBInv

(* The barrier of execution streams (stream_barrier.c) implements          *)
(* AbstractBarrier: nobody returns before all of its group have arrived,   *)
(* although the tag is read without the lock, and wraps around.            *)
THEOREM BarrierOfStreams ==
    ASSUME XstreamBarrierConstants
    PROVE  XstreamBarrierSpec => XstreamBarrierImplements
<1>1. XstreamBarrierInit => XBInv /\ Abstract!Init
  <2>. SUFFICES ASSUME XstreamBarrierInit PROVE XBInv /\ Abstract!Init
    OBVIOUS
  <2>. USE DEF XstreamBarrierInit
  <2>1. Unreleased = {} /\ Released = {}
    BY DEF Unreleased, Released, Spinning
  <2>2. TypeInv
    <3>1. 0 \in 0 .. TAGS - 1
      BY DEF XstreamBarrierConstants
    <3>. QED  BY <3>1 DEF TypeInv
  <2>3. LockInv
    BY DEF LockInv, InLock
  <2>4. CountInv
    BY <2>1, FS_EmptySet DEF CountInv
  <2>. QED  BY <2>1, <2>2, <2>3, <2>4 DEF XBInv, Abstract!Init
<1>2. XBInv /\ [\E t \in WAITER : XstreamBarrierStep(t)]_xstreamBarrierVars
         => XBInv' /\ [Abstract!Next]_(Abstract!barrierVars)
  <2>. SUFFICES ASSUME XBInv, [\E t \in WAITER : XstreamBarrierStep(t)]_xstreamBarrierVars
                PROVE  XBInv' /\ [Abstract!Next]_(Abstract!barrierVars)
    OBVIOUS
  <2>1. CASE UNCHANGED xstreamBarrierVars
    BY <2>1 DEF xstreamBarrierVars, XBInv, TypeInv, LockInv, CountInv, InLock,
                Abstract!barrierVars, Unreleased, Released, Spinning
  <2>2. ASSUME NEW t \in WAITER, XstreamBarrierStep(t)
        PROVE  XBInv' /\ [Abstract!Next]_(Abstract!barrierVars)
    <3>1. CASE ArriveEarly(t)
      BY <3>1, EarlyStep DEF Abstract!Next
    <3>2. CASE ArriveFinal(t)
      BY <3>2, FinalStep DEF Abstract!barrierVars
    <3>3. CASE StoreTag(t)
      BY <3>3, TagStep DEF Abstract!Next
    <3>4. CASE ReleaseLock(t) \/ SpinOver(t)
      BY <3>4, LeaveStep DEF Abstract!Next
    <3>. QED  BY <2>2, <3>1, <3>2, <3>3, <3>4 DEF XstreamBarrierStep
  <2>. QED  BY <2>1, <2>2
<1>. QED  BY <1>1, <1>2, PTL DEF XstreamBarrierSpec, XstreamBarrierImplements,
                                 Abstract!Spec

-----------------------------------------------------------------------------
(* The units: the largest of some natural numbers is one of them.          *)

LessThan == {p \in Nat \X Nat : p[1] < p[2]}

LEMMA LessThanWellFounded == IsWellFoundedOn(LessThan, Nat)
<1>1. IsWellFoundedOn({p \in Nat \X Nat : p[1] < p[2]}, Nat)
  BY NatLessThanWellFounded, Zenon DEF OpToRel
<1>. QED  BY <1>1 DEF LessThan

LEMMA MaxIn ==
    ASSUME NEW k \in Nat, NEW S \in SUBSET (1 .. k), S # {}
    PROVE  Max(S) \in S
<1>. DEFINE T == {k - n : n \in S}
<1>1. \A n \in S : n \in Nat /\ k - n \in Nat /\ k - n \in T
  OBVIOUS
<1>2. T \subseteq Nat /\ T # {}
  BY <1>1
<1>3. PICK x \in T : \A y \in T : <<y, x>> \notin LessThan
  <2>. HIDE DEF T
  <2>. QED  BY <1>2, LessThanWellFounded, WFMin
<1>4. PICK n \in S : x = k - n
  OBVIOUS
<1>5. \A m \in S : n >= m
  <2>. SUFFICES ASSUME NEW m \in S PROVE n >= m
    OBVIOUS
  <2>1. <<k - m, k - n>> \notin LessThan
    BY <1>1, <1>3, <1>4
  <2>2. ~(k - m < k - n)
    BY <1>1, <2>1 DEF LessThan
  <2>. QED  BY <1>1, <2>2
<1>. QED  BY <1>5 DEF Max

-----------------------------------------------------------------------------
(* The inductive invariant of the unit table.                              *)

Index == {Hash[u] : u \in UNITID}

Element == [unit : UNITID \cup {NONE}, p_thread : TASK]

Point == {"idle", "get", "create", "map", "map_thread", "free_new",
          "unmap", "free_unit", "assign"}

UnitTypeInv ==
    /\ list \in [Index -> Seq(Element)]
    /\ unit \in [TASK -> UNITID \cup {BUILTIN, NONE}]
    /\ pool \in [TASK -> USERPOOL \cup {BUILTIN, NONE}]
    /\ units \subseteq USERPOOL \X UNITID
    /\ worker_at \in [WORKER -> Point]
    /\ taken \in [WORKER -> TASK \cup {NONE}]
    /\ p_thread \in [WORKER -> TASK \cup {NONE}]
    /\ old_unit \in [WORKER -> UNITID \cup {BUILTIN, NONE}]
    /\ target \in [WORKER -> USERPOOL \cup {BUILTIN, NONE}]
    /\ new_unit \in [WORKER -> UNITID \cup USERPOOL \cup {BUILTIN, NONE}]
    /\ p_cur \in [WORKER -> Nat]

(* Threads in a user's pool have a unit of it, others a built-in unit, or  *)
(* none.                                                                   *)
ThreadInv ==
    \A t \in TASK : IF pool[t] \in USERPOOL THEN unit[t] \in UNITID ELSE unit[t] = pool[t]

(* The points at which the new unit of a worker may have been created.     *)
GivenPoint == {"map", "map_thread", "free_new", "unmap", "free_unit", "assign"}

(* What a worker knows of the thread it has taken.                         *)
WorkerOK(w) ==
    /\ old_unit[w] = unit[taken[w]]
    /\ worker_at[w] # "get" => p_thread[w] = taken[w]
    /\ worker_at[w] \in {"get", "unmap", "free_unit"} => old_unit[w] \in UNITID
    /\ worker_at[w] \in {"create", "map", "map_thread", "free_new"} => target[w] \in USERPOOL
    /\ worker_at[w] \notin {"get", "assign"} => target[w] # pool[taken[w]]
    /\ worker_at[w] # "create" =>
          IF target[w] = pool[taken[w]] THEN new_unit[w] = old_unit[w]
          ELSE IF target[w] \in USERPOOL /\ worker_at[w] # "get" THEN new_unit[w] \in UNITID
          ELSE new_unit[w] = target[w]

WorkerInv == \A w \in WORKER : worker_at[w] # "idle" => WorkerOK(w)

TakenInv ==
    /\ \A w \in WORKER : taken[w] = NONE <=> worker_at[w] = "idle"
    /\ \A v, w \in WORKER : taken[v] = taken[w] /\ taken[v] # NONE => v = w

(* Unit u, which pool q has created, is the unit of t, and has not been    *)
(* freed, or the one that a worker brings t to q with...                   *)
Owns(t, q, u) ==
    \/ /\ u = unit[t] /\ q = pool[t] /\ u \in UNITID
       /\ \A w \in WORKER : taken[w] = t /\ worker_at[w] = "assign" => target[w] = pool[t]
    \/ \E w \in WORKER :
          /\ taken[w] = t /\ u = new_unit[w] /\ q = target[w]
          /\ q \in USERPOOL \ {pool[t]}
          /\ worker_at[w] \in GivenPoint

(* ...and it is mapped.                                                    *)
Maps(t, q, u) ==
    \/ /\ u = unit[t] /\ q = pool[t] /\ u \in UNITID
       /\ \A w \in WORKER : taken[w] = t /\ worker_at[w] \in {"free_unit", "assign"}
                            => target[w] = pool[t]
    \/ \E w \in WORKER :
          /\ taken[w] = t /\ u = new_unit[w] /\ q = target[w]
          /\ q \in USERPOOL \ {pool[t]}
          /\ worker_at[w] \in {"unmap", "free_unit", "assign"}

(* The pools have the units that are owned, each by one thread.            *)
LiveInv ==
    /\ \A q \in USERPOOL, u \in UNITID : <<q, u>> \in units <=> \E t \in TASK : Owns(t, q, u)
    /\ \A s, t \in TASK, p, q \in USERPOOL, u \in UNITID :
          Owns(s, p, u) /\ Owns(t, q, u) => s = t /\ p = q

(* A worker fills an element that was empty.                               *)
Filling(i, n) == \E w \in WORKER : /\ worker_at[w] = "map_thread"
                                   /\ new_unit[w] = list[i][n].unit
                                   /\ p_cur[w] = n

(* An element that is not empty has a unit of its index, and its thread,   *)
(* or a worker is about to write the thread...                             *)
ElementOK(i, n) ==
    list[i][n].unit # NONE =>
        /\ Hash[list[i][n].unit] = i
        /\ \/ Filling(i, n)
           \/ \E q \in USERPOOL : Maps(list[i][n].p_thread, q, list[i][n].unit)

ChainInv ==
    /\ \A i \in Index : \A n \in DOMAIN list[i] : ElementOK(i, n)
    /\ \A i \in Index : \A m, n \in DOMAIN list[i] :
          list[i][m].unit = list[i][n].unit /\ list[i][m].unit # NONE => m = n

(* ...every unit that is mapped is in an element, where a worker that is   *)
(* to find or to write it will find it.                                    *)
FoundInv ==
    /\ \A t \in TASK, q \in USERPOOL, u \in UNITID :
          Maps(t, q, u) => Holding(Hash[u], u) # {}
    /\ \A w \in WORKER : worker_at[w] = "map_thread" =>
          p_cur[w] \in Holding(Hash[new_unit[w]], new_unit[w])
    /\ \A w \in WORKER : worker_at[w] = "get" =>
          /\ p_cur[w] <= Len(list[Hash[old_unit[w]]])
          /\ \E n \in Holding(Hash[old_unit[w]], old_unit[w]) : n <= p_cur[w]

UnitInv == UnitTypeInv /\ ThreadInv /\ TakenInv /\ WorkerInv /\ LiveInv /\ ChainInv /\ FoundInv

-----------------------------------------------------------------------------
(* The chains.                                                             *)

LEMMA ChainType ==
    ASSUME UnitTypeInv, NEW i \in Index
    PROVE  /\ list[i] \in Seq(Element) /\ Len(list[i]) \in Nat
           /\ DOMAIN list[i] = 1 .. Len(list[i])
           /\ \A n \in DOMAIN list[i] : list[i][n] \in Element
<1>1. list[i] \in Seq(Element)
  BY DEF UnitTypeInv
<1>. QED  BY <1>1

LEMMA HashIndex == ASSUME NEW u \in UNITID PROVE Hash[u] \in Index
BY DEF Index

LEMMA HoldingMax ==
    ASSUME UnitTypeInv, NEW i \in Index, NEW u, Holding(i, u) # {}
    PROVE  Max(Holding(i, u)) \in DOMAIN list[i] /\ list[i][Max(Holding(i, u))].unit = u
<1>1. Max(Holding(i, u)) \in Holding(i, u)
  <2>1. Holding(i, u) \in SUBSET (1 .. Len(list[i])) /\ Len(list[i]) \in Nat
    BY ChainType DEF Holding
  <2>. HIDE DEF Holding
  <2>. QED  BY <2>1, MaxIn
<1>. QED  BY <1>1 DEF Holding

(* An element is written.                                                  *)
LEMMA WriteElement ==
    ASSUME UnitTypeInv, NEW i \in Index, NEW n \in DOMAIN list[i], NEW e \in Element,
           list' = [list EXCEPT ![i] = [list[i] EXCEPT ![n] = e]]
    PROVE  /\ list' \in [Index -> Seq(Element)]
           /\ \A j \in Index : /\ DOMAIN list'[j] = DOMAIN list[j]
                               /\ Len(list'[j]) = Len(list[j])
           /\ list'[i][n] = e
           /\ \A j \in Index : \A m \in DOMAIN list[j] :
                 j # i \/ m # n => list'[j][m] = list[j][m]
<1>1. list[i] \in Seq(Element) /\ list \in [Index -> Seq(Element)]
  BY ChainType DEF UnitTypeInv
<1>2. /\ [list[i] EXCEPT ![n] = e] \in Seq(Element)
      /\ Len([list[i] EXCEPT ![n] = e]) = Len(list[i])
      /\ DOMAIN [list[i] EXCEPT ![n] = e] = DOMAIN list[i]
  BY <1>1
<1>3. list'[i] = [list[i] EXCEPT ![n] = e] /\ \A j \in Index \ {i} : list'[j] = list[j]
  BY <1>1
<1>. QED  BY <1>1, <1>2, <1>3

LEMMA WriteUnit ==
    ASSUME UnitTypeInv, NEW i \in Index, NEW n \in DOMAIN list[i],
           NEW x \in UNITID \cup {NONE},
           list' = [list EXCEPT ![i][n].unit = x]
    PROVE  /\ list' \in [Index -> Seq(Element)]
           /\ \A j \in Index : /\ DOMAIN list'[j] = DOMAIN list[j]
                               /\ Len(list'[j]) = Len(list[j])
           /\ list'[i][n].unit = x /\ list'[i][n].p_thread = list[i][n].p_thread
           /\ \A j \in Index : \A m \in DOMAIN list[j] :
                 j # i \/ m # n => list'[j][m] = list[j][m]
<1>. DEFINE e == [list[i][n] EXCEPT !.unit = x]
<1>1. list[i][n] \in Element
  BY ChainType
<1>2. e \in Element /\ e.unit = x /\ e.p_thread = list[i][n].p_thread
  BY <1>1 DEF Element
<1>3. list' = [list EXCEPT ![i] = [list[i] EXCEPT ![n] = e]]
  OBVIOUS
<1>. HIDE DEF e
<1>4. /\ list' \in [Index -> Seq(Element)]
      /\ \A j \in Index : DOMAIN list'[j] = DOMAIN list[j] /\ Len(list'[j]) = Len(list[j])
      /\ list'[i][n] = e
      /\ \A j \in Index : \A m \in DOMAIN list[j] :
            j # i \/ m # n => list'[j][m] = list[j][m]
  BY ONLY <1>2, <1>3, WriteElement, UnitTypeInv, i \in Index, n \in DOMAIN list[i], Zenon
<1>. QED  BY <1>2, <1>4

LEMMA WriteThread ==
    ASSUME UnitTypeInv, NEW i \in Index, NEW n \in DOMAIN list[i], NEW t \in TASK,
           list' = [list EXCEPT ![i][n].p_thread = t]
    PROVE  /\ list' \in [Index -> Seq(Element)]
           /\ \A j \in Index : /\ DOMAIN list'[j] = DOMAIN list[j]
                               /\ Len(list'[j]) = Len(list[j])
           /\ list'[i][n].p_thread = t /\ list'[i][n].unit = list[i][n].unit
           /\ \A j \in Index : \A m \in DOMAIN list[j] :
                 j # i \/ m # n => list'[j][m] = list[j][m]
<1>. DEFINE e == [list[i][n] EXCEPT !.p_thread = t]
<1>1. list[i][n] \in Element
  BY ChainType
<1>2. e \in Element /\ e.p_thread = t /\ e.unit = list[i][n].unit
  BY <1>1 DEF Element
<1>3. list' = [list EXCEPT ![i] = [list[i] EXCEPT ![n] = e]]
  OBVIOUS
<1>. HIDE DEF e
<1>4. /\ list' \in [Index -> Seq(Element)]
      /\ \A j \in Index : DOMAIN list'[j] = DOMAIN list[j] /\ Len(list'[j]) = Len(list[j])
      /\ list'[i][n] = e
      /\ \A j \in Index : \A m \in DOMAIN list[j] :
            j # i \/ m # n => list'[j][m] = list[j][m]
  BY ONLY <1>2, <1>3, WriteElement, UnitTypeInv, i \in Index, n \in DOMAIN list[i], Zenon
<1>. QED  BY <1>2, <1>4

LEMMA AddElement ==
    ASSUME UnitTypeInv, NEW i \in Index, NEW e \in Element,
           list' = [list EXCEPT ![i] = Append(@, e)]
    PROVE  /\ list' \in [Index -> Seq(Element)]
           /\ \A j \in Index \ {i} : list'[j] = list[j]
           /\ Len(list'[i]) = Len(list[i]) + 1
           /\ DOMAIN list'[i] = DOMAIN list[i] \cup {Len(list[i]) + 1}
           /\ Len(list[i]) + 1 \notin DOMAIN list[i]
           /\ list'[i][Len(list[i]) + 1] = e
           /\ \A m \in DOMAIN list[i] : list'[i][m] = list[i][m]
<1>1. list[i] \in Seq(Element) /\ list \in [Index -> Seq(Element)] /\ Len(list[i]) \in Nat
  BY ChainType DEF UnitTypeInv
<1>2. list'[i] = Append(list[i], e) /\ \A j \in Index \ {i} : list'[j] = list[j]
  BY <1>1
<1>3. Append(list[i], e) \in Seq(Element) /\ Len(Append(list[i], e)) = Len(list[i]) + 1
  BY <1>1
<1>4. list' \in [Index -> Seq(Element)]
  BY <1>1, <1>2, <1>3
<1>5. /\ DOMAIN list'[i] = DOMAIN list[i] \cup {Len(list[i]) + 1}
      /\ Len(list[i]) + 1 \notin DOMAIN list[i]
  BY <1>1, <1>2, <1>3
<1>6. /\ list'[i][Len(list[i]) + 1] = e
      /\ \A m \in DOMAIN list[i] : list'[i][m] = list[i][m]
  BY <1>1, <1>2
<1>. QED  BY <1>2, <1>3, <1>4, <1>5, <1>6

-----------------------------------------------------------------------------
(* What a step of a worker leaves alone.                                   *)

LEMMA OtherWorkers ==
    ASSUME UnitTypeInv, NEW w \in WORKER, UnitMapStep(w), NEW v \in WORKER, v # w
    PROVE  /\ worker_at'[v] = worker_at[v] /\ taken'[v] = taken[v]
           /\ p_thread'[v] = p_thread[v] /\ old_unit'[v] = old_unit[v]
           /\ target'[v] = target[v] /\ new_unit'[v] = new_unit[v]
           /\ p_cur'[v] = p_cur[v]
<1>. USE DEF UnitTypeInv
<1>1. CASE MoveThread(w)
  BY <1>1 DEF MoveThread, Take, Step
<1>2. CASE MoveUnit(w)
  BY <1>2 DEF MoveUnit, Take, Step
<1>3. CASE CreateUnitFails(w) \/ FreeNewUnit(w) \/ Assign(w)
  BY <1>3 DEF CreateUnitFails, FreeNewUnit, Assign, Return, Step
<1>4. CASE CreateUnit(w) \/ FreeUnit(w) \/ GetThread(w)
  BY <1>4 DEF CreateUnit, FreeUnit, GetThread, Step, localVars
<1>5. CASE MapReuse(w) \/ MapThread(w) \/ MapNew(w) \/ MapFails(w) \/ Unmap(w)
  BY <1>5 DEF MapReuse, MapThread, MapNew, MapFails, Unmap, Step, localVars
<1>. QED  BY <1>1, <1>2, <1>3, <1>4, <1>5 DEF UnitMapStep

LEMMA OtherThreads ==
    ASSUME UnitTypeInv, NEW w \in WORKER, UnitMapStep(w), TakenInv, WorkerInv,
           NEW t \in TASK, t # taken[w]
    PROVE  unit'[t] = unit[t] /\ pool'[t] = pool[t]
<1>1. CASE Assign(w)
  BY <1>1 DEF Assign, Return, Step, UnitTypeInv, TakenInv, WorkerInv, WorkerOK
<1>2. CASE MoveThread(w) \/ MoveUnit(w)
  BY <1>2 DEF MoveThread, MoveUnit, Take, threadVars
<1>3. CASE CreateUnitFails(w) \/ FreeNewUnit(w) \/ CreateUnit(w) \/ FreeUnit(w) \/ GetThread(w)
  BY <1>3 DEF CreateUnitFails, FreeNewUnit, CreateUnit, FreeUnit, GetThread, threadVars
<1>4. CASE MapReuse(w) \/ MapThread(w) \/ MapNew(w) \/ MapFails(w) \/ Unmap(w)
  BY <1>4 DEF MapReuse, MapThread, MapNew, MapFails, Unmap, threadVars
<1>. QED  BY <1>1, <1>2, <1>3, <1>4 DEF UnitMapStep

(* So the threads that it does not move own what they owned.               *)
LEMMA OwnsFrame ==
    ASSUME UnitTypeInv, TakenInv, WorkerInv, NEW w \in WORKER, UnitMapStep(w),
           NEW t \in TASK, t # taken[w], t # taken'[w], NEW q, NEW u
    PROVE  (Owns(t, q, u)' <=> Owns(t, q, u)) /\ (Maps(t, q, u)' <=> Maps(t, q, u))
<1>1. unit'[t] = unit[t] /\ pool'[t] = pool[t]
  BY OtherThreads
<1>2. \A v \in WORKER : v # w =>
          /\ worker_at'[v] = worker_at[v] /\ taken'[v] = taken[v]
          /\ target'[v] = target[v] /\ new_unit'[v] = new_unit[v]
  BY OtherWorkers
<1>. QED  BY <1>1, <1>2 DEF Owns, Maps

(* The thread that a worker moves owns its old unit, the new one, or both. *)
TakenOwns(w, q, u) ==
    \/ /\ u = unit[taken[w]] /\ q = pool[taken[w]] /\ u \in UNITID
       /\ worker_at[w] = "assign" => target[w] = pool[taken[w]]
    \/ /\ u = new_unit[w] /\ q = target[w] /\ q \in USERPOOL
       /\ q # pool[taken[w]] /\ worker_at[w] \in GivenPoint

TakenMaps(w, q, u) ==
    \/ /\ u = unit[taken[w]] /\ q = pool[taken[w]] /\ u \in UNITID
       /\ worker_at[w] \in {"free_unit", "assign"} => target[w] = pool[taken[w]]
    \/ /\ u = new_unit[w] /\ q = target[w] /\ q \in USERPOOL
       /\ q # pool[taken[w]] /\ worker_at[w] \in {"unmap", "free_unit", "assign"}

LEMMA OwnsTaken ==
    ASSUME TakenInv, NEW w \in WORKER, worker_at[w] # "idle", NEW q, NEW u
    PROVE  /\ Owns(taken[w], q, u) <=> TakenOwns(w, q, u)
           /\ Maps(taken[w], q, u) <=> TakenMaps(w, q, u)
<1>1. \A v \in WORKER : taken[v] = taken[w] <=> v = w
  BY DEF TakenInv
<1>. QED  BY <1>1 DEF Owns, Maps, TakenOwns, TakenMaps

LEMMA OwnsTakenNext ==
    ASSUME TakenInv', NEW w \in WORKER, worker_at'[w] # "idle", NEW q, NEW u
    PROVE  /\ Owns(taken[w], q, u)' <=> TakenOwns(w, q, u)'
           /\ Maps(taken[w], q, u)' <=> TakenMaps(w, q, u)'
<1>1. \A v \in WORKER : taken'[v] = taken'[w] <=> v = w
  BY DEF TakenInv
<1>. QED  BY <1>1 DEF Owns, Maps, TakenOwns, TakenMaps

LEMMA OwnsResting ==
    ASSUME NEW t \in TASK, Resting(t), NEW q, NEW u
    PROVE  /\ Owns(t, q, u) <=> u = unit[t] /\ q = pool[t] /\ u \in UNITID
           /\ Maps(t, q, u) <=> u = unit[t] /\ q = pool[t] /\ u \in UNITID
BY DEF Resting, Owns, Maps

LEMMA MapsOwns ==
    ASSUME NEW t \in TASK, NEW q, NEW u, Maps(t, q, u)
    PROVE  Owns(t, q, u)
BY DEF Maps, Owns, GivenPoint

LEMMA OwnsRestingNext ==
    ASSUME NEW t \in TASK, Resting(t)', NEW q, NEW u
    PROVE  /\ Owns(t, q, u)' <=> u = unit'[t] /\ q = pool'[t] /\ u \in UNITID
           /\ Maps(t, q, u)' <=> u = unit'[t] /\ q = pool'[t] /\ u \in UNITID
BY DEF Resting, Owns, Maps

-----------------------------------------------------------------------------
(* Types and workers.                                                      *)

LEMMA BeginCases ==
    ASSUME NEW t, NEW p
    PROVE  /\ Begin(t, p) \in {"create", "unmap", "assign"}
           /\ Begin(t, p) = "create" => p # pool[t] /\ p \in USERPOOL
           /\ Begin(t, p) = "unmap" => p # pool[t] /\ p \notin USERPOOL /\ unit[t] \in UNITID
           /\ Begin(t, p) = "assign" =>
                 p = pool[t] \/ (p \notin USERPOOL /\ unit[t] \notin UNITID)
BY DEF Begin

LEMMA TakenStep ==
    ASSUME UnitMapConstants, UnitTypeInv, TakenInv, NEW w \in WORKER, UnitMapStep(w)
    PROVE  TakenInv'
<1>1. ASSUME NEW t \in TASK, \A v \in WORKER : taken[v] # t,
             taken' = [taken EXCEPT ![w] = t], worker_at'[w] # "idle"
      PROVE  TakenInv'
  BY <1>1, OtherWorkers DEF UnitMapConstants, TakenInv, UnitTypeInv
<1>2. CASE MoveThread(w)
  <2>1. PICK t \in TASK, p \in USERPOOL \cup {BUILTIN, NONE} :
             Take(w, t, p) /\ Step(w, "idle", Begin(t, p))
    BY <1>2 DEF MoveThread
  <2>2. worker_at'[w] # "idle"
    BY <2>1, BeginCases DEF Step, UnitTypeInv
  <2>. QED  BY <1>1, <2>1, <2>2 DEF Take
<1>3. CASE MoveUnit(w)
  <2>1. PICK t \in TASK, p \in USERPOOL \cup {BUILTIN} : Take(w, t, p) /\ Step(w, "idle", "get")
    BY <1>3 DEF MoveUnit
  <2>2. worker_at'[w] # "idle"
    BY <2>1 DEF Step, UnitTypeInv
  <2>. QED  BY <1>1, <2>1, <2>2 DEF Take
<1>4. CASE CreateUnitFails(w) \/ FreeNewUnit(w) \/ Assign(w)
  <2>1. taken' = [taken EXCEPT ![w] = NONE] /\ worker_at'[w] = "idle"
    BY <1>4 DEF CreateUnitFails, FreeNewUnit, Assign, Return, Step, UnitTypeInv
  <2>. QED  BY <2>1, OtherWorkers DEF TakenInv, UnitTypeInv
<1>5. ASSUME taken' = taken, worker_at[w] # "idle", worker_at'[w] # "idle"
      PROVE  TakenInv'
  BY <1>5, OtherWorkers DEF TakenInv
<1>6. CASE CreateUnit(w) \/ FreeUnit(w)
  BY <1>5, <1>6 DEF CreateUnit, FreeUnit, Step, UnitTypeInv, localVars
<1>7. CASE GetThread(w)
  <2>1. taken' = taken /\ worker_at[w] = "get"
    BY <1>7 DEF GetThread, localVars
  <2>2. worker_at'[w] # "idle"
    <3>1. ASSUME NEW t, Step(w, "get", Begin(t, target[w]))
          PROVE  worker_at'[w] # "idle"
      BY <3>1, BeginCases DEF Step, UnitTypeInv
    <3>. QED  BY <1>7, <3>1 DEF GetThread
  <2>. QED  BY <1>5, <2>1, <2>2
<1>8. CASE MapReuse(w) \/ MapThread(w) \/ MapNew(w) \/ MapFails(w) \/ Unmap(w)
  BY <1>5, <1>8 DEF MapReuse, MapThread, MapNew, MapFails, Unmap, Mapped, Step,
                    UnitTypeInv, localVars
<1>. QED  BY <1>2, <1>3, <1>4, <1>6, <1>7, <1>8 DEF UnitMapStep

(* A worker that has taken a thread has a thread, and where it may have a  *)
(* new unit, it looks in the chain of that unit.                           *)
LEMMA WorkerFacts ==
    ASSUME UnitMapConstants, UnitTypeInv, TakenInv, WorkerInv, NEW w \in WORKER,
           worker_at[w] # "idle"
    PROVE  /\ taken[w] \in TASK /\ WorkerOK(w)
           /\ worker_at[w] # "get" => p_thread[w] = taken[w]
           /\ worker_at[w] \in {"map", "map_thread", "free_new"} =>
                 /\ new_unit[w] \in UNITID /\ Hash[new_unit[w]] \in Index
                 /\ target[w] \in USERPOOL /\ target[w] # pool[taken[w]]
           /\ worker_at[w] \in {"get", "unmap", "free_unit"} =>
                 old_unit[w] \in UNITID /\ Hash[old_unit[w]] \in Index
<1>1. taken[w] \in TASK /\ WorkerOK(w)
  BY DEF TakenInv, WorkerInv, UnitTypeInv
<1>2. worker_at[w] \in {"map", "map_thread", "free_new"} =>
         /\ new_unit[w] \in UNITID /\ target[w] \in USERPOOL /\ target[w] # pool[taken[w]]
  BY <1>1 DEF WorkerOK
<1>3. worker_at[w] \in {"get", "unmap", "free_unit"} => old_unit[w] \in UNITID
  BY <1>1 DEF WorkerOK
<1>4. worker_at[w] # "get" => p_thread[w] = taken[w]
  BY <1>1 DEF WorkerOK
<1>. QED  BY <1>1, <1>2, <1>3, <1>4, HashIndex

LEMMA AssignedType ==
    ASSUME UnitMapConstants, UnitTypeInv, TakenInv, WorkerInv, NEW w \in WORKER,
           worker_at[w] = "assign"
    PROVE  new_unit[w] \in UNITID \cup {BUILTIN, NONE}
<1>1. WorkerOK(w)
  BY WorkerFacts
<1>2. /\ target[w] \in USERPOOL \cup {BUILTIN, NONE}
      /\ old_unit[w] \in UNITID \cup {BUILTIN, NONE}
  BY DEF UnitTypeInv
<1>. QED  BY <1>1, <1>2 DEF WorkerOK

LEMMA UnitTypeStep ==
    ASSUME UnitMapConstants, UnitTypeInv, TakenInv, WorkerInv, FoundInv,
           NEW w \in WORKER, UnitMapStep(w)
    PROVE  UnitTypeInv'
<1>1. ASSUME NEW t \in TASK, NEW p \in USERPOOL \cup {BUILTIN, NONE}, Take(w, t, p),
             worker_at' \in [WORKER -> Point],
             p_thread' \in [WORKER -> TASK \cup {NONE}], p_cur' \in [WORKER -> Nat]
      PROVE  UnitTypeInv'
  <2>1. unit[t] \in UNITID \cup {BUILTIN, NONE} /\ pool[t] \in USERPOOL \cup {BUILTIN, NONE}
    BY DEF UnitTypeInv
  <2>2. taken' \in [WORKER -> TASK \cup {NONE}]
    BY <1>1 DEF Take, UnitTypeInv
  <2>3. old_unit' \in [WORKER -> UNITID \cup {BUILTIN, NONE}]
    BY <1>1, <2>1 DEF Take, UnitTypeInv
  <2>4. target' \in [WORKER -> USERPOOL \cup {BUILTIN, NONE}]
    BY <1>1 DEF Take, UnitTypeInv
  <2>5. new_unit' \in [WORKER -> UNITID \cup USERPOOL \cup {BUILTIN, NONE}]
    <3>1. (IF p = pool[t] THEN unit[t] ELSE p) \in UNITID \cup USERPOOL \cup {BUILTIN, NONE}
      BY <2>1
    <3>. QED  BY <1>1, <3>1 DEF Take, UnitTypeInv
  <2>6. UNCHANGED <<list, unit, pool, units>>
    BY <1>1 DEF Take, tableVars, threadVars
  <2>. QED  BY <1>1, <2>2, <2>3, <2>4, <2>5, <2>6 DEF UnitTypeInv, Point
<1>2. CASE MoveThread(w)
  <2>1. PICK t \in TASK, p \in USERPOOL \cup {BUILTIN, NONE} :
             /\ Take(w, t, p) /\ Step(w, "idle", Begin(t, p))
             /\ p_thread' = [p_thread EXCEPT ![w] = t] /\ UNCHANGED p_cur
    BY <1>2 DEF MoveThread
  <2>2. worker_at' \in [WORKER -> Point]
    BY <2>1, BeginCases DEF Step, UnitTypeInv, Point
  <2>. QED  BY <1>1, <2>1, <2>2 DEF UnitTypeInv
<1>3. CASE MoveUnit(w)
  <2>1. PICK t \in TASK, p \in USERPOOL \cup {BUILTIN} :
             /\ unit[t] \in UNITID
             /\ Take(w, t, p) /\ Step(w, "idle", "get")
             /\ p_cur' = [p_cur EXCEPT ![w] = Len(list[Hash[unit[t]]])] /\ UNCHANGED p_thread
    BY <1>3 DEF MoveUnit
  <2>2. worker_at' \in [WORKER -> Point]
    BY <2>1 DEF Step, UnitTypeInv, Point
  <2>3. p_cur' \in [WORKER -> Nat]
    BY <2>1, HashIndex, ChainType DEF UnitTypeInv
  <2>. QED  BY <1>1, <2>1, <2>2, <2>3 DEF UnitTypeInv
<1>4. ASSUME NEW from, Return(w, from), UNCHANGED threadVars, units' \subseteq units
      PROVE  UnitTypeInv'
  BY <1>4 DEF Return, Step, UnitTypeInv, Point, tableVars, threadVars
<1>5. CASE CreateUnitFails(w) \/ FreeNewUnit(w)
  BY <1>4, <1>5 DEF CreateUnitFails, FreeNewUnit, threadVars
<1>6. CASE Assign(w)
  <2>1. new_unit[w] \in UNITID \cup {BUILTIN, NONE}
    BY <1>6, AssignedType DEF Assign, Return, Step
  <2>2. /\ unit' \in [TASK -> UNITID \cup {BUILTIN, NONE}]
        /\ pool' \in [TASK -> USERPOOL \cup {BUILTIN, NONE}]
    BY <1>6, <2>1 DEF Assign, UnitTypeInv
  <2>. QED  BY <1>6, <2>2 DEF Assign, Return, Step, UnitTypeInv, Point, tableVars
<1>7. CASE CreateUnit(w)
  <2>1. PICK u \in UNITID : /\ Step(w, "create", "map")
                            /\ units' = units \cup {<<target[w], u>>}
                            /\ new_unit' = [new_unit EXCEPT ![w] = u]
                            /\ UNCHANGED <<tableVars, threadVars, p_thread, p_cur, localVars>>
    BY <1>7 DEF CreateUnit
  <2>2. target[w] \in USERPOOL
    BY <2>1, WorkerFacts DEF Step, WorkerOK
  <2>. QED  BY <2>1, <2>2 DEF Step, UnitTypeInv, Point, tableVars, threadVars, localVars
<1>8. ASSUME UNCHANGED <<threadVars, new_unit, localVars>>, worker_at' \in [WORKER -> Point],
             units' \subseteq units, list' \in [Index -> Seq(Element)],
             p_thread' \in [WORKER -> TASK \cup {NONE}], p_cur' \in [WORKER -> Nat]
      PROVE  UnitTypeInv'
  BY <1>8 DEF UnitTypeInv, threadVars, localVars, Point
<1>9. CASE FreeUnit(w) \/ MapFails(w)
  BY <1>8, <1>9 DEF FreeUnit, MapFails, Step, UnitTypeInv, tableVars, threadVars, Point
<1>10. CASE GetThread(w)
  <2>. DEFINE elem == list[Hash[old_unit[w]]][p_cur[w]]
  <2>1. worker_at[w] = "get" /\ p_cur[w] > 0 /\ p_cur[w] \in Nat
    BY <1>10 DEF GetThread, UnitTypeInv
  <2>2. Hash[old_unit[w]] \in Index /\ p_cur[w] <= Len(list[Hash[old_unit[w]]])
    BY <2>1, WorkerFacts DEF FoundInv
  <2>3. elem \in Element
    BY <2>1, <2>2, ChainType
  <2>4. elem.p_thread \in TASK
    BY <2>3 DEF Element
  <2>5. CASE elem.unit = old_unit[w]
    <3>1. /\ Step(w, "get", Begin(elem.p_thread, target[w]))
          /\ p_thread' = [p_thread EXCEPT ![w] = elem.p_thread] /\ UNCHANGED p_cur
          /\ UNCHANGED <<tableVars, threadVars, units, new_unit, localVars>>
      BY <1>10, <2>5 DEF GetThread
    <3>2. worker_at' \in [WORKER -> Point]
      BY <3>1, BeginCases DEF Step, UnitTypeInv, Point
    <3>. QED  BY <1>8, <2>4, <3>1, <3>2 DEF UnitTypeInv, tableVars
  <2>6. CASE elem.unit # old_unit[w]
    <3>1. /\ p_cur' = [p_cur EXCEPT ![w] = @ - 1] /\ UNCHANGED <<worker_at, p_thread>>
          /\ UNCHANGED <<tableVars, threadVars, units, new_unit, localVars>>
      BY <1>10, <2>6 DEF GetThread
    <3>2. p_cur' \in [WORKER -> Nat]
      BY <2>1, <3>1 DEF UnitTypeInv
    <3>. QED  BY <1>8, <3>1, <3>2 DEF UnitTypeInv, Point, tableVars
  <2>. QED  BY <2>5, <2>6
<1>11. CASE MapReuse(w)
  <2>. DEFINE i == Hash[new_unit[w]]  n == Max(Holding(i, NONE))
  <2>1. i \in Index /\ new_unit[w] \in UNITID
    BY <1>11, WorkerFacts DEF MapReuse, Step
  <2>2. n \in DOMAIN list[i] /\ n \in Nat
    BY <1>11, <2>1, HoldingMax, ChainType DEF MapReuse
  <2>3. list' = [list EXCEPT ![i][n].unit = new_unit[w]] /\ p_cur' = [p_cur EXCEPT ![w] = n]
    BY <1>11 DEF MapReuse
  <2>. HIDE DEF n, i
  <2>4. list' \in [Index -> Seq(Element)] /\ p_cur' \in [WORKER -> Nat]
    BY <2>1, <2>2, <2>3, WriteUnit DEF UnitTypeInv
  <2>. QED  BY <1>8, <1>11, <2>4 DEF MapReuse, Step, UnitTypeInv, Point
<1>12. CASE MapThread(w)
  <2>. DEFINE i == Hash[new_unit[w]]
  <2>1. i \in Index /\ p_thread[w] \in TASK
    BY <1>12, WorkerFacts DEF MapThread, Step
  <2>2. p_cur[w] \in DOMAIN list[i]
    BY <1>12, <2>1 DEF FoundInv, MapThread, Step, Holding
  <2>3. list' = [list EXCEPT ![i][p_cur[w]].p_thread = p_thread[w]]
    BY <1>12 DEF MapThread
  <2>. HIDE DEF i
  <2>4. list' \in [Index -> Seq(Element)]
    BY <2>1, <2>2, <2>3, WriteThread
  <2>. QED  BY <1>8, <1>12, <2>4 DEF MapThread, Mapped, Step, UnitTypeInv, Point
<1>13. CASE MapNew(w)
  <2>. DEFINE i == Hash[new_unit[w]]  e == [unit |-> new_unit[w], p_thread |-> p_thread[w]]
  <2>1. i \in Index /\ e \in Element
    BY <1>13, WorkerFacts DEF MapNew, Step, Element
  <2>2. list' = [list EXCEPT ![i] = Append(@, e)]
    BY <1>13 DEF MapNew
  <2>. HIDE DEF i, e
  <2>3. list' \in [Index -> Seq(Element)]
    BY <2>1, <2>2, AddElement
  <2>. QED  BY <1>8, <1>13, <2>3 DEF MapNew, Mapped, Step, UnitTypeInv, Point
<1>14. CASE Unmap(w)
  <2>. DEFINE i == Hash[old_unit[w]]  n == Max(Holding(i, old_unit[w]))
  <2>1. i \in Index
    BY <1>14, WorkerFacts DEF Unmap, Step
  <2>2. n \in DOMAIN list[i]
    BY <1>14, <2>1, HoldingMax DEF Unmap
  <2>3. list' = [list EXCEPT ![i][n].unit = NONE]
    BY <1>14 DEF Unmap
  <2>. HIDE DEF n, i
  <2>4. list' \in [Index -> Seq(Element)]
    BY <2>1, <2>2, <2>3, WriteUnit
  <2>. QED  BY <1>8, <1>14, <2>4 DEF Unmap, Step, UnitTypeInv, Point
<1>. QED  BY <1>2, <1>3, <1>5, <1>6, <1>7, <1>9, <1>10, <1>11, <1>12, <1>13, <1>14
          DEF UnitMapStep

-----------------------------------------------------------------------------
(* A worker that looks up the unit of the thread it moves finds it.        *)
LEMMA GetFinds ==
    ASSUME UnitMapConstants, UnitTypeInv, TakenInv, WorkerInv, ThreadInv, LiveInv,
           ChainInv,
           FoundInv, NEW w \in WORKER, worker_at[w] = "get", p_cur[w] > 0,
           list[Hash[old_unit[w]]][p_cur[w]].unit = old_unit[w]
    PROVE  list[Hash[old_unit[w]]][p_cur[w]].p_thread = taken[w]
<1>. DEFINE i == Hash[old_unit[w]]  n == p_cur[w]  t == list[i][n].p_thread
<1>1. i \in Index /\ old_unit[w] \in UNITID /\ taken[w] \in TASK /\ WorkerOK(w)
  BY WorkerFacts
<1>2. n \in DOMAIN list[i]
  BY <1>1, ChainType DEF FoundInv, UnitTypeInv
<1>3. t \in TASK
  BY <1>1, <1>2, ChainType DEF Element
<1>4. Owns(taken[w], pool[taken[w]], old_unit[w]) /\ pool[taken[w]] \in USERPOOL
  <2>1. TakenOwns(w, pool[taken[w]], old_unit[w])
    BY <1>1 DEF TakenOwns, WorkerOK
  <2>2. unit[taken[w]] \in UNITID
    BY <1>1 DEF WorkerOK
  <2>3. pool[taken[w]] \in USERPOOL \cup {BUILTIN, NONE}
    BY <1>1 DEF UnitTypeInv
  <2>4. pool[taken[w]] \in USERPOOL
    BY <1>1, <2>2, <2>3 DEF ThreadInv, UnitMapConstants
  <2>. QED  BY <2>1, <2>4, OwnsTaken
<1>5. old_unit[w] # NONE
  BY <1>1 DEF UnitMapConstants
<1>6. Filling(i, n) \/ \E q \in USERPOOL : Maps(t, q, old_unit[w])
  BY <1>1, <1>2, <1>5 DEF ChainInv, ElementOK
<1>7. CASE \E q \in USERPOOL : Maps(t, q, old_unit[w])
  BY <1>1, <1>3, <1>4, <1>7, MapsOwns DEF LiveInv
<1>8. CASE Filling(i, n)
  <2>1. PICK v \in WORKER : worker_at[v] = "map_thread" /\ new_unit[v] = old_unit[w]
    BY <1>8 DEF Filling
  <2>2. taken[v] \in TASK /\ target[v] \in USERPOOL /\ target[v] # pool[taken[v]]
    BY <2>1, WorkerFacts
  <2>3. TakenOwns(v, target[v], old_unit[w])
    BY <2>1, <2>2 DEF TakenOwns, GivenPoint
  <2>4. Owns(taken[v], target[v], old_unit[w])
    BY <2>1, <2>3, OwnsTaken
  <2>5. taken[v] = taken[w]
    BY <1>1, <1>4, <2>2, <2>4 DEF LiveInv
  <2>6. v = w
    BY <1>1, <2>5 DEF TakenInv
  <2>. QED  BY <2>1, <2>6
<1>. QED  BY <1>6, <1>7, <1>8

LEMMA WorkerStep ==
    ASSUME UnitMapConstants, UnitTypeInv, TakenInv, WorkerInv, ThreadInv, LiveInv,
           ChainInv,
           FoundInv, NEW w \in WORKER, UnitMapStep(w)
    PROVE  WorkerInv'
<1>1. ASSUME NEW v \in WORKER, v # w, worker_at'[v] # "idle"
      PROVE  WorkerOK(v)'
  <2>1. /\ worker_at'[v] = worker_at[v] /\ taken'[v] = taken[v]
        /\ p_thread'[v] = p_thread[v] /\ old_unit'[v] = old_unit[v]
        /\ target'[v] = target[v] /\ new_unit'[v] = new_unit[v]
    BY <1>1, OtherWorkers
  <2>2. taken[v] \in TASK /\ WorkerOK(v) /\ taken[v] # taken[w]
    BY <1>1, <2>1, WorkerFacts DEF TakenInv
  <2>3. unit'[taken[v]] = unit[taken[v]] /\ pool'[taken[v]] = pool[taken[v]]
    BY <2>2, OtherThreads
  <2>. QED  BY <2>1, <2>2, <2>3 DEF WorkerOK
<1>2. SUFFICES ASSUME worker_at'[w] # "idle" PROVE WorkerOK(w)'
  BY <1>1 DEF WorkerInv
<1>3. ASSUME NEW t \in TASK, NEW p, Take(w, t, p)
      PROVE  /\ taken'[w] = t /\ old_unit'[w] = unit[t] /\ target'[w] = p
             /\ new_unit'[w] = IF p = pool[t] THEN unit[t] ELSE p
             /\ unit' = unit /\ pool' = pool
  BY <1>3 DEF Take, UnitTypeInv, threadVars
<1>4. CASE MoveThread(w)
  <2>1. PICK t \in TASK, p \in USERPOOL \cup {BUILTIN, NONE} :
             /\ Take(w, t, p) /\ Step(w, "idle", Begin(t, p))
             /\ p_thread' = [p_thread EXCEPT ![w] = t]
    BY <1>4 DEF MoveThread
  <2>2. worker_at'[w] = Begin(t, p) /\ p_thread'[w] = t
    BY <2>1 DEF Step, UnitTypeInv
  <2>. QED  BY <1>3, <2>1, <2>2, BeginCases DEF WorkerOK
<1>5. CASE MoveUnit(w)
  <2>1. PICK t \in TASK, p \in USERPOOL \cup {BUILTIN} :
             unit[t] \in UNITID /\ Take(w, t, p) /\ Step(w, "idle", "get")
    BY <1>5 DEF MoveUnit
  <2>2. worker_at'[w] = "get"
    BY <2>1 DEF Step, UnitTypeInv
  <2>. QED  BY <1>3, <2>1, <2>2 DEF WorkerOK
<1>6. CASE CreateUnitFails(w) \/ FreeNewUnit(w) \/ Assign(w)
  BY <1>2, <1>6 DEF CreateUnitFails, FreeNewUnit, Assign, Return, Step, UnitTypeInv
<1>7. ASSUME worker_at[w] # "idle"
      PROVE  taken[w] \in TASK /\ WorkerOK(w)
  BY <1>7, WorkerFacts
<1>8. CASE CreateUnit(w)
  BY <1>7, <1>8 DEF CreateUnit, Step, UnitTypeInv, WorkerOK, threadVars, localVars
<1>9. CASE GetThread(w)
  <2>1. worker_at[w] = "get" /\ p_cur[w] > 0
        /\ UNCHANGED <<unit, pool, taken, old_unit, target, new_unit>>
    BY <1>9 DEF GetThread, threadVars, localVars
  <2>2. CASE list[Hash[old_unit[w]]][p_cur[w]].unit = old_unit[w]
    <3>1. list[Hash[old_unit[w]]][p_cur[w]].p_thread = taken[w]
      BY <2>1, <2>2, GetFinds
    <3>2. /\ worker_at'[w] = Begin(taken[w], target[w])
          /\ p_thread'[w] = taken[w]
      BY <1>9, <2>2, <3>1 DEF GetThread, Step, UnitTypeInv
    <3>3. WorkerOK(w) /\ worker_at[w] = "get"
      BY <1>7, <2>1
    <3>. QED  BY <2>1, <3>2, <3>3, BeginCases DEF WorkerOK
  <2>3. CASE list[Hash[old_unit[w]]][p_cur[w]].unit # old_unit[w]
    <3>1. UNCHANGED <<worker_at, p_thread>>
      BY <1>9, <2>3 DEF GetThread
    <3>. QED  BY <1>7, <2>1, <3>1 DEF WorkerOK
  <2>. QED  BY <2>2, <2>3
<1>10. ASSUME worker_at[w] # "idle", worker_at[w] # "get", worker_at[w] # "create",
              UNCHANGED <<unit, pool, taken, p_thread, old_unit, target, new_unit>>,
              \/ worker_at'[w] \in {"map_thread", "free_new"} /\ worker_at[w] = "map"
              \/ worker_at'[w] = "unmap" /\ old_unit[w] \in UNITID
                 /\ worker_at[w] \in {"map", "map_thread"}
              \/ worker_at'[w] = "free_unit" /\ worker_at[w] = "unmap"
              \/ worker_at'[w] = "assign"
       PROVE  WorkerOK(w)'
  BY <1>7, <1>10 DEF WorkerOK
<1>11. CASE FreeUnit(w) \/ MapReuse(w) \/ MapFails(w) \/ Unmap(w)
  BY <1>10, <1>11
     DEF FreeUnit, MapReuse, MapFails, Unmap, Step, UnitTypeInv, threadVars, localVars
<1>12. CASE MapThread(w) \/ MapNew(w)
  BY <1>10, <1>12 DEF MapThread, MapNew, Mapped, Step, UnitTypeInv, threadVars, localVars
<1>. QED  BY <1>4, <1>5, <1>6, <1>8, <1>9, <1>11, <1>12 DEF UnitMapStep

LEMMA ThreadInvStep ==
    ASSUME UnitMapConstants, UnitTypeInv, TakenInv, WorkerInv, ThreadInv,
           NEW w \in WORKER, UnitMapStep(w)
    PROVE  ThreadInv'
<1>1. CASE Assign(w)
  <2>1. worker_at[w] = "assign"
    BY <1>1 DEF Assign, Return, Step
  <2>2. taken[w] \in TASK /\ WorkerOK(w) /\ p_thread[w] = taken[w]
    BY <2>1, WorkerFacts
  <2>3. /\ unit'[taken[w]] = new_unit[w] /\ pool'[taken[w]] = target[w]
        /\ \A t \in TASK : t # taken[w] => unit'[t] = unit[t] /\ pool'[t] = pool[t]
    BY <1>1, <2>2 DEF Assign, UnitTypeInv
  <2>4. IF target[w] \in USERPOOL THEN new_unit[w] \in UNITID ELSE new_unit[w] = target[w]
    BY <2>1, <2>2 DEF WorkerOK, ThreadInv
  <2>. QED  BY <2>3, <2>4 DEF ThreadInv
<1>2. CASE ~Assign(w)
  <2>1. UNCHANGED <<unit, pool>>
    BY <1>2 DEF UnitMapStep, MoveThread, MoveUnit, Take, CreateUnit, CreateUnitFails,
                FreeNewUnit, FreeUnit, GetThread, MapReuse, MapThread, MapNew, MapFails, Unmap,
                threadVars
  <2>. QED  BY <2>1 DEF ThreadInv
<1>. QED  BY <1>1, <1>2

-----------------------------------------------------------------------------
(* What the threads own after a step, and which of it is mapped.           *)

SameOwned ==
    \A t \in TASK, q \in USERPOOL, u \in UNITID : Owns(t, q, u)' <=> Owns(t, q, u)

SameMapped ==
    \A t \in TASK, q \in USERPOOL, u \in UNITID : Maps(t, q, u)' <=> Maps(t, q, u)

LEMMA OwnersInside ==
    ASSUME UnitTypeInv, TakenInv, WorkerInv, TakenInv', NEW w \in WORKER, UnitMapStep(w),
           worker_at[w] # "idle", worker_at'[w] # "idle", taken'[w] = taken[w],
           NEW t \in TASK, NEW q, NEW u
    PROVE  /\ t # taken[w] => /\ Owns(t, q, u)' <=> Owns(t, q, u)
                              /\ Maps(t, q, u)' <=> Maps(t, q, u)
           /\ t = taken[w] => /\ Owns(t, q, u) <=> TakenOwns(w, q, u)
                              /\ Owns(t, q, u)' <=> TakenOwns(w, q, u)'
                              /\ Maps(t, q, u) <=> TakenMaps(w, q, u)
                              /\ Maps(t, q, u)' <=> TakenMaps(w, q, u)'
<1>1. CASE t # taken[w]
  BY <1>1, OwnsFrame
<1>2. CASE t = taken[w]
  BY <1>2, OwnsTaken, OwnsTakenNext
<1>. QED  BY <1>1, <1>2

LEMMA OwnersTake ==
    ASSUME UnitMapConstants, UnitTypeInv, TakenInv, WorkerInv, TakenInv', WorkerInv',
           NEW w \in WORKER, MoveThread(w) \/ MoveUnit(w)
    PROVE  SameOwned /\ SameMapped
<1>1. UnitMapStep(w)
  BY DEF UnitMapStep
<1>20. PICK x \in TASK : \E p :
           /\ Take(w, x, p)
           /\ worker_at' = [worker_at EXCEPT ![w] = "get"]
              \/ worker_at' = [worker_at EXCEPT ![w] = Begin(x, p)]
  BY DEF MoveThread, MoveUnit, Step
<1>2. PICK p :
           /\ Take(w, x, p)
           /\ worker_at' = [worker_at EXCEPT ![w] = "get"]
              \/ worker_at' = [worker_at EXCEPT ![w] = Begin(x, p)]
  BY <1>20
<1>3. worker_at'[w] = "get" \/ worker_at'[w] = Begin(x, p)
  BY <1>2 DEF UnitTypeInv
<1>4. /\ taken'[w] = x /\ target'[w] = p
      /\ unit' = unit /\ pool' = pool /\ Resting(x) /\ taken[w] \notin TASK
  BY <1>2 DEF Take, UnitTypeInv, threadVars, Resting, TakenInv, UnitMapConstants
<1>5. worker_at'[w] # "idle" /\ worker_at'[w] \in {"get", "create", "unmap", "assign"}
  BY <1>3, BeginCases
<1>6. ASSUME NEW q \in USERPOOL, NEW u \in UNITID
      PROVE  /\ TakenOwns(w, q, u)' <=> u = unit[x] /\ q = pool[x]
             /\ TakenMaps(w, q, u)' <=> u = unit[x] /\ q = pool[x]
  BY <1>3, <1>4, <1>5, BeginCases DEF TakenOwns, TakenMaps, GivenPoint
<1>7. ASSUME NEW t \in TASK, NEW q \in USERPOOL, NEW u \in UNITID
      PROVE  (Owns(t, q, u)' <=> Owns(t, q, u)) /\ (Maps(t, q, u)' <=> Maps(t, q, u))
  <2>1. CASE t = x
    BY <2>1, <1>4, <1>5, <1>6, OwnsResting, OwnsTakenNext
  <2>2. CASE t # x
    BY <2>2, <1>1, <1>4, OwnsFrame
  <2>. QED  BY <2>1, <2>2
<1>. QED  BY <1>7 DEF SameOwned, SameMapped

LEMMA OwnersReturn ==
    ASSUME UnitMapConstants, UnitTypeInv, TakenInv, WorkerInv, ThreadInv, TakenInv',
           ThreadInv',
           NEW w \in WORKER, CreateUnitFails(w) \/ FreeNewUnit(w) \/ Assign(w)
    PROVE  /\ SameMapped
           /\ ~FreeNewUnit(w) => SameOwned
           /\ FreeNewUnit(w) =>
                 \A t \in TASK, q \in USERPOOL, u \in UNITID :
                    Owns(t, q, u)' <=> Owns(t, q, u)
                                       /\ <<t, q, u>> # <<taken[w], target[w], new_unit[w]>>
<1>1. UnitMapStep(w)
  BY DEF UnitMapStep
<1>2. worker_at[w] \in {"create", "free_new", "assign"} /\ taken' = [taken EXCEPT ![w] = NONE]
  BY DEF CreateUnitFails, FreeNewUnit, Assign, Return, Step
<1>3. PICK x \in TASK : x = taken[w]
  BY <1>2, WorkerFacts
<1>4. WorkerOK(w) /\ p_thread[w] = x
  BY <1>2, <1>3, WorkerFacts
<1>5. Resting(x)' /\ taken'[w] \notin TASK
  BY <1>2, <1>3 DEF Resting, TakenInv, UnitTypeInv, UnitMapConstants
<1>6. ASSUME NEW t \in TASK, t # x, NEW q \in USERPOOL, NEW u \in UNITID
      PROVE  (Owns(t, q, u)' <=> Owns(t, q, u)) /\ (Maps(t, q, u)' <=> Maps(t, q, u))
  BY <1>1, <1>3, <1>5, <1>6, OwnsFrame
<1>7. ASSUME NEW q \in USERPOOL, NEW u \in UNITID
      PROVE  /\ Owns(x, q, u) <=> TakenOwns(w, q, u)
             /\ Maps(x, q, u) <=> TakenMaps(w, q, u)
             /\ Owns(x, q, u)' <=> u = unit'[x] /\ q = pool'[x]
             /\ Maps(x, q, u)' <=> u = unit'[x] /\ q = pool'[x]
  BY <1>2, <1>3, <1>5, OwnsTaken, OwnsRestingNext
<1>8. CASE CreateUnitFails(w)
  <2>1. worker_at[w] = "create" /\ unit' = unit /\ pool' = pool
    BY <1>8 DEF CreateUnitFails, Return, Step, threadVars
  <2>2. \A q \in USERPOOL, u \in UNITID :
           (Owns(x, q, u)' <=> Owns(x, q, u)) /\ (Maps(x, q, u)' <=> Maps(x, q, u))
    BY <1>3, <1>7, <2>1 DEF TakenOwns, TakenMaps, GivenPoint
  <2>3. ~FreeNewUnit(w)
    BY <2>1 DEF FreeNewUnit, Return, Step
  <2>. QED  BY <1>6, <2>2, <2>3 DEF SameOwned, SameMapped
<1>9. CASE Assign(w)
  <2>1. worker_at[w] = "assign" /\ unit'[x] = new_unit[w] /\ pool'[x] = target[w]
    BY <1>9, <1>4 DEF Assign, Return, Step, UnitTypeInv
  <2>2. \A q \in USERPOOL, u \in UNITID :
           (Owns(x, q, u)' <=> Owns(x, q, u)) /\ (Maps(x, q, u)' <=> Maps(x, q, u))
    BY <1>3, <1>7, <1>4, <2>1 DEF TakenOwns, TakenMaps, GivenPoint, WorkerOK
  <2>3. ~FreeNewUnit(w)
    BY <2>1 DEF FreeNewUnit, Return, Step
  <2>. QED  BY <1>6, <2>2, <2>3 DEF SameOwned, SameMapped
<1>10. CASE FreeNewUnit(w)
  <2>1. worker_at[w] = "free_new" /\ unit' = unit /\ pool' = pool
    BY <1>10 DEF FreeNewUnit, Return, Step, threadVars
  <2>2. target[w] \in USERPOOL /\ target[w] # pool[x]
    BY <2>1, <1>3, WorkerFacts
  <2>3. \A q \in USERPOOL, u \in UNITID : Maps(x, q, u)' <=> Maps(x, q, u)
    BY <1>3, <1>7, <2>1 DEF TakenMaps
  <2>4. \A q \in USERPOOL, u \in UNITID :
           Owns(x, q, u)' <=> Owns(x, q, u) /\ <<q, u>> # <<target[w], new_unit[w]>>
    BY <1>3, <1>7, <2>1, <2>2 DEF TakenOwns, GivenPoint
  <2>. QED  BY <1>3, <1>6, <1>10, <2>3, <2>4 DEF SameMapped
<1>. QED  BY <1>8, <1>9, <1>10

LEMMA OwnersCreate ==
    ASSUME UnitMapConstants, UnitTypeInv, TakenInv, WorkerInv, TakenInv',
           NEW w \in WORKER,
           CreateUnit(w)
    PROVE  /\ SameMapped
           /\ \A t \in TASK, q \in USERPOOL, u \in UNITID :
                 Owns(t, q, u)' <=> \/ Owns(t, q, u)
                                    \/ <<t, q, u>> = <<taken[w], target[w], new_unit'[w]>>
<1>1. /\ UnitMapStep(w) /\ worker_at[w] = "create" /\ worker_at'[w] = "map"
      /\ UNCHANGED <<taken, target, unit, pool>>
  BY DEF UnitMapStep, CreateUnit, Step, UnitTypeInv, threadVars, localVars
<1>2. target[w] \in USERPOOL /\ target[w] # pool[taken[w]]
  BY <1>1, WorkerFacts DEF WorkerOK
<1>3. ASSUME NEW q \in USERPOOL, NEW u \in UNITID
      PROVE  /\ TakenOwns(w, q, u)' <=> \/ TakenOwns(w, q, u)
                                        \/ <<q, u>> = <<target[w], new_unit'[w]>>
             /\ TakenMaps(w, q, u)' <=> TakenMaps(w, q, u)
  BY <1>1, <1>2 DEF TakenOwns, TakenMaps, GivenPoint
<1>4. ASSUME NEW t \in TASK, NEW q \in USERPOOL, NEW u \in UNITID
      PROVE  /\ Owns(t, q, u)' <=> \/ Owns(t, q, u)
                                   \/ <<t, q, u>> = <<taken[w], target[w], new_unit'[w]>>
             /\ Maps(t, q, u)' <=> Maps(t, q, u)
  BY <1>1, <1>3, OwnersInside
<1>. QED  BY <1>4 DEF SameMapped

LEMMA OwnersFree ==
    ASSUME UnitMapConstants, UnitTypeInv, TakenInv, WorkerInv, TakenInv',
           NEW w \in WORKER,
           FreeUnit(w)
    PROVE  /\ SameMapped
           /\ \A t \in TASK, q \in USERPOOL, u \in UNITID :
                 Owns(t, q, u)' <=> /\ Owns(t, q, u)
                                    /\ <<t, q, u>> # <<taken[w], pool[taken[w]], old_unit[w]>>
<1>1. /\ UnitMapStep(w) /\ worker_at[w] = "free_unit" /\ worker_at'[w] = "assign"
      /\ UNCHANGED <<taken, target, unit, pool, new_unit>>
  BY DEF UnitMapStep, FreeUnit, Step, UnitTypeInv, threadVars, localVars
<1>2. target[w] # pool[taken[w]] /\ old_unit[w] = unit[taken[w]]
  BY <1>1, WorkerFacts DEF WorkerOK
<1>3. ASSUME NEW q \in USERPOOL, NEW u \in UNITID
      PROVE  /\ TakenOwns(w, q, u)' <=> /\ TakenOwns(w, q, u)
                                        /\ <<q, u>> # <<pool[taken[w]], old_unit[w]>>
             /\ TakenMaps(w, q, u)' <=> TakenMaps(w, q, u)
  BY <1>1, <1>2 DEF TakenOwns, TakenMaps, GivenPoint
<1>4. ASSUME NEW t \in TASK, NEW q \in USERPOOL, NEW u \in UNITID
      PROVE  /\ Owns(t, q, u)' <=> /\ Owns(t, q, u)
                                   /\ <<t, q, u>> # <<taken[w], pool[taken[w]], old_unit[w]>>
             /\ Maps(t, q, u)' <=> Maps(t, q, u)
  BY <1>1, <1>3, OwnersInside
<1>. QED  BY <1>4 DEF SameMapped

LEMMA OwnersLook ==
    ASSUME UnitMapConstants, UnitTypeInv, TakenInv, WorkerInv, ThreadInv, LiveInv,
           ChainInv, FoundInv,
           TakenInv', NEW w \in WORKER, GetThread(w) \/ MapReuse(w) \/ MapFails(w)
    PROVE  SameOwned /\ SameMapped
<1>1. UnitMapStep(w)
  BY DEF UnitMapStep
<1>2. /\ worker_at[w] # "idle" /\ UNCHANGED <<taken, target, old_unit, unit, pool, new_unit>>
      /\ \/ worker_at[w] = "map" /\ worker_at'[w] \in {"map_thread", "free_new"}
         \/ worker_at[w] = "get" /\ worker_at'[w] = "get"
         \/ worker_at[w] = "get" /\ worker_at'[w] = Begin(taken[w], target[w])
  <2>1. CASE MapReuse(w) \/ MapFails(w)
    BY <2>1 DEF MapReuse, MapFails, Step, UnitTypeInv, threadVars, localVars
  <2>2. CASE GetThread(w)
    <3>1. /\ worker_at[w] = "get" /\ p_cur[w] > 0
          /\ UNCHANGED <<taken, target, old_unit, unit, pool, new_unit>>
      BY <2>2 DEF GetThread, threadVars, localVars
    <3>2. worker_at'[w] = "get" \/ worker_at'[w] = Begin(taken[w], target[w])
      BY <2>2, <3>1, GetFinds DEF GetThread, Step, UnitTypeInv
    <3>. QED  BY <3>1, <3>2
  <2>. QED  BY <2>1, <2>2
<1>3. worker_at[w] = "get" => worker_at'[w] \in {"get", "create", "unmap", "assign"}
  BY <1>2, BeginCases
<1>4. worker_at'[w] # "idle"
  BY <1>2, <1>3
<1>5. ASSUME NEW q \in USERPOOL, NEW u \in UNITID
      PROVE  /\ TakenOwns(w, q, u)' <=> TakenOwns(w, q, u)
             /\ TakenMaps(w, q, u)' <=> TakenMaps(w, q, u)
  <2>1. CASE worker_at[w] = "map"
    BY <1>2, <2>1 DEF TakenOwns, TakenMaps, GivenPoint
  <2>2. CASE worker_at[w] = "get"
    <3>1. \/ worker_at'[w] \in {"create", "get"}
          \/ target[w] \notin USERPOOL /\ worker_at'[w] = "unmap"
          \/ target[w] = pool[taken[w]]
          \/ target[w] \notin USERPOOL /\ unit[taken[w]] \notin UNITID
      BY <1>2, <2>2, BeginCases
    <3>. QED  BY <1>2, <2>2, <3>1 DEF TakenOwns, TakenMaps, GivenPoint
  <2>. QED  BY <1>2, <2>1, <2>2
<1>6. ASSUME NEW t \in TASK, NEW q \in USERPOOL, NEW u \in UNITID
      PROVE  (Owns(t, q, u)' <=> Owns(t, q, u)) /\ (Maps(t, q, u)' <=> Maps(t, q, u))
  BY <1>1, <1>2, <1>4, <1>5, OwnersInside
<1>. QED  BY <1>6 DEF SameOwned, SameMapped

LEMMA OwnersMap ==
    ASSUME UnitMapConstants, UnitTypeInv, TakenInv, WorkerInv, TakenInv',
           NEW w \in WORKER,
           MapThread(w) \/ MapNew(w)
    PROVE  /\ SameOwned
           /\ \A t \in TASK, q \in USERPOOL, u \in UNITID :
                 Maps(t, q, u)' <=> \/ Maps(t, q, u)
                                    \/ <<t, q, u>> = <<taken[w], target[w], new_unit[w]>>
<1>1. /\ UnitMapStep(w) /\ worker_at[w] \in {"map", "map_thread"} /\ worker_at'[w] = Mapped(w)
      /\ UNCHANGED <<taken, target, unit, pool, new_unit>>
  BY DEF UnitMapStep, MapThread, MapNew, Step, UnitTypeInv, threadVars, localVars
<1>2. target[w] # pool[taken[w]] /\ target[w] \in USERPOOL /\ old_unit[w] = unit[taken[w]]
  BY <1>1, WorkerFacts DEF WorkerOK
<1>3. ASSUME NEW q \in USERPOOL, NEW u \in UNITID
      PROVE  /\ TakenOwns(w, q, u)' <=> TakenOwns(w, q, u)
             /\ TakenMaps(w, q, u)' <=> TakenMaps(w, q, u) \/ <<q, u>> = <<target[w], new_unit[w]>>
  BY <1>1, <1>2 DEF TakenOwns, TakenMaps, GivenPoint, Mapped
<1>4. ASSUME NEW t \in TASK, NEW q \in USERPOOL, NEW u \in UNITID
      PROVE  /\ Owns(t, q, u)' <=> Owns(t, q, u)
             /\ Maps(t, q, u)' <=> \/ Maps(t, q, u)
                                   \/ <<t, q, u>> = <<taken[w], target[w], new_unit[w]>>
  <2>1. worker_at[w] # "idle" /\ worker_at'[w] # "idle" /\ taken'[w] = taken[w]
    BY <1>1 DEF Mapped
  <2>. QED  BY <1>1, <1>3, <2>1, OwnersInside
<1>. QED  BY <1>4 DEF SameOwned

LEMMA OwnersUnmap ==
    ASSUME UnitMapConstants, UnitTypeInv, TakenInv, WorkerInv, TakenInv',
           NEW w \in WORKER,
           Unmap(w)
    PROVE  /\ SameOwned
           /\ \A t \in TASK, q \in USERPOOL, u \in UNITID :
                 Maps(t, q, u)' <=> /\ Maps(t, q, u)
                                    /\ <<t, q, u>> # <<taken[w], pool[taken[w]], old_unit[w]>>
<1>1. /\ UnitMapStep(w) /\ worker_at[w] = "unmap" /\ worker_at'[w] = "free_unit"
      /\ UNCHANGED <<taken, target, unit, pool, new_unit>>
  BY DEF UnitMapStep, Unmap, Step, UnitTypeInv, threadVars, localVars
<1>2. target[w] # pool[taken[w]] /\ old_unit[w] = unit[taken[w]]
  BY <1>1, WorkerFacts DEF WorkerOK
<1>3. ASSUME NEW q \in USERPOOL, NEW u \in UNITID
      PROVE  /\ TakenOwns(w, q, u)' <=> TakenOwns(w, q, u)
             /\ TakenMaps(w, q, u)' <=> /\ TakenMaps(w, q, u)
                                        /\ <<q, u>> # <<pool[taken[w]], old_unit[w]>>
  BY <1>1, <1>2 DEF TakenOwns, TakenMaps, GivenPoint
<1>4. ASSUME NEW t \in TASK, NEW q \in USERPOOL, NEW u \in UNITID
      PROVE  /\ Owns(t, q, u)' <=> Owns(t, q, u)
             /\ Maps(t, q, u)' <=> /\ Maps(t, q, u)
                                   /\ <<t, q, u>> # <<taken[w], pool[taken[w]], old_unit[w]>>
  BY <1>1, <1>3, OwnersInside
<1>. QED  BY <1>4 DEF SameOwned

(* The pools have created what is owned.                                   *)
LEMMA LiveStep ==
    ASSUME UnitMapConstants, UnitTypeInv, TakenInv, WorkerInv, ThreadInv, LiveInv,
           ChainInv,
           FoundInv, TakenInv', WorkerInv', ThreadInv', NEW w \in WORKER, UnitMapStep(w)
    PROVE  LiveInv'
<1>1. ASSUME SameOwned, units' = units
      PROVE  LiveInv'
  BY <1>1 DEF LiveInv, SameOwned
<1>2. CASE MoveThread(w) \/ MoveUnit(w)
  BY <1>1, <1>2, OwnersTake DEF MoveThread, MoveUnit, Take
<1>3. CASE CreateUnitFails(w) \/ Assign(w)
  <2>1. ~FreeNewUnit(w)
    BY <1>3 DEF CreateUnitFails, Assign, FreeNewUnit, Return, Step
  <2>. QED  BY <1>1, <1>3, <2>1, OwnersReturn DEF CreateUnitFails, Assign
<1>4. CASE GetThread(w) \/ MapReuse(w) \/ MapFails(w)
  BY <1>1, <1>4, OwnersLook DEF GetThread, MapReuse, MapFails
<1>5. CASE MapThread(w) \/ MapNew(w)
  BY <1>1, <1>5, OwnersMap DEF MapThread, MapNew
<1>6. CASE Unmap(w)
  BY <1>1, <1>6, OwnersUnmap DEF Unmap
<1>7. ASSUME NEW x \in TASK, NEW p \in USERPOOL, NEW v \in UNITID, Owns(x, p, v),
             units' = units \ {<<p, v>>},
             \A t \in TASK, q \in USERPOOL, u \in UNITID :
                Owns(t, q, u)' <=> Owns(t, q, u) /\ <<t, q, u>> # <<x, p, v>>
      PROVE  LiveInv'
  <2>1. \A q \in USERPOOL, u \in UNITID :
           <<q, u>> \in units' <=> \E t \in TASK : Owns(t, q, u)'
    <3>. SUFFICES ASSUME NEW q \in USERPOOL, NEW u \in UNITID
                  PROVE  <<q, u>> \in units' <=> \E t \in TASK : Owns(t, q, u)'
      OBVIOUS
    <3>1. CASE q = p /\ u = v
      BY <1>7, <3>1 DEF LiveInv
    <3>2. CASE ~(q = p /\ u = v)
      <4>1. <<q, u>> \in units' <=> <<q, u>> \in units
        BY <1>7, <3>2
      <4>2. \A t \in TASK : Owns(t, q, u)' <=> Owns(t, q, u)
        BY <1>7, <3>2
      <4>. QED  BY <4>1, <4>2 DEF LiveInv
    <3>. QED  BY <3>1, <3>2
  <2>2. \A s, t \in TASK, q, r \in USERPOOL, u \in UNITID :
           Owns(s, q, u)' /\ Owns(t, r, u)' => s = t /\ q = r
    BY <1>7 DEF LiveInv
  <2>. QED  BY <2>1, <2>2 DEF LiveInv
<1>8. CASE FreeNewUnit(w)
  <2>1. worker_at[w] = "free_new" /\ units' = units \ {<<target[w], new_unit[w]>>}
    BY <1>8 DEF FreeNewUnit, Return, Step
  <2>2. taken[w] \in TASK /\ target[w] \in USERPOOL /\ new_unit[w] \in UNITID
    BY <2>1, WorkerFacts
  <2>3. Owns(taken[w], target[w], new_unit[w])
    BY <2>1, <2>2, WorkerFacts, OwnsTaken DEF TakenOwns, GivenPoint
  <2>. QED  BY <1>7, <1>8, <2>1, <2>2, <2>3, OwnersReturn
<1>9. CASE FreeUnit(w)
  <2>1. worker_at[w] = "free_unit" /\ units' = units \ {<<pool[p_thread[w]], old_unit[w]>>}
    BY <1>9 DEF FreeUnit, Step
  <2>2. /\ taken[w] \in TASK /\ p_thread[w] = taken[w]
        /\ old_unit[w] \in UNITID /\ old_unit[w] = unit[taken[w]]
    BY <2>1, WorkerFacts DEF WorkerOK
  <2>3. pool[taken[w]] \in USERPOOL
    <3>1. pool[taken[w]] \in USERPOOL \cup {BUILTIN, NONE}
      BY <2>2 DEF UnitTypeInv
    <3>. QED  BY <2>2, <3>1 DEF ThreadInv, UnitMapConstants
  <2>4. Owns(taken[w], pool[taken[w]], old_unit[w])
    BY <2>1, <2>2, OwnsTaken DEF TakenOwns
  <2>. QED  BY <1>7, <1>9, <2>1, <2>2, <2>3, <2>4, OwnersFree
<1>10. CASE CreateUnit(w)
  <2>1. PICK v \in UNITID : /\ \A q \in USERPOOL : <<q, v>> \notin units
                            /\ worker_at[w] = "create" /\ new_unit'[w] = v
                            /\ units' = units \cup {<<target[w], v>>}
    BY <1>10 DEF CreateUnit, Step, UnitTypeInv
  <2>2. taken[w] \in TASK /\ target[w] \in USERPOOL
    BY <2>1, WorkerFacts DEF WorkerOK
  <2>3. \A t \in TASK, q \in USERPOOL, u \in UNITID :
           Owns(t, q, u)' <=> Owns(t, q, u) \/ <<t, q, u>> = <<taken[w], target[w], v>>
    BY <1>10, <2>1, OwnersCreate
  <2>4. \A q \in USERPOOL, u \in UNITID :
           <<q, u>> \in units' <=> \E t \in TASK : Owns(t, q, u)'
    BY <2>1, <2>2, <2>3 DEF LiveInv
  <2>5. \A t \in TASK, q \in USERPOOL : ~Owns(t, q, v)
    BY <2>1 DEF LiveInv
  <2>6. \A s, t \in TASK, q, r \in USERPOOL, u \in UNITID :
           Owns(s, q, u)' /\ Owns(t, r, u)' => s = t /\ q = r
    BY <2>3, <2>5 DEF LiveInv
  <2>. QED  BY <2>4, <2>6 DEF LiveInv
<1>. QED  BY <1>2, <1>3, <1>4, <1>5, <1>6, <1>8, <1>9, <1>10 DEF UnitMapStep

-----------------------------------------------------------------------------
(* The chains after a step that does not write them.                       *)

LEMMA ElementNext ==
    ASSUME NEW i, NEW n, NEW x, NEW v, list'[i][n].p_thread = x, list'[i][n].unit = v,
           v # NONE => Hash[v] = i /\ (Filling(i, n)' \/ \E q \in USERPOOL : Maps(x, q, v)')
    PROVE  ElementOK(i, n)'
BY DEF ElementOK, Maps

LEMMA FillingFrame ==
    ASSUME UnitTypeInv, NEW w \in WORKER, UnitMapStep(w), NEW i \in Index, NEW n,
           list'[i][n].unit = list[i][n].unit, Filling(i, n),
           worker_at[w] = "map_thread" => list[i][n].unit # new_unit[w]
    PROVE  Filling(i, n)'
<1>1. PICK v \in WORKER : /\ worker_at[v] = "map_thread"
                          /\ new_unit[v] = list[i][n].unit /\ p_cur[v] = n
  BY DEF Filling
<1>2. /\ worker_at'[v] = worker_at[v] /\ new_unit'[v] = new_unit[v] /\ p_cur'[v] = p_cur[v]
  BY <1>1, OtherWorkers
<1>. QED  BY <1>1, <1>2 DEF Filling

LEMMA ChainSame ==
    ASSUME UnitTypeInv, ChainInv, UnitTypeInv', NEW w \in WORKER, UnitMapStep(w),
           list' = list, SameMapped, worker_at[w] # "map_thread"
    PROVE  ChainInv'
<1>1. ASSUME NEW i \in Index, NEW n \in DOMAIN list[i]
      PROVE  ElementOK(i, n)'
  <2>1. list[i][n] \in Element
    BY ChainType
  <2>2. PICK x \in TASK, v \in UNITID \cup {NONE} : x = list[i][n].p_thread /\ v = list[i][n].unit
    BY <2>1 DEF Element
  <2>3. v # NONE => Hash[v] = i /\ (Filling(i, n) \/ \E q \in USERPOOL : Maps(x, q, v))
    BY <1>1, <2>2 DEF ChainInv, ElementOK
  <2>4. v # NONE => Hash[v] = i /\ (Filling(i, n)' \/ \E q \in USERPOOL : Maps(x, q, v)')
    BY <2>2, <2>3, FillingFrame DEF SameMapped
  <2>. QED  BY <2>2, <2>4, ElementNext
<1>. QED  BY <1>1 DEF ChainInv

LEMMA FoundSame ==
    ASSUME UnitTypeInv, FoundInv, NEW w \in WORKER, UnitMapStep(w),
           list' = list, SameMapped,
           worker_at'[w] # "map_thread",
           worker_at'[w] = "get" =>
              /\ p_cur'[w] <= Len(list[Hash[old_unit'[w]]])
              /\ \E n \in Holding(Hash[old_unit'[w]], old_unit'[w]) : n <= p_cur'[w]
    PROVE  FoundInv'
<1>1. \A i, u : Holding(i, u)' = Holding(i, u)
  BY DEF Holding
<1>2. \A t \in TASK, q \in USERPOOL, u \in UNITID : Maps(t, q, u)' => Holding(Hash[u], u)' # {}
  BY <1>1 DEF FoundInv, SameMapped
<1>3. \A v \in WORKER : v # w =>
         /\ worker_at'[v] = worker_at[v] /\ new_unit'[v] = new_unit[v]
         /\ p_cur'[v] = p_cur[v] /\ old_unit'[v] = old_unit[v]
  BY OtherWorkers
<1>4. ASSUME NEW v \in WORKER, worker_at'[v] = "map_thread"
      PROVE  p_cur'[v] \in Holding(Hash[new_unit[v]], new_unit[v])'
  BY <1>3, <1>4 DEF FoundInv, Holding
<1>5. ASSUME NEW v \in WORKER, worker_at'[v] = "get"
      PROVE  /\ p_cur'[v] <= Len(list'[Hash[old_unit'[v]]])
             /\ \E n \in Holding(Hash[old_unit[v]], old_unit[v])' : n <= p_cur'[v]
  BY <1>3, <1>5 DEF FoundInv, Holding
<1>. QED  BY <1>2, <1>4, <1>5 DEF FoundInv

LEMMA UserUnit ==
    ASSUME UnitMapConstants, UnitTypeInv, ThreadInv, NEW t \in TASK, unit[t] \in UNITID
    PROVE  pool[t] \in USERPOOL
<1>1. pool[t] \in USERPOOL \cup {BUILTIN, NONE}
  BY DEF UnitTypeInv
<1>. QED  BY <1>1 DEF ThreadInv, UnitMapConstants

LEMMA QuietStep ==
    ASSUME UnitMapConstants, UnitInv, UnitTypeInv', TakenInv', WorkerInv', ThreadInv',
           NEW w \in WORKER,
           \/ MoveThread(w) \/ MoveUnit(w) \/ CreateUnitFails(w) \/ FreeNewUnit(w) \/ Assign(w)
           \/ CreateUnit(w) \/ FreeUnit(w) \/ GetThread(w) \/ MapFails(w)
    PROVE  ChainInv' /\ FoundInv'
<1>1. /\ UnitTypeInv /\ ThreadInv /\ TakenInv /\ WorkerInv /\ LiveInv /\ ChainInv /\ FoundInv
      /\ UnitMapStep(w)
  BY DEF UnitInv, UnitMapStep
<1>2. ASSUME SameMapped, list' = list, worker_at[w] # "map_thread", worker_at'[w] # "map_thread",
             worker_at'[w] # "get"
      PROVE  ChainInv' /\ FoundInv'
  BY <1>1, <1>2, ChainSame, FoundSame
<1>3. CASE MoveThread(w)
  <2>1. PICK t, p : Step(w, "idle", Begin(t, p)) /\ list' = list
    BY <1>3 DEF MoveThread, Take, tableVars
  <2>2. /\ worker_at[w] # "map_thread" /\ worker_at'[w] # "map_thread"
        /\ worker_at'[w] # "get"
    BY <1>1, <2>1, BeginCases DEF Step, UnitTypeInv
  <2>. QED  BY <1>1, <1>2, <1>3, <2>1, <2>2, OwnersTake
<1>4. CASE MoveUnit(w)
  <2>1. PICK t \in TASK, p \in USERPOOL \cup {BUILTIN} :
             /\ unit[t] \in UNITID
             /\ Take(w, t, p) /\ Step(w, "idle", "get")
             /\ p_cur' = [p_cur EXCEPT ![w] = Len(list[Hash[unit[t]]])]
    BY <1>4 DEF MoveUnit
  <2>2. /\ worker_at[w] = "idle" /\ worker_at'[w] = "get" /\ old_unit'[w] = unit[t]
        /\ p_cur'[w] = Len(list[Hash[unit[t]]]) /\ list' = list /\ Resting(t)
    BY <1>1, <2>1 DEF Take, Step, UnitTypeInv, tableVars, Resting
  <2>3. Maps(t, pool[t], unit[t]) /\ pool[t] \in USERPOOL
    BY <1>1, <2>1, <2>2, OwnsResting, UserUnit
  <2>4. Holding(Hash[unit[t]], unit[t]) # {}
    BY <1>1, <2>1, <2>3 DEF FoundInv
  <2>5. Hash[unit[t]] \in Index
    BY <2>1, HashIndex
  <2>6. \A n \in Holding(Hash[unit[t]], unit[t]) : n <= Len(list[Hash[unit[t]]])
    BY <1>1, <2>5, ChainType DEF Holding
  <2>7. Len(list[Hash[unit[t]]]) <= Len(list[Hash[unit[t]]])
    BY <1>1, <2>5, ChainType
  <2>8. /\ p_cur'[w] <= Len(list[Hash[old_unit'[w]]])
        /\ \E n \in Holding(Hash[old_unit'[w]], old_unit'[w]) : n <= p_cur'[w]
    BY <2>2, <2>4, <2>6, <2>7
  <2>9. SameMapped
    BY <1>1, <1>4, OwnersTake
  <2>10. ChainInv'
    BY <1>1, <2>2, <2>9, ChainSame
  <2>11. FoundInv'
    BY <1>1, <2>2, <2>8, <2>9, FoundSame
  <2>. QED  BY <2>10, <2>11
<1>5. CASE CreateUnitFails(w) \/ FreeNewUnit(w) \/ Assign(w)
  <2>1. /\ worker_at[w] # "map_thread" /\ worker_at'[w] = "idle" /\ list' = list
    BY <1>1, <1>5 DEF CreateUnitFails, FreeNewUnit, Assign, Return, Step, UnitTypeInv,
                      tableVars
  <2>. QED  BY <1>1, <1>2, <1>5, <2>1, OwnersReturn
<1>6. CASE CreateUnit(w)
  BY <1>1, <1>2, <1>6, OwnersCreate DEF CreateUnit, Step, UnitTypeInv, tableVars
<1>7. CASE FreeUnit(w)
  BY <1>1, <1>2, <1>7, OwnersFree DEF FreeUnit, Step, UnitTypeInv, tableVars
<1>8. CASE MapFails(w)
  BY <1>1, <1>2, <1>8, OwnersLook DEF MapFails, Step, UnitTypeInv, tableVars
<1>9. CASE GetThread(w)
  <2>. DEFINE elem == list[Hash[old_unit[w]]][p_cur[w]]
  <2>1. /\ worker_at[w] = "get" /\ p_cur[w] > 0 /\ p_cur[w] \in Nat /\ list' = list
        /\ old_unit' = old_unit
    BY <1>1, <1>9 DEF GetThread, UnitTypeInv, tableVars, localVars
  <2>2. SameMapped
    BY <1>1, <1>9, OwnersLook
  <2>3. CASE elem.unit = old_unit[w]
    <3>1. Step(w, "get", Begin(elem.p_thread, target[w]))
      BY <1>9, <2>3 DEF GetThread
    <3>2. worker_at'[w] # "map_thread" /\ worker_at'[w] # "get"
      BY <1>1, <3>1, BeginCases DEF Step, UnitTypeInv
    <3>. QED  BY <1>2, <2>1, <2>2, <3>2
  <2>4. CASE elem.unit # old_unit[w]
    <3>1. p_cur'[w] = p_cur[w] - 1 /\ worker_at' = worker_at
      BY <1>1, <1>9, <2>4 DEF GetThread, UnitTypeInv
    <3>2. Hash[old_unit[w]] \in Index
      BY <1>1, <2>1, WorkerFacts
    <3>3. /\ p_cur[w] <= Len(list[Hash[old_unit[w]]])
          /\ Len(list[Hash[old_unit[w]]]) \in Nat
      BY <1>1, <2>1, <3>2, ChainType DEF FoundInv
    <3>4. PICK n \in Holding(Hash[old_unit[w]], old_unit[w]) : n <= p_cur[w]
      BY <1>1, <2>1 DEF FoundInv
    <3>5. n # p_cur[w] /\ n \in Nat
      BY <1>1, <2>4, <3>2, <3>4, ChainType DEF Holding
    <3>6. n <= p_cur'[w] /\ p_cur'[w] <= Len(list[Hash[old_unit[w]]])
      BY <2>1, <3>1, <3>3, <3>4, <3>5
    <3>7. ChainInv'
      BY <1>1, <2>1, <2>2, ChainSame
    <3>8. FoundInv'
      BY <1>1, <2>1, <2>2, <3>1, <3>4, <3>6, FoundSame
    <3>. QED  BY <3>7, <3>8
  <2>. QED  BY <2>3, <2>4
<1>. QED  BY <1>3, <1>4, <1>5, <1>6, <1>7, <1>8, <1>9

(* A unit has one owner.  The new unit of a worker is not in the chain     *)
(* when the worker looks for an element for it.                            *)
LEMMA OldOwned ==
    ASSUME UnitMapConstants, UnitTypeInv, ThreadInv, TakenInv, WorkerInv,
           NEW w \in WORKER,
           worker_at[w] \notin {"idle", "assign"}, old_unit[w] \in UNITID
    PROVE  Owns(taken[w], pool[taken[w]], old_unit[w]) /\ pool[taken[w]] \in USERPOOL
<1>1. taken[w] \in TASK /\ old_unit[w] = unit[taken[w]]
  BY WorkerFacts DEF WorkerOK
<1>2. TakenOwns(w, pool[taken[w]], old_unit[w])
  BY <1>1 DEF TakenOwns
<1>. QED  BY <1>1, <1>2, UserUnit, OwnsTaken

LEMMA NewOwned ==
    ASSUME UnitMapConstants, UnitTypeInv, TakenInv, WorkerInv, NEW w \in WORKER,
           worker_at[w] \in {"map", "map_thread", "free_new"}
    PROVE  Owns(taken[w], target[w], new_unit[w])
<1>1. TakenOwns(w, target[w], new_unit[w])
  BY WorkerFacts DEF TakenOwns, GivenPoint
<1>. QED  BY <1>1, OwnsTaken

LEMMA Unmapped ==
    ASSUME UnitMapConstants, UnitTypeInv, TakenInv, WorkerInv, ThreadInv, LiveInv,
           ChainInv,
           NEW w \in WORKER, worker_at[w] = "map", NEW n \in DOMAIN list[Hash[new_unit[w]]]
    PROVE  list[Hash[new_unit[w]]][n].unit # new_unit[w]
<1>. DEFINE i == Hash[new_unit[w]]
<1>. SUFFICES ASSUME list[i][n].unit = new_unit[w] PROVE FALSE
  OBVIOUS
<1>1. /\ i \in Index /\ new_unit[w] \in UNITID /\ taken[w] \in TASK
      /\ target[w] \in USERPOOL /\ target[w] # pool[taken[w]]
  BY WorkerFacts
<1>2. list[i][n] \in Element
  BY <1>1, ChainType
<1>3. PICK x \in TASK : x = list[i][n].p_thread
  BY <1>2 DEF Element
<1>4. new_unit[w] # NONE
  BY <1>1 DEF UnitMapConstants
<1>5. Filling(i, n) \/ \E q \in USERPOOL : Maps(x, q, new_unit[w])
  BY <1>1, <1>3, <1>4 DEF ChainInv, ElementOK
<1>6. Owns(taken[w], target[w], new_unit[w])
  BY NewOwned
<1>7. ASSUME Filling(i, n) PROVE FALSE
  <2>1. PICK v \in WORKER : worker_at[v] = "map_thread" /\ new_unit[v] = new_unit[w]
    BY <1>7 DEF Filling
  <2>2. taken[v] \in TASK /\ target[v] \in USERPOOL /\ Owns(taken[v], target[v], new_unit[w])
    BY <2>1, WorkerFacts, NewOwned
  <2>3. v = w
    BY <1>1, <1>6, <2>2 DEF LiveInv, TakenInv
  <2>. QED  BY <2>1, <2>3
<1>8. ASSUME NEW q \in USERPOOL, Maps(x, q, new_unit[w]) PROVE FALSE
  <2>1. x = taken[w] /\ q = target[w]
    BY <1>1, <1>3, <1>6, <1>8, MapsOwns DEF LiveInv
  <2>2. TakenMaps(w, target[w], new_unit[w])
    BY <1>8, <2>1, OwnsTaken
  <2>. QED  BY <1>1, <2>2 DEF TakenMaps
<1>. QED  BY <1>5, <1>7, <1>8

-----------------------------------------------------------------------------
(* The steps that write a chain.  Where a unit was found it is found again *)
(* unless its element is emptied.                                          *)

Keeps(u) ==
    /\ Len(list[Hash[u]]) <= Len(list'[Hash[u]])
    /\ \A n \in DOMAIN list[Hash[u]] :
          list[Hash[u]][n].unit = u => /\ n \in DOMAIN list'[Hash[u]]
                                       /\ list'[Hash[u]][n].unit = u

LEMMA FoundKept ==
    ASSUME UnitMapConstants, UnitTypeInv, UnitTypeInv', TakenInv, WorkerInv, FoundInv,
           NEW w \in WORKER, UnitMapStep(w), worker_at'[w] # "get",
           \A t \in TASK, q \in USERPOOL, u \in UNITID :
              Maps(t, q, u)' => (Maps(t, q, u) /\ Keeps(u)) \/ Holding(Hash[u], u)' # {},
           worker_at'[w] = "map_thread" =>
              p_cur'[w] \in Holding(Hash[new_unit[w]], new_unit[w])',
           \A v \in WORKER : v # w => /\ worker_at[v] = "map_thread" => Keeps(new_unit[v])
                                      /\ worker_at[v] = "get" => Keeps(old_unit[v])
    PROVE  FoundInv'
<1>1. ASSUME NEW u \in UNITID, Keeps(u)
      PROVE  /\ Holding(Hash[u], u) \subseteq Holding(Hash[u], u)'
             /\ Len(list[Hash[u]]) <= Len(list'[Hash[u]])
  BY <1>1 DEF Keeps, Holding
<1>2. \A t \in TASK, q \in USERPOOL, u \in UNITID : Maps(t, q, u)' => Holding(Hash[u], u)' # {}
  BY <1>1 DEF FoundInv
<1>3. ASSUME NEW v \in WORKER, v # w
      PROVE  /\ worker_at'[v] = worker_at[v] /\ new_unit'[v] = new_unit[v]
             /\ p_cur'[v] = p_cur[v] /\ old_unit'[v] = old_unit[v]
  BY <1>3, OtherWorkers
<1>4. ASSUME NEW v \in WORKER, worker_at'[v] = "map_thread"
      PROVE  p_cur'[v] \in Holding(Hash[new_unit[v]], new_unit[v])'
  <2>1. CASE v # w
    <3>1. new_unit[v] \in UNITID /\ p_cur[v] \in Holding(Hash[new_unit[v]], new_unit[v])
      BY <1>3, <1>4, <2>1, WorkerFacts DEF FoundInv
    <3>2. PICK u \in UNITID : u = new_unit[v]
      BY <3>1
    <3>3. p_cur'[v] \in Holding(Hash[u], u)'
      BY <1>1, <1>3, <1>4, <2>1, <3>1, <3>2
    <3>. QED  BY <1>3, <2>1, <3>2, <3>3 DEF Holding
  <2>2. CASE v = w
    BY <1>4, <2>2
  <2>. QED  BY <2>1, <2>2
<1>5. ASSUME NEW v \in WORKER, worker_at'[v] = "get"
      PROVE  /\ p_cur'[v] <= Len(list'[Hash[old_unit'[v]]])
             /\ \E n \in Holding(Hash[old_unit[v]], old_unit[v])' : n <= p_cur'[v]
  <2>1. /\ v # w /\ worker_at[v] = "get" /\ old_unit'[v] = old_unit[v] /\ p_cur'[v] = p_cur[v]
    BY <1>3, <1>5
  <2>2. PICK u \in UNITID : u = old_unit[v]
    BY <2>1, WorkerFacts
  <2>3. p_cur[v] <= Len(list[Hash[u]]) /\ \E n \in Holding(Hash[u], u) : n <= p_cur[v]
    BY <2>1, <2>2 DEF FoundInv
  <2>4. p_cur[v] <= Len(list'[Hash[u]])
    <3>1. /\ Len(list[Hash[u]]) <= Len(list'[Hash[u]]) /\ Len(list[Hash[u]]) \in Nat
          /\ p_cur[v] \in Nat
      BY <1>1, <2>1, <2>2, HashIndex, ChainType DEF UnitTypeInv
    <3>2. Len(list'[Hash[u]]) \in Nat
      <4>1. list'[Hash[u]] \in Seq(Element)
        BY HashIndex DEF UnitTypeInv
      <4>. QED  BY <4>1
    <3>. QED  BY <2>3, <3>1, <3>2
  <2>5. \E n \in Holding(Hash[u], u)' : n <= p_cur[v]
    BY <1>1, <2>1, <2>2, <2>3
  <2>. QED  BY <2>1, <2>2, <2>4, <2>5 DEF Holding
<1>. QED  BY <1>2, <1>4, <1>5 DEF FoundInv

(* No unit is taken out of its element.                                    *)
KeepsUnits ==
    \A i \in Index : /\ Len(list[i]) <= Len(list'[i])
                     /\ \A n \in DOMAIN list[i] :
                           list[i][n].unit # NONE => /\ n \in DOMAIN list'[i]
                                                     /\ list'[i][n].unit = list[i][n].unit

LEMMA FoundFilled ==
    ASSUME UnitMapConstants, UnitTypeInv, UnitTypeInv', TakenInv, WorkerInv, FoundInv,
           KeepsUnits,
           NEW w \in WORKER, UnitMapStep(w), worker_at'[w] # "get",
           \A t \in TASK, q \in USERPOOL, u \in UNITID :
              Maps(t, q, u)' => Maps(t, q, u) \/ Holding(Hash[u], u)' # {},
           worker_at'[w] = "map_thread" =>
              p_cur'[w] \in Holding(Hash[new_unit[w]], new_unit[w])'
    PROVE  FoundInv'
<1>1. ASSUME NEW u \in UNITID PROVE Keeps(u)
  <2>1. Hash[u] \in Index /\ u # NONE
    BY HashIndex DEF UnitMapConstants
  <2>. QED  BY <2>1 DEF KeepsUnits, Keeps
<1>2. \A v \in WORKER : /\ worker_at[v] = "map_thread" => new_unit[v] \in UNITID
                        /\ worker_at[v] = "get" => old_unit[v] \in UNITID
  BY WorkerFacts
<1>. QED  BY <1>1, <1>2, FoundKept

(* Elements that a step does not write are as good as they were.           *)
LEMMA ElementKept ==
    ASSUME UnitTypeInv, ChainInv, NEW w \in WORKER, UnitMapStep(w),
           NEW i \in Index, NEW n \in DOMAIN list[i], list'[i][n] = list[i][n],
           worker_at[w] = "map_thread" => list[i][n].unit # new_unit[w],
           NEW v, v = list[i][n].unit,
           \A t \in TASK, q \in USERPOOL : v \in UNITID /\ Maps(t, q, v) => Maps(t, q, v)'
    PROVE  ElementOK(i, n)'
<1>1. list[i][n] \in Element
  BY ChainType
<1>2. PICK x \in TASK : x = list[i][n].p_thread
  BY <1>1 DEF Element
<1>3. v \in UNITID \cup {NONE}
  BY <1>1 DEF Element
<1>4. v # NONE => Hash[v] = i /\ (Filling(i, n) \/ \E q \in USERPOOL : Maps(x, q, v))
  BY <1>2 DEF ChainInv, ElementOK
<1>5. v # NONE => Hash[v] = i /\ (Filling(i, n)' \/ \E q \in USERPOOL : Maps(x, q, v)')
  BY <1>2, <1>3, <1>4, FillingFrame
<1>. QED  BY <1>2, <1>5, ElementNext

LEMMA MapReuseStep ==
    ASSUME UnitMapConstants, UnitInv, UnitTypeInv', TakenInv', WorkerInv',
           NEW w \in WORKER,
           MapReuse(w)
    PROVE  ChainInv' /\ FoundInv'
<1>1. /\ UnitTypeInv /\ ThreadInv /\ TakenInv /\ WorkerInv /\ LiveInv /\ ChainInv /\ FoundInv
      /\ UnitMapStep(w)
  BY DEF UnitInv, UnitMapStep
<1>2. /\ worker_at[w] = "map" /\ worker_at'[w] = "map_thread" /\ new_unit' = new_unit
  BY <1>1 DEF MapReuse, Step, UnitTypeInv
<1>3. new_unit[w] \in UNITID /\ Hash[new_unit[w]] \in Index
  BY <1>1, <1>2, WorkerFacts
<1>4. PICK i \in Index, v \in UNITID : i = Hash[new_unit[w]] /\ v = new_unit[w]
  BY <1>3
<1>5. PICK k \in DOMAIN list[i] : /\ list[i][k].unit = NONE /\ p_cur'[w] = k
                                  /\ list' = [list EXCEPT ![i][k].unit = v]
  <2>. DEFINE k == Max(Holding(i, NONE))
  <2>1. k \in DOMAIN list[i] /\ list[i][k].unit = NONE
    BY <1>1, <1>4, HoldingMax DEF MapReuse
  <2>2. list' = [list EXCEPT ![i][k].unit = v] /\ p_cur' = [p_cur EXCEPT ![w] = k]
    BY <1>4 DEF MapReuse
  <2>. HIDE DEF k
  <2>3. p_cur'[w] = k
    BY <1>1, <2>2 DEF UnitTypeInv
  <2>. QED  BY <2>1, <2>2, <2>3
<1>6. /\ \A j \in Index : DOMAIN list'[j] = DOMAIN list[j] /\ Len(list'[j]) = Len(list[j])
      /\ list'[i][k].unit = v
      /\ \A j \in Index : \A m \in DOMAIN list[j] : j # i \/ m # k => list'[j][m] = list[j][m]
  <2>1. UnitTypeInv /\ v \in UNITID \cup {NONE} /\ list' = [list EXCEPT ![i][k].unit = v]
    BY <1>1, <1>5
  <2>. QED  BY <2>1, WriteUnit
<1>7. SameMapped
  BY <1>1, OwnersLook
<1>8. ASSUME NEW j \in Index, NEW m \in DOMAIN list'[j]
      PROVE  ElementOK(j, m)'
  <2>1. CASE j = i /\ m = k
    BY <1>2, <1>4, <1>5, <1>6, <2>1 DEF ElementOK, Filling
  <2>2. CASE j # i \/ m # k
    BY <1>1, <1>2, <1>6, <1>7, <1>8, <2>2, ElementKept DEF SameMapped
  <2>. QED  BY <2>1, <2>2
<1>9. \A m \in DOMAIN list[i] : list[i][m].unit # v
  BY <1>1, <1>2, <1>4, Unmapped
<1>10. ASSUME NEW j \in Index, NEW m \in DOMAIN list'[j], NEW n \in DOMAIN list'[j],
              list'[j][m].unit = list'[j][n].unit, list'[j][m].unit # NONE
       PROVE  m = n
  BY <1>1, <1>6, <1>9, <1>10 DEF ChainInv
<1>11. ChainInv'
  BY <1>8, <1>10 DEF ChainInv
<1>12. KeepsUnits
  <2>1. \A j \in Index : Len(list[j]) <= Len(list'[j])
    BY <1>1, <1>6, ChainType
  <2>. QED  BY <1>5, <1>6, <2>1 DEF KeepsUnits
<1>13. k \in Holding(i, v)'
  BY <1>5, <1>6 DEF Holding
<1>14. p_cur'[w] \in Holding(Hash[new_unit[w]], new_unit[w])'
  BY <1>2, <1>4, <1>5, <1>6 DEF Holding
<1>15. \A t \in TASK, q \in USERPOOL, u \in UNITID :
          Maps(t, q, u)' => Maps(t, q, u) \/ Holding(Hash[u], u)' # {}
  BY <1>7 DEF SameMapped
<1>16. FoundInv'
  BY <1>1, <1>2, <1>12, <1>14, <1>15, FoundFilled
<1>. QED  BY <1>11, <1>16

LEMMA MapNewStep ==
    ASSUME UnitMapConstants, UnitInv, UnitTypeInv', TakenInv', WorkerInv',
           NEW w \in WORKER,
           MapNew(w)
    PROVE  ChainInv' /\ FoundInv'
<1>1. /\ UnitTypeInv /\ ThreadInv /\ TakenInv /\ WorkerInv /\ LiveInv /\ ChainInv /\ FoundInv
      /\ UnitMapStep(w)
  BY DEF UnitInv, UnitMapStep
<1>2. /\ worker_at[w] = "map" /\ worker_at'[w] \in {"unmap", "assign"}
  BY <1>1 DEF MapNew, Step, Mapped, UnitTypeInv
<1>3. /\ new_unit[w] \in UNITID /\ Hash[new_unit[w]] \in Index
      /\ taken[w] \in TASK /\ p_thread[w] = taken[w] /\ target[w] \in USERPOOL
  BY <1>1, <1>2, WorkerFacts
<1>4. PICK i \in Index, v \in UNITID, x \in TASK, p \in USERPOOL :
         i = Hash[v] /\ v = new_unit[w] /\ x = taken[w] /\ p = target[w]
  BY <1>3
<1>5. PICK e \in Element : e.unit = v /\ e.p_thread = x /\ list' = [list EXCEPT ![i] = Append(@, e)]
  <2>. DEFINE e == [unit |-> new_unit[w], p_thread |-> p_thread[w]]
  <2>1. e \in Element /\ e.unit = v /\ e.p_thread = x
    BY <1>3, <1>4 DEF Element
  <2>2. list' = [list EXCEPT ![i] = Append(@, e)]
    BY <1>4 DEF MapNew
  <2>. QED  BY <2>1, <2>2
<1>6. PICK k : k = Len(list[i]) + 1
  OBVIOUS
<1>7. /\ \A j \in Index \ {i} : list'[j] = list[j]
      /\ Len(list'[i]) = k
      /\ DOMAIN list'[i] = DOMAIN list[i] \cup {k} /\ k \notin DOMAIN list[i]
      /\ list'[i][k] = e
      /\ \A m \in DOMAIN list[i] : list'[i][m] = list[i][m]
  BY <1>1, <1>5, <1>6, AddElement
<1>8. \A t \in TASK, q \in USERPOOL, u \in UNITID :
         Maps(t, q, u)' <=> Maps(t, q, u) \/ <<t, q, u>> = <<x, p, v>>
  BY <1>1, <1>4, OwnersMap
<1>9. ASSUME NEW j \in Index, NEW m \in DOMAIN list'[j]
      PROVE  ElementOK(j, m)'
  <2>1. CASE j = i /\ m = k
    BY <1>4, <1>5, <1>7, <1>8, <2>1, ElementNext
  <2>2. CASE m \in DOMAIN list[j]
    <3>1. list'[j][m] = list[j][m]
      BY <1>7, <2>2
    <3>. QED  BY <1>1, <1>2, <1>8, <2>2, <3>1, ElementKept
  <2>. QED  BY <1>7, <1>9, <2>1, <2>2
<1>10. \A m \in DOMAIN list[i] : list[i][m].unit # v
  BY <1>1, <1>2, <1>4, Unmapped
<1>11. ASSUME NEW j \in Index, NEW m \in DOMAIN list'[j], NEW n \in DOMAIN list'[j],
              list'[j][m].unit = list'[j][n].unit, list'[j][m].unit # NONE
       PROVE  m = n
  <2>1. CASE j = i
    <3>1. ASSUME NEW l \in DOMAIN list'[j], l # k
          PROVE  l \in DOMAIN list[i] /\ list'[i][l] = list[i][l] /\ list'[i][l].unit # v
      BY <1>7, <1>10, <2>1, <3>1
    <3>. QED  BY <1>1, <1>5, <1>7, <1>11, <2>1, <3>1 DEF ChainInv
  <2>2. CASE j # i
    BY <1>1, <1>7, <1>11, <2>2 DEF ChainInv
  <2>. QED  BY <2>1, <2>2
<1>12. ChainInv'
  BY <1>9, <1>11 DEF ChainInv
<1>13. KeepsUnits
  <2>1. \A j \in Index : Len(list[j]) <= Len(list'[j])
    BY <1>1, <1>6, <1>7, ChainType
  <2>. QED  BY <1>7, <2>1 DEF KeepsUnits
<1>14. Holding(Hash[v], v)' # {}
  BY <1>4, <1>5, <1>7 DEF Holding
<1>15. \A t \in TASK, q \in USERPOOL, u \in UNITID :
          Maps(t, q, u)' => Maps(t, q, u) \/ Holding(Hash[u], u)' # {}
  BY <1>8, <1>14
<1>16. FoundInv'
  BY <1>1, <1>2, <1>13, <1>15, FoundFilled
<1>. QED  BY <1>12, <1>16

LEMMA MapThreadStep ==
    ASSUME UnitMapConstants, UnitInv, UnitTypeInv', TakenInv', WorkerInv',
           NEW w \in WORKER,
           MapThread(w)
    PROVE  ChainInv' /\ FoundInv'
<1>1. /\ UnitTypeInv /\ ThreadInv /\ TakenInv /\ WorkerInv /\ LiveInv /\ ChainInv /\ FoundInv
      /\ UnitMapStep(w)
  BY DEF UnitInv, UnitMapStep
<1>2. worker_at[w] = "map_thread" /\ worker_at'[w] \in {"unmap", "assign"}
  BY <1>1 DEF MapThread, Step, Mapped, UnitTypeInv
<1>3. /\ new_unit[w] \in UNITID /\ Hash[new_unit[w]] \in Index
      /\ taken[w] \in TASK /\ p_thread[w] = taken[w] /\ target[w] \in USERPOOL
  BY <1>1, <1>2, WorkerFacts
<1>4. PICK i \in Index, v \in UNITID, x \in TASK, p \in USERPOOL :
         i = Hash[v] /\ v = new_unit[w] /\ x = taken[w] /\ p = target[w]
  BY <1>3
<1>5. PICK k \in DOMAIN list[i] : k = p_cur[w] /\ list[i][k].unit = v
  BY <1>1, <1>2, <1>4 DEF FoundInv, Holding
<1>6. list' = [list EXCEPT ![i][k].p_thread = x]
  BY <1>3, <1>4, <1>5 DEF MapThread
<1>7. /\ \A j \in Index : DOMAIN list'[j] = DOMAIN list[j] /\ Len(list'[j]) = Len(list[j])
      /\ list'[i][k].p_thread = x /\ list'[i][k].unit = v
      /\ \A j \in Index : \A m \in DOMAIN list[j] : j # i \/ m # k => list'[j][m] = list[j][m]
  <2>1. UnitTypeInv /\ list[i][k].unit = v
    BY <1>1, <1>5
  <2>. QED  BY <1>6, <2>1, WriteThread
<1>8. \A t \in TASK, q \in USERPOOL, u \in UNITID :
         Maps(t, q, u)' <=> Maps(t, q, u) \/ <<t, q, u>> = <<x, p, v>>
  BY <1>1, <1>4, OwnersMap
<1>9. \A j \in Index : \A m \in DOMAIN list[j] : list'[j][m].unit = list[j][m].unit
  BY <1>5, <1>7
<1>10. v # NONE
  BY DEF UnitMapConstants
<1>11. ASSUME NEW j \in Index, NEW m \in DOMAIN list'[j]
       PROVE  ElementOK(j, m)'
  <2>1. CASE j = i /\ m = k
    BY <1>4, <1>7, <1>8, <2>1, ElementNext
  <2>2. CASE j # i \/ m # k
    <3>1. m \in DOMAIN list[j] /\ list'[j][m] = list[j][m]
      BY <1>7, <1>11, <2>2
    <3>2. list[j][m].unit # v
      BY <1>1, <1>4, <1>5, <1>10, <2>2, <3>1 DEF ChainInv, ElementOK
    <3>. QED  BY <1>1, <1>4, <1>8, <3>1, <3>2, ElementKept
  <2>. QED  BY <2>1, <2>2
<1>12. ASSUME NEW j \in Index, NEW m \in DOMAIN list'[j], NEW n \in DOMAIN list'[j],
              list'[j][m].unit = list'[j][n].unit, list'[j][m].unit # NONE
       PROVE  m = n
  BY <1>1, <1>7, <1>9, <1>12 DEF ChainInv
<1>13. ChainInv'
  BY <1>11, <1>12 DEF ChainInv
<1>14. KeepsUnits
  <2>1. \A j \in Index : Len(list[j]) <= Len(list'[j])
    BY <1>1, <1>7, ChainType
  <2>. QED  BY <1>7, <1>9, <2>1 DEF KeepsUnits
<1>15. Holding(Hash[v], v)' # {}
  BY <1>4, <1>7 DEF Holding
<1>16. \A t \in TASK, q \in USERPOOL, u \in UNITID :
          Maps(t, q, u)' => Maps(t, q, u) \/ Holding(Hash[u], u)' # {}
  BY <1>8, <1>15
<1>17. FoundInv'
  BY <1>1, <1>2, <1>14, <1>16, FoundFilled
<1>. QED  BY <1>13, <1>17

LEMMA UnmapStep ==
    ASSUME UnitMapConstants, UnitInv, UnitTypeInv', TakenInv', WorkerInv',
           NEW w \in WORKER,
           Unmap(w)
    PROVE  ChainInv' /\ FoundInv'
<1>1. /\ UnitTypeInv /\ ThreadInv /\ TakenInv /\ WorkerInv /\ LiveInv /\ ChainInv /\ FoundInv
      /\ UnitMapStep(w)
  BY DEF UnitInv, UnitMapStep
<1>2. worker_at[w] = "unmap" /\ worker_at'[w] = "free_unit"
  BY <1>1 DEF Unmap, Step, UnitTypeInv
<1>3. /\ old_unit[w] \in UNITID /\ Hash[old_unit[w]] \in Index
      /\ taken[w] \in TASK /\ pool[taken[w]] \in USERPOOL
      /\ Owns(taken[w], pool[taken[w]], old_unit[w])
  BY <1>1, <1>2, WorkerFacts, OldOwned
<1>4. PICK i \in Index, v \in UNITID, x \in TASK, p \in USERPOOL :
         i = Hash[v] /\ v = old_unit[w] /\ x = taken[w] /\ p = pool[taken[w]]
  BY <1>3
<1>5. PICK k \in DOMAIN list[i] : list[i][k].unit = v /\ list' = [list EXCEPT ![i][k].unit = NONE]
  BY <1>1, <1>4, HoldingMax DEF Unmap
<1>6. /\ \A j \in Index : DOMAIN list'[j] = DOMAIN list[j] /\ Len(list'[j]) = Len(list[j])
      /\ list'[i][k].unit = NONE
      /\ \A j \in Index : \A m \in DOMAIN list[j] : j # i \/ m # k => list'[j][m] = list[j][m]
  BY <1>1, <1>5, WriteUnit
<1>7. \A t \in TASK, q \in USERPOOL, u \in UNITID :
         Maps(t, q, u)' <=> Maps(t, q, u) /\ <<t, q, u>> # <<x, p, v>>
  BY <1>1, <1>4, OwnersUnmap
<1>8. \A t \in TASK, q \in USERPOOL : Owns(t, q, v) => t = x /\ q = p
  BY <1>1, <1>3, <1>4 DEF LiveInv
<1>9. v # NONE
  BY DEF UnitMapConstants
<1>10. ASSUME NEW j \in Index, NEW m \in DOMAIN list'[j]
       PROVE  ElementOK(j, m)'
  <2>1. CASE j = i /\ m = k
    BY <1>6, <2>1 DEF ElementOK
  <2>2. CASE j # i \/ m # k
    <3>1. m \in DOMAIN list[j] /\ list'[j][m] = list[j][m]
      BY <1>6, <1>10, <2>2
    <3>2. list[j][m].unit # v
      BY <1>1, <1>4, <1>5, <1>9, <2>2, <3>1 DEF ChainInv, ElementOK
    <3>. QED  BY <1>1, <1>2, <1>7, <3>1, <3>2, ElementKept
  <2>. QED  BY <2>1, <2>2
<1>11. ASSUME NEW j \in Index, NEW m \in DOMAIN list'[j], NEW n \in DOMAIN list'[j],
              list'[j][m].unit = list'[j][n].unit, list'[j][m].unit # NONE
       PROVE  m = n
  BY <1>1, <1>6, <1>11 DEF ChainInv
<1>12. ChainInv'
  BY <1>10, <1>11 DEF ChainInv
<1>13. ASSUME NEW u \in UNITID, u # v PROVE Keeps(u)
  <2>1. Hash[u] \in Index
    BY HashIndex
  <2>2. Len(list[Hash[u]]) <= Len(list'[Hash[u]])
    BY <1>1, <1>6, <2>1, ChainType
  <2>. QED  BY <1>5, <1>6, <1>13, <2>1, <2>2 DEF Keeps
<1>14. ASSUME NEW t \in TASK, NEW q \in USERPOOL, NEW u \in UNITID, Maps(t, q, u)'
       PROVE  Maps(t, q, u) /\ Keeps(u)
  BY <1>7, <1>8, <1>13, <1>14, MapsOwns
<1>15. ASSUME NEW y \in WORKER, y # w, worker_at[y] = "map_thread"
       PROVE  Keeps(new_unit[y])
  <2>1. /\ taken[y] \in TASK /\ target[y] \in USERPOOL /\ new_unit[y] \in UNITID
        /\ Owns(taken[y], target[y], new_unit[y])
    BY <1>1, <1>15, WorkerFacts, NewOwned
  <2>2. new_unit[y] # v
    BY <1>1, <1>4, <1>8, <1>15, <2>1 DEF TakenInv
  <2>. QED  BY <1>13, <2>1, <2>2
<1>16. ASSUME NEW y \in WORKER, y # w, worker_at[y] = "get"
       PROVE  Keeps(old_unit[y])
  <2>1. old_unit[y] \in UNITID /\ taken[y] \in TASK
    BY <1>1, <1>16, WorkerFacts
  <2>2. Owns(taken[y], pool[taken[y]], old_unit[y]) /\ pool[taken[y]] \in USERPOOL
    BY <1>1, <1>16, <2>1, OldOwned
  <2>3. old_unit[y] # v
    BY <1>1, <1>4, <1>8, <1>16, <2>1, <2>2 DEF TakenInv
  <2>. QED  BY <1>13, <2>1, <2>3
<1>17. FoundInv'
  BY <1>1, <1>2, <1>14, <1>15, <1>16, FoundKept
<1>. QED  BY <1>12, <1>17

-----------------------------------------------------------------------------
(* The invariant.                                                          *)

LEMMA UnitInitInv ==
    ASSUME UnitMapConstants, UnitMapInit
    PROVE  UnitInv
<1>. USE DEF UnitMapInit
<1>1. list \in [Index -> Seq(Element)]
  <2>1. <<>> \in Seq(Element)
    OBVIOUS
  <2>. QED  BY <2>1 DEF Index
<1>2. UnitTypeInv
  BY <1>1 DEF UnitTypeInv, Point
<1>3. ThreadInv /\ TakenInv /\ WorkerInv
  BY DEF ThreadInv, TakenInv, WorkerInv, UnitMapConstants
<1>4. \A t \in TASK : \A q, u : ~Owns(t, q, u) /\ ~Maps(t, q, u)
  BY DEF Owns, Maps, UnitMapConstants
<1>5. LiveInv
  BY <1>4 DEF LiveInv
<1>6. \A i \in Index : list[i] = <<>>
  BY DEF Index
<1>7. \A i \in Index : DOMAIN list[i] = {}
  BY <1>6
<1>8. ChainInv
  BY <1>7 DEF ChainInv
<1>9. FoundInv
  BY <1>4 DEF FoundInv
<1>. QED  BY <1>2, <1>3, <1>5, <1>8, <1>9 DEF UnitInv

LEMMA UnitStepInv ==
    ASSUME UnitMapConstants, UnitInv, NEW w \in WORKER, UnitMapStep(w)
    PROVE  UnitInv'
<1>1. UnitTypeInv /\ ThreadInv /\ TakenInv /\ WorkerInv /\ LiveInv /\ ChainInv /\ FoundInv
  BY DEF UnitInv
<1>2. UnitTypeInv' /\ TakenInv'
  BY <1>1, UnitTypeStep, TakenStep
<1>3. WorkerInv' /\ ThreadInv'
  BY <1>1, WorkerStep, ThreadInvStep
<1>4. LiveInv'
  BY <1>1, <1>2, <1>3, LiveStep
<1>5. ChainInv' /\ FoundInv'
  BY <1>2, <1>3, QuietStep, MapReuseStep, MapThreadStep, MapNewStep,
     UnmapStep DEF UnitMapStep
<1>. QED  BY <1>2, <1>3, <1>4, <1>5 DEF UnitInv

LEMMA UnitStutter == UnitInv /\ UNCHANGED unitMapVars => UnitInv'
<1>. SUFFICES ASSUME UnitInv, UNCHANGED unitMapVars PROVE UnitInv'
  OBVIOUS
<1>. USE DEF unitMapVars, tableVars, threadVars, localVars
<1>1. UnitTypeInv' /\ ThreadInv' /\ TakenInv'
  BY DEF UnitInv, UnitTypeInv, ThreadInv, TakenInv
<1>2. WorkerInv'
  BY DEF UnitInv, WorkerInv, WorkerOK
<1>3. LiveInv'
  BY DEF UnitInv, LiveInv, Owns
<1>4. ChainInv'
  BY DEF UnitInv, ChainInv, ElementOK, Filling, Maps
<1>5. FoundInv'
  BY DEF UnitInv, FoundInv, Maps, Holding
<1>. QED  BY <1>1, <1>2, <1>3, <1>4, <1>5 DEF UnitInv

LEMMA UnitInvariance ==
    ASSUME UnitMapConstants
    PROVE  UnitMapSpec => []UnitInv
<1>1. UnitMapInit => UnitInv
  BY UnitInitInv
<1>2. UnitInv /\ [\E w \in WORKER : UnitMapStep(w)]_unitMapVars => UnitInv'
  BY UnitStepInv, UnitStutter
<1>. QED  BY <1>1, <1>2, PTL DEF UnitMapSpec

(* A unit that is mapped, and that nobody is mapping, is mapped to one     *)
(* thread.                                                                 *)
LEMMA MappedTo ==
    ASSUME UnitMapConstants, UnitInv, NEW t \in TASK, NEW q \in USERPOOL,
           NEW u \in UNITID,
           Maps(t, q, u), \A w \in WORKER : taken[w] = t => worker_at[w] # "map_thread"
    PROVE  ThreadsOf(u) = {t}
<1>1. UnitTypeInv /\ ThreadInv /\ TakenInv /\ WorkerInv /\ LiveInv /\ ChainInv /\ FoundInv
  BY DEF UnitInv
<1>2. Hash[u] \in Index /\ u # NONE /\ Holding(Hash[u], u) # {}
  BY <1>1, HashIndex DEF FoundInv, UnitMapConstants
<1>3. ASSUME NEW n \in Holding(Hash[u], u)
      PROVE  list[Hash[u]][n].p_thread = t
  <2>1. n \in DOMAIN list[Hash[u]] /\ list[Hash[u]][n].unit = u
    BY <1>3 DEF Holding
  <2>2. list[Hash[u]][n] \in Element
    BY <1>1, <1>2, <2>1, ChainType
  <2>3. PICK x \in TASK : x = list[Hash[u]][n].p_thread
    BY <2>2 DEF Element
  <2>4. Filling(Hash[u], n) \/ \E p \in USERPOOL : Maps(x, p, u)
    BY <1>1, <1>2, <2>1, <2>3 DEF ChainInv, ElementOK
  <2>5. Owns(t, q, u)
    BY MapsOwns
  <2>6. ~Filling(Hash[u], n)
    <3>. SUFFICES ASSUME NEW w \in WORKER, worker_at[w] = "map_thread", new_unit[w] = u
                  PROVE  FALSE
      BY <2>1 DEF Filling
    <3>1. Owns(taken[w], target[w], u) /\ taken[w] \in TASK /\ target[w] \in USERPOOL
      BY <1>1, WorkerFacts, NewOwned
    <3>. QED  BY <1>1, <2>5, <3>1 DEF LiveInv
  <2>. QED  BY <1>1, <2>3, <2>4, <2>5, <2>6, MapsOwns DEF LiveInv
<1>. QED  BY <1>2, <1>3 DEF ThreadsOf

LEMMA InvUnitsMapped ==
    ASSUME UnitMapConstants, UnitInv
    PROVE  UnitsMapped
<1>1. UnitTypeInv /\ ThreadInv /\ TakenInv /\ WorkerInv /\ LiveInv /\ ChainInv /\ FoundInv
  BY DEF UnitInv
<1>2. ASSUME NEW t \in TASK, Resting(t), unit[t] \in UNITID
      PROVE  ThreadsOf(unit[t]) = {t} /\ <<pool[t], unit[t]>> \in units
  <2>1. pool[t] \in USERPOOL
    BY <1>1, <1>2, UserUnit
  <2>2. Maps(t, pool[t], unit[t]) /\ Owns(t, pool[t], unit[t])
    BY <1>2, OwnsResting
  <2>3. ThreadsOf(unit[t]) = {t}
    BY <1>2, <2>1, <2>2, MappedTo DEF Resting
  <2>. QED  BY <1>1, <1>2, <2>1, <2>2, <2>3 DEF LiveInv
<1>3. ASSUME NEW w \in WORKER
      PROVE  /\ worker_at[w] \notin {"idle", "get"} => p_thread[w] = taken[w]
             /\ worker_at[w] = "get" => p_cur[w] > 0
             /\ worker_at[w] = "unmap" => ThreadsOf(old_unit[w]) = {taken[w]}
  <2>1. worker_at[w] \notin {"idle", "get"} => p_thread[w] = taken[w]
    BY <1>1, WorkerFacts
  <2>2. ASSUME worker_at[w] = "get" PROVE p_cur[w] > 0
    <3>1. Hash[old_unit[w]] \in Index
      BY <1>1, <2>2, WorkerFacts
    <3>2. PICK n \in Holding(Hash[old_unit[w]], old_unit[w]) : n <= p_cur[w]
      BY <1>1, <2>2 DEF FoundInv
    <3>3. n \in 1 .. Len(list[Hash[old_unit[w]]]) /\ Len(list[Hash[old_unit[w]]]) \in Nat
      BY <1>1, <3>1, ChainType DEF Holding
    <3>4. p_cur[w] \in Nat
      BY <1>1 DEF UnitTypeInv
    <3>. QED  BY <3>2, <3>3, <3>4
  <2>3. ASSUME worker_at[w] = "unmap" PROVE ThreadsOf(old_unit[w]) = {taken[w]}
    <3>1. /\ taken[w] \in TASK /\ old_unit[w] \in UNITID /\ pool[taken[w]] \in USERPOOL
          /\ old_unit[w] = unit[taken[w]]
      BY <1>1, <2>3, WorkerFacts, OldOwned DEF WorkerOK
    <3>2. TakenMaps(w, pool[taken[w]], old_unit[w])
      BY <2>3, <3>1 DEF TakenMaps
    <3>3. Maps(taken[w], pool[taken[w]], old_unit[w])
      BY <1>1, <2>3, <3>2, OwnsTaken
    <3>4. \A v \in WORKER : taken[v] = taken[w] => worker_at[v] # "map_thread"
      BY <1>1, <2>3 DEF TakenInv
    <3>. QED  BY <3>1, <3>3, <3>4, MappedTo
  <2>. QED  BY <2>1, <2>2, <2>3
<1>4. ASSUME \A t \in TASK : Resting(t)
      PROVE  /\ units = {<<pool[t], unit[t]>> : t \in {s \in TASK : unit[s] \in UNITID}}
             /\ \A u \in UNITID : ThreadsOf(u) # {} => \E t \in TASK : unit[t] = u
  <2>1. \A t \in TASK : \A q, u :
           /\ Owns(t, q, u) <=> u = unit[t] /\ q = pool[t] /\ u \in UNITID
           /\ Maps(t, q, u) => u = unit[t]
    BY <1>4, OwnsResting
  <2>2. \A t \in TASK : unit[t] \in UNITID => pool[t] \in USERPOOL
    BY <1>1, UserUnit
  <2>3. units \subseteq USERPOOL \X UNITID
    BY <1>1 DEF UnitTypeInv
  <2>4. \A q \in USERPOOL, u \in UNITID :
           <<q, u>> \in units <=> \E t \in TASK : u = unit[t] /\ q = pool[t]
    BY <1>1, <2>1 DEF LiveInv
  <2>5. units = {<<pool[t], unit[t]>> : t \in {s \in TASK : unit[s] \in UNITID}}
    BY <2>2, <2>3, <2>4
  <2>6. ASSUME NEW u \in UNITID, ThreadsOf(u) # {}
        PROVE  \E t \in TASK : unit[t] = u
    <3>1. PICK n \in DOMAIN list[Hash[u]] : list[Hash[u]][n].unit = u
      BY <2>6 DEF ThreadsOf, Holding
    <3>2. Hash[u] \in Index /\ u # NONE
      BY HashIndex DEF UnitMapConstants
    <3>3. list[Hash[u]][n] \in Element
      BY <1>1, <3>1, <3>2, ChainType
    <3>4. PICK x \in TASK : x = list[Hash[u]][n].p_thread
      BY <3>3 DEF Element
    <3>5. Filling(Hash[u], n) \/ \E p \in USERPOOL : Maps(x, p, u)
      BY <1>1, <3>1, <3>2, <3>4 DEF ChainInv, ElementOK
    <3>6. \A w \in WORKER : worker_at[w] # "map_thread"
      BY <1>1, <1>4, WorkerFacts DEF Resting
    <3>. QED  BY <2>1, <3>5, <3>6 DEF Filling
  <2>. QED  BY <2>5, <2>6
<1>. QED  BY <1>2, <1>3, <1>4 DEF UnitsMapped

(* The unit table (unit.c, abti_unit.h): the unit of a thread that rests   *)
(* is mapped to that thread and found, although elements of a chain are    *)
(* emptied and used again while others walk along it without its lock, and *)
(* when all threads rest the pools have no units but theirs.               *)
THEOREM Units ==
    ASSUME UnitMapConstants
    PROVE  UnitMapSpec => []UnitsMapped
BY UnitInvariance, InvUnitsMapped, PTL

-----------------------------------------------------------------------------
(* The tree reduction.                                                     *)

(* Division by a number that is not given.                                 *)
LEMMA DivMod ==
    ASSUME NEW n \in Nat, NEW m \in Nat \ {0}
    PROVE  n \div m \in Nat /\ n % m \in 0 .. m - 1 /\ n = m * (n \div m) + (n % m)
  OBVIOUS

LEMMA ModUnique ==
    ASSUME NEW n \in Nat, NEW m \in Nat \ {0}, NEW k \in Nat, NEW r \in 0 .. m - 1, n = m * k + r
    PROVE  n % m = r
<1>. DEFINE q == n \div m
            p == n % m
<1>1. q \in Nat /\ p \in 0 .. m - 1 /\ n = m * q + p
  BY DivMod
<1>. HIDE DEF q, p
<1>2. ASSUME k > q PROVE FALSE
  <2>1. PICK d \in Nat : k = q + 1 + d
    <3>1. k - q - 1 \in Nat /\ k = q + 1 + (k - q - 1)
      BY <1>1, <1>2
    <3>. QED  BY <3>1
  <2>2. m * k = m * q + m + m * d /\ m * d \in Nat
    BY <1>1, <2>1
  <2>. QED  BY <1>1, <2>2
<1>3. ASSUME q > k PROVE FALSE
  <2>1. PICK d \in Nat : q = k + 1 + d
    <3>1. q - k - 1 \in Nat /\ q = k + 1 + (q - k - 1)
      BY <1>1, <1>3
    <3>. QED  BY <3>1
  <2>2. m * q = m * k + m + m * d /\ m * d \in Nat
    BY <1>1, <2>1
  <2>. QED  BY <1>1, <2>2
<1>4. k = q
  BY <1>1, <1>2, <1>3
<1>5. p = r
  BY <1>1, <1>4
<1>. QED  BY <1>5 DEF p

(* A thread that combines at step x is a multiple of 2x and of x, and its  *)
(* partner is a multiple of x but not of 2x.                               *)
LEMMA PartnerMod ==
    ASSUME NEW t \in Nat, NEW x \in Nat \ {0}, t % (2 * x) = 0
    PROVE  t % x = 0 /\ (t + x) % x = 0 /\ (t + x) % (2 * x) # 0
<1>1. PICK k \in Nat : t = (2 * x) * k
  <2>1. t \div (2 * x) \in Nat /\ t = (2 * x) * (t \div (2 * x)) + (t % (2 * x))
    <3>1. 2 * x \in Nat \ {0}
      OBVIOUS
    <3>. QED  BY <3>1, DivMod
  <2>2. t = (2 * x) * (t \div (2 * x)) 
    BY <2>1
  <2>. QED  BY <2>1, <2>2
<1>2. t = x * (2 * k) + 0 /\ t + x = x * (2 * k + 1) + 0 /\ t + x = (2 * x) * k + x
  BY <1>1
<1>3. t % x = 0
  BY <1>2, ModUnique
<1>4. (t + x) % x = 0
  BY <1>2, ModUnique
<1>5. (t + x) % (2 * x) = x
  <2>1. x \in 0 .. (2 * x) - 1 /\ t + x \in Nat /\ 2 * x \in Nat \ {0}
    OBVIOUS
  <2>. QED  BY <1>2, <2>1, ModUnique
<1>. QED  BY <1>3, <1>4, <1>5

-----------------------------------------------------------------------------
(* Slices.                                                                 *)

LEMMA ElemsType ==
    ASSUME NEW a \in Nat, NEW b \in Nat, a <= b
    PROVE  Elems(a, b) \in Seq(Nat) /\ Len(Elems(a, b)) = b - a
<1>1. b - a \in Nat /\ \A k \in 1 .. b - a : a + k - 1 \in Nat
  OBVIOUS
<1>. QED  BY <1>1 DEF Elems

LEMMA ElemsConcat ==
    ASSUME NEW a \in Nat, NEW b \in Nat, NEW c \in Nat, a <= b, b <= c
    PROVE  Elems(a, b) \o Elems(b, c) = Elems(a, c)
<1>. DEFINE P == Elems(a, b)
            Q == Elems(b, c)
            R == Elems(a, c)
<1>1. P \in Seq(Nat) /\ Len(P) = b - a
  BY ElemsType
<1>2. Q \in Seq(Nat) /\ Len(Q) = c - b
  BY ElemsType
<1>3. R \in Seq(Nat) /\ Len(R) = c - a
  <2>1. a <= c
    OBVIOUS
  <2>. QED  BY <2>1, ElemsType
<1>4. /\ \A k \in 1 .. b - a : P[k] = a + k - 1
      /\ \A k \in 1 .. c - b : Q[k] = b + k - 1
      /\ \A k \in 1 .. c - a : R[k] = a + k - 1
  BY DEF Elems
<1>. HIDE DEF P, Q, R
<1>5. P \o Q \in Seq(Nat) /\ Len(P \o Q) = c - a
  BY <1>1, <1>2
<1>6. ASSUME NEW k \in 1 .. c - a PROVE (P \o Q)[k] = a + k - 1
  <2>1. CASE k <= b - a
    BY <1>1, <1>2, <1>4, <2>1
  <2>2. CASE k > b - a
    <3>1. k - (b - a) \in 1 .. c - b
      BY <2>2
    <3>2. (P \o Q)[k] = Q[k - (b - a)]
      BY <1>1, <1>2, <2>2, <3>1
    <3>3. Q[k - (b - a)] = b + (k - (b - a)) - 1
      BY <1>4, <3>1
    <3>4. b + (k - (b - a)) - 1 = a + k - 1
      OBVIOUS
    <3>. QED  BY <3>2, <3>3, <3>4
  <2>3. k <= b - a \/ k > b - a
    OBVIOUS
  <2>. QED  BY <2>1, <2>2, <2>3
<1>7. P \o Q = R
  <2>. DEFINE S == P \o Q
  <2>1. S \in Seq(Nat) /\ Len(S) = Len(R) /\ \A k \in 1 .. Len(S) : S[k] = R[k]
    BY <1>3, <1>4, <1>5, <1>6
  <2>. HIDE DEF S
  <2>2. S = R
    BY <1>3, <2>1
  <2>. QED  BY <2>2 DEF S
<1>. QED  BY <1>7 DEF P, Q, R

(* The end of the slices of the x threads from t on.                       *)
End(t, x) == IF t + x < NUM_THREADS THEN First(t + x) ELSE NUM_ELEMS

LEMMA SliceBounds ==
    ASSUME ReductionConstants, NEW t \in Id, NEW x \in Nat \ {0}
    PROVE  First(t) \in Nat /\ End(t, x) \in Nat /\ First(t) <= End(t, x) /\ End(t, x) <= NUM_ELEMS
<1>. DEFINE E == elems_per_thread
<1>1. E \in Nat /\ NUM_ELEMS \in Nat /\ NUM_THREADS \in Nat /\ NUM_THREADS * E <= NUM_ELEMS
  BY DivMod DEF ReductionConstants, elems_per_thread
<1>. HIDE DEF E
<1>2. ASSUME NEW i \in Nat, NEW j \in Nat, i <= j
      PROVE  i * E \in Nat /\ i * E <= j * E
  <2>1. PICK d \in Nat : j = i + d
    <3>1. j - i \in Nat /\ j = i + (j - i)
      BY <1>2
    <3>. QED  BY <3>1
  <2>2. j * E = i * E + d * E /\ d * E \in Nat /\ i * E \in Nat
    BY <1>1, <2>1
  <2>. QED  BY <2>2
<1>3. t \in Nat /\ t + x \in Nat /\ t <= t + x /\ t <= NUM_THREADS
  BY <1>1 DEF Id
<1>4. t * E \in Nat /\ t * E <= (t + x) * E /\ t * E <= NUM_THREADS * E
  BY <1>1, <1>2, <1>3
<1>5. t + x < NUM_THREADS => (t + x) * E <= NUM_THREADS * E /\ (t + x) * E \in Nat
  BY <1>1, <1>2, <1>3
<1>6. NUM_THREADS * E \in Nat
  BY <1>1
<1>. QED  BY <1>1, <1>4, <1>5, <1>6 DEF First, End, E

(* The slice of one thread.                                                *)
LEMMA SliceElems ==
    ASSUME ReductionConstants, NEW t \in Id
    PROVE  Slice(t) = Elems(First(t), End(t, 1))
<1>1. elems_per_thread \in Nat /\ t \in Nat /\ NUM_THREADS \in Nat /\ NUM_ELEMS \in Nat
  BY DivMod DEF ReductionConstants, elems_per_thread, Id
<1>2. (t + 1) * elems_per_thread = t * elems_per_thread + elems_per_thread
      /\ t * elems_per_thread \in Nat
  BY <1>1
<1>3. CASE t = NUM_THREADS - 1
  <2>1. First(t) + Count(t) = NUM_ELEMS
    BY <1>1, <1>2, <1>3 DEF First, Count
  <2>2. End(t, 1) = NUM_ELEMS
    BY <1>1, <1>3 DEF End
  <2>. QED  BY <2>1, <2>2 DEF Slice
<1>4. CASE t # NUM_THREADS - 1
  <2>1. First(t) + Count(t) = First(t + 1)
    BY <1>1, <1>2, <1>4 DEF First, Count
  <2>2. End(t, 1) = First(t + 1)
    BY <1>1, <1>4 DEF End, Id
  <2>. QED  BY <2>1, <2>2 DEF Slice
<1>. QED  BY <1>3, <1>4
-----------------------------------------------------------------------------
(* The inductive invariant.                                                *)

(* What is known of a thread at each point; t is in the barrier while it   *)
(* waits there, and its buffer is allocated from its publication on.       *)
PointOK(t) ==
    /\ pc[t] = "none" <=> t >= created
    /\ pc[t] \in {"none", "publish"} => step[t] = 1
    /\ pc[t] = "combine" => step[t] < NUM_THREADS /\ Combines(t)
    /\ pc[t] \in {"free", "done"} => step[t] >= NUM_THREADS
    /\ t \in inside \cup released <=> pc[t] = "leave"
    /\ t \in live <=> pc[t] \notin {"none", "publish", "done"}

PointInv == inside \cap released = {} /\ \A t \in Id : PointOK(t)

(* The level before which t waits, or will wait next.  It is the same for  *)
(* all threads: nobody is more than one barrier ahead.                     *)
Level(t) ==
    IF pc[t] \in {"none", "publish", "enter"} \/ t \in inside THEN step[t] ELSE 2 * step[t]

LevelInv == \A t, u \in Id : Level(t) = Level(u)

(* The caller joins threads that are done.                                 *)
CallerInv ==
    /\ \A t \in Id : t < joined => pc[t] = "done"
    /\ freed => joined = NUM_THREADS

(* Thread t holds the slices of the x threads from t on: it has come to    *)
(* the level of step x, or it was absorbed there.                          *)
Holds(t, x) ==
    /\ pc[t] \notin {"none", "publish"}
    /\ t % x = 0
    /\ step[t] = x \/ (step[t] = 2 * x /\ t % (2 * x) # 0)

ResultInv ==
    /\ \A t \in Id : \A x \in Nat \ {0} :
          Holds(t, x) => thread_results[t] = Elems(First(t), End(t, x))
    /\ \A t \in Id : pc[t] = "combine" => operand[t] = thread_results[partner_thread_id(t)]
    /\ \A t \in Id : t = 0 /\ pc[t] \in {"free", "done"} => result = Elems(0, NUM_ELEMS)

ReductionInv == TypeOK /\ PointInv /\ LevelInv /\ CallerInv /\ ResultInv

LEMMA Ids == ReductionConstants => Id \subseteq Nat /\ NUM_THREADS \in Nat \ {0} /\ 0 \in Id
BY DEF Id, ReductionConstants

LEMMA ThreadCount ==
    ASSUME ReductionConstants
    PROVE  IsFiniteSet(Id) /\ Cardinality(Id) = NUM_THREADS
<1>1. IsFiniteSet(0 .. NUM_THREADS - 1) /\ Cardinality(0 .. NUM_THREADS - 1) = NUM_THREADS
  BY FS_Interval DEF ReductionConstants
<1>. QED  BY <1>1 DEF Id

(* The thread that completes the barrier finds all the others inside.      *)
LEMMA LastInside ==
    ASSUME ReductionConstants, TypeOK, NEW t \in Id, t \notin inside,
           ~(Cardinality(inside) + 1 < NUM_THREADS)
    PROVE  inside = Id \ {t}
<1>1. IsFiniteSet(Id) /\ Cardinality(Id) = NUM_THREADS
  BY ThreadCount
<1>2. IsFiniteSet(Id \ {t}) /\ Cardinality(Id \ {t}) = NUM_THREADS - 1
  BY <1>1, FS_RemoveElement
<1>3. inside \subseteq Id \ {t}
  BY DEF TypeOK
<1>4. IsFiniteSet(inside) /\ Cardinality(inside) <= NUM_THREADS - 1 /\ Cardinality(inside) \in Nat
  BY <1>2, <1>3, FS_Subset, FS_CardinalityType
<1>5. Cardinality(inside) = Cardinality(Id \ {t})
  BY <1>2, <1>4 DEF ReductionConstants
<1>. QED  BY <1>2, <1>3, <1>5, FS_Subset

(* Nobody reads or writes outside the array.                               *)
LEMMA PartnerType ==
    ASSUME ReductionConstants, TypeOK, NEW t \in Id, Combines(t)
    PROVE  partner_thread_id(t) \in Id
<1>1. t \in Nat /\ step[t] \in Nat \ {0} /\ NUM_THREADS \in Nat \ {0}
  BY Ids DEF TypeOK
<1>2. t + step[t] < NUM_THREADS
  BY DEF Combines, partner_thread_id
<1>. QED  BY <1>1, <1>2 DEF partner_thread_id, Id

LEMMA ReductionInitInv ==
    ASSUME ReductionConstants, Init
    PROVE  ReductionInv
<1>. USE DEF Init, Barrier!Init
<1>0. Id \subseteq Nat /\ NUM_THREADS \in Nat /\ <<>> \in Seq(Nat)
  BY Ids
<1>1. TypeOK
  <2>1. thread_results \in [Id -> Seq(Nat)] /\ operand \in [Id -> Seq(Nat)] /\ result \in Seq(Nat)
    BY <1>0
  <2>2. created \in 0 .. NUM_THREADS /\ joined \in 0 .. NUM_THREADS
    BY <1>0
  <2>3. step \in [Id -> Nat \ {0}] /\ inside = {} /\ released = {} /\ live = {} /\ freed = FALSE
    OBVIOUS
  <2>4. \A t \in Id : pc[t] = "none"
    OBVIOUS
  <2>. QED  BY <2>1, <2>2, <2>3, <2>4 DEF TypeOK
<1>2. PointInv
  BY <1>0 DEF PointInv, PointOK
<1>3. LevelInv
  BY DEF LevelInv, Level
<1>4. CallerInv
  BY <1>0 DEF CallerInv
<1>5. ResultInv
  BY DEF ResultInv, Holds
<1>. QED  BY <1>1, <1>2, <1>3, <1>4, <1>5 DEF ReductionInv

-----------------------------------------------------------------------------
(* Types.                                                                  *)

LEMMA ReductionStepType ==
    ASSUME ReductionConstants, TypeOK, [Next]_vars
    PROVE  TypeOK'
<1>. USE DEF TypeOK, GoTo, callerVars, barrierVars
<1>1. Id \subseteq Nat /\ NUM_THREADS \in Nat /\ created \in Nat /\ joined \in Nat
  BY Ids
<1>2. CASE CallerStep
  <2>1. CASE Create
    <3>1. created \in Id /\ created' \in 0 .. NUM_THREADS
      BY <1>1, <2>1 DEF Create, Id
    <3>. QED  BY <2>1, <3>1 DEF Create
  <2>2. CASE Join
    BY <1>1, <2>2 DEF Join
  <2>3. CASE Finish
    BY <2>3 DEF Finish
  <2>. QED  BY <1>2, <2>1, <2>2, <2>3 DEF CallerStep
<1>3. ASSUME NEW t \in Id, Publish(t) PROVE TypeOK'
  <2>1. Slice(t) \in Seq(Nat)
    <3>1. First(t) \in Nat /\ End(t, 1) \in Nat /\ First(t) <= End(t, 1)
      BY SliceBounds
    <3>. QED  BY <3>1, SliceElems, ElemsType
  <2>. QED  BY <1>3, <2>1 DEF Publish
<1>4. ASSUME NEW t \in Id, BarrierEnter(t) PROVE TypeOK'
  BY <1>4 DEF BarrierEnter, Barrier!Enter
<1>5. ASSUME NEW t \in Id, BarrierLeave(t) PROVE TypeOK'
  BY <1>5 DEF BarrierLeave, Barrier!Leave
<1>6. ASSUME NEW t \in Id, ReadPartner(t) PROVE TypeOK'
  <2>1. thread_results[partner_thread_id(t)] \in Seq(Nat)
    BY <1>6, PartnerType DEF ReadPartner
  <2>. QED  BY <1>6, <2>1 DEF ReadPartner
<1>7. ASSUME NEW t \in Id, Combine(t) PROVE TypeOK'
  <2>1. thread_results[t] \o operand[t] \in Seq(Nat)
    OBVIOUS
  <2>2. 2 * step[t] \in Nat \ {0}
    OBVIOUS
  <2>. QED  BY <1>7, <2>1, <2>2 DEF Combine
<1>8. ASSUME NEW t \in Id, SkipLevel(t) PROVE TypeOK'
  <2>1. 2 * step[t] \in Nat \ {0}
    OBVIOUS
  <2>. QED  BY <1>8, <2>1 DEF SkipLevel
<1>9. ASSUME NEW t \in Id, Store(t) PROVE TypeOK'
  BY <1>9, Ids DEF Store
<1>10. ASSUME NEW t \in Id, Free(t) PROVE TypeOK'
  BY <1>10 DEF Free
<1>11. CASE UNCHANGED vars
  BY <1>11 DEF vars
<1>. QED  BY <1>2, <1>3, <1>4, <1>5, <1>6, <1>7, <1>8, <1>9, <1>10, <1>11
          DEF Next, ThreadStep, Returned

-----------------------------------------------------------------------------
(* Points and levels.                                                      *)

(* A step of t that does not complete the barrier leaves the others alone. *)
LEMMA PointFrame ==
    ASSUME TypeOK, PointInv, NEW t \in Id, UNCHANGED created,
           \A u \in Id \ {t} : /\ pc'[u] = pc[u] /\ step'[u] = step[u]
                               /\ u \in live' <=> u \in live
                               /\ u \in inside' <=> u \in inside
                               /\ u \in released' <=> u \in released,
           PointOK(t)', inside' \cap released' = {}
    PROVE  PointInv'
<1>1. ASSUME NEW u \in Id PROVE PointOK(u)'
  <2>1. CASE u # t
    BY <1>1, <2>1 DEF PointInv, PointOK, Combines, partner_thread_id
  <2>. QED  BY <2>1
<1>. QED  BY <1>1 DEF PointInv

LEMMA EnterBarrier ==
    ASSUME NEW t \in Id, BarrierEnter(t)
    PROVE  /\ pc[t] = "enter" /\ pc' = [pc EXCEPT ![t] = "leave"] /\ t \notin inside \cup released
           /\ IF Cardinality(inside) + 1 < NUM_THREADS
              THEN inside' = inside \cup {t} /\ released' = released
              ELSE inside' = {} /\ released' = released \cup inside \cup {t}
           /\ UNCHANGED <<step, operand, thread_results, live, result, created, joined, freed>>
  BY DEF BarrierEnter, Barrier!Enter, GoTo, Barrier!Cardinality, Cardinality, callerVars

(* The barrier opens: all others are inside, before the same level.        *)
LEMMA OpenStep ==
    ASSUME ReductionConstants, TypeOK, PointInv, LevelInv, NEW t \in Id, BarrierEnter(t),
           ~(Cardinality(inside) + 1 < NUM_THREADS)
    PROVE  /\ inside' = {} /\ released' = Id
           /\ \A u \in Id : pc'[u] = "leave" /\ step[u] = step[t]
<1>1. /\ pc[t] = "enter" /\ t \notin inside \cup released
      /\ inside' = {} /\ released' = released \cup inside \cup {t}
      /\ pc' = [pc EXCEPT ![t] = "leave"]
  BY EnterBarrier
<1>2. inside = Id \ {t}
  BY <1>1, LastInside
<1>3. released' = Id
  BY <1>1, <1>2 DEF TypeOK
<1>4. ASSUME NEW u \in Id PROVE pc'[u] = "leave" /\ step[u] = step[t]
  <2>1. CASE u = t
    BY <1>1, <2>1 DEF TypeOK
  <2>2. CASE u # t
    <3>1. pc[u] = "leave" /\ u \in inside
      BY <1>2, <2>2 DEF PointInv, PointOK
    <3>2. Level(u) = Level(t)
      BY DEF LevelInv
    <3>. QED  BY <1>1, <2>2, <3>1, <3>2 DEF Level, TypeOK
  <2>. QED  BY <2>1, <2>2
<1>. QED  BY <1>1, <1>3, <1>4

LEMMA StepPointInv ==
    ASSUME ReductionConstants, TypeOK, PointInv, LevelInv, [Next]_vars
    PROVE  PointInv'
<1>. USE DEF GoTo, callerVars, barrierVars
<1>1. Id \subseteq Nat /\ NUM_THREADS \in Nat /\ created \in Nat /\ joined \in Nat
  BY Ids DEF TypeOK
<1>2. CASE CallerStep
  <2>1. CASE Create
    <3>1. created \in Id /\ pc[created] = "none"
      BY <1>1, <2>1 DEF Create, Id, PointInv, PointOK
    <3>2. ASSUME NEW u \in Id PROVE PointOK(u)'
      <4>1. PointOK(u) /\ PointOK(created)
        BY <3>1 DEF PointInv
      <4>2. CASE u = created
        BY <1>1, <2>1, <3>1, <4>1, <4>2 DEF Create, PointOK, TypeOK
      <4>3. CASE u # created
        <5>1. pc'[u] = pc[u] /\ UNCHANGED <<step, live, inside, released>>
          BY <2>1, <4>3 DEF Create, TypeOK
        <5>2. u >= created' <=> u >= created
          BY <1>1, <2>1, <4>3 DEF Create
        <5>. QED  BY <4>1, <5>1, <5>2 DEF PointOK, Combines, partner_thread_id
      <4>. QED  BY <4>2, <4>3
    <3>. QED  BY <2>1, <3>2 DEF Create, PointInv
  <2>2. CASE Join \/ Finish
    BY <2>2 DEF Join, Finish, PointInv, PointOK, Combines, partner_thread_id
  <2>. QED  BY <1>2, <2>1, <2>2 DEF CallerStep
<1>3. ASSUME NEW t \in Id, BarrierEnter(t) PROVE PointInv'
  <2>1. CASE Cardinality(inside) + 1 < NUM_THREADS
    <3>1. /\ pc[t] = "enter" /\ pc' = [pc EXCEPT ![t] = "leave"]
          /\ inside' = inside \cup {t} /\ released' = released /\ t \notin released
          /\ UNCHANGED <<created, step, live>>
      BY <1>3, <2>1, EnterBarrier
    <3>2. PointOK(t)'
      BY <1>1, <3>1 DEF PointInv, PointOK, TypeOK
    <3>3. inside' \cap released' = {}
      BY <3>1 DEF PointInv
    <3>4. \A u \in Id \ {t} : pc'[u] = pc[u]
      BY <3>1 DEF TypeOK
    <3>. QED  BY <3>1, <3>2, <3>3, <3>4, PointFrame
  <2>2. CASE ~(Cardinality(inside) + 1 < NUM_THREADS)
    <3>1. inside' = {} /\ released' = Id /\ \A u \in Id : pc'[u] = "leave"
      BY <1>3, <2>2, OpenStep
    <3>2. ASSUME NEW u \in Id PROVE pc[u] \in {"enter", "leave"}
      BY <1>3, <3>1 DEF BarrierEnter, TypeOK
    <3>3. ASSUME NEW u \in Id PROVE PointOK(u)'
      BY <1>3, <3>1, <3>2 DEF BarrierEnter, PointInv, PointOK
    <3>. QED  BY <3>1, <3>3 DEF PointInv
  <2>. QED  BY <2>1, <2>2
<1>4. ASSUME NEW t \in Id, BarrierLeave(t) PROVE PointInv'
  <2>1. /\ pc[t] = "leave" /\ pc' = [pc EXCEPT ![t] = "level"]
        /\ inside' = inside /\ released' = released \ {t} /\ t \in released
        /\ UNCHANGED <<created, step, live>>
    BY <1>4 DEF BarrierLeave, Barrier!Leave
  <2>2. inside' \cap released' = {} /\ t \notin inside
    BY <2>1 DEF PointInv
  <2>3. PointOK(t)'
    BY <1>1, <2>1, <2>2 DEF PointInv, PointOK, TypeOK
  <2>4. \A u \in Id \ {t} : pc'[u] = pc[u]
    BY <2>1 DEF TypeOK
  <2>. QED  BY <2>1, <2>2, <2>3, <2>4, PointFrame
<1>5. ASSUME NEW t \in Id,
             Publish(t) \/ ReadPartner(t) \/ Combine(t) \/ SkipLevel(t) \/ Store(t) \/ Free(t)
      PROVE  PointInv'
  <2>1. /\ UNCHANGED <<created, inside, released>>
        /\ \A u \in Id \ {t} : pc'[u] = pc[u] /\ step'[u] = step[u] /\ (u \in live' <=> u \in live)
    BY <1>5 DEF Publish, ReadPartner, Combine, SkipLevel, Store, Free, TypeOK
  <2>2. inside' \cap released' = {} /\ t \in Nat /\ step[t] \in Nat \ {0}
    BY <1>1, <2>1 DEF PointInv, TypeOK
  <2>3. PointOK(t)
    BY DEF PointInv
  <2>4. PointOK(t)'
    <3>1. CASE Publish(t)
      BY <2>2, <2>3, <3>1 DEF Publish, PointOK, TypeOK
    <3>2. CASE ReadPartner(t)
      BY <2>2, <2>3, <3>2 DEF ReadPartner, PointOK, TypeOK, Combines, partner_thread_id
    <3>3. CASE Combine(t)
      BY <2>2, <2>3, <3>3 DEF Combine, PointOK, TypeOK
    <3>4. CASE SkipLevel(t)
      BY <2>2, <2>3, <3>4 DEF SkipLevel, PointOK, TypeOK
    <3>5. CASE Store(t)
      BY <2>2, <2>3, <3>5 DEF Store, PointOK, TypeOK
    <3>6. CASE Free(t)
      BY <2>2, <2>3, <3>6 DEF Free, PointOK, TypeOK
    <3>. QED  BY <1>5, <3>1, <3>2, <3>3, <3>4, <3>5, <3>6
  <2>. QED  BY <2>1, <2>2, <2>4, PointFrame
<1>6. CASE UNCHANGED vars
  BY <1>6 DEF vars, PointInv, PointOK, Combines, partner_thread_id
<1>. QED  BY <1>2, <1>3, <1>4, <1>5, <1>6 DEF Next, ThreadStep, Returned

LEMMA StepLevelInv ==
    ASSUME ReductionConstants, TypeOK, PointInv, LevelInv, [Next]_vars
    PROVE  LevelInv'
<1>. USE DEF GoTo, callerVars, barrierVars
<1>1. ASSUME \A u \in Id : Level(u)' = Level(u) PROVE LevelInv'
  BY <1>1 DEF LevelInv
<1>2. ASSUME NEW t \in Id, Level(t)' = Level(t),
             \A u \in Id \ {t} : /\ pc'[u] = pc[u] /\ step'[u] = step[u]
                                 /\ u \in inside' <=> u \in inside
      PROVE  LevelInv'
  <2>1. \A u \in Id : Level(u)' = Level(u)
    BY <1>2 DEF Level
  <2>. QED  BY <1>1, <2>1
<1>3. CASE CallerStep
  <2>1. CASE Create
    <3>1. created \in Id /\ pc[created] = "none"
      BY <2>1, Ids DEF Create, Id, PointInv, PointOK, TypeOK
    <3>2. \A u \in Id : Level(u)' = Level(u)
      BY <2>1, <3>1 DEF Create, Level, TypeOK
    <3>. QED  BY <1>1, <3>2
  <2>2. CASE Join \/ Finish
    BY <1>1, <2>2 DEF Join, Finish, Level
  <2>. QED  BY <1>3, <2>1, <2>2 DEF CallerStep
<1>4. ASSUME NEW t \in Id, BarrierEnter(t) PROVE LevelInv'
  <2>1. CASE Cardinality(inside) + 1 < NUM_THREADS
    <3>1. pc[t] = "enter" /\ pc' = [pc EXCEPT ![t] = "leave"] /\ inside' = inside \cup {t}
          /\ UNCHANGED step
      BY <1>4, <2>1, EnterBarrier
    <3>2. Level(t)' = Level(t)
      BY <3>1 DEF Level
    <3>. QED  BY <1>2, <3>1, <3>2 DEF TypeOK
  <2>2. CASE ~(Cardinality(inside) + 1 < NUM_THREADS)
    <3>1. inside' = {} /\ \A u \in Id : pc'[u] = "leave" /\ step[u] = step[t]
      BY <1>4, <2>2, OpenStep
    <3>2. \A u \in Id : Level(u)' = 2 * step[t]
      BY <1>4, <3>1 DEF BarrierEnter, Level
    <3>. QED  BY <3>2 DEF LevelInv
  <2>. QED  BY <2>1, <2>2
<1>5. ASSUME NEW t \in Id, BarrierLeave(t) PROVE LevelInv'
  <2>1. /\ pc[t] = "leave" /\ pc' = [pc EXCEPT ![t] = "level"] /\ t \notin inside
        /\ inside' = inside /\ UNCHANGED step
    BY <1>5 DEF BarrierLeave, Barrier!Leave, PointInv
  <2>2. Level(t)' = Level(t)
    BY <2>1 DEF Level, TypeOK
  <2>. QED  BY <1>2, <2>1, <2>2 DEF TypeOK
<1>6. ASSUME NEW t \in Id,
             Publish(t) \/ ReadPartner(t) \/ Combine(t) \/ SkipLevel(t) \/ Store(t) \/ Free(t)
      PROVE  LevelInv'
  <2>1. /\ UNCHANGED inside
        /\ \A u \in Id \ {t} : pc'[u] = pc[u] /\ step'[u] = step[u]
    BY <1>6 DEF Publish, ReadPartner, Combine, SkipLevel, Store, Free, TypeOK
  <2>2. t \in inside => pc[t] = "leave"
    BY DEF PointInv, PointOK
  <2>3. Level(t)' = Level(t)
    <3>1. CASE Publish(t)
      BY <2>1, <2>2, <3>1 DEF Publish, Level, TypeOK
    <3>2. CASE ReadPartner(t)
      BY <2>1, <2>2, <3>2 DEF ReadPartner, Level, TypeOK
    <3>3. CASE Combine(t)
      BY <2>1, <2>2, <3>3 DEF Combine, Level, TypeOK
    <3>4. CASE SkipLevel(t)
      BY <2>1, <2>2, <3>4 DEF SkipLevel, Level, TypeOK
    <3>5. CASE Store(t)
      BY <2>1, <2>2, <3>5 DEF Store, Level, TypeOK
    <3>6. CASE Free(t)
      BY <2>1, <2>2, <3>6 DEF Free, Level, TypeOK
    <3>. QED  BY <1>6, <3>1, <3>2, <3>3, <3>4, <3>5, <3>6
  <2>. QED  BY <1>2, <2>1, <2>3
<1>7. CASE UNCHANGED vars
  BY <1>1, <1>7 DEF vars, Level
<1>. QED  BY <1>3, <1>4, <1>5, <1>6, <1>7 DEF Next, ThreadStep, Returned

(* A thread that has been joined takes no step.                            *)
LEMMA StepCallerInv ==
    ASSUME ReductionConstants, TypeOK, PointInv, CallerInv, [Next]_vars
    PROVE  CallerInv'
<1>. USE DEF GoTo, callerVars, barrierVars, CallerInv
<1>1. Id \subseteq Nat /\ NUM_THREADS \in Nat /\ created \in Nat /\ joined \in 0 .. NUM_THREADS
  BY Ids DEF TypeOK
<1>2. CASE Create
  <2>1. created \in Id /\ pc[created] = "none"
    BY <1>1, <1>2 DEF Create, Id, PointInv, PointOK
  <2>2. ASSUME NEW t \in Id, t < joined PROVE pc'[t] = "done"
    BY <1>2, <2>1, <2>2 DEF Create, TypeOK
  <2>. QED  BY <1>2, <2>2 DEF Create
<1>3. CASE Join
  <2>1. ASSUME NEW t \in Id, t < joined' PROVE pc'[t] = "done"
    BY <1>1, <1>3, <2>1 DEF Join, Id
  <2>2. freed = FALSE
    BY <1>1, <1>3 DEF Join, TypeOK
  <2>. QED  BY <1>3, <2>1, <2>2 DEF Join
<1>4. CASE Finish
  BY <1>4 DEF Finish
<1>5. ASSUME NEW t \in Id, ThreadStep(t) PROVE CallerInv'
  <2>1. UNCHANGED <<joined, freed>> /\ pc[t] # "done" /\ \A u \in Id \ {t} : pc'[u] = pc[u]
    BY <1>5 DEF ThreadStep, Publish, BarrierEnter, BarrierLeave, ReadPartner, Combine,
                SkipLevel, Store, Free, TypeOK
  <2>. QED  BY <2>1
<1>6. CASE UNCHANGED vars
  BY <1>6 DEF vars
<1>. QED  BY <1>2, <1>3, <1>4, <1>5, <1>6 DEF Next, CallerStep, Returned

-----------------------------------------------------------------------------
(* The partial results.                                                    *)

(* Threads that combine are at the same level.                             *)
LEMMA SameStep ==
    ASSUME TypeOK, PointInv, LevelInv, NEW t \in Id, NEW u \in Id,
           pc[t] \in {"level", "combine"}, pc[u] \in {"level", "combine"}
    PROVE  step[t] = step[u]
<1>1. t \notin inside /\ u \notin inside
  BY DEF PointInv, PointOK
<1>2. 2 * step[t] = 2 * step[u]
  BY <1>1 DEF LevelInv, Level
<1>. QED  BY <1>2 DEF TypeOK

(* The partner of a thread that is at a level below NUM_THREADS: it is     *)
(* there, too, or before the next level.  It has a buffer, the slices from *)
(* itself on, and does not combine.                                        *)
LEMMA PartnerHolds ==
    ASSUME ReductionConstants, TypeOK, PointInv, LevelInv, NEW t \in Id,
           pc[t] \in {"level", "combine"}, step[t] < NUM_THREADS, Combines(t)
    PROVE  /\ partner_thread_id(t) \in Id /\ partner_thread_id(t) # t
           /\ partner_thread_id(t) \in live
           /\ Holds(partner_thread_id(t), step[t])
           /\ pc[partner_thread_id(t)] \notin {"none", "publish", "combine"}
<1>. DEFINE x == step[t]
            u == partner_thread_id(t)
<1>1. x \in Nat \ {0} /\ t \in Nat /\ t % (2 * x) = 0 /\ u = t + x /\ u \in Nat
  BY Ids DEF TypeOK, Combines, partner_thread_id
<1>2. u \in Id /\ u # t
  BY <1>1, PartnerType
<1>3. u % x = 0 /\ u % (2 * x) # 0
  BY <1>1, PartnerMod
<1>4. Level(t) = 2 * x /\ Level(u) = 2 * x
  BY <1>2 DEF LevelInv, Level, PointInv, PointOK
<1>5. PointOK(u) /\ step[u] \in Nat \ {0}
  BY <1>2 DEF PointInv, TypeOK
<1>6. pc[u] \notin {"none", "publish"}
  BY <1>1, <1>4, <1>5 DEF Level, PointOK
<1>7. pc[u] # "combine"
  <2>. SUFFICES ASSUME pc[u] = "combine" PROVE FALSE
    OBVIOUS
  <2>1. step[u] = x
    BY <1>2, SameStep
  <2>. QED  BY <1>3, <1>5, <2>1 DEF PointOK, Combines
<1>8. step[u] = x \/ step[u] = 2 * x
  <2>1. step[u] = 2 * step[t] \/ 2 * step[u] = 2 * step[t]
    BY <1>4 DEF Level
  <2>2. step[u] \in Nat /\ step[t] \in Nat
    BY <1>1, <1>5
  <2>. QED  BY <2>1, <2>2
<1>9. pc[u] # "done"
  <2>. SUFFICES ASSUME pc[u] = "done" PROVE FALSE
    OBVIOUS
  <2>1. 2 * step[u] = 2 * x
    BY <1>4, <1>5 DEF Level, PointOK
  <2>. QED  BY <1>1, <1>5, <2>1, Ids DEF PointOK
<1>10. u \in live
  BY <1>5, <1>6, <1>9 DEF PointOK
<1>. QED  BY <1>2, <1>3, <1>6, <1>7, <1>8, <1>10 DEF Holds

(* A step that leaves the buffers and levels alone, and publishes nothing. *)
LEMMA ResultFrame ==
    ASSUME ResultInv, UNCHANGED <<thread_results, step, operand, result>>,
           \A u \in Id : /\ pc'[u] \in {"none", "publish"} <=> pc[u] \in {"none", "publish"}
                         /\ pc'[u] = "combine" => pc[u] = "combine"
                         /\ u = 0 /\ pc'[u] \in {"free", "done"} => pc[u] \in {"free", "done"}
    PROVE  ResultInv'
<1>1. ASSUME NEW t \in Id, NEW x \in Nat \ {0}, Holds(t, x)'
      PROVE  thread_results'[t] = Elems(First(t), End(t, x))
  <2>1. Holds(t, x)
    BY <1>1 DEF Holds
  <2>. QED  BY <2>1 DEF ResultInv
<1>2. ASSUME NEW t \in Id, pc'[t] = "combine"
      PROVE  operand'[t] = thread_results'[partner_thread_id(t)']
  BY <1>2 DEF ResultInv, partner_thread_id
<1>. QED  BY <1>1, <1>2 DEF ResultInv

(* A thread that writes its buffer or its level writes what the invariant  *)
(* wants, and is nobody's partner.                                         *)
LEMMA WriteFrame ==
    ASSUME TypeOK, ResultInv, NEW t \in Id, UNCHANGED <<operand, result>>,
           pc'[t] = "enter",
           \A u \in Id \ {t} : /\ pc'[u] = pc[u] /\ step'[u] = step[u]
                               /\ thread_results'[u] = thread_results[u],
           \A u \in Id \ {t} : pc[u] = "combine" /\ partner_thread_id(u) = t
                               => thread_results'[t] = thread_results[t],
           \A u \in Id : pc[u] = "combine" => partner_thread_id(u) \in Id,
           \A x \in Nat \ {0} : Holds(t, x)' => thread_results'[t] = Elems(First(t), End(t, x))
    PROVE  ResultInv'
<1>1. ASSUME NEW u \in Id, NEW x \in Nat \ {0}, Holds(u, x)'
      PROVE  thread_results'[u] = Elems(First(u), End(u, x))
  <2>1. CASE u = t
    BY <1>1, <2>1
  <2>2. CASE u # t
    <3>1. Holds(u, x)
      BY <1>1, <2>2 DEF Holds
    <3>. QED  BY <2>2, <3>1 DEF ResultInv
  <2>. QED  BY <2>1, <2>2
<1>2. ASSUME NEW u \in Id, pc'[u] = "combine"
      PROVE  operand'[u] = thread_results'[partner_thread_id(u)']
  <2>1. u # t /\ pc[u] = "combine" /\ partner_thread_id(u)' = partner_thread_id(u)
    BY <1>2 DEF partner_thread_id
  <2>2. operand[u] = thread_results[partner_thread_id(u)] /\ partner_thread_id(u) \in Id
    BY <2>1 DEF ResultInv
  <2>. QED  BY <2>1, <2>2
<1>3. ASSUME NEW u \in Id, u = 0, pc'[u] \in {"free", "done"}
      PROVE  result' = Elems(0, NUM_ELEMS)
  <2>1. u # t /\ pc[u] \in {"free", "done"}
    BY <1>3
  <2>. QED  BY <1>3, <2>1 DEF ResultInv
<1>. QED  BY <1>1, <1>2, <1>3 DEF ResultInv

LEMMA StepResultInv ==
    ASSUME ReductionConstants, TypeOK, PointInv, LevelInv, ResultInv, [Next]_vars
    PROVE  ResultInv'
<1>. USE DEF GoTo, callerVars, barrierVars
<1>1. Id \subseteq Nat /\ NUM_THREADS \in Nat
  BY Ids
<1>2. ASSUME NEW t \in Id, pc[t] = "combine"
      PROVE  /\ partner_thread_id(t) \in Id
             /\ pc[partner_thread_id(t)] \notin {"none", "publish", "combine"}
  <2>1. step[t] < NUM_THREADS /\ Combines(t)
    BY <1>2 DEF PointInv, PointOK
  <2>. QED  BY <1>2, <2>1, PartnerHolds
<1>3. CASE CallerStep
  <2>1. CASE Create
    <3>1. pc[created] = "none" /\ created \in Id
      BY <2>1, Ids DEF Create, Id, PointInv, PointOK, TypeOK
    <3>. QED  BY <2>1, <3>1, ResultFrame DEF Create, TypeOK
  <2>2. CASE Join \/ Finish
    BY <2>2, ResultFrame DEF Join, Finish
  <2>. QED  BY <1>3, <2>1, <2>2 DEF CallerStep
<1>4. ASSUME NEW t \in Id, Publish(t) PROVE ResultInv'
  <2>1. /\ pc[t] = "publish" /\ pc'[t] = "enter" /\ step[t] = 1
        /\ thread_results'[t] = Slice(t) /\ UNCHANGED <<step, operand, result>>
        /\ \A u \in Id \ {t} : pc'[u] = pc[u] /\ thread_results'[u] = thread_results[u]
    BY <1>4 DEF Publish, TypeOK, PointInv, PointOK
  <2>2. \A u \in Id : pc[u] = "combine" => partner_thread_id(u) # t
    BY <1>2, <2>1
  <2>3. ASSUME NEW x \in Nat \ {0}, Holds(t, x)'
        PROVE  thread_results'[t] = Elems(First(t), End(t, x))
    <3>1. x = 1
      BY <2>1, <2>3 DEF Holds
    <3>. QED  BY <2>1, <3>1, SliceElems
  <2>. QED  BY <1>2, <2>1, <2>2, <2>3, WriteFrame
<1>5. ASSUME NEW t \in Id, BarrierEnter(t) \/ BarrierLeave(t) PROVE ResultInv'
  <2>1. /\ UNCHANGED <<thread_results, step, operand, result>>
        /\ pc[t] \in {"enter", "leave"} /\ pc'[t] \in {"leave", "level"}
        /\ \A u \in Id \ {t} : pc'[u] = pc[u]
    BY <1>5 DEF BarrierEnter, BarrierLeave, TypeOK
  <2>. QED  BY <2>1, ResultFrame
<1>6. ASSUME NEW t \in Id, ReadPartner(t) PROVE ResultInv'
  <2>1. /\ pc[t] = "level" /\ pc' = [pc EXCEPT ![t] = "combine"] /\ Combines(t)
        /\ operand' = [operand EXCEPT ![t] = thread_results[partner_thread_id(t)]]
        /\ UNCHANGED <<step, thread_results, result>>
    BY <1>6 DEF ReadPartner
  <2>2. \A u \in Id : pc'[u] \in {"none", "publish"} <=> pc[u] \in {"none", "publish"}
    BY <2>1 DEF TypeOK
  <2>3. ASSUME NEW u \in Id, NEW x \in Nat \ {0}, Holds(u, x)'
        PROVE  thread_results'[u] = Elems(First(u), End(u, x))
    <3>1. Holds(u, x)
      BY <2>1, <2>2, <2>3 DEF Holds
    <3>. QED  BY <2>1, <3>1 DEF ResultInv
  <2>4. ASSUME NEW u \in Id, pc'[u] = "combine"
        PROVE  operand'[u] = thread_results'[partner_thread_id(u)']
    <3>1. partner_thread_id(u)' = partner_thread_id(u)
      BY <2>1 DEF partner_thread_id
    <3>2. CASE u = t
      BY <2>1, <3>1, <3>2 DEF TypeOK
    <3>3. CASE u # t
      BY <2>1, <2>4, <3>1, <3>3 DEF ResultInv, TypeOK
    <3>. QED  BY <3>2, <3>3
  <2>5. ASSUME NEW u \in Id, u = 0, pc'[u] \in {"free", "done"}
        PROVE  result' = Elems(0, NUM_ELEMS)
    BY <2>1, <2>5 DEF ResultInv, TypeOK
  <2>. QED  BY <2>3, <2>4, <2>5 DEF ResultInv
<1>7. ASSUME NEW t \in Id, Combine(t) PROVE ResultInv'
  <2>1. /\ pc[t] = "combine" /\ pc'[t] = "enter" /\ step'[t] = 2 * step[t]
        /\ thread_results'[t] = thread_results[t] \o operand[t] /\ UNCHANGED <<operand, result>>
        /\ \A u \in Id \ {t} : /\ pc'[u] = pc[u] /\ step'[u] = step[u]
                               /\ thread_results'[u] = thread_results[u]
    BY <1>7 DEF Combine, TypeOK
  <2>2. \A u \in Id : pc[u] = "combine" => partner_thread_id(u) # t
    BY <1>2, <2>1
  <2>3. PICK y \in Nat \ {0}, v \in Id :
          /\ y = step[t] /\ v = partner_thread_id(t) /\ v = t + y
          /\ t % (2 * y) = 0 /\ y < NUM_THREADS /\ v < NUM_THREADS
    BY <1>2, <2>1 DEF PointInv, PointOK, TypeOK, Combines, partner_thread_id
  <2>4. t \in Nat /\ v \in Nat /\ t % y = 0
    BY <1>1, <2>3, PartnerMod
  <2>5. Holds(t, y)
    BY <2>1, <2>3, <2>4 DEF Holds
  <2>6. Holds(v, y)
    BY <2>1, <2>3, PartnerHolds DEF PointInv, PointOK
  <2>7. thread_results[t] = Elems(First(t), End(t, y)) /\ End(t, y) = First(v)
    BY <2>3, <2>5 DEF ResultInv, End
  <2>8. operand[t] = Elems(First(v), End(v, y))
    BY <2>1, <2>3, <2>6 DEF ResultInv
  <2>9. End(v, y) = End(t, 2 * y)
    BY <2>3, <2>4 DEF End
  <2>10. thread_results'[t] = Elems(First(t), End(t, 2 * y))
    <3>1. /\ First(t) \in Nat /\ First(v) \in Nat /\ End(v, y) \in Nat
          /\ First(t) <= First(v) /\ First(v) <= End(v, y)
      BY <2>7, SliceBounds
    <3>2. Elems(First(t), First(v)) \o Elems(First(v), End(v, y))
            = Elems(First(t), End(v, y))
      BY <3>1, ElemsConcat
    <3>3. thread_results'[t] = thread_results[t] \o operand[t]
      BY <2>1
    <3>. QED  BY <2>7, <2>8, <2>9, <3>2, <3>3
  <2>11. ASSUME NEW x \in Nat \ {0}, Holds(t, x)'
         PROVE  thread_results'[t] = Elems(First(t), End(t, x))
    <3>1. 2 * y = x \/ (2 * y = 2 * x /\ t % (2 * x) # 0)
      BY <2>1, <2>3, <2>11 DEF Holds
    <3>2. 2 * y = x
      BY <2>3, <3>1
    <3>. QED  BY <2>10, <3>2
  <2>. QED  BY <1>2, <2>1, <2>2, <2>11, WriteFrame
<1>8. ASSUME NEW t \in Id, SkipLevel(t) PROVE ResultInv'
  <2>1. /\ pc[t] = "level" /\ pc'[t] = "enter" /\ step'[t] = 2 * step[t] /\ ~Combines(t)
        /\ UNCHANGED <<thread_results, operand, result>>
        /\ \A u \in Id \ {t} : pc'[u] = pc[u] /\ step'[u] = step[u]
    BY <1>8 DEF SkipLevel, TypeOK
  <2>2. PICK y \in Nat \ {0} : y = step[t] /\ (t % (2 * y) # 0 \/ t + y >= NUM_THREADS)
    BY <1>1, <2>1 DEF TypeOK, Combines, partner_thread_id
  <2>3. ASSUME NEW x \in Nat \ {0}, Holds(t, x)'
        PROVE  thread_results'[t] = Elems(First(t), End(t, x))
    <3>1. t % x = 0 /\ (2 * y = x \/ (2 * y = 2 * x /\ t % (2 * x) # 0))
      BY <2>1, <2>2, <2>3 DEF Holds
    <3>2. CASE 2 * y = x
      <4>1. t \in Nat /\ t % (2 * y) = 0
        BY <1>1, <3>1, <3>2
      <4>2. t % y = 0 /\ t + y >= NUM_THREADS
        BY <2>2, <4>1, PartnerMod
      <4>3. Holds(t, y)
        BY <2>1, <2>2, <4>2 DEF Holds
      <4>4. End(t, y) = NUM_ELEMS /\ End(t, x) = NUM_ELEMS
        <5>1. ~(t + y < NUM_THREADS) /\ ~(t + x < NUM_THREADS)
          BY <1>1, <3>2, <4>2
        <5>. QED  BY <5>1 DEF End
      <4>. QED  BY <2>1, <4>3, <4>4 DEF ResultInv
    <3>3. CASE 2 * y = 2 * x
      <4>1. x = y
        BY <3>3
      <4>2. Holds(t, x)
        BY <2>1, <2>2, <3>1, <4>1 DEF Holds
      <4>. QED  BY <2>1, <4>2 DEF ResultInv
    <3>. QED  BY <3>1, <3>2, <3>3
  <2>. QED  BY <1>2, <2>1, <2>3, WriteFrame
<1>9. ASSUME NEW t \in Id, Store(t) PROVE ResultInv'
  <2>1. /\ pc[t] = "level" /\ pc' = [pc EXCEPT ![t] = "free"] /\ step[t] >= NUM_THREADS
        /\ result' = (IF t = 0 THEN thread_results[0] ELSE result)
        /\ UNCHANGED <<step, operand, thread_results>>
    BY <1>9 DEF Store
  <2>2. \A u \in Id : pc'[u] \in {"none", "publish"} <=> pc[u] \in {"none", "publish"}
    BY <2>1 DEF TypeOK
  <2>3. ASSUME NEW u \in Id, NEW x \in Nat \ {0}, Holds(u, x)'
        PROVE  thread_results'[u] = Elems(First(u), End(u, x))
    <3>1. Holds(u, x)
      BY <2>1, <2>2, <2>3 DEF Holds
    <3>. QED  BY <2>1, <3>1 DEF ResultInv
  <2>4. ASSUME NEW u \in Id, pc'[u] = "combine"
        PROVE  operand'[u] = thread_results'[partner_thread_id(u)']
    BY <2>1, <2>4 DEF ResultInv, TypeOK, partner_thread_id
  <2>5. ASSUME NEW u \in Id, u = 0, pc'[u] \in {"free", "done"}
        PROVE  result' = Elems(0, NUM_ELEMS)
    <3>1. CASE u = t
      <4>1. PICK x \in Nat \ {0} : x = step[t] /\ x >= NUM_THREADS
        BY <2>1 DEF TypeOK
      <4>2. t = 0 /\ t % x = 0
        <5>1. 0 = x * 0 + 0 /\ 0 \in 0 .. x - 1
          OBVIOUS
        <5>2. 0 % x = 0
          BY <5>1, ModUnique
        <5>. QED  BY <2>5, <3>1, <5>2
      <4>3. Holds(t, x)
        BY <2>1, <4>1, <4>2 DEF Holds
      <4>4. First(t) = 0
        <5>1. elems_per_thread \in Nat
          BY DivMod DEF ReductionConstants, elems_per_thread
        <5>. QED  BY <4>2, <5>1 DEF First
      <4>5. End(t, x) = NUM_ELEMS
        BY <1>1, <4>1, <4>2 DEF End
      <4>. QED  BY <2>1, <4>2, <4>3, <4>4, <4>5 DEF ResultInv
    <3>2. CASE u # t
      BY <2>1, <2>5, <3>2 DEF ResultInv, TypeOK
    <3>. QED  BY <3>1, <3>2
  <2>. QED  BY <2>3, <2>4, <2>5 DEF ResultInv
<1>10. ASSUME NEW t \in Id, Free(t) PROVE ResultInv'
  <2>1. /\ UNCHANGED <<thread_results, step, operand, result>>
        /\ pc[t] = "free" /\ pc'[t] = "done" /\ \A u \in Id \ {t} : pc'[u] = pc[u]
    BY <1>10 DEF Free, TypeOK
  <2>. QED  BY <2>1, ResultFrame
<1>11. CASE UNCHANGED vars
  BY <1>11, ResultFrame DEF vars
<1>. QED  BY <1>3, <1>4, <1>5, <1>6, <1>7, <1>8, <1>9, <1>10, <1>11
          DEF Next, ThreadStep, Returned

-----------------------------------------------------------------------------

LEMMA ReductionInvariance ==
    ASSUME ReductionConstants
    PROVE  Spec => []ReductionInv
<1>1. Init => ReductionInv
  BY ReductionInitInv
<1>2. ReductionInv /\ [Next]_vars => ReductionInv'
  BY ReductionStepType, StepPointInv, StepLevelInv, StepCallerInv, StepResultInv DEF ReductionInv
<1>. QED  BY <1>1, <1>2, PTL DEF Spec

(* What a thread absorbs is allocated, and at rest.                        *)
THEOREM Undisturbed ==
    ASSUME ReductionConstants
    PROVE  Spec => []CombinesUndisturbed
<1>1. ReductionInv => CombinesUndisturbed
  <2>. SUFFICES ASSUME ReductionInv, NEW t \in Id, pc[t] = "combine"
                PROVE  /\ {t, partner_thread_id(t)} \subseteq live
                       /\ operand[t] = thread_results[partner_thread_id(t)]
                       /\ \A u \in Id \ {t} : pc[u] = "combine" =>
                             {t, partner_thread_id(t)} \cap {u, partner_thread_id(u)} = {}
    BY DEF CombinesUndisturbed
  <2>1. TypeOK /\ PointInv /\ LevelInv /\ ResultInv
    BY DEF ReductionInv
  <2>2. ASSUME NEW u \in Id, pc[u] = "combine"
        PROVE  /\ partner_thread_id(u) \in Id /\ partner_thread_id(u) \in live
               /\ pc[partner_thread_id(u)] # "combine"
    <3>1. step[u] < NUM_THREADS /\ Combines(u)
      BY <2>1, <2>2 DEF PointInv, PointOK
    <3>. QED  BY <2>1, <2>2, <3>1, PartnerHolds
  <2>3. t \in live
    BY <2>1 DEF PointInv, PointOK
  <2>4. ASSUME NEW u \in Id \ {t}, pc[u] = "combine"
        PROVE  {t, partner_thread_id(t)} \cap {u, partner_thread_id(u)} = {}
    <3>1. step[t] = step[u] /\ step[t] \in Nat /\ t \in Nat /\ u \in Nat
      BY <2>1, <2>4, SameStep, Ids DEF TypeOK
    <3>2. partner_thread_id(t) # partner_thread_id(u)
      BY <3>1 DEF partner_thread_id
    <3>. QED  BY <2>2, <2>4, <3>2
  <2>. QED  BY <2>1, <2>2, <2>3, <2>4 DEF ResultInv
<1>. QED  BY <1>1, ReductionInvariance, PTL

(* At each level, the threads that are left hold the slices of the others. *)
THEOREM Partial ==
    ASSUME ReductionConstants
    PROVE  Spec => []PartialResults
<1>1. ReductionInv => PartialResults
  <2>. SUFFICES ASSUME ReductionInv, NEW t \in Id, pc[t] = "level", t % step[t] = 0
                PROVE  thread_results[t] = Elems(First(t), IF t + step[t] < NUM_THREADS
                                                           THEN First(t + step[t])
                                                           ELSE NUM_ELEMS)
    BY DEF PartialResults, ReductionInv
  <2>1. Holds(t, step[t]) /\ step[t] \in Nat \ {0}
    BY DEF Holds, ReductionInv, TypeOK
  <2>. QED  BY <2>1 DEF ReductionInv, ResultInv, End
<1>. QED  BY <1>1, ReductionInvariance, PTL

(* reduce_common returns the reduction of the whole array, in order.       *)
THEOREM Complete ==
    ASSUME ReductionConstants
    PROVE  Spec => []ResultComplete
<1>1. ReductionInv => ResultComplete
  <2>. SUFFICES ASSUME ReductionInv, freed
                PROVE  /\ result = Elems(0, NUM_ELEMS)
                       /\ live = {} /\ inside = {} /\ released = {}
    BY DEF ResultComplete
  <2>1. \A t \in Id : pc[t] = "done"
    BY Ids DEF ReductionInv, CallerInv, Id
  <2>2. live = {} /\ inside = {} /\ released = {}
    BY <2>1 DEF ReductionInv, TypeOK, PointInv, PointOK
  <2>. QED  BY <2>1, <2>2, Ids DEF ReductionInv, ResultInv
<1>. QED  BY <1>1, ReductionInvariance, PTL
=============================================================================
