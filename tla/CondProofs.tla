------------------------------ MODULE CondProofs ------------------------------
(***************************************************************************)
(* The waiting list of a condition variable holds exactly the threads that *)
(* wait, and the condition variable implements AbstractCond.               *)
(***************************************************************************)
EXTENDS WaitlistProofs, Cond

-----------------------------------------------------------------------------
(* The inductive invariant.                                                *)

DecPoint == {"signal_dec", "broadcast_dec"}

(* Points of a thread that holds p_lock.                                   *)
PLockPoint == WaitLockPoint \cup DecPoint \cup
    {"signal", "broadcast", "notify_unlock", "cond_check", "cond_unlock", "cond_wait",
     "timed_check", "timed_out"}

(* Points of a thread that has joined the list.                            *)
ListPoint == WaitPoint \cup TimedPoint

PLockExclusion ==
    /\ \A t, u \in Client : pc[t] \in PLockPoint /\ pc[u] \in PLockPoint => t = u
    /\ \A t \in Client : pc[t] \in PLockPoint => p_lock

(* A thread is at a point of the operation it is about; dummies execute    *)
(* nothing.                                                                *)
CallOK(t) ==
    /\ pc[t] \in {"suspend", "suspend_unlock", "waiting"} => t \in ULT /\ Wants(t, {"wait"})
    /\ pc[t] \in {"ext_check", "ext_futex", "ext_relock"} => t \in EXT /\ Wants(t, {"wait"})
    /\ pc[t] \in {"timed_poll", "timed_lock"} => t \in ULT
    /\ pc[t] \in {"timed_check", "timed_futex", "timed_relock"} => t \in EXT
    /\ pc[t] \in TimedPoint => Wants(t, {"timedwait"})
    /\ pc[t] \in {"cond_check", "cond_unlock", "cond_wait", "relock"}
         => Wants(t, {"wait", "timedwait"})
    /\ pc[t] \in {"notify", "signal", "broadcast", "notify_unlock", "notified"} \cup DecPoint
         => Wants(t, {"signal", "broadcast"})
    /\ pc[t] \in {"locked", "refused"} => program[t] # <<>>

CallInv ==
    /\ \A t \in Client : CallOK(t)
    /\ \A d \in Dummies : pc[d] = "idle"

(* A ULT that is READY is in the pool, one that runs on one ES; only one   *)
(* that is suspending is BLOCKED on its ES.                                *)
PlaceInv ==
    /\ IsInjective(pool)
    /\ \A d, e \in XSTREAM : p_thread[d] = p_thread[e] /\ p_thread[d] # NULL => d = e
    /\ \A u \in Range(pool) : state[u] = "READY" /\ u \notin OnXstream
    /\ \A u \in OnXstream : /\ state[u] \in {"RUNNING", "BLOCKED"}
                            /\ state[u] = "BLOCKED" => pc[u] = "suspend_unlock"
    /\ \A u \in ULT : pc[u] \in {"suspend", "suspend_unlock"} => u \in OnXstream

Asleep(t) == pc[t] \in ListPoint /\ (state[Entry(t)] = "BLOCKED" \/ pc[t] = "suspend")

ListInv ==
    /\ IsInjective(waitlist)
    /\ Waiters = {Entry(t) : t \in {t \in Client : Asleep(t)}}
    /\ \A t \in Client : pc[t] \in TimedPoint => state[Entry(t)] \in {"BLOCKED", "READY"}

(* A consumer that is to wait owns its mutex, and has not timed out.       *)
OwnInv ==
    /\ \A t \in Client : pc[t] \in {"locked", "cond_check", "cond_unlock"}
         => owner[Mutex(t)] = t
    /\ \A t \in Client : pc[t] \in ListPoint \cup {"cond_check", "cond_unlock", "cond_wait"}
         => ~is_timedout[t]

CountedInv ==
    num_blocked = Cardinality(Blocked)
                + (IF \E t \in Client : pc[t] \in DecPoint THEN 1 ELSE 0)

USE DEF Thread, YthreadTypeOK, WaitlistTypeOK, ythreadVars, waitlistVars

-----------------------------------------------------------------------------
(* The entries of the list.                                                *)

(* What is left when the element at position k is removed.                 *)
LEMMA RemoveElements ==
    ASSUME NEW S, NEW s \in Seq(S), NEW k \in DOMAIN s
    PROVE  /\ RemoveAt(s, k) \in Seq(S)
           /\ Len(RemoveAt(s, k)) = Len(s) - 1
           /\ \A i \in 1 .. Len(s) - 1 :
                RemoveAt(s, k)[i] = IF i < k THEN s[i] ELSE s[i + 1]
<1>. DEFINE a == SubSeq(s, 1, k - 1)
            b == SubSeq(s, k + 1, Len(s))
            r == RemoveAt(s, k)
<1>1. k \in 1 .. Len(s) /\ Len(s) \in Nat
  OBVIOUS
<1>2. /\ a \in Seq(S) /\ Len(a) = k - 1
      /\ \A i \in 1 .. k - 1 : a[i] = s[i]
  BY <1>1
<1>3. /\ b \in Seq(S) /\ Len(b) = Len(s) - k
      /\ \A i \in 1 .. Len(s) - k : b[i] = s[k + i]
  BY <1>1
<1>4. r = a \o b
  BY DEF RemoveAt
<1>. HIDE DEF a, b, r
<1>5. r \in Seq(S) /\ Len(r) = Len(a) + Len(b)
  <2>1. a \o b \in Seq(S)
    BY <1>2, <1>3
  <2>2. Len(a \o b) = Len(a) + Len(b)
    <3>1. a \in Seq(S) /\ b \in Seq(S)
      BY <1>2, <1>3
    <3>. QED  BY <3>1
  <2>. QED  BY <1>4, <2>1, <2>2
<1>6. Len(r) = Len(s) - 1
  BY <1>1, <1>2, <1>3, <1>5
<1>7. ASSUME NEW i \in 1 .. Len(s) - 1
      PROVE  r[i] = IF i < k THEN s[i] ELSE s[i + 1]
  <2>1. CASE i < k
    BY <1>1, <1>2, <1>3, <1>4, <2>1
  <2>2. CASE i >= k
    <3>1. i - (k - 1) \in 1 .. Len(s) - k /\ k + (i - (k - 1)) = i + 1
      BY <1>1, <2>2
    <3>2. (a \o b)[i] = b[i - Len(a)]
      <4>1. a \in Seq(S) /\ b \in Seq(S) /\ Len(a) = k - 1 /\ Len(b) = Len(s) - k
        BY <1>2, <1>3
      <4>2. i \in 1 .. Len(a) + Len(b) /\ i > Len(a)
        BY <1>1, <2>2, <4>1
      <4>. QED  BY <4>1, <4>2
    <3>3. r[i] = b[i - (k - 1)]
      BY <1>2, <1>4, <3>2
    <3>. QED  BY <1>1, <1>3, <2>2, <3>1, <3>3
  <2>. QED  BY <1>1, <2>1, <2>2
<1>. QED  BY <1>5, <1>6, <1>7 DEF r

(* A thread in the middle of the list leaves it, and only it.              *)
LEMMA RemoveRange ==
    ASSUME NEW S, NEW s \in Seq(S), IsInjective(s), NEW k \in DOMAIN s
    PROVE  /\ IsInjective(RemoveAt(s, k))
           /\ Range(RemoveAt(s, k)) = Range(s) \ {s[k]}
<1>. DEFINE r == RemoveAt(s, k)
<1>1. k \in 1 .. Len(s) /\ Len(s) \in Nat /\ DOMAIN s = 1 .. Len(s)
  OBVIOUS
<1>2. /\ r \in Seq(S) /\ Len(r) = Len(s) - 1
      /\ \A i \in 1 .. Len(s) - 1 : r[i] = IF i < k THEN s[i] ELSE s[i + 1]
  BY RemoveElements
<1>6. DOMAIN r = 1 .. Len(s) - 1
  BY <1>2
<1>. HIDE DEF r
<1>3. IsInjective(r)
  <2>1. SUFFICES ASSUME NEW i \in 1 .. Len(s) - 1, NEW j \in 1 .. Len(s) - 1, r[i] = r[j]
                 PROVE  i = j
    BY <1>6 DEF IsInjective
  <2>2. PICK m \in DOMAIN s : m = (IF i < k THEN i ELSE i + 1)
    BY <1>1
  <2>3. PICK n \in DOMAIN s : n = (IF j < k THEN j ELSE j + 1)
    BY <1>1
  <2>4. s[m] = s[n]
    BY <1>2, <2>1, <2>2, <2>3
  <2>5. m = n
    BY <2>4 DEF IsInjective
  <2>. QED  BY <1>1, <2>2, <2>3, <2>5
<1>4. Range(r) \subseteq Range(s) \ {s[k]}
  BY <1>1, <1>2, <1>6 DEF IsInjective, Range
<1>5. ASSUME NEW i \in DOMAIN s, i # k PROVE s[i] \in Range(r)
  <2>1. CASE i < k
    <3>1. i \in DOMAIN r /\ r[i] = s[i]
      BY <1>1, <1>2, <1>6, <2>1
    <3>. QED  BY <3>1 DEF Range
  <2>2. CASE i > k
    <3>1. i - 1 \in DOMAIN r /\ r[i - 1] = s[i]
      BY <1>1, <1>2, <1>6, <2>2
    <3>. QED  BY <3>1 DEF Range
  <2>. QED  BY <1>1, <1>5, <2>1, <2>2
<1>. QED  BY <1>3, <1>4, <1>5 DEF Range, r

(* Each ULT has a dummy of its own, which executes nothing.                *)
LEMMA Clients ==
    /\ ULT \subseteq Client /\ Client \subseteq Thread
    /\ Dummies \subseteq EXT /\ Dummies \cap Client = {}
    /\ \A u \in ULT : DUMMY[u] \in Dummies
    /\ \A u, v \in ULT : DUMMY[u] = DUMMY[v] => u = v
  BY CondAssumption, ThreadAssumption DEF Client, Dummies, Range, IsInjective

(* No two threads have the same entry, and only a ULT that waits without a *)
(* timeout is its own.                                                     *)
LEMMA Entries ==
    /\ \A t \in Client : Entry(t) \in Thread
    /\ \A t \in Client \cap EXT : Entry(t) = t
    /\ \A t \in ULT : Entry(t) = IF Wants(t, {"timedwait"}) THEN DUMMY[t] ELSE t
    /\ \A t, u \in Client : Entry(t) = u => t = u
    /\ \A t, u \in Client : Entry(t) = Entry(u) => t = u
<1>1. \A t \in Client : t \in ULT \/ t \in Client \cap EXT
  BY Clients
<1>2. \A t \in Client \cap EXT : Entry(t) = t
  BY ThreadAssumption DEF Entry
<1>3. \A t \in ULT : Entry(t) = IF Wants(t, {"timedwait"}) THEN DUMMY[t] ELSE t
  BY DEF Entry
<1>4. \A t \in ULT : Entry(t) \in Dummies \cup {t}
  BY <1>3, Clients
<1>5. \A t, u \in Client : Entry(t) = u => t = u
  BY <1>1, <1>2, <1>4, Clients
<1>6. \A t, u \in Client : Entry(t) = Entry(u) => t = u
  BY <1>1, <1>2, <1>3, <1>5, Clients
<1>7. \A t \in Client : Entry(t) \in Thread
  BY <1>1, <1>2, <1>4, Clients
<1>. QED  BY <1>2, <1>3, <1>5, <1>6, <1>7

-----------------------------------------------------------------------------
(* The types.                                                              *)

CondTypes ==
    /\ YthreadTypeOK(Point)
    /\ WaitlistTypeOK
    /\ p_waiter_mutex \in MUTEX \cup {NULL}
    /\ owner \in [MUTEX -> Client \cup {NULL}]
    /\ time_over \in [Client -> BOOLEAN]
    /\ is_timedout \in [Client -> BOOLEAN]
    /\ items \in Nat
    /\ program \in [Client -> Seq(Operation)]

(* A thread that has an operation left has a mutex.                        *)
LEMMA ProgramTypes ==
    ASSUME CondTypes, NEW t \in Client, program[t] # <<>>
    PROVE  /\ Mutex(t) \in MUTEX
           /\ Head(program[t])[1] \in {"wait", "timedwait", "signal", "broadcast"}
           /\ Tail(program[t]) \in Seq(Operation)
<1>1. program[t] \in Seq(Operation)
  BY DEF CondTypes
<1>2. Head(program[t]) \in Operation /\ Tail(program[t]) \in Seq(Operation)
  BY <1>1
<1>. QED  BY <1>2 DEF Mutex, Operation

(* Each step keeps the types.                                              *)
LEMMA StepTypes == CondTypes /\ CallInv /\ [CondNext]_vars => CondTypes'
<1>. SUFFICES ASSUME CondTypes, CallInv, [CondNext]_vars PROVE CondTypes'
  OBVIOUS
<1>. USE DEF CondTypes, Point, InWait, WaitPoint, TimedPoint, condVars, GoTo, At
<1>0. Client \subseteq Thread
  BY Clients
<1>1. ASSUME NEW t \in Client, LockMutex(t) PROVE CondTypes'
  BY <1>1 DEF LockMutex, Take
<1>2. ASSUME NEW t \in Client, Leave(t) PROVE CondTypes'
  <2>1. items' \in Nat
    BY <1>2 DEF Leave
  <2>2. owner' \in [MUTEX -> Client \cup {NULL}]
    BY <1>2 DEF Leave, Give
  <2>3. program[t] # <<>>
    BY <1>2 DEF Leave, CallInv, CallOK, Wants
  <2>4. program' \in [Client -> Seq(Operation)]
    BY <1>2, <2>3, ProgramTypes DEF Leave, OperationDone
  <2>. QED  BY <1>2, <2>1, <2>2, <2>4 DEF Leave, OperationDone
<1>3. ASSUME NEW t \in Client, Produce(t) PROVE CondTypes'
  <2>1. owner' \in [MUTEX -> Client \cup {NULL}]
    BY <1>3 DEF Produce, Give
  <2>2. items' \in Nat
    BY <1>3 DEF Produce
  <2>. QED  BY <1>3, <2>1, <2>2 DEF Produce
<1>4. ASSUME NEW t \in Client, NotifyLock(t) PROVE CondTypes'
  <2>1. Head(program[t])[1] \in {"signal", "broadcast"}
    BY <1>4 DEF NotifyLock, SpinAcquire, CallInv, CallOK, Wants
  <2>. QED  BY <1>4, <2>1 DEF NotifyLock, SpinAcquire
<1>5. ASSUME NEW t \in Client, Notify(t) PROVE CondTypes'
  <2>. USE DEF Notify
  <2>1. CASE Broadcast(t, "broadcast", "broadcast_dec", "notify_unlock")
    <3>1. {"broadcast", "broadcast_dec", "notify_unlock"} \subseteq Point
      OBVIOUS
    <3>. HIDE DEF Point, YthreadTypeOK, WaitlistTypeOK
    <3>2. YthreadTypeOK(Point)' /\ WaitlistTypeOK'
      BY <1>0, <2>1, <3>1, BroadcastTypes
    <3>. QED  BY <1>5, <3>2
  <2>2. CASE SignalNone(t, "signal", "notify_unlock")
    BY <1>5, <2>2 DEF SignalNone
  <2>3. CASE BroadcastDec(t, "signal_dec", "notify_unlock")
    <3>1. num_blocked' \in Int
      BY <2>3 DEF BroadcastDec, ResumeDecNumBlocked
    <3>2. pc' \in [Thread -> Point]
      BY <2>3 DEF BroadcastDec, ResumeDecNumBlocked
    <3>. QED  BY <1>5, <2>3, <3>1, <3>2 DEF BroadcastDec, ResumeDecNumBlocked
  <2>4. CASE SignalOne(t, "signal", "signal_dec", "notify_unlock")
    <3>. DEFINE w == Head(waitlist)
    <3>1. waitlist' \in Seq(Thread) /\ w \in Thread
      BY <2>4, TailRange DEF SignalOne
    <3>2. CASE w \in ULT /\ ResumePush(t, w, "signal_dec") /\ UNCHANGED futex
      <4>1. pool' \in Seq(ULT)
        BY <3>2, AppendRange DEF ResumePush, AddThread
      <4>. QED  BY <1>5, <2>4, <3>1, <3>2, <4>1 DEF SignalOne, ResumePush, AddThread, State
    <3>3. CASE w \in EXT /\ state' = [state EXCEPT ![w] = "READY"] /\ futex' = {}
               /\ GoTo(t, "notify_unlock") /\ UNCHANGED <<p_thread, pool, num_blocked>>
      BY <1>5, <2>4, <3>1, <3>3 DEF SignalOne, State
    <3>. QED  BY <2>4, <3>2, <3>3 DEF SignalOne
  <2>. QED  BY <1>5, <2>1, <2>2, <2>3, <2>4 DEF Signal
<1>6. ASSUME NEW t \in Client, NotifyUnlock(t) PROVE CondTypes'
  BY <1>6 DEF NotifyUnlock, SpinRelease
<1>7. ASSUME NEW t \in Client, CondLock(t) PROVE CondTypes'
  BY <1>7 DEF CondLock, SpinAcquire
<1>8. ASSUME NEW t \in Client, CondCheck(t) PROVE CondTypes'
  <2>1. Mutex(t) \in MUTEX
    BY <1>8, ProgramTypes DEF CondCheck, CallInv, CallOK, Wants
  <2>. QED  BY <1>8, <2>1 DEF CondCheck
<1>9. ASSUME NEW t \in Client, CondUnlock(t) PROVE CondTypes'
  BY <1>9 DEF CondUnlock, Give
<1>10. ASSUME NEW t \in Client, CondWait(t) PROVE CondTypes'
  BY <1>0, <1>10, WaitAppendTypes DEF CondWait
<1>11. ASSUME NEW t \in Client, CondWaitStep(t) PROVE CondTypes'
  BY <1>0, <1>11, WaitStepTypes DEF CondWaitStep
<1>12. ASSUME NEW t \in Client, TimedAppend(t) PROVE CondTypes'
  <2>1. Entry(t) \in Thread
    BY Entries
  <2>2. waitlist' \in Seq(Thread)
    BY <1>12, <2>1, AppendRange DEF TimedAppend
  <2>. QED  BY <1>12, <2>1, <2>2 DEF TimedAppend, State
<1>13. ASSUME NEW t \in Client, TimePasses(t) PROVE CondTypes'
  BY <1>13 DEF TimePasses
<1>14. ASSUME NEW t \in Client, TimedPoll(t) PROVE CondTypes'
  <2>1. CASE Yield(t, "timed_poll")
    BY <1>0, <1>14, <2>1, SwitchTypes DEF TimedPoll
  <2>2. CASE ~Yield(t, "timed_poll")
    BY <1>14, <2>2 DEF TimedPoll
  <2>. QED  BY <2>1, <2>2
<1>15. ASSUME NEW t \in Client, TimedLock(t) PROVE CondTypes'
  BY <1>15 DEF TimedLock, SpinAcquire
<1>16. ASSUME NEW t \in Client, TimedCheck(t) PROVE CondTypes'
  BY <1>0, <1>16 DEF TimedCheck
<1>17. ASSUME NEW t \in Client, TimedFutexWake(t) PROVE CondTypes'
  BY <1>17 DEF TimedFutexWake
<1>18. ASSUME NEW t \in Client, TimedRelock(t) PROVE CondTypes'
  BY <1>18 DEF TimedRelock, SpinAcquire
<1>19. ASSUME NEW t \in Client, TimedOut(t) PROVE CondTypes'
  <2>1. waitlist' \in Seq(Thread)
    BY <1>19, RemoveElements DEF TimedOut
  <2>. QED  BY <1>19, <2>1 DEF TimedOut
<1>20. ASSUME NEW t \in Client, Relock(t) PROVE CondTypes'
  BY <1>20 DEF Relock, Take
<1>21. ASSUME NEW t \in Client, ThreadExit(t) PROVE CondTypes'
  BY <1>0, <1>21, SwitchTypes DEF ThreadExit
<1>22. ASSUME NEW e \in XSTREAM, CondSchedule(e) PROVE CondTypes'
  BY <1>22, SwitchTypes DEF CondSchedule
<1>23. CASE UNCHANGED vars
  BY <1>23 DEF vars
<1>. QED
  BY <1>1, <1>2, <1>3, <1>4, <1>5, <1>6, <1>7, <1>8, <1>9, <1>10, <1>11, <1>12, <1>13,
     <1>14, <1>15, <1>16, <1>17, <1>18, <1>19, <1>20, <1>21, <1>22, <1>23
  DEF CondNext, CondStep, AllDone

-----------------------------------------------------------------------------
(* p_lock.                                                                 *)

(* A step of t that takes p_lock, releases it, or leaves it as it is.      *)
LEMMA LockFrame ==
    ASSUME CondTypes, PLockExclusion, NEW t \in Client,
           \A u \in Client : u # t => pc'[u] = pc[u],
           \/ pc'[t] \notin PLockPoint /\ (pc[t] \in PLockPoint \/ p_lock' = p_lock)
           \/ pc[t] \in PLockPoint /\ p_lock' = p_lock
           \/ ~p_lock /\ p_lock' = TRUE
    PROVE  PLockExclusion'
  BY DEF PLockExclusion, CondTypes

(* The holder alone is at a point of the holder.                           *)
LEMMA HolderAlone ==
    ASSUME PLockExclusion, CallInv, NEW t \in Client, pc[t] \in PLockPoint
    PROVE  \A u \in Thread : pc[u] \in PLockPoint => u = t
<1>1. \A d \in Dummies : pc[d] \notin PLockPoint
  BY DEF CallInv, PLockPoint, WaitLockPoint, DecPoint
<1>. QED  BY <1>1 DEF PLockExclusion, Client

(* p_lock keeps its holders apart.                                         *)
LEMMA StepLock == CondTypes /\ PLockExclusion /\ CallInv /\ [CondNext]_vars => PLockExclusion'
<1>. SUFFICES ASSUME CondTypes, PLockExclusion, CallInv, [CondNext]_vars
              PROVE  PLockExclusion'
  OBVIOUS
<1>. USE DEF CondTypes, PLockPoint, WaitLockPoint, DecPoint, condVars, GoTo, At
<1>0. Client \subseteq Thread
  BY Clients
<1>1. ASSUME NEW t \in Client, LockMutex(t) \/ Leave(t) \/ Produce(t) PROVE PLockExclusion'
  <2>1. pc[t] \notin PLockPoint /\ UNCHANGED p_lock
    BY <1>1 DEF LockMutex, Leave, Produce
  <2>2. pc'[t] \notin PLockPoint /\ \A u \in Client : u # t => pc'[u] = pc[u]
    BY <1>0, <1>1 DEF LockMutex, Leave, Produce, OperationDone
  <2>. QED  BY <2>1, <2>2, LockFrame
<1>2. ASSUME NEW t \in Client, NotifyLock(t) \/ CondLock(t) \/ TimedLock(t) \/ TimedRelock(t)
      PROVE  PLockExclusion'
  <2>1. ~p_lock /\ p_lock' = TRUE /\ \A u \in Client : u # t => pc'[u] = pc[u]
    BY <1>0, <1>2 DEF NotifyLock, CondLock, TimedLock, TimedRelock, SpinAcquire
  <2>. QED  BY <2>1, LockFrame
<1>3. ASSUME NEW t \in Client, Notify(t) PROVE PLockExclusion'
  <2>1. pc[t] \in PLockPoint /\ UNCHANGED p_lock
    BY <1>3 DEF Notify, Signal, SignalNone, SignalOne, BroadcastDec, Broadcast, BroadcastOne,
                BroadcastEnd
  <2>2. \/ UNCHANGED pc
        \/ \E l : GoTo(t, l)
    BY <1>3 DEF Notify, Signal, SignalNone, SignalOne, BroadcastDec, Broadcast, BroadcastOne,
                BroadcastEnd, ResumePush, ResumeDecNumBlocked
  <2>3. \A u \in Client : u # t => pc'[u] = pc[u]
    BY <1>0, <2>2
  <2>. QED  BY <2>1, <2>3, LockFrame
<1>4. ASSUME NEW t \in Client, NotifyUnlock(t) \/ TimedOut(t) PROVE PLockExclusion'
  <2>1. pc[t] \in PLockPoint /\ pc'[t] \notin PLockPoint
        /\ \A u \in Client : u # t => pc'[u] = pc[u]
    BY <1>0, <1>4 DEF NotifyUnlock, SpinRelease, TimedOut
  <2>. QED  BY <2>1, LockFrame
<1>5. ASSUME NEW t \in Client, CondCheck(t) \/ TimedCheck(t) PROVE PLockExclusion'
  <2>1. /\ pc[t] \in PLockPoint
        /\ pc'[t] \notin PLockPoint \/ UNCHANGED p_lock
        /\ \A u \in Client : u # t => pc'[u] = pc[u]
    BY <1>0, <1>5 DEF CondCheck, TimedCheck
  <2>. QED  BY <2>1, LockFrame
<1>6. ASSUME NEW t \in Client, CondUnlock(t) \/ CondWait(t) \/ TimedAppend(t)
      PROVE  PLockExclusion'
  <2>1. pc[t] \in PLockPoint
    BY <1>6 DEF CondUnlock, CondWait, TimedAppend, PLockExclusion
  <2>2. /\ pc'[t] \notin PLockPoint \/ UNCHANGED p_lock
        /\ \A u \in Client : u # t => pc'[u] = pc[u]
    BY <1>0, <1>6 DEF CondUnlock, CondWait, TimedAppend, WaitAppend
  <2>. QED  BY <2>1, <2>2, LockFrame
<1>7. ASSUME NEW t \in Client, CondWaitStep(t) PROVE PLockExclusion'
  <2>. USE DEF CondWaitStep, WaitStep
  <2>1. CASE SuspendBlock(t)
    BY <1>0, <2>1, LockFrame DEF SuspendBlock, CallbackBlock
  <2>2. CASE SuspendUnlock(t)
    BY <1>0, <2>2, LockFrame DEF SuspendUnlock
  <2>3. CASE WaitResumed(t, "relock")
    BY <1>0, <2>3, LockFrame DEF WaitResumed
  <2>4. CASE ExtReady(t, "relock")
    BY <1>0, <2>4, LockFrame DEF ExtReady, SpinRelease
  <2>5. CASE ExtFutexWait(t)
    BY <1>0, <2>5, LockFrame DEF ExtFutexWait
  <2>6. CASE ExtFutexWake(t, "relock")
    BY <1>0, <2>6, LockFrame DEF ExtFutexWake
  <2>7. CASE ExtRelock(t)
    BY <1>0, <2>7, LockFrame DEF ExtRelock, SpinAcquire
  <2>. QED  BY <1>7, <2>1, <2>2, <2>3, <2>4, <2>5, <2>6, <2>7
<1>8. ASSUME NEW t \in Client, TimedPoll(t) \/ TimedFutexWake(t) \/ Relock(t) \/ ThreadExit(t)
      PROVE  PLockExclusion'
  <2>1. UNCHANGED p_lock
    BY <1>8 DEF TimedPoll, TimedFutexWake, Relock, ThreadExit
  <2>2. pc'[t] \notin PLockPoint /\ \A u \in Client : u # t => pc'[u] = pc[u]
    BY <1>0, <1>8 DEF TimedPoll, TimedFutexWake, Relock, ThreadExit, Yield, Exit
  <2>. QED  BY <2>1, <2>2, LockFrame
<1>9. ASSUME \/ \E t \in Client : TimePasses(t)
             \/ \E e \in XSTREAM : CondSchedule(e)
             \/ UNCHANGED vars
      PROVE  PLockExclusion'
  <2>1. UNCHANGED <<pc, p_lock>>
    BY <1>9 DEF TimePasses, CondSchedule, Schedule, vars
  <2>. QED  BY <2>1 DEF PLockExclusion
<1>. QED
  BY <1>1, <1>2, <1>3, <1>4, <1>5, <1>6, <1>7, <1>8, <1>9 DEF CondNext, CondStep, AllDone

-----------------------------------------------------------------------------
(* The operations.                                                         *)

(* A step of t moves no other thread.                                      *)
LEMMA OthersStay ==
    ASSUME CondTypes, NEW t \in Client, CondStep(t) \/ TimePasses(t)
    PROVE  /\ \A u \in Thread : u # t => pc'[u] = pc[u]
           /\ \A u \in Client : u # t => program'[u] = program[u]
           /\ \A u \in Client : u # t => is_timedout'[u] = is_timedout[u]
<1>. USE DEF CondTypes, condVars, GoTo
<1>1. \A u \in Thread : u # t => pc'[u] = pc[u]
  <2>1. CASE LockMutex(t) \/ Leave(t) \/ Produce(t) \/ CondCheck(t) \/ CondUnlock(t)
    BY <2>1 DEF LockMutex, Leave, OperationDone, Produce, CondCheck, CondUnlock
  <2>2. CASE NotifyLock(t) \/ NotifyUnlock(t) \/ CondLock(t) \/ TimedLock(t) \/ TimedRelock(t)
    BY <2>2 DEF NotifyLock, NotifyUnlock, CondLock, TimedLock, TimedRelock, SpinAcquire,
                SpinRelease
  <2>3. CASE Notify(t)
    BY <2>3 DEF Notify, Signal, SignalNone, SignalOne, BroadcastDec, Broadcast, BroadcastOne,
                BroadcastEnd, ResumePush, ResumeDecNumBlocked
  <2>4. CASE CondWait(t) \/ TimedAppend(t) \/ TimedPoll(t) \/ TimedCheck(t)
    BY <2>4 DEF CondWait, WaitAppend, TimedAppend, TimedPoll, Yield, TimedCheck
  <2>5. CASE CondWaitStep(t)
    BY <2>5 DEF CondWaitStep, WaitStep, SuspendBlock, CallbackBlock, SuspendUnlock, WaitResumed,
                ExtReady, SpinRelease, ExtFutexWait, ExtFutexWake, ExtRelock, SpinAcquire
  <2>6. CASE TimedFutexWake(t) \/ TimedOut(t) \/ Relock(t) \/ ThreadExit(t)
    BY <2>6 DEF TimedFutexWake, TimedOut, Relock, ThreadExit, Exit
  <2>7. CASE TimePasses(t)
    BY <2>7 DEF TimePasses
  <2>. QED  BY <2>1, <2>2, <2>3, <2>4, <2>5, <2>6, <2>7 DEF CondStep
<1>2. \/ UNCHANGED program
      \/ Leave(t)
  BY DEF CondStep, LockMutex, Produce, NotifyLock, Notify, NotifyUnlock, CondLock, CondCheck,
         CondUnlock, CondWait, CondWaitStep, TimedAppend, TimedPoll, TimedLock, TimedCheck,
         TimedFutexWake, TimedRelock, TimedOut, Relock, ThreadExit, TimePasses
<1>3. \A u \in Client : u # t => program'[u] = program[u]
  BY <1>2 DEF Leave, OperationDone
<1>4. \/ UNCHANGED is_timedout
      \/ LockMutex(t) \/ TimedOut(t)
  BY DEF CondStep, Leave, Produce, NotifyLock, Notify, NotifyUnlock, CondLock, CondCheck,
         CondUnlock, CondWait, CondWaitStep, TimedAppend, TimedPoll, TimedLock, TimedCheck,
         TimedFutexWake, TimedRelock, Relock, ThreadExit, TimePasses
<1>5. \A u \in Client : u # t => is_timedout'[u] = is_timedout[u]
  BY <1>4 DEF LockMutex, TimedOut
<1>. QED  BY <1>1, <1>3, <1>5

(* Only the end of an operation changes the program.                       *)
LEMMA ProgramStays ==
    ASSUME NEW t \in Client, CondStep(t), ~Leave(t)
    PROVE  /\ UNCHANGED program
           /\ \A u \in Client : Mutex(u)' = Mutex(u) /\ Entry(u)' = Entry(u)
           /\ \A u \in Client : \A ops : Wants(u, ops)' = Wants(u, ops)
<1>1. UNCHANGED program
  BY DEF CondStep, LockMutex, Produce, NotifyLock, Notify, NotifyUnlock, CondLock, CondCheck,
         CondUnlock, CondWait, CondWaitStep, TimedAppend, TimedPoll, TimedLock, TimedCheck,
         TimedFutexWake, TimedRelock, TimedOut, Relock, ThreadExit, condVars
<1>. QED  BY <1>1 DEF Mutex, Entry, Wants

(* t is at a point of its operation after its step.                        *)
LEMMA StepCallOK ==
    ASSUME CondTypes, CallInv, NEW t \in Client, CondStep(t)
    PROVE  CallOK(t)'
<1>. USE DEF CondTypes, CallOK, TimedPoint, DecPoint, condVars, GoTo, At
<1>0. t \in Thread /\ CallOK(t)
  BY Clients DEF CallInv
<1>1. CASE Leave(t)
  <2>1. pc'[t] = "idle"
    BY <1>0, <1>1 DEF Leave, OperationDone
  <2>. QED  BY <2>1
<1>. SUFFICES ASSUME ~Leave(t) PROVE CallOK(t)'
  BY <1>1
<1>2. \A ops : Wants(t, ops)' = Wants(t, ops)
  BY ProgramStays
<1>3. UNCHANGED program
  BY ProgramStays
<1>4. CASE LockMutex(t)
  BY <1>0, <1>3, <1>4 DEF LockMutex
<1>5. CASE Produce(t)
  BY <1>0, <1>2, <1>3, <1>5 DEF Produce
<1>6. CASE NotifyLock(t)
  <2>1. pc'[t] \in {"signal", "broadcast"} /\ Wants(t, {"signal", "broadcast"})
    BY <1>0, <1>6 DEF NotifyLock, SpinAcquire, Wants
  <2>. QED  BY <1>2, <2>1
<1>7. CASE Notify(t)
  <2>1. /\ Wants(t, {"signal", "broadcast"})
        /\ pc'[t] \in {"signal", "broadcast", "notify_unlock"} \cup DecPoint
    BY <1>0, <1>7 DEF Notify, Signal, SignalNone, SignalOne, BroadcastDec, Broadcast,
                      BroadcastOne, BroadcastEnd, ResumePush, ResumeDecNumBlocked
  <2>. QED  BY <1>2, <2>1
<1>8. CASE NotifyUnlock(t)
  BY <1>0, <1>2, <1>8 DEF NotifyUnlock, SpinRelease
<1>9. CASE CondLock(t)
  BY <1>0, <1>2, <1>9 DEF CondLock, SpinAcquire
<1>10. CASE CondCheck(t)
  BY <1>0, <1>2, <1>3, <1>10 DEF CondCheck, Wants
<1>11. CASE CondUnlock(t)
  BY <1>0, <1>2, <1>11 DEF CondUnlock
<1>12. CASE CondWait(t)
  BY <1>0, <1>2, <1>12, ThreadAssumption DEF CondWait, WaitAppend
<1>13. CASE CondWaitStep(t)
  <2>0. Wants(t, {"wait"}) => Wants(t, {"wait", "timedwait"})
    BY DEF Wants
  <2>. USE DEF CondWaitStep, WaitStep
  <2>1. CASE SuspendBlock(t)
    BY <1>0, <1>2, <2>1 DEF SuspendBlock, CallbackBlock
  <2>2. CASE SuspendUnlock(t)
    BY <1>0, <1>2, <2>2 DEF SuspendUnlock
  <2>3. CASE WaitResumed(t, "relock")
    BY <1>0, <1>2, <2>0, <2>3 DEF WaitResumed
  <2>4. CASE ExtReady(t, "relock")
    BY <1>0, <1>2, <2>0, <2>4 DEF ExtReady, SpinRelease
  <2>5. CASE ExtFutexWait(t)
    BY <1>0, <1>2, <2>5 DEF ExtFutexWait
  <2>6. CASE ExtFutexWake(t, "relock")
    BY <1>0, <1>2, <2>0, <2>6 DEF ExtFutexWake
  <2>7. CASE ExtRelock(t)
    BY <1>0, <1>2, <2>7 DEF ExtRelock, SpinAcquire
  <2>. QED  BY <1>13, <2>1, <2>2, <2>3, <2>4, <2>5, <2>6, <2>7
<1>14. Wants(t, {"timedwait"}) => Wants(t, {"wait", "timedwait"})
  BY DEF Wants
<1>15. CASE TimedAppend(t)
  BY <1>0, <1>2, <1>15, ThreadAssumption DEF TimedAppend
<1>16. CASE TimedPoll(t)
  BY <1>0, <1>2, <1>14, <1>16 DEF TimedPoll, Yield
<1>17. CASE TimedLock(t) \/ TimedRelock(t)
  BY <1>0, <1>2, <1>17 DEF TimedLock, TimedRelock, SpinAcquire
<1>18. CASE TimedCheck(t)
  BY <1>0, <1>2, <1>14, <1>18 DEF TimedCheck
<1>19. CASE TimedFutexWake(t)
  BY <1>0, <1>2, <1>14, <1>19 DEF TimedFutexWake
<1>20. CASE TimedOut(t)
  BY <1>0, <1>2, <1>14, <1>20 DEF TimedOut
<1>21. CASE Relock(t)
  BY <1>0, <1>3, <1>21 DEF Relock, Wants
<1>22. CASE ThreadExit(t)
  BY <1>0, <1>22 DEF ThreadExit, Exit
<1>. QED
  BY <1>4, <1>5, <1>6, <1>7, <1>8, <1>9, <1>10, <1>11, <1>12, <1>13, <1>15, <1>16, <1>17,
     <1>18, <1>19, <1>20, <1>21, <1>22
  DEF CondStep

(* Every thread stays within its operation.                                *)
LEMMA StepCall == CondTypes /\ CallInv /\ [CondNext]_vars => CallInv'
<1>. SUFFICES ASSUME CondTypes, CallInv, [CondNext]_vars PROVE CallInv'
  OBVIOUS
<1>1. ASSUME NEW t \in Client, CondStep(t) PROVE CallInv'
  <2>1. CallOK(t)'
    BY <1>1, StepCallOK
  <2>2. ASSUME NEW u \in Client, u # t PROVE CallOK(u)'
    <3>1. pc'[u] = pc[u] /\ program'[u] = program[u]
      BY <1>1, <2>2, OthersStay, Clients
    <3>. QED  BY <3>1 DEF CallInv, CallOK, Wants
  <2>3. \A d \in Dummies : pc'[d] = pc[d]
    BY <1>1, OthersStay, Clients
  <2>. QED  BY <2>1, <2>2, <2>3 DEF CallInv
<1>2. ASSUME \/ \E t \in Client : TimePasses(t)
             \/ \E e \in XSTREAM : CondSchedule(e)
             \/ UNCHANGED vars
      PROVE  CallInv'
  <2>1. UNCHANGED <<pc, program>>
    BY <1>2 DEF TimePasses, CondSchedule, Schedule, condVars, vars
  <2>. QED  BY <2>1 DEF CallInv, CallOK, Wants
<1>. QED  BY <1>1, <1>2 DEF CondNext, AllDone

-----------------------------------------------------------------------------
(* Where the ULTs are.                                                     *)

(* A step of t that moves no ULT.                                          *)
LEMMA PlaceFrame ==
    ASSUME CondTypes, PlaceInv, NEW t \in Client, pc[t] # "suspend_unlock",
           pc'[t] \in {"suspend", "suspend_unlock"} => t \in OnXstream,
           \A u \in Thread : u # t => pc'[u] = pc[u],
           \A u \in ULT : state'[u] = state[u],
           UNCHANGED <<p_thread, pool>>
    PROVE  PlaceInv'
<1>1. OnXstream \subseteq ULT /\ Range(pool) \subseteq ULT
  BY ThreadSets DEF CondTypes
<1>2. UNCHANGED OnXstream
  BY DEF OnXstream
<1>. QED  BY <1>1, <1>2 DEF PlaceInv

(* The suspension of t.                                                    *)
LEMMA SuspendPlace ==
    ASSUME CondTypes, PlaceInv, NEW t \in Client, SuspendBlock(t) \/ SuspendUnlock(t)
    PROVE  PlaceInv'
<1>1. /\ OnXstream \subseteq ULT /\ Range(pool) \subseteq ULT
      /\ t \in Thread /\ (t \in EXT => t \notin ULT)
  BY ThreadSets, Clients, ThreadAssumption DEF CondTypes
<1>2. CASE SuspendBlock(t)
  <2>1. /\ UNCHANGED <<p_thread, pool, OnXstream>>
        /\ \A u \in Thread : u # t => pc'[u] = pc[u] /\ state'[u] = state[u]
        /\ pc'[t] = "suspend_unlock" /\ state'[t] = "BLOCKED"
        /\ pc[t] = "suspend"
    BY <1>1, <1>2 DEF SuspendBlock, CallbackBlock, GoTo, OnXstream, CondTypes, At
  <2>2. t \notin Range(pool)
    BY <1>1, <2>1 DEF PlaceInv
  <2>. QED  BY <1>1, <2>1, <2>2 DEF PlaceInv
<1>3. CASE SuspendUnlock(t)
  <2>1. /\ UNCHANGED <<state, pool>> /\ SwitchToParent(t)
        /\ \A u \in Thread : u # t => pc'[u] = pc[u]
        /\ pc'[t] = "waiting"
        /\ pc[t] = "suspend_unlock" /\ Running(t)
    BY <1>1, <1>3 DEF SuspendUnlock, GoTo, CondTypes, At
  <2>2. CASE t \in ULT
    <3>1. /\ OnXstream' = OnXstream \ {t}
          /\ \A d, e \in XSTREAM : p_thread'[d] = p_thread'[e] /\ p_thread'[d] # NULL => d = e
      BY <2>1, <2>2, SwitchOnXstream DEF PlaceInv, CondTypes
    <3>. QED  BY <1>1, <2>1, <3>1 DEF PlaceInv
  <2>3. CASE t \notin ULT
    <3>1. \A e \in XSTREAM : p_thread[e] # t
      BY <1>1, <2>3, ThreadAssumption DEF CondTypes
    <3>2. p_thread' = p_thread
      BY <2>1, <3>1 DEF SwitchToParent, CondTypes
    <3>3. UNCHANGED OnXstream
      BY <3>2 DEF OnXstream
    <3>. QED  BY <1>1, <2>1, <2>3, <3>2, <3>3 DEF PlaceInv
  <2>. QED  BY <2>2, <2>3
<1>. QED  BY <1>2, <1>3

(* A yield.                                                                *)
LEMMA YieldPlace ==
    ASSUME CondTypes, PlaceInv, NEW t \in Client, Running(t), Yield(t, "timed_poll")
    PROVE  PlaceInv'
<1>1. /\ OnXstream \subseteq ULT /\ Range(pool) \subseteq ULT
      /\ t \in ULT /\ t \in OnXstream
  BY ThreadSets, ThreadAssumption DEF CondTypes, Yield, Running
<1>2. t \notin Range(pool) /\ IsInjective(pool)
  BY <1>1 DEF PlaceInv
<1>3. Range(pool)' = Range(pool) \cup {t} /\ IsInjective(pool)'
  <2>1. pool \in Seq(ULT) /\ pool' = Append(pool, t)
    BY DEF Yield, AddThread, CondTypes
  <2>2. Range(Append(pool, t)) = Range(pool) \cup {t}
    BY <1>1, <2>1, AppendRange
  <2>3. IsInjective(Append(pool, t))
    <3>1. t \in ULT /\ t \notin Range(pool) /\ IsInjective(pool) /\ pool \in Seq(ULT)
      BY <1>1, <1>2, <2>1
    <3>. QED  BY <3>1, AppendInjective DEF IsInjective
  <2>. QED  BY <2>1, <2>2, <2>3
<1>4. /\ OnXstream' = OnXstream \ {t}
      /\ \A d, e \in XSTREAM : p_thread'[d] = p_thread'[e] /\ p_thread'[d] # NULL => d = e
  BY <1>1, SwitchOnXstream DEF PlaceInv, CondTypes, Yield
<1>5. /\ \A u \in Thread : u # t => pc'[u] = pc[u] /\ state'[u] = state[u]
      /\ pc'[t] = "timed_poll" /\ state'[t] = "READY"
  BY <1>1 DEF Yield, GoTo, AddThread, CondTypes
<1>. QED  BY <1>1, <1>2, <1>3, <1>4, <1>5 DEF PlaceInv

(* t terminates.                                                           *)
LEMMA ExitPlace ==
    ASSUME CondTypes, PlaceInv, NEW t \in Client, Running(t), pc[t] = "idle", Exit(t, "done")
    PROVE  PlaceInv'
<1>1. /\ OnXstream \subseteq ULT /\ Range(pool) \subseteq ULT
      /\ t \in Thread /\ (t \in EXT => t \notin ULT)
  BY ThreadSets, Clients, ThreadAssumption DEF CondTypes
<1>2. /\ \A u \in Thread : u # t => pc'[u] = pc[u] /\ state'[u] = state[u]
      /\ pc'[t] = "done" /\ SwitchToParent(t) /\ UNCHANGED pool
  BY <1>1 DEF Exit, GoTo, CondTypes
<1>3. CASE t \in ULT
  <2>1. /\ OnXstream' = OnXstream \ {t}
        /\ \A d, e \in XSTREAM : p_thread'[d] = p_thread'[e] /\ p_thread'[d] # NULL => d = e
    BY <1>2, <1>3, SwitchOnXstream DEF PlaceInv, CondTypes
  <2>2. t \notin Range(pool)
    BY <1>3, ThreadAssumption DEF PlaceInv, Running
  <2>. QED  BY <1>1, <1>2, <2>1, <2>2 DEF PlaceInv
<1>4. CASE t \notin ULT
  <2>1. \A e \in XSTREAM : p_thread[e] # t
    BY <1>1, <1>4, ThreadAssumption DEF CondTypes
  <2>2. p_thread' = p_thread
    BY <1>2, <2>1 DEF SwitchToParent, CondTypes
  <2>3. UNCHANGED OnXstream
    BY <2>2 DEF OnXstream
  <2>. QED  BY <1>1, <1>2, <1>4, <2>2, <2>3 DEF PlaceInv
<1>. QED  BY <1>3, <1>4

(* A scheduler runs the unit it pops.                                      *)
LEMMA SchedulePlace ==
    ASSUME CondTypes, PlaceInv, NEW e \in XSTREAM, Schedule(e)
    PROVE  PlaceInv'
<1>. DEFINE u == Head(pool)
<1>1. OnXstream \subseteq ULT /\ Range(pool) \subseteq ULT
  BY ThreadSets DEF CondTypes
<1>2. /\ u \in Range(pool) /\ u \in ULT
      /\ Range(pool)' \subseteq Range(pool) \ {u}
      /\ IsInjective(pool)'
  BY TailRange, TailInjective DEF PlaceInv, Schedule, CondTypes
<1>3. /\ p_thread' = [p_thread EXCEPT ![e] = u] /\ p_thread[e] = NULL /\ u # NULL
      /\ state' = [state EXCEPT ![u] = "RUNNING"] /\ UNCHANGED pc
  BY <1>2, ThreadAssumption DEF Schedule
<1>4. state[u] = "READY" /\ u \notin OnXstream
  BY <1>2 DEF PlaceInv
<1>. HIDE DEF u
<1>5. OnXstream' = OnXstream \cup {u}
  BY <1>3 DEF OnXstream, Range, CondTypes
<1>6. \A d \in XSTREAM : p_thread[d] # u
  BY <1>3, <1>4 DEF OnXstream, Range, CondTypes
<1>7. \A c, d \in XSTREAM : p_thread'[c] = p_thread'[d] /\ p_thread'[c] # NULL => c = d
  BY <1>3, <1>6 DEF PlaceInv, CondTypes
<1>8. /\ \A v \in Thread : v # u => state'[v] = state[v]
      /\ state'[u] = "RUNNING"
  BY <1>2, <1>3 DEF CondTypes
<1>. QED  BY <1>1, <1>2, <1>3, <1>4, <1>5, <1>7, <1>8 DEF PlaceInv

(* t, which holds p_lock, resumes the ULT w, which has suspended.          *)
LEMMA ResumePlace ==
    ASSUME CondTypes, PlaceInv, NEW t \in Client, NEW w \in ULT, state[w] = "BLOCKED",
           \A u \in Thread : pc[u] \notin {"suspend", "suspend_unlock"},
           NEW l \in DecPoint, ResumePush(t, w, l)
    PROVE  PlaceInv'
<1>1. OnXstream \subseteq ULT /\ Range(pool) \subseteq ULT
  BY ThreadSets DEF CondTypes
<1>2. w \notin Range(pool) /\ w \notin OnXstream
  BY <1>1 DEF PlaceInv
<1>3. Range(pool)' = Range(pool) \cup {w} /\ IsInjective(pool)'
  <2>1. pool \in Seq(ULT) /\ pool' = Append(pool, w) /\ IsInjective(pool)
    BY DEF ResumePush, AddThread, CondTypes, PlaceInv
  <2>2. Range(Append(pool, w)) = Range(pool) \cup {w}
    BY <2>1, AppendRange
  <2>3. IsInjective(Append(pool, w))
    <3>1. w \in ULT /\ w \notin Range(pool) /\ IsInjective(pool) /\ pool \in Seq(ULT)
      BY <1>2, <2>1
    <3>. QED  BY <3>1, AppendInjective DEF IsInjective
  <2>. QED  BY <2>1, <2>2, <2>3
<1>4. /\ UNCHANGED <<p_thread, OnXstream>>
      /\ \A u \in Thread : u # w => state'[u] = state[u]
      /\ state'[w] = "READY"
      /\ \A u \in Thread : pc'[u] = pc[u] \/ pc'[u] = l
  BY DEF ResumePush, AddThread, GoTo, OnXstream, CondTypes
<1>5. l \notin {"suspend", "suspend_unlock"}
  BY DEF DecPoint
<1>. QED  BY <1>1, <1>2, <1>3, <1>4, <1>5 DEF PlaceInv

-----------------------------------------------------------------------------
(* The list.                                                               *)

(* A step that changes neither the list nor who is asleep.                 *)
LEMMA ListFrame ==
    ASSUME ListInv, NEW t \in Client, UNCHANGED waitlist,
           \A u \in Client : u # t => /\ pc'[u] = pc[u] /\ Entry(u)' = Entry(u)
                                      /\ state'[Entry(u)] = state[Entry(u)],
           Asleep(t)' <=> Asleep(t),
           Asleep(t) => Entry(t)' = Entry(t),
           pc'[t] \in TimedPoint => state[Entry(t)]' \in {"BLOCKED", "READY"}
    PROVE  ListInv'
<1>1. \A u \in Client : Asleep(u)' <=> Asleep(u)
  BY DEF Asleep
<1>2. \A u \in Client : Asleep(u) => Entry(u)' = Entry(u)
  OBVIOUS
<1>3. Waiters' = {Entry(u) : u \in {u \in Client : Asleep(u)}}'
  BY <1>1, <1>2 DEF ListInv, Waiters
<1>4. \A u \in Client : pc'[u] \in TimedPoint => state[Entry(u)]' \in {"BLOCKED", "READY"}
  BY DEF ListInv
<1>. QED  BY <1>3, <1>4 DEF ListInv

(* t joins the list.                                                       *)
LEMMA ListJoin ==
    ASSUME CondTypes, ListInv, NEW t \in Client, waitlist' = Append(waitlist, Entry(t)),
           UNCHANGED program,
           \A u \in Client : u # t => /\ pc'[u] = pc[u]
                                      /\ state'[Entry(u)] = state[Entry(u)],
           ~Asleep(t), Asleep(t)',
           pc'[t] \in TimedPoint => state[Entry(t)]' \in {"BLOCKED", "READY"}
    PROVE  ListInv'
<1>1. \A u \in Client : Entry(u)' = Entry(u)
  BY DEF Entry, Wants
<1>2. \A u \in Client : Asleep(u)' <=> u = t \/ Asleep(u)
  BY <1>1 DEF Asleep
<1>3. Entry(t) \in Thread /\ Entry(t) \notin Waiters
  BY Entries DEF ListInv
<1>4. waitlist \in Seq(Thread) /\ IsInjective(waitlist)
  BY DEF CondTypes, ListInv
<1>5. Waiters' = Waiters \cup {Entry(t)}
  <2>1. Range(Append(waitlist, Entry(t))) = Range(waitlist) \cup {Entry(t)}
    BY <1>3, <1>4, AppendRange
  <2>. QED  BY <2>1 DEF Waiters
<1>6. IsInjective(Append(waitlist, Entry(t)))
  BY <1>3, <1>4, AppendInjective DEF Waiters
<1>7. Waiters' = {Entry(u) : u \in {u \in Client : Asleep(u)}}'
  BY <1>1, <1>2, <1>5 DEF ListInv
<1>8. \A u \in Client : pc'[u] \in TimedPoint => state[Entry(u)]' \in {"BLOCKED", "READY"}
  BY <1>1 DEF ListInv
<1>. QED  BY <1>6, <1>7, <1>8 DEF ListInv

(* The thread w leaves the list, and is asleep no longer.                  *)
LEMMA ListLeave ==
    ASSUME CondTypes, ListInv, NEW w \in Client, Asleep(w), ~Asleep(w)',
           UNCHANGED program,
           \A u \in Client : u # w => /\ pc'[u] \in ListPoint <=> pc[u] \in ListPoint
                                      /\ pc'[u] \in TimedPoint <=> pc[u] \in TimedPoint
                                      /\ pc'[u] = "suspend" <=> pc[u] = "suspend"
                                      /\ state'[Entry(u)] = state[Entry(u)],
           pc'[w] \in TimedPoint => state[Entry(w)]' \in {"BLOCKED", "READY"},
           IsInjective(waitlist)', Waiters' = Waiters \ {Entry(w)}
    PROVE  ListInv'
<1>1. \A u \in Client : Entry(u)' = Entry(u)
  BY DEF Entry, Wants
<1>2. \A u \in Client : Asleep(u)' <=> u # w /\ Asleep(u)
  BY <1>1 DEF Asleep
<1>3. \A u \in Client : Entry(u) = Entry(w) => u = w
  BY Entries
<1>4. Waiters' = {Entry(u) : u \in {u \in Client : Asleep(u)}}'
  BY <1>1, <1>2, <1>3 DEF ListInv
<1>5. \A u \in Client : pc'[u] \in TimedPoint => state[Entry(u)]' \in {"BLOCKED", "READY"}
  BY <1>1 DEF ListInv
<1>. QED  BY <1>4, <1>5 DEF ListInv

(* Who is at the head of the list while another thread holds p_lock: a     *)
(* thread that waits, and is BLOCKED.                                      *)
LEMMA HeadWaits ==
    ASSUME CondTypes, CallInv, ListInv, NEW t \in Client, waitlist # <<>>,
           \A u \in Thread : pc[u] \in PLockPoint => u = t,
           pc[t] \notin ListPoint
    PROVE  \E w \in Client :
             /\ w # t /\ Asleep(w) /\ Entry(w) = Head(waitlist)
             /\ state[Head(waitlist)] = "BLOCKED" /\ Head(waitlist) \in Thread
             /\ Head(waitlist) \in ULT => w = Head(waitlist)
<1>1. Head(waitlist) \in Waiters /\ Head(waitlist) \in Thread
  BY TailRange DEF Waiters, CondTypes
<1>2. PICK w \in Client : Asleep(w) /\ Entry(w) = Head(waitlist)
  BY <1>1 DEF ListInv
<1>3. w # t /\ pc[w] # "suspend"
  BY <1>2, Clients DEF Asleep, ListPoint, WaitPoint, PLockPoint, WaitLockPoint
<1>4. state[Head(waitlist)] = "BLOCKED"
  BY <1>2, <1>3 DEF Asleep
<1>5. Head(waitlist) \in ULT => w = Head(waitlist)
  BY <1>2, Entries, Clients
<1>. QED  BY <1>1, <1>2, <1>3, <1>4, <1>5

(* The list without its head.                                              *)
LEMMA ListTail ==
    ASSUME CondTypes, ListInv, waitlist # <<>>, waitlist' = Tail(waitlist)
    PROVE  IsInjective(waitlist)' /\ Waiters' = Waiters \ {Head(waitlist)}
<1>1. waitlist \in Seq(Thread) /\ IsInjective(waitlist)
  BY DEF CondTypes, ListInv
<1>2. IsInjective(Tail(waitlist)) /\ Head(waitlist) \notin Range(Tail(waitlist))
  BY <1>1, TailInjective
<1>3. /\ Range(Tail(waitlist)) \subseteq Range(waitlist)
      /\ Range(waitlist) \subseteq Range(Tail(waitlist)) \cup {Head(waitlist)}
  BY <1>1, TailRange
<1>. QED  BY <1>2, <1>3 DEF Waiters

(* t, which holds p_lock, makes the head of the list READY.                *)
LEMMA WakeList ==
    ASSUME CondTypes, CallInv, ListInv, NEW t \in Client, waitlist # <<>>,
           \A u \in Thread : pc[u] \in PLockPoint => u = t,
           pc[t] \notin ListPoint, pc'[t] \notin ListPoint,
           \A u \in Thread : u # t => pc'[u] = pc[u],
           waitlist' = Tail(waitlist), UNCHANGED program,
           state' = [state EXCEPT ![Head(waitlist)] = "READY"]
    PROVE  ListInv'
<1>1. PICK w \in Client :
        /\ w # t /\ Asleep(w) /\ Entry(w) = Head(waitlist)
        /\ state[Head(waitlist)] = "BLOCKED" /\ Head(waitlist) \in Thread
  BY HeadWaits
<1>2. IsInjective(waitlist)' /\ Waiters' = Waiters \ {Entry(w)}
  BY <1>1, ListTail
<1>3. Entry(w)' = Entry(w)
  BY DEF Entry, Wants
<1>4. state'[Entry(w)] = "READY"
  BY <1>1 DEF CondTypes
<1>5. pc'[w] = pc[w] /\ pc[w] # "suspend"
  BY <1>1, Clients DEF PLockPoint, WaitLockPoint
<1>6. ~Asleep(w)' /\ (pc'[w] \in TimedPoint => state[Entry(w)]' \in {"BLOCKED", "READY"})
  BY <1>3, <1>4, <1>5 DEF Asleep
<1>7. ASSUME NEW u \in Client, u # w
      PROVE  /\ pc'[u] \in ListPoint <=> pc[u] \in ListPoint
             /\ pc'[u] \in TimedPoint <=> pc[u] \in TimedPoint
             /\ pc'[u] = "suspend" <=> pc[u] = "suspend"
             /\ state'[Entry(u)] = state[Entry(u)]
  <2>1. Entry(u) # Head(waitlist) /\ Entry(u) \in Thread
    BY <1>1, <1>7, Entries
  <2>2. state'[Entry(u)] = state[Entry(u)]
    BY <2>1 DEF CondTypes
  <2>3. CASE u = t
    BY <2>2, <2>3 DEF ListPoint, WaitPoint
  <2>4. CASE u # t
    BY <2>2, <2>4, Clients
  <2>. QED  BY <2>3, <2>4
<1>. QED  BY <1>1, <1>2, <1>6, <1>7, ListLeave

(* A signal, or one turn of a broadcast, wakes a thread that waits.        *)
LEMMA WakeStep ==
    ASSUME CondTypes, CallInv, PLockExclusion, PlaceInv, ListInv, NEW t \in Client,
           \/ SignalOne(t, "signal", "signal_dec", "notify_unlock")
           \/ BroadcastOne(t, "broadcast", "broadcast_dec"),
           UNCHANGED condVars
    PROVE  PlaceInv' /\ ListInv'
<1>. DEFINE h == Head(waitlist)
<1>0. t \in Thread
  BY Clients
<1>1. /\ waitlist # <<>> /\ waitlist' = Tail(waitlist) /\ UNCHANGED program
      /\ pc[t] \in {"signal", "broadcast"}
  BY DEF SignalOne, BroadcastOne, At, condVars
<1>2. \A u \in Thread : pc[u] \in PLockPoint => u = t
  BY <1>1, HolderAlone DEF PLockPoint
<1>3. pc[t] \notin ListPoint
  BY <1>1 DEF ListPoint, WaitPoint, TimedPoint
<1>4. state[h] = "BLOCKED" /\ h \in Thread
  BY <1>1, <1>2, <1>3, HeadWaits
<1>5. /\ \A u \in Thread : u # t => pc'[u] = pc[u]
      /\ pc'[t] \in DecPoint \cup {"notify_unlock", "broadcast"}
      /\ state' = [state EXCEPT ![h] = "READY"]
  <2>1. state' = [state EXCEPT ![h] = "READY"]
    BY DEF SignalOne, BroadcastOne, ResumePush, AddThread
  <2>2. \/ UNCHANGED pc /\ pc[t] = "broadcast"
        \/ \E l \in DecPoint \cup {"notify_unlock"} : GoTo(t, l)
    BY DEF SignalOne, BroadcastOne, ResumePush, DecPoint, At
  <2>. QED  BY <1>0, <2>1, <2>2 DEF GoTo, CondTypes
<1>6. pc'[t] \notin ListPoint \cup {"suspend", "suspend_unlock"}
  BY <1>5 DEF ListPoint, WaitPoint, TimedPoint, DecPoint
<1>7. \A u \in Thread : pc[u] \notin {"suspend", "suspend_unlock"}
  BY <1>1, <1>2 DEF PLockPoint, WaitLockPoint
<1>8. PlaceInv'
  <2>1. CASE h \in ULT
    <3>1. \E l \in DecPoint : ResumePush(t, h, l)
      BY <2>1, ThreadAssumption DEF SignalOne, BroadcastOne, DecPoint
    <3>. QED  BY <1>4, <1>7, <2>1, <3>1, ResumePlace
  <2>2. CASE h \notin ULT
    <3>1. \A u \in ULT : state'[u] = state[u]
      BY <1>5, <2>2 DEF CondTypes
    <3>2. UNCHANGED <<p_thread, pool>>
      BY <2>2 DEF SignalOne, BroadcastOne
    <3>. QED  BY <1>1, <1>5, <1>6, <3>1, <3>2, PlaceFrame
  <2>. QED  BY <2>1, <2>2
<1>9. ListInv'
  BY <1>1, <1>2, <1>3, <1>5, <1>6, WakeList
<1>. QED  BY <1>8, <1>9

(* A timed wait whose time is up leaves the list.                          *)
LEMMA TimedOutStep ==
    ASSUME CondTypes, CallInv, PlaceInv, ListInv, NEW t \in Client, TimedOut(t)
    PROVE  /\ PlaceInv' /\ ListInv'
           /\ state[Entry(t)] # "READY" => Asleep(t)
<1>1. /\ pc[t] = "timed_out" /\ pc'[t] = "relock"
      /\ \A u \in Thread : u # t => pc'[u] = pc[u]
      /\ UNCHANGED <<state, p_thread, pool, program>>
  BY Clients DEF TimedOut, At, GoTo, CondTypes
<1>2. PlaceInv'
  BY <1>1, PlaceFrame
<1>3. \A u \in Client : Entry(u)' = Entry(u)
  BY <1>1 DEF Entry, Wants
<1>4. ~Asleep(t)' /\ pc'[t] \notin TimedPoint
  BY <1>1 DEF Asleep, ListPoint, WaitPoint, TimedPoint
<1>5. CASE state[Entry(t)] = "READY"
  <2>1. ~Asleep(t)
    BY <1>1, <1>5 DEF Asleep
  <2>2. UNCHANGED waitlist
    BY <1>5 DEF TimedOut
  <2>3. \A u \in Client : u # t => /\ pc'[u] = pc[u] /\ Entry(u)' = Entry(u)
                                   /\ state'[Entry(u)] = state[Entry(u)]
    BY <1>1, <1>3, Clients
  <2>4. ListInv'
    BY <1>3, <1>4, <2>1, <2>2, <2>3, ListFrame
  <2>. QED  BY <1>2, <1>5, <2>4
<1>6. CASE state[Entry(t)] # "READY"
  <2>1. Asleep(t)
    BY <1>1, <1>6 DEF ListInv, Asleep, ListPoint, TimedPoint
  <2>2. PICK k \in DOMAIN waitlist : waitlist[k] = Entry(t) /\ waitlist' = RemoveAt(waitlist, k)
    BY <1>6 DEF TimedOut
  <2>3. waitlist \in Seq(Thread) /\ IsInjective(waitlist)
    BY DEF CondTypes, ListInv
  <2>4. IsInjective(waitlist)' /\ Waiters' = Waiters \ {Entry(t)}
    BY <2>2, <2>3, RemoveRange DEF Waiters
  <2>5. \A u \in Client : u # t => pc'[u] = pc[u] /\ state'[Entry(u)] = state[Entry(u)]
    BY <1>1, Clients
  <2>6. ListInv'
    BY <1>1, <1>4, <2>1, <2>4, <2>5, ListLeave
  <2>. QED  BY <1>2, <2>1, <2>6
<1>. QED  BY <1>5, <1>6

(* A step of t that changes no state, no list and no pool.                 *)
LEMMA MoveStep ==
    ASSUME CondTypes, PlaceInv, ListInv, NEW t \in Client, CondStep(t),
           UNCHANGED <<state, p_thread, pool, waitlist>>,
           pc[t] \notin {"suspend", "suspend_unlock"},
           pc'[t] \notin {"suspend", "suspend_unlock"},
           \/ pc[t] \notin ListPoint /\ pc'[t] \notin ListPoint
           \/ /\ pc[t] \in ListPoint /\ pc'[t] \in ListPoint
              /\ pc'[t] \in TimedPoint => pc[t] \in TimedPoint
           \/ state[Entry(t)] # "BLOCKED" /\ pc'[t] \notin ListPoint
    PROVE  PlaceInv' /\ ListInv'
<1>1. \A u \in Client : u # t => pc'[u] = pc[u] /\ Entry(u)' = Entry(u)
  BY OthersStay, Clients DEF Entry, Wants
<1>2. Leave(t) => pc[t] \notin ListPoint /\ pc'[t] = "idle"
  BY Clients DEF Leave, At, OperationDone, GoTo, CondTypes, ListPoint, WaitPoint, TimedPoint
<1>3. ~Leave(t) => Entry(t)' = Entry(t)
  BY ProgramStays
<1>4. PlaceInv'
  BY OthersStay, PlaceFrame
<1>5. Asleep(t)' <=> Asleep(t)
  BY <1>2, <1>3 DEF Asleep, ListPoint, WaitPoint, TimedPoint
<1>6. Asleep(t) => Entry(t)' = Entry(t)
  BY <1>2, <1>3 DEF Asleep
<1>7. pc'[t] \in TimedPoint => state[Entry(t)]' \in {"BLOCKED", "READY"}
  <2>1. pc'[t] \in TimedPoint => pc[t] \in TimedPoint
    BY DEF ListPoint
  <2>2. pc'[t] \in TimedPoint => ~Leave(t)
    BY <1>2 DEF TimedPoint
  <2>. QED  BY <1>3, <2>1, <2>2 DEF ListInv
<1>8. ListInv'
  BY <1>1, <1>5, <1>6, <1>7, ListFrame
<1>. QED  BY <1>4, <1>8

(* Each step keeps the ULTs where they belong, and the list exact.         *)
LEMMA StepPlaceList ==
    CondTypes /\ PLockExclusion /\ CallInv /\ PlaceInv /\ ListInv /\ [CondNext]_vars
        => PlaceInv' /\ ListInv'
<1>. SUFFICES ASSUME CondTypes, PLockExclusion, CallInv, PlaceInv, ListInv, [CondNext]_vars
              PROVE  PlaceInv' /\ ListInv'
  OBVIOUS
<1>. USE DEF condVars
<1>0. Client \subseteq Thread /\ DOMAIN pc = Thread
  BY Clients DEF CondTypes
<1>1. ASSUME NEW t \in Client, CondStep(t),
             LockMutex(t) \/ Leave(t) \/ Produce(t) \/ NotifyLock(t) \/ NotifyUnlock(t)
      PROVE  PlaceInv' /\ ListInv'
  <2>1. UNCHANGED <<state, p_thread, pool, waitlist>>
    BY <1>1 DEF LockMutex, Leave, Produce, NotifyLock, SpinAcquire, NotifyUnlock, SpinRelease
  <2>2. pc[t] \in {"idle", "locked", "refused", "notified", "notify", "notify_unlock"}
    BY <1>1 DEF LockMutex, Leave, Produce, NotifyLock, SpinAcquire, NotifyUnlock, SpinRelease, At
  <2>3. pc'[t] \in {"locked", "idle", "notify", "signal", "broadcast", "notified"}
    <3>1. pc[t] = "notify" => Head(program[t])[1] \in {"signal", "broadcast"}
      BY DEF CallInv, CallOK, Wants
    <3>. QED  BY <1>0, <1>1, <3>1
         DEF LockMutex, Leave, OperationDone, Produce, NotifyLock, SpinAcquire,
             NotifyUnlock, SpinRelease, GoTo, At
  <2>4. pc[t] \notin ListPoint /\ pc'[t] \notin ListPoint
    BY <2>2, <2>3 DEF ListPoint, WaitPoint, TimedPoint
  <2>. QED  BY <1>1, <2>1, <2>4, MoveStep DEF ListPoint, WaitPoint
<1>2. ASSUME NEW t \in Client, CondStep(t),
             CondLock(t) \/ CondCheck(t) \/ CondUnlock(t) \/ Relock(t)
      PROVE  PlaceInv' /\ ListInv'
  <2>1. UNCHANGED <<state, p_thread, pool, waitlist>>
    BY <1>2 DEF CondLock, SpinAcquire, CondCheck, CondUnlock, Relock
  <2>2. pc[t] \in {"locked", "cond_check", "cond_unlock", "relock"}
    BY <1>2 DEF CondLock, SpinAcquire, CondCheck, CondUnlock, Relock, At
  <2>3. pc'[t] \in {"locked", "cond_check", "cond_unlock", "refused", "cond_wait"}
    BY <1>0, <1>2 DEF CondLock, SpinAcquire, CondCheck, CondUnlock, Relock, GoTo
  <2>4. pc[t] \notin ListPoint /\ pc'[t] \notin ListPoint
    BY <2>2, <2>3 DEF ListPoint, WaitPoint, TimedPoint
  <2>. QED  BY <1>2, <2>1, <2>4, MoveStep DEF ListPoint, WaitPoint
<1>3. ASSUME NEW t \in Client, CondStep(t), Notify(t) PROVE PlaceInv' /\ ListInv'
  <2>1. CASE \/ SignalOne(t, "signal", "signal_dec", "notify_unlock")
             \/ BroadcastOne(t, "broadcast", "broadcast_dec")
    BY <1>3, <2>1, WakeStep DEF Notify
  <2>2. CASE \/ SignalNone(t, "signal", "notify_unlock")
             \/ BroadcastDec(t, "signal_dec", "notify_unlock")
             \/ BroadcastDec(t, "broadcast_dec", "broadcast")
             \/ BroadcastEnd(t, "broadcast", "notify_unlock")
    <3>1. UNCHANGED <<state, p_thread, pool, waitlist>>
      BY <2>2 DEF SignalNone, BroadcastDec, ResumeDecNumBlocked, BroadcastEnd
    <3>2. pc[t] \in {"signal", "signal_dec", "broadcast", "broadcast_dec"}
      BY <2>2 DEF SignalNone, BroadcastDec, BroadcastEnd, At
    <3>3. pc'[t] \in {"notify_unlock", "broadcast"}
      BY <1>0, <2>2 DEF SignalNone, BroadcastDec, ResumeDecNumBlocked, BroadcastEnd, GoTo
    <3>4. pc[t] \notin ListPoint /\ pc'[t] \notin ListPoint
      BY <3>2, <3>3 DEF ListPoint, WaitPoint, TimedPoint
    <3>. QED  BY <1>3, <3>1, <3>4, MoveStep DEF ListPoint, WaitPoint
  <2>. QED  BY <1>3, <2>1, <2>2 DEF Notify, Signal, Broadcast
<1>4. ASSUME NEW t \in Client, CondStep(t), CondWait(t) PROVE PlaceInv' /\ ListInv'
  <2>1. /\ pc[t] = "cond_wait" /\ Running(t) /\ Entry(t) = t
        /\ UNCHANGED <<p_thread, pool, program>> /\ waitlist' = Append(waitlist, Entry(t))
    BY <1>4, Entries, Clients DEF CondWait, At, WaitAppend, Wants, Client
  <2>2. \A u \in Thread : u # t => pc'[u] = pc[u]
    BY <1>4, OthersStay
  <2>3. \/ t \in ULT /\ pc'[t] = "suspend" /\ UNCHANGED state
        \/ t \in EXT /\ pc'[t] = "ext_check" /\ state' = [state EXCEPT ![t] = "BLOCKED"]
    BY <1>0, <1>4 DEF CondWait, WaitAppend, GoTo
  <2>4. \A u \in Thread : u # t => state'[u] = state[u]
    BY <2>3 DEF CondTypes
  <2>5. PlaceInv'
    <3>1. \A u \in ULT : state'[u] = state[u]
      BY <2>3, ThreadAssumption DEF CondTypes
    <3>2. pc'[t] \in {"suspend", "suspend_unlock"} => t \in OnXstream
      BY <2>1, <2>3, ThreadAssumption DEF Running
    <3>. QED  BY <2>1, <2>2, <3>1, <3>2, PlaceFrame
  <2>6. ~Asleep(t) /\ pc'[t] \notin TimedPoint
    BY <2>1, <2>3 DEF Asleep, ListPoint, WaitPoint, TimedPoint
  <2>7. Entry(t)' = t
    BY <2>1 DEF Entry, Wants
  <2>8. Asleep(t)'
    BY <1>0, <2>3, <2>7 DEF Asleep, ListPoint, WaitPoint, CondTypes
  <2>9. \A u \in Client : u # t => pc'[u] = pc[u] /\ state'[Entry(u)] = state[Entry(u)]
    BY <1>0, <2>1, <2>2, <2>4, Entries
  <2>. QED  BY <2>1, <2>5, <2>6, <2>8, <2>9, ListJoin
<1>5. ASSUME NEW t \in Client, CondStep(t), CondWaitStep(t) PROVE PlaceInv' /\ ListInv'
  <2>1. CASE SuspendBlock(t)
    <3>1. /\ pc[t] = "suspend" /\ pc'[t] = "suspend_unlock" /\ UNCHANGED <<waitlist, program>>
          /\ \A u \in Thread : u # t => pc'[u] = pc[u] /\ state'[u] = state[u]
          /\ state'[t] = "BLOCKED"
      BY <1>0, <1>5, <2>1 DEF CondWaitStep, SuspendBlock, CallbackBlock, At, GoTo, CondTypes
    <3>2. t \in ULT /\ Wants(t, {"wait"})
      BY <3>1 DEF CallInv, CallOK
    <3>3. Entry(t) = t
      BY <3>2, Entries DEF Wants
    <3>4. \A u \in Client : Entry(u)' = Entry(u)
      BY <3>1 DEF Entry, Wants
    <3>5. Asleep(t) /\ Asleep(t)' /\ pc'[t] \notin TimedPoint
      BY <3>1, <3>3, <3>4 DEF Asleep, ListPoint, WaitPoint, TimedPoint
    <3>6. \A u \in Client : u # t => /\ pc'[u] = pc[u] /\ Entry(u)' = Entry(u)
                                     /\ state'[Entry(u)] = state[Entry(u)]
      BY <1>0, <3>1, <3>3, <3>4, Entries
    <3>7. ListInv'
      BY <3>1, <3>4, <3>5, <3>6, ListFrame
    <3>. QED  BY <2>1, <3>7, SuspendPlace
  <2>2. CASE SuspendUnlock(t)
    <3>1. /\ pc[t] = "suspend_unlock" /\ pc'[t] = "waiting"
          /\ UNCHANGED <<state, waitlist, program>>
          /\ \A u \in Thread : u # t => pc'[u] = pc[u]
      BY <1>0, <1>5, <2>2 DEF CondWaitStep, SuspendUnlock, At, GoTo, CondTypes
    <3>2. \A u \in Client : Entry(u)' = Entry(u)
      BY <3>1 DEF Entry, Wants
    <3>3. (Asleep(t)' <=> Asleep(t)) /\ pc'[t] \notin TimedPoint
      BY <3>1, <3>2 DEF Asleep, ListPoint, WaitPoint, TimedPoint
    <3>4. \A u \in Client : u # t => /\ pc'[u] = pc[u] /\ Entry(u)' = Entry(u)
                                     /\ state'[Entry(u)] = state[Entry(u)]
      BY <1>0, <3>1, <3>2
    <3>5. ListInv'
      BY <3>1, <3>2, <3>3, <3>4, ListFrame
    <3>. QED  BY <2>2, <3>5, SuspendPlace
  <2>3. CASE WaitResumed(t, "relock")
    <3>1. /\ pc[t] = "waiting" /\ pc'[t] = "relock" /\ Running(t)
          /\ UNCHANGED <<state, p_thread, pool, waitlist>>
      BY <1>0, <2>3 DEF WaitResumed, At, GoTo
    <3>2. t \in ULT /\ Entry(t) = t
      BY <3>1, Entries DEF CallInv, CallOK, Wants
    <3>3. state[t] # "BLOCKED"
      BY <3>1, <3>2, ThreadAssumption DEF PlaceInv, Running
    <3>4. pc'[t] \notin ListPoint
      BY <3>1 DEF ListPoint, WaitPoint, TimedPoint
    <3>. QED  BY <1>5, <3>1, <3>2, <3>3, <3>4, MoveStep
  <2>4. CASE ExtReady(t, "relock") \/ ExtFutexWake(t, "relock") \/ ExtFutexWait(t) \/ ExtRelock(t)
    <3>1. /\ pc[t] \in {"ext_check", "ext_futex", "ext_relock"}
          /\ UNCHANGED <<state, p_thread, pool, waitlist>>
          /\ \/ pc'[t] = "relock" /\ state[t] = "READY"
             \/ pc'[t] \in {"ext_check", "ext_futex", "ext_relock"}
      BY <1>0, <2>4 DEF ExtReady, SpinRelease, ExtFutexWake, ExtFutexWait, ExtRelock, SpinAcquire,
                        At, GoTo
    <3>2. Entry(t) = t
      BY <3>1, Entries DEF CallInv, CallOK
    <3>. QED  BY <1>5, <3>1, <3>2, MoveStep DEF ListPoint, WaitPoint, TimedPoint
  <2>. QED  BY <1>5, <2>1, <2>2, <2>3, <2>4 DEF CondWaitStep, WaitStep
<1>6. ASSUME NEW t \in Client, CondStep(t), TimedAppend(t) PROVE PlaceInv' /\ ListInv'
  <2>1. /\ pc[t] = "cond_wait" /\ Wants(t, {"timedwait"}) /\ Entry(t) \in Thread
        /\ pc'[t] \in {"timed_poll", "timed_check"}
        /\ UNCHANGED <<p_thread, pool, program>> /\ waitlist' = Append(waitlist, Entry(t))
        /\ state' = [state EXCEPT ![Entry(t)] = "BLOCKED"]
    BY <1>0, <1>6, Entries DEF TimedAppend, At, GoTo
  <2>2. \A u \in Thread : u # t => pc'[u] = pc[u]
    BY <1>6, OthersStay
  <2>3. Entry(t) \in EXT
    BY <2>1, Entries, Clients
  <2>4. PlaceInv'
    <3>1. \A u \in ULT : state'[u] = state[u]
      BY <2>1, <2>3, ThreadAssumption DEF CondTypes
    <3>. QED  BY <2>1, <2>2, <3>1, PlaceFrame
  <2>5. Entry(t)' = Entry(t)
    BY <2>1 DEF Entry, Wants
  <2>6. state'[Entry(t)] = "BLOCKED"
    BY <2>1 DEF CondTypes
  <2>7. ~Asleep(t) /\ Asleep(t)'
    BY <2>1, <2>5, <2>6 DEF Asleep, ListPoint, WaitPoint, TimedPoint
  <2>8. \A u \in Client : u # t => pc'[u] = pc[u] /\ state'[Entry(u)] = state[Entry(u)]
    BY <1>0, <2>1, <2>2, Entries DEF CondTypes
  <2>. QED  BY <2>1, <2>4, <2>5, <2>6, <2>7, <2>8, ListJoin
<1>7. ASSUME NEW t \in Client, CondStep(t), TimedPoll(t) PROVE PlaceInv' /\ ListInv'
  <2>1. pc[t] = "timed_poll" /\ Running(t) /\ UNCHANGED <<waitlist, program>>
    BY <1>7 DEF TimedPoll, At
  <2>2. CASE Yield(t, "timed_poll")
    <3>1. /\ t \in ULT /\ pc'[t] = "timed_poll"
          /\ \A u \in Thread : u # t => pc'[u] = pc[u] /\ state'[u] = state[u]
      BY <1>0, <2>2 DEF Yield, GoTo, AddThread, CondTypes
    <3>2. \A u \in Client : Entry(u)' = Entry(u)
      BY <2>1 DEF Entry, Wants
    <3>3. Entry(t) \in Dummies
      BY <2>1, <3>1, Entries, Clients DEF CallInv, CallOK, TimedPoint
    <3>4. \A u \in Client : Entry(u) # t /\ Entry(u) \in Thread
      BY <3>3, Entries, Clients
    <3>5. \A u \in Client : state'[Entry(u)] = state[Entry(u)]
      BY <3>1, <3>4
    <3>6. (Asleep(t)' <=> Asleep(t)) /\ state'[Entry(t)] \in {"BLOCKED", "READY"}
      BY <2>1, <3>1, <3>2, <3>5 DEF Asleep, ListInv, TimedPoint
    <3>7. ListInv'
      BY <1>0, <2>1, <3>1, <3>2, <3>5, <3>6, ListFrame
    <3>. QED  BY <2>1, <2>2, <3>7, YieldPlace
  <2>3. CASE ~Yield(t, "timed_poll")
    <3>1. /\ UNCHANGED <<state, p_thread, pool>>
          /\ \/ pc'[t] = "relock" /\ state[Entry(t)] = "READY"
             \/ pc'[t] = "timed_lock"
      BY <1>0, <1>7, <2>3 DEF TimedPoll, GoTo
    <3>. QED  BY <1>7, <2>1, <3>1, MoveStep DEF ListPoint, WaitPoint, TimedPoint
  <2>. QED  BY <2>2, <2>3
<1>8. ASSUME NEW t \in Client, CondStep(t),
             TimedLock(t) \/ TimedCheck(t) \/ TimedFutexWake(t) \/ TimedRelock(t)
      PROVE  PlaceInv' /\ ListInv'
  <2>1. UNCHANGED <<state, p_thread, pool, waitlist>>
    BY <1>8 DEF TimedLock, SpinAcquire, TimedCheck, TimedFutexWake, TimedRelock
  <2>2. pc[t] \in {"timed_lock", "timed_check", "timed_futex", "timed_relock"}
    BY <1>8 DEF TimedLock, SpinAcquire, TimedCheck, TimedFutexWake, TimedRelock, At
  <2>3. pc[t] \in {"timed_check", "timed_futex"} => Entry(t) = t
    BY Entries DEF CallInv, CallOK
  <2>4. \/ pc'[t] = "relock" /\ state[Entry(t)] = "READY"
        \/ pc'[t] \in TimedPoint
    BY <1>0, <1>8, <2>3
    DEF TimedLock, SpinAcquire, TimedCheck, TimedFutexWake, TimedRelock, At, GoTo, TimedPoint
  <2>. QED  BY <1>8, <2>1, <2>2, <2>4, MoveStep DEF ListPoint, WaitPoint, TimedPoint
<1>9. ASSUME NEW t \in Client, CondStep(t), TimedOut(t) PROVE PlaceInv' /\ ListInv'
  BY <1>9, TimedOutStep
<1>10. ASSUME NEW t \in Client, CondStep(t), ThreadExit(t) PROVE PlaceInv' /\ ListInv'
  <2>1. /\ pc[t] = "idle" /\ Running(t) /\ Exit(t, "done") /\ UNCHANGED <<waitlist, program>>
        /\ program[t] = <<>>
    BY <1>10 DEF ThreadExit, At
  <2>2. \A u \in Thread : u # t => pc'[u] = pc[u] /\ state'[u] = state[u]
    BY <2>1 DEF Exit, GoTo, CondTypes
  <2>3. pc'[t] = "done"
    BY <1>0, <2>1 DEF Exit, GoTo
  <2>4. \A u \in Client : Entry(u)' = Entry(u)
    BY <2>1 DEF Entry, Wants
  <2>5. \A u \in Client : u # t => /\ pc'[u] = pc[u] /\ Entry(u)' = Entry(u)
                                   /\ state'[Entry(u)] = state[Entry(u)]
    BY <1>0, <2>2, <2>4, Entries
  <2>6. ~Asleep(t) /\ ~Asleep(t)' /\ pc'[t] \notin TimedPoint
    BY <2>1, <2>3 DEF Asleep, ListPoint, WaitPoint, TimedPoint
  <2>7. ListInv'
    BY <2>1, <2>5, <2>6, ListFrame
  <2>. QED  BY <2>1, <2>7, ExitPlace
<1>11. ASSUME NEW e \in XSTREAM, CondSchedule(e) PROVE PlaceInv' /\ ListInv'
  <2>. DEFINE h == Head(pool)
  <2>1. /\ h \in Range(pool) /\ h \in ULT /\ state[h] = "READY" /\ h \notin OnXstream
        /\ state' = [state EXCEPT ![h] = "RUNNING"] /\ UNCHANGED <<pc, program, waitlist>>
    BY <1>11, TailRange DEF CondSchedule, Schedule, CondTypes, PlaceInv
  <2>2. \A u \in Client : Entry(u)' = Entry(u)
    BY <2>1 DEF Entry, Wants
  <2>3. \A u \in Client : state'[Entry(u)] = "BLOCKED" <=> state[Entry(u)] = "BLOCKED"
    BY <2>1, Entries DEF CondTypes
  <2>4. \A u \in Client : Asleep(u)' <=> Asleep(u)
    BY <2>1, <2>2, <2>3 DEF Asleep
  <2>5. ASSUME NEW u \in Client, pc[u] \in TimedPoint PROVE state'[Entry(u)] = state[Entry(u)]
    <3>1. Entry(u) \in EXT
      BY <2>5, Entries, Clients DEF CallInv, CallOK
    <3>. QED  BY <2>1, <3>1, ThreadAssumption DEF CondTypes
  <2>6. Waiters' = {Entry(u) : u \in {u \in Client : Asleep(u)}}'
    BY <2>1, <2>2, <2>4 DEF ListInv, Waiters
  <2>7. ListInv'
    BY <2>1, <2>2, <2>5, <2>6 DEF ListInv
  <2>. QED  BY <1>11, <2>7, SchedulePlace DEF CondSchedule
<1>12. ASSUME \/ \E t \in Client : TimePasses(t)
              \/ UNCHANGED vars
       PROVE  PlaceInv' /\ ListInv'
  <2>1. UNCHANGED <<ythreadVars, waitlist, program>>
    BY <1>12 DEF TimePasses, vars
  <2>. QED  BY <2>1 DEF PlaceInv, OnXstream, ListInv, Waiters, Asleep, Entry, Wants
<1>. QED
  BY <1>1, <1>2, <1>3, <1>4, <1>5, <1>6, <1>7, <1>8, <1>9, <1>10, <1>11, <1>12
  DEF CondNext, CondStep, AllDone

-----------------------------------------------------------------------------
(* The mutexes.                                                            *)

(* A step gives a mutex up, or takes it, for its thread.                   *)
LEMMA OwnerSteps ==
    ASSUME CondTypes, OwnInv, NEW t \in Client, CondStep(t)
    PROVE  \/ UNCHANGED owner
           \/ Take(t) /\ (LockMutex(t) \/ Relock(t))
           \/ Give(t) /\ owner[Mutex(t)] = t /\ (Leave(t) \/ Produce(t) \/ CondUnlock(t))
<1>. USE DEF condVars
<1>1. CASE LockMutex(t) \/ Relock(t)
  BY <1>1 DEF LockMutex, Relock
<1>2. CASE Leave(t)
  BY <1>2 DEF Leave
<1>3. CASE Produce(t)
  BY <1>3 DEF Produce, At, OwnInv
<1>4. CASE CondUnlock(t)
  BY <1>4 DEF CondUnlock, At, OwnInv
<1>5. CASE ~(LockMutex(t) \/ Relock(t) \/ Leave(t) \/ Produce(t) \/ CondUnlock(t))
  BY <1>5
  DEF CondStep, NotifyLock, Notify, NotifyUnlock, CondLock, CondCheck, CondWait, CondWaitStep,
      TimedAppend, TimedPoll, TimedLock, TimedCheck, TimedFutexWake, TimedRelock, TimedOut,
      ThreadExit
<1>. QED  BY <1>1, <1>2, <1>3, <1>4, <1>5

(* A consumer that is to wait owns its mutex, and has not timed out.       *)
OwnOK(t) ==
    /\ pc[t] \in {"locked", "cond_check", "cond_unlock"} => owner[Mutex(t)] = t
    /\ pc[t] \in ListPoint \cup {"cond_check", "cond_unlock", "cond_wait"} => ~is_timedout[t]

(* t owns its mutex wherever it has to.                                    *)
LEMMA StepOwnOK ==
    ASSUME CondTypes, CallInv, OwnInv, NEW t \in Client, CondStep(t)
    PROVE  OwnOK(t)'
<1>. USE DEF condVars, GoTo, At
<1>0. t \in Thread /\ DOMAIN pc = Thread /\ OwnOK(t)
  BY Clients DEF CondTypes, OwnInv, OwnOK
<1>. USE DEF OwnOK, ListPoint, WaitPoint, TimedPoint
<1>1. CASE LockMutex(t)
  <2>1. pc'[t] = "locked" /\ Mutex(t)' = Mutex(t) /\ program[t] # <<>>
    BY <1>0, <1>1 DEF LockMutex, Mutex
  <2>2. owner'[Mutex(t)] = t
    BY <1>1, <2>1, ProgramTypes DEF LockMutex, Take, CondTypes
  <2>. QED  BY <2>1, <2>2
<1>2. CASE Leave(t) \/ Produce(t) \/ NotifyLock(t) \/ Notify(t) \/ NotifyUnlock(t) \/ ThreadExit(t)
  <2>1. pc'[t] \in {"idle", "notify", "signal", "broadcast", "signal_dec", "broadcast_dec",
                    "notify_unlock", "notified", "done"}
    <3>1. CASE Leave(t) \/ Produce(t) \/ NotifyUnlock(t) \/ ThreadExit(t)
      BY <1>0, <3>1 DEF Leave, OperationDone, Produce, NotifyUnlock, SpinRelease, ThreadExit, Exit
    <3>2. CASE NotifyLock(t)
      BY <1>0, <3>2 DEF NotifyLock, SpinAcquire, CallInv, CallOK, Wants
    <3>3. CASE Notify(t)
      BY <1>0, <3>3 DEF Notify, Signal, SignalNone, SignalOne, BroadcastDec, Broadcast,
                        BroadcastOne, BroadcastEnd, ResumePush, ResumeDecNumBlocked
    <3>. QED  BY <1>2, <3>1, <3>2, <3>3
  <2>. QED  BY <2>1
<1>3. CASE CondLock(t) \/ CondCheck(t)
  <2>1. /\ pc[t] \in {"locked", "cond_check"}
        /\ pc'[t] \in {"cond_check", "cond_unlock", "refused"}
        /\ ~is_timedout[t] /\ UNCHANGED <<owner, is_timedout, program>>
    BY <1>0, <1>3 DEF CondLock, SpinAcquire, CondCheck
  <2>. QED  BY <1>0, <2>1 DEF Mutex
<1>4. CASE CondUnlock(t)
  BY <1>0, <1>4 DEF CondUnlock
<1>5. CASE \/ CondWait(t) \/ CondWaitStep(t) \/ TimedAppend(t) \/ TimedPoll(t) \/ TimedLock(t)
           \/ TimedCheck(t) \/ TimedFutexWake(t) \/ TimedRelock(t)
  <2>1. pc[t] \in ListPoint \cup {"cond_wait"} /\ UNCHANGED is_timedout
    BY <1>5 DEF CondWait, CondWaitStep, WaitStep, SuspendBlock, SuspendUnlock, WaitResumed,
                ExtReady, ExtFutexWait, ExtFutexWake, ExtRelock, SpinAcquire, TimedAppend,
                TimedPoll, TimedLock, TimedCheck, TimedFutexWake, TimedRelock
  <2>2. pc'[t] \in ListPoint \cup {"relock"}
    BY <1>0, <1>5
    DEF CondWait, WaitAppend, CondWaitStep, WaitStep, SuspendBlock, CallbackBlock, SuspendUnlock,
        WaitResumed, ExtReady, SpinRelease, ExtFutexWait, ExtFutexWake, ExtRelock, SpinAcquire,
        TimedAppend, TimedPoll, Yield, TimedLock, TimedCheck, TimedFutexWake, TimedRelock
  <2>. QED  BY <1>0, <2>1, <2>2
<1>6. CASE TimedOut(t)
  BY <1>0, <1>6 DEF TimedOut
<1>7. CASE Relock(t)
  <2>1. pc'[t] = "locked" /\ Mutex(t)' = Mutex(t) /\ program[t] # <<>>
    BY <1>0, <1>7 DEF Relock, Mutex, CallInv, CallOK, Wants
  <2>2. owner'[Mutex(t)] = t
    BY <1>7, <2>1, ProgramTypes DEF Relock, Take, CondTypes
  <2>. QED  BY <2>1, <2>2
<1>. QED  BY <1>1, <1>2, <1>3, <1>4, <1>5, <1>6, <1>7 DEF CondStep

(* No step takes a mutex from another thread.                              *)
LEMMA StepOwn == CondTypes /\ CallInv /\ OwnInv /\ [CondNext]_vars => OwnInv'
<1>. SUFFICES ASSUME CondTypes, CallInv, OwnInv, [CondNext]_vars PROVE OwnInv'
  OBVIOUS
<1>1. ASSUME NEW t \in Client, CondStep(t) PROVE OwnInv'
  <2>1. OwnOK(t)'
    BY <1>1, StepOwnOK
  <2>2. ASSUME NEW u \in Client, u # t PROVE OwnOK(u)'
    <3>1. /\ pc'[u] = pc[u] /\ is_timedout'[u] = is_timedout[u] /\ Mutex(u)' = Mutex(u)
      BY <1>1, <2>2, OthersStay, Clients DEF Mutex
    <3>2. u \in Thread /\ u # NULL /\ OwnOK(u)
      BY Clients, ThreadAssumption DEF OwnInv, OwnOK
    <3>3. ASSUME pc[u] \in {"locked", "cond_check", "cond_unlock"} PROVE owner'[Mutex(u)] = u
      <4>1. Mutex(u) \in MUTEX
        BY <3>3, ProgramTypes DEF CallInv, CallOK, Wants
      <4>2. owner[Mutex(u)] = u
        BY <3>2, <3>3 DEF OwnOK
      <4>3. CASE owner' = owner
        BY <4>2, <4>3
      <4>4. CASE Take(t) \/ (Give(t) /\ owner[Mutex(t)] = t)
        <5>1. Mutex(u) # Mutex(t)
          BY <2>2, <3>2, <4>2, <4>4 DEF Take
        <5>. QED  BY <4>1, <4>2, <4>4, <5>1 DEF Take, Give, CondTypes
      <4>. QED  BY <1>1, <4>3, <4>4, OwnerSteps
    <3>. QED  BY <3>1, <3>2, <3>3 DEF OwnOK
  <2>. QED  BY <2>1, <2>2 DEF OwnInv, OwnOK
<1>2. ASSUME \/ \E t \in Client : TimePasses(t)
             \/ \E e \in XSTREAM : CondSchedule(e)
             \/ UNCHANGED vars
      PROVE  OwnInv'
  <2>1. UNCHANGED <<pc, owner, is_timedout, program>>
    BY <1>2 DEF TimePasses, CondSchedule, Schedule, condVars, vars
  <2>. QED  BY <2>1 DEF OwnInv, Mutex
<1>. QED  BY <1>1, <1>2 DEF CondNext, AllDone

-----------------------------------------------------------------------------
(* The count of the pool.                                                  *)

(* A step that neither blocks nor resumes.                                 *)
LEMMA CountedSame ==
    ASSUME CountedInv, UNCHANGED num_blocked,
           \A u \in ULT : state'[u] = "BLOCKED" <=> state[u] = "BLOCKED",
           \A u \in Client : pc'[u] \in DecPoint <=> pc[u] \in DecPoint
    PROVE  CountedInv'
<1>1. Blocked' = Blocked
  BY DEF Blocked
<1>. QED  BY <1>1 DEF CountedInv

(* The count follows each suspension, and each resume with its delay.      *)
LEMMA StepCounted ==
    CondTypes /\ PLockExclusion /\ CallInv /\ PlaceInv /\ ListInv /\ CountedInv /\ [CondNext]_vars
        => CountedInv'
<1>. SUFFICES ASSUME CondTypes, PLockExclusion, CallInv, PlaceInv, ListInv, CountedInv,
                     [CondNext]_vars
              PROVE  CountedInv'
  OBVIOUS
<1>. USE DEF condVars, At, GoTo
<1>0. Client \subseteq Thread /\ DOMAIN pc = Thread
  BY Clients DEF CondTypes
<1>1. ASSUME NEW t \in Client, CondStep(t), UNCHANGED <<state, num_blocked>>,
             pc[t] \notin DecPoint, pc'[t] \notin DecPoint
      PROVE  CountedInv'
  BY <1>0, <1>1, OthersStay, CountedSame
<1>2. ASSUME NEW t \in Client, CondStep(t),
             \/ LockMutex(t) \/ Leave(t) \/ Produce(t) \/ NotifyLock(t) \/ NotifyUnlock(t)
             \/ CondLock(t) \/ CondCheck(t) \/ CondUnlock(t) \/ Relock(t)
      PROVE  CountedInv'
  <2>1. UNCHANGED <<state, num_blocked>> /\ pc[t] \notin DecPoint
    BY <1>2 DEF LockMutex, Leave, Produce, NotifyLock, NotifyUnlock, CondLock, CondCheck,
                CondUnlock, Relock, SpinAcquire, SpinRelease, DecPoint
  <2>2. pc'[t] \notin DecPoint
    <3>1. CASE NotifyLock(t)
      BY <1>0, <3>1 DEF NotifyLock, SpinAcquire, CallInv, CallOK, Wants, DecPoint
    <3>2. CASE ~NotifyLock(t)
      BY <1>0, <1>2, <3>2
      DEF LockMutex, Leave, OperationDone, Produce, NotifyUnlock, CondLock, CondCheck,
          CondUnlock, Relock, SpinAcquire, SpinRelease, DecPoint
    <3>. QED  BY <3>1, <3>2
  <2>. QED  BY <1>1, <1>2, <2>1, <2>2
<1>3. ASSUME NEW t \in Client, CondStep(t),
             \/ TimedLock(t) \/ TimedCheck(t) \/ TimedFutexWake(t) \/ TimedRelock(t) \/ TimedOut(t)
      PROVE  CountedInv'
  <2>1. UNCHANGED <<state, num_blocked>> /\ pc[t] \notin DecPoint
    BY <1>3 DEF TimedLock, TimedCheck, TimedFutexWake, TimedRelock, TimedOut, SpinAcquire, DecPoint
  <2>2. pc'[t] \notin DecPoint
    BY <1>0, <1>3
    DEF TimedLock, TimedCheck, TimedFutexWake, TimedRelock, TimedOut, SpinAcquire, DecPoint
  <2>. QED  BY <1>1, <1>3, <2>1, <2>2
<1>4. ASSUME NEW t \in Client, CondStep(t), CondWait(t) \/ TimedAppend(t) PROVE CountedInv'
  <2>1. /\ UNCHANGED num_blocked
        /\ pc[t] \notin DecPoint /\ pc'[t] \notin DecPoint
    BY <1>0, <1>4 DEF CondWait, WaitAppend, TimedAppend, DecPoint
  <2>2. TimedAppend(t) => Entry(t) \in EXT
    BY Entries, Clients DEF TimedAppend
  <2>3. \A u \in ULT : state'[u] = state[u]
    BY <1>4, <2>2, ThreadAssumption DEF CondWait, WaitAppend, TimedAppend, CondTypes
  <2>. QED  BY <1>0, <1>4, <2>1, <2>3, OthersStay, CountedSame
<1>5. ASSUME NEW t \in Client, CondStep(t), CondWaitStep(t) PROVE CountedInv'
  <2>1. CASE SuspendBlock(t)
    <3>1. /\ pc[t] = "suspend" /\ pc'[t] = "suspend_unlock"
          /\ state' = [state EXCEPT ![t] = "BLOCKED"] /\ num_blocked' = num_blocked + 1
      BY <1>0, <2>1 DEF SuspendBlock, CallbackBlock
    <3>2. t \in ULT /\ state[t] # "BLOCKED"
      BY <3>1 DEF CallInv, CallOK, PlaceInv
    <3>3. Blocked' = Blocked \cup {t} /\ t \notin Blocked
      BY <3>1, <3>2 DEF Blocked, CondTypes
    <3>4. Cardinality(Blocked') = Cardinality(Blocked) + 1
      BY <3>3, BlockedFinite, FS_AddElement
    <3>5. \A u \in Client : pc'[u] \in DecPoint <=> pc[u] \in DecPoint
      BY <1>0, <1>5, <3>1, OthersStay DEF DecPoint
    <3>6. (\E u \in Client : pc'[u] \in DecPoint) <=> (\E u \in Client : pc[u] \in DecPoint)
      BY <3>5
    <3>. QED  BY <3>1, <3>4, <3>6, BlockedFinite DEF CountedInv
  <2>2. CASE ~SuspendBlock(t)
    <3>1. UNCHANGED <<state, num_blocked>> /\ pc[t] \notin DecPoint
      BY <1>5, <2>2 DEF CondWaitStep, WaitStep, SuspendUnlock, WaitResumed, ExtReady, SpinRelease,
                        ExtFutexWait, ExtFutexWake, ExtRelock, SpinAcquire, DecPoint
    <3>2. pc'[t] \notin DecPoint
      BY <1>0, <1>5, <2>2
      DEF CondWaitStep, WaitStep, SuspendUnlock, WaitResumed, ExtReady, SpinRelease,
          ExtFutexWait, ExtFutexWake, ExtRelock, SpinAcquire, DecPoint
    <3>. QED  BY <1>1, <1>5, <3>1, <3>2
  <2>. QED  BY <2>1, <2>2
<1>6. ASSUME NEW t \in Client, CondStep(t), TimedPoll(t) \/ ThreadExit(t) PROVE CountedInv'
  <2>1. /\ UNCHANGED num_blocked /\ Running(t)
        /\ pc[t] \notin DecPoint \cup {"suspend_unlock"} /\ pc'[t] \notin DecPoint
    BY <1>0, <1>6 DEF TimedPoll, Yield, ThreadExit, Exit, DecPoint
  <2>2. t \in ULT => state[t] # "BLOCKED"
    BY <2>1, ThreadAssumption DEF PlaceInv, Running
  <2>3. \/ UNCHANGED state
        \/ \E s \in {"READY", "TERMINATED"} : state' = [state EXCEPT ![t] = s]
    BY <1>6 DEF TimedPoll, Yield, AddThread, ThreadExit, Exit
  <2>4. \A u \in ULT : state'[u] = "BLOCKED" <=> state[u] = "BLOCKED"
    BY <2>2, <2>3 DEF CondTypes
  <2>. QED  BY <1>0, <1>6, <2>1, <2>4, OthersStay, CountedSame
<1>7. ASSUME NEW t \in Client, CondStep(t), Notify(t) PROVE CountedInv'
  <2>1. pc[t] \in PLockPoint \ ListPoint
    BY <1>7 DEF Notify, Signal, SignalNone, SignalOne, BroadcastDec, Broadcast, BroadcastOne,
                BroadcastEnd, PLockPoint, DecPoint, ListPoint, WaitPoint, TimedPoint
  <2>2. \A u \in Thread : pc[u] \in PLockPoint => u = t
    BY <2>1, HolderAlone
  <2>3. \A u \in Client : u # t => pc'[u] = pc[u] /\ pc[u] \notin DecPoint
    BY <1>0, <1>7, <2>2, OthersStay DEF PLockPoint
  <2>4. CASE \/ SignalNone(t, "signal", "notify_unlock")
             \/ BroadcastEnd(t, "broadcast", "notify_unlock")
    <3>1. UNCHANGED <<state, num_blocked>> /\ pc[t] \notin DecPoint /\ pc'[t] \notin DecPoint
      BY <1>0, <2>4 DEF SignalNone, BroadcastEnd, DecPoint
    <3>. QED  BY <1>1, <1>7, <3>1
  <2>5. CASE \/ BroadcastDec(t, "signal_dec", "notify_unlock")
             \/ BroadcastDec(t, "broadcast_dec", "broadcast")
    <3>1. /\ UNCHANGED state /\ num_blocked' = num_blocked - 1
          /\ pc[t] \in DecPoint /\ pc'[t] \notin DecPoint
      BY <1>0, <2>5 DEF BroadcastDec, ResumeDecNumBlocked, DecPoint
    <3>2. Blocked' = Blocked
      BY <3>1 DEF Blocked
    <3>3. (\E u \in Client : pc[u] \in DecPoint) /\ ~(\E u \in Client : pc'[u] \in DecPoint)
      BY <2>3, <3>1
    <3>. QED  BY <3>1, <3>2, <3>3, BlockedFinite DEF CountedInv
  <2>6. CASE \/ SignalOne(t, "signal", "signal_dec", "notify_unlock")
             \/ BroadcastOne(t, "broadcast", "broadcast_dec")
    <3>. DEFINE h == Head(waitlist)
    <3>1. pc[t] \notin DecPoint /\ waitlist # <<>>
      BY <2>6 DEF SignalOne, BroadcastOne, DecPoint
    <3>2. state[h] = "BLOCKED" /\ h \in Thread
      BY <2>1, <2>2, <3>1, HeadWaits
    <3>3. state' = [state EXCEPT ![h] = "READY"] /\ UNCHANGED num_blocked
      BY <2>6 DEF SignalOne, BroadcastOne, ResumePush, AddThread
    <3>4. CASE h \in ULT
      <4>1. pc'[t] \in DecPoint
        BY <1>0, <2>6, <3>4, ThreadAssumption DEF SignalOne, BroadcastOne, ResumePush, DecPoint
      <4>2. Blocked' = Blocked \ {h} /\ h \in Blocked
        BY <3>2, <3>3, <3>4 DEF Blocked, CondTypes
      <4>3. Cardinality(Blocked') = Cardinality(Blocked) - 1
        BY <4>2, BlockedFinite, FS_RemoveElement
      <4>4. ~(\E u \in Client : pc[u] \in DecPoint) /\ (\E u \in Client : pc'[u] \in DecPoint)
        BY <2>3, <3>1, <4>1
      <4>. QED  BY <3>3, <4>3, <4>4, BlockedFinite DEF CountedInv
    <3>5. CASE h \notin ULT
      <4>1. pc'[t] \notin DecPoint
        BY <1>0, <2>6, <3>1, <3>5 DEF SignalOne, BroadcastOne, DecPoint
      <4>2. \A u \in ULT : state'[u] = state[u]
        BY <3>3, <3>5 DEF CondTypes
      <4>. QED  BY <2>3, <3>1, <3>3, <4>1, <4>2, CountedSame
    <3>. QED  BY <3>4, <3>5
  <2>. QED  BY <1>7, <2>4, <2>5, <2>6 DEF Notify, Signal, Broadcast
<1>8. ASSUME NEW e \in XSTREAM, CondSchedule(e) PROVE CountedInv'
  <2>1. /\ Head(pool) \in ULT /\ state[Head(pool)] = "READY"
        /\ state' = [state EXCEPT ![Head(pool)] = "RUNNING"] /\ UNCHANGED <<pc, num_blocked>>
    BY <1>8, TailRange DEF CondSchedule, Schedule, CondTypes, PlaceInv
  <2>2. \A u \in ULT : state'[u] = "BLOCKED" <=> state[u] = "BLOCKED"
    BY <2>1 DEF CondTypes
  <2>. QED  BY <2>1, <2>2, CountedSame
<1>9. ASSUME \/ \E t \in Client : TimePasses(t)
             \/ UNCHANGED vars
      PROVE  CountedInv'
  BY <1>9, CountedSame DEF TimePasses, vars
<1>. QED
  BY <1>2, <1>3, <1>4, <1>5, <1>6, <1>7, <1>8, <1>9 DEF CondNext, CondStep, AllDone

-----------------------------------------------------------------------------

IInv ==
    CondTypes /\ PLockExclusion /\ CallInv /\ PlaceInv /\ ListInv /\ OwnInv /\ CountedInv

(* Initially no thread is in an operation.                                 *)
LEMMA InitInv == CondInit => IInv
<1>. SUFFICES ASSUME CondInit PROVE IInv
  OBVIOUS
<1>. USE DEF CondInit
<1>1. CondTypes
  <2>1. "idle" \in Point
    BY DEF Point
  <2>2. YthreadTypeOK(Point) /\ WaitlistTypeOK
    BY <2>1, InitTypes
  <2>3. program \in [Client -> Seq(Operation)]
    BY CondAssumption DEF Client, Dummies
  <2>4. owner \in [MUTEX -> Client \cup {NULL}]
    OBVIOUS
  <2>5. time_over \in [Client -> BOOLEAN] /\ is_timedout \in [Client -> BOOLEAN]
    OBVIOUS
  <2>. HIDE DEF YthreadTypeOK, WaitlistTypeOK
  <2>. QED  BY <2>2, <2>3, <2>4, <2>5 DEF CondTypes
<1>2. /\ \A t \in Thread : pc[t] = "idle"
      /\ \A u \in ULT : state[u] = "READY"
      /\ OnXstream = {} /\ Waiters = {} /\ waitlist = <<>> /\ num_blocked = 0
  BY DEF YthreadInit, WaitlistInit, OnXstream, Waiters, Range
<1>3. \A t \in Client : pc[t] = "idle"
  BY <1>2, Clients
<1>. HIDE DEF CondInit
<1>4. PLockExclusion
  BY <1>3 DEF PLockExclusion, PLockPoint, WaitLockPoint, DecPoint
<1>5. CallInv
  <2>1. \A t \in Client : CallOK(t)
    BY <1>3 DEF CallOK, TimedPoint, DecPoint
  <2>2. \A d \in Dummies : pc[d] = "idle"
    BY <1>2, Clients
  <2>. QED  BY <2>1, <2>2 DEF CallInv
<1>6. PlaceInv
  <2>1. "idle" \notin WaitPoint
    BY DEF WaitPoint
  <2>2. UltInOnePlace
    BY <2>1, WaitInitInv DEF CondInit, WaitInv
  <2>. QED  BY <1>2, <2>2 DEF PlaceInv, UltInOnePlace
<1>7. ListInv
  <2>1. \A t \in Client : ~Asleep(t) /\ pc[t] \notin TimedPoint
    BY <1>3 DEF Asleep, ListPoint, WaitPoint, TimedPoint
  <2>2. IsInjective(waitlist)
    BY <1>2 DEF IsInjective
  <2>. QED  BY <1>2, <2>1, <2>2 DEF ListInv
<1>8. OwnInv
  BY <1>3 DEF OwnInv, ListPoint, WaitPoint, TimedPoint
<1>9. CountedInv
  <2>1. Blocked = {}
    BY <1>2 DEF Blocked
  <2>2. ~\E t \in Client : pc[t] \in DecPoint
    BY <1>3 DEF DecPoint
  <2>. QED  BY <1>2, <2>1, <2>2, FS_EmptySet DEF CountedInv
<1>. QED  BY <1>1, <1>4, <1>5, <1>6, <1>7, <1>8, <1>9 DEF IInv

(* The invariant is inductive.                                             *)
LEMMA Inductive == IInv /\ [CondNext]_vars => IInv'
  BY StepTypes, StepLock, StepCall, StepPlaceList, StepOwn, StepCounted DEF IInv

(* The list, the points, p_lock, the mutexes and the count fit together at *)
(* every step.                                                             *)
THEOREM Invariance == CondSpec => []IInv
  BY InitInv, Inductive, PTL DEF CondSpec

(* The invariant has the types in it.                                      *)
LEMMA Types == IInv => TypeOK
<1>. SUFFICES ASSUME IInv PROVE TypeOK
  OBVIOUS
<1>1. num_blocked \in Nat
  BY BlockedFinite DEF IInv, CountedInv
<1>. HIDE DEF YthreadTypeOK, WaitlistTypeOK
<1>. QED  BY <1>1 DEF IInv, CondTypes, TypeOK

(* The variables of the condition variable keep their types, and the count *)
(* of BLOCKED ULTs of the pool never becomes negative.                     *)
THEOREM TypeCorrect == CondSpec => []TypeOK
  BY Invariance, Types, PTL

(* No dummy of a timed wait stays on the list after its wait is over, and  *)
(* no waiter is forgotten on the way.                                      *)
THEOREM Listed == CondSpec => []ListedWhileWaiting
<1>1. IInv => ListedWhileWaiting
  <2>. SUFFICES ASSUME IInv PROVE ListedWhileWaiting
    OBVIOUS
  <2>1. ListPoint = InWait \ {"cond_wait", "relock"}
    BY DEF ListPoint, InWait, WaitPoint, TimedPoint
  <2>2. {t \in Client : Asleep(t)}
          = {t \in Client : /\ pc[t] \in InWait \ {"cond_wait", "relock"}
                            /\ state[Entry(t)] = "BLOCKED" \/ pc[t] = "suspend"}
    BY <2>1 DEF Asleep
  <2>. QED  BY <2>2, Types DEF IInv, ListInv, ListedWhileWaiting
<1>. QED  BY <1>1, Invariance, PTL

-----------------------------------------------------------------------------
(* The condition variable implements AbstractCond.  What it speaks of is   *)
(* for each thread whether it is in a wait, waits still, and has timed out.*)

Broadcasting == \E b \in Client : pc[b] \in {"broadcast", "broadcast_dec"}

Waits(t) == pc[t] = "cond_wait" \/ (pc[t] \in ListPoint /\ Entry(t) \in Waiters)

(* The threads AbstractCond has wait.                                      *)
LEMMA WaitingIs ==
    /\ Waiting = {t \in Client : Waits(t) /\ ~Broadcasting}
    /\ Waiting' = {t \in Client : Waits(t) /\ ~Broadcasting}'
<1>1. InWait \ {"relock"} = ListPoint \cup {"cond_wait"}
  BY DEF InWait, ListPoint, WaitPoint, TimedPoint
<1>2. Waiting = {t \in Client : Waits(t) /\ ~Broadcasting}
  BY <1>1 DEF Waiting, Waits, Broadcasting
<1>3. Waiting' = {t \in Client : Waits(t) /\ ~Broadcasting}'
  BY <1>1 DEF Waiting, Waits, Broadcasting
<1>. QED  BY <1>2, <1>3

(* The step changes nothing of this for t; while there is a broadcast      *)
(* nobody waits any more.                                                  *)
Same(t) ==
    /\ pc'[t] \in InWait <=> pc[t] \in InWait
    /\ pc[t] \in InWait => Mutex(t)' = Mutex(t)
    /\ (pc'[t] = "relock" /\ is_timedout'[t]) <=> (pc[t] = "relock" /\ is_timedout[t])
    /\ ~Broadcasting => (Waits(t)' <=> Waits(t))

(* The points of a wait.                                                   *)
LEMMA InWaitPoints ==
    InWait = ListPoint \cup {"cond_wait", "relock"} /\ "relock" \notin ListPoint
  BY DEF InWait, ListPoint, WaitPoint, TimedPoint

(* A step that changes nothing for anybody.                                *)
LEMMA MapSame ==
    ASSUME Broadcasting' <=> Broadcasting, \A u \in Client : Same(u)
    PROVE  UNCHANGED <<Pairs(Waiting), Pairs(Woken), Pairs(Expired)>>
<1>1. Waiting' = Waiting
  BY WaitingIs DEF Same
<1>2. Expired' = Expired
  BY DEF Same, Expired
<1>3. Woken' = Woken
  BY <1>1, <1>2 DEF Same, Woken
<1>4. \A u \in Waiting \cup Woken \cup Expired : pc[u] \in InWait /\ u \in Client
  BY WaitingIs, InWaitPoints DEF Waits, Woken, Expired
<1>5. \A u \in Waiting \cup Woken \cup Expired : Mutex(u)' = Mutex(u)
  BY <1>4 DEF Same
<1>6. Pairs(Waiting)' = Pairs(Waiting)
  BY <1>1, <1>5 DEF Pairs
<1>7. Pairs(Woken)' = Pairs(Woken)
  BY <1>3, <1>5 DEF Pairs
<1>8. Pairs(Expired)' = Pairs(Expired)
  BY <1>2, <1>5 DEF Pairs
<1>. QED  BY <1>6, <1>7, <1>8

(* An entry on the list is one of a thread that is asleep.                 *)
LEMMA EntryAsleep ==
    ASSUME ListInv, NEW t \in Client, Entry(t) \in Waiters
    PROVE  Asleep(t)
<1>1. PICK u \in Client : Asleep(u) /\ Entry(u) = Entry(t)
  BY DEF ListInv
<1>. QED  BY <1>1, Entries

(* How a step of t changes who is on the list, other than by a wake-up.    *)
LEMMA WaitersChange ==
    ASSUME CondTypes, ListInv, NEW t \in Client, CondStep(t),
           ~SignalOne(t, "signal", "signal_dec", "notify_unlock"),
           ~BroadcastOne(t, "broadcast", "broadcast_dec")
    PROVE  \/ UNCHANGED Waiters /\ ~(CondWait(t) \/ TimedAppend(t))
           \/ (CondWait(t) \/ TimedAppend(t)) /\ Waiters' = Waiters \cup {Entry(t)}
           \/ TimedOut(t) /\ state[Entry(t)] # "READY" /\ Waiters' = Waiters \ {Entry(t)}
<1>0. waitlist \in Seq(Thread) /\ IsInjective(waitlist) /\ Entry(t) \in Thread
  BY Entries DEF CondTypes, ListInv
<1>1. CASE CondWait(t) \/ TimedAppend(t)
  <2>1. waitlist' = Append(waitlist, Entry(t))
    BY <1>1 DEF CondWait, WaitAppend, TimedAppend, Entry, Wants
  <2>2. Range(Append(waitlist, Entry(t))) = Range(waitlist) \cup {Entry(t)}
    BY <1>0, AppendRange
  <2>. QED  BY <1>1, <2>1, <2>2 DEF Waiters
<1>2. CASE TimedOut(t) /\ state[Entry(t)] # "READY"
  <2>1. PICK k \in DOMAIN waitlist : waitlist[k] = Entry(t) /\ waitlist' = RemoveAt(waitlist, k)
    BY <1>2 DEF TimedOut
  <2>2. Waiters' = Waiters \ {Entry(t)}
    BY <1>0, <2>1, RemoveRange DEF Waiters
  <2>. QED  BY <1>2, <2>2
<1>3. CASE /\ ~(CondWait(t) \/ TimedAppend(t))
           /\ ~(TimedOut(t) /\ state[Entry(t)] # "READY")
  <2>1. UNCHANGED waitlist
    <3>1. CASE Notify(t)
      BY <3>1 DEF Notify, Signal, SignalNone, Broadcast, BroadcastDec, BroadcastEnd
    <3>2. CASE CondWaitStep(t)
      BY <3>2 DEF CondWaitStep, WaitStep, SuspendBlock, SuspendUnlock, WaitResumed, ExtReady,
                  SpinRelease, ExtFutexWait, ExtFutexWake, ExtRelock, SpinAcquire
    <3>3. CASE ~Notify(t) /\ ~CondWaitStep(t)
      BY <1>3, <3>3
      DEF CondStep, LockMutex, Leave, Produce, NotifyLock, NotifyUnlock, CondLock, CondCheck,
          CondUnlock, TimedPoll, TimedLock, TimedCheck, TimedFutexWake, TimedRelock, TimedOut,
          Relock, ThreadExit, SpinAcquire, SpinRelease
    <3>. QED  BY <3>1, <3>2, <3>3
  <2>. QED  BY <1>3, <2>1 DEF Waiters
<1>. QED  BY <1>1, <1>2, <1>3

(* Only a signal changes anything for another thread.                      *)
LEMMA OthersSame ==
    ASSUME CondTypes, ListInv, NEW t \in Client, CondStep(t),
           ~SignalOne(t, "signal", "signal_dec", "notify_unlock"),
           NEW u \in Client, u # t
    PROVE  Same(u)
<1>1. /\ pc'[u] = pc[u] /\ is_timedout'[u] = is_timedout[u]
      /\ Mutex(u)' = Mutex(u) /\ Entry(u)' = Entry(u)
  BY OthersStay, Clients DEF Mutex, Entry, Wants
<1>2. CASE BroadcastOne(t, "broadcast", "broadcast_dec")
  <2>1. Broadcasting
    BY <1>2 DEF BroadcastOne, At, Broadcasting
  <2>. QED  BY <1>1, <2>1 DEF Same
<1>3. CASE ~BroadcastOne(t, "broadcast", "broadcast_dec")
  <2>1. Entry(u) # Entry(t)
    BY Entries
  <2>2. Entry(u) \in Waiters' <=> Entry(u) \in Waiters
    BY <1>3, <2>1, WaitersChange
  <2>. QED  BY <1>1, <2>2 DEF Same, Waits
<1>. QED  BY <1>2, <1>3

(* A thread on its way through a wait stays on the list, or goes to take   *)
(* its mutex when it is no longer asleep.                                  *)
LEMMA WaitMoves ==
    ASSUME CondTypes, CallInv, PlaceInv, ListInv, NEW t \in Client, CondStep(t),
           \/ CondWaitStep(t) \/ TimedPoll(t) \/ TimedLock(t) \/ TimedCheck(t)
           \/ TimedFutexWake(t) \/ TimedRelock(t)
    PROVE  /\ pc[t] \in ListPoint /\ UNCHANGED <<is_timedout, program>>
           /\ pc'[t] \in ListPoint \/ (pc'[t] = "relock" /\ ~Asleep(t))
<1>. USE DEF condVars, ListPoint, WaitPoint, TimedPoint, At, GoTo
<1>0. t \in Thread /\ DOMAIN pc = Thread
  BY Clients DEF CondTypes
<1>1. CASE CondWaitStep(t)
  <2>1. pc[t] \in WaitPoint /\ UNCHANGED <<is_timedout, program>>
    BY <1>1 DEF CondWaitStep, WaitStep, SuspendBlock, SuspendUnlock, WaitResumed, ExtReady,
                ExtFutexWait, ExtFutexWake, ExtRelock, SpinAcquire, SpinRelease
  <2>2. Entry(t) = t
    BY <2>1, Entries DEF CallInv, CallOK, Wants
  <2>3. CASE WaitResumed(t, "relock")
    <3>1. pc[t] = "waiting" /\ pc'[t] = "relock" /\ Running(t) /\ t \in ULT
      BY <1>0, <2>3 DEF WaitResumed, CallInv, CallOK
    <3>2. state[t] # "BLOCKED"
      BY <3>1, ThreadAssumption DEF PlaceInv, Running
    <3>. QED  BY <2>1, <2>2, <3>1, <3>2 DEF Asleep
  <2>4. CASE ~WaitResumed(t, "relock")
    <3>1. \/ pc'[t] \in WaitPoint
          \/ pc'[t] = "relock" /\ state[t] = "READY" /\ pc[t] \in {"ext_check", "ext_futex"}
      BY <1>0, <1>1, <2>4
      DEF CondWaitStep, WaitStep, SuspendBlock, CallbackBlock, SuspendUnlock, ExtReady,
          ExtFutexWait, ExtFutexWake, ExtRelock, SpinAcquire, SpinRelease
    <3>. QED  BY <2>1, <2>2, <3>1 DEF Asleep
  <2>. QED  BY <2>3, <2>4
<1>2. CASE TimedPoll(t)
  <2>1. /\ pc[t] = "timed_poll" /\ UNCHANGED <<is_timedout, program>>
        /\ \/ pc'[t] \in TimedPoint
           \/ pc'[t] = "relock" /\ state[Entry(t)] = "READY"
    BY <1>0, <1>2 DEF TimedPoll, Yield
  <2>. QED  BY <2>1 DEF Asleep
<1>3. CASE TimedLock(t) \/ TimedCheck(t) \/ TimedFutexWake(t) \/ TimedRelock(t)
  <2>1. pc[t] \in TimedPoint \ {"timed_poll", "timed_out"} /\ UNCHANGED <<is_timedout, program>>
    BY <1>3 DEF TimedLock, TimedCheck, TimedFutexWake, TimedRelock, SpinAcquire
  <2>2. \/ pc'[t] \in TimedPoint
        \/ /\ pc'[t] = "relock" /\ state[t] = "READY"
           /\ pc[t] \in {"timed_check", "timed_futex"}
    BY <1>0, <1>3 DEF TimedLock, TimedCheck, TimedFutexWake, TimedRelock, SpinAcquire
  <2>3. pc[t] \in {"timed_check", "timed_futex"} => Entry(t) = t
    BY Entries DEF CallInv, CallOK
  <2>. QED  BY <2>1, <2>2, <2>3 DEF Asleep
<1>. QED  BY <1>1, <1>2, <1>3

(* Four steps change what the thread that takes them is in a wait.         *)
LEMMA SelfSame ==
    ASSUME IInv, NEW t \in Client, CondStep(t), ~CondUnlock(t), ~Relock(t),
           ~(TimedOut(t) /\ state[Entry(t)] # "READY")
    PROVE  Same(t)
<1>. USE DEF condVars, At, GoTo
<1>0. t \in Thread /\ DOMAIN pc = Thread
  BY Clients DEF IInv, CondTypes
<1>1. ASSUME pc[t] \notin InWait, pc'[t] \notin InWait PROVE Same(t)
  BY <1>1, InWaitPoints DEF Same, Waits
<1>2. CASE \/ LockMutex(t) \/ Leave(t) \/ Produce(t) \/ NotifyLock(t) \/ NotifyUnlock(t)
           \/ CondLock(t) \/ CondCheck(t) \/ ThreadExit(t)
  <2>1. pc[t] \in {"idle", "locked", "refused", "notified", "notify", "notify_unlock", "cond_check"}
    BY <1>2 DEF LockMutex, Leave, Produce, NotifyLock, NotifyUnlock, CondLock, CondCheck,
                ThreadExit, SpinAcquire, SpinRelease
  <2>2. pc[t] = "notify" => Head(program[t])[1] \in {"signal", "broadcast"}
    BY DEF IInv, CallInv, CallOK, Wants
  <2>3. pc'[t] \in {"locked", "idle", "notify", "signal", "broadcast", "notified", "cond_check",
                    "cond_unlock", "refused", "done"}
    BY <1>0, <1>2, <2>2
    DEF LockMutex, Leave, OperationDone, Produce, NotifyLock, NotifyUnlock, CondLock, CondCheck,
        ThreadExit, Exit, SpinAcquire, SpinRelease
  <2>. QED  BY <1>1, <2>1, <2>3 DEF InWait, WaitPoint, TimedPoint
<1>3. CASE Notify(t)
  <2>1. /\ pc[t] \in {"signal", "broadcast"} \cup DecPoint
        /\ pc'[t] \in {"broadcast", "notify_unlock"} \cup DecPoint
    BY <1>0, <1>3 DEF Notify, Signal, SignalNone, SignalOne, BroadcastDec, Broadcast,
                      BroadcastOne, BroadcastEnd, ResumePush, ResumeDecNumBlocked, DecPoint
  <2>. QED  BY <1>1, <2>1 DEF InWait, WaitPoint, TimedPoint, DecPoint
<1>4. CASE CondWait(t) \/ TimedAppend(t)
  <2>1. /\ pc[t] = "cond_wait" /\ pc'[t] \in ListPoint
        /\ Entry(t)' = Entry(t) /\ Mutex(t)' = Mutex(t)
    BY <1>0, <1>4 DEF CondWait, WaitAppend, TimedAppend, Entry, Wants, Mutex, ListPoint, WaitPoint,
                      TimedPoint
  <2>2. Entry(t) \in Waiters'
    BY <1>4, <2>1, WaitersChange DEF IInv, SignalOne, BroadcastOne, TimedOut
  <2>. QED  BY <2>1, <2>2, InWaitPoints DEF Same, Waits
<1>5. CASE \/ CondWaitStep(t) \/ TimedPoll(t) \/ TimedLock(t) \/ TimedCheck(t)
           \/ TimedFutexWake(t) \/ TimedRelock(t)
  <2>1. /\ pc[t] \in ListPoint /\ UNCHANGED <<is_timedout, program>>
        /\ pc'[t] \in ListPoint \/ (pc'[t] = "relock" /\ ~Asleep(t))
    BY <1>5, WaitMoves DEF IInv
  <2>2. Entry(t)' = Entry(t) /\ Mutex(t)' = Mutex(t)
    BY <2>1 DEF Entry, Wants, Mutex
  <2>3. UNCHANGED Waiters
    BY <1>5
    DEF CondWaitStep, WaitStep, SuspendBlock, SuspendUnlock, WaitResumed, ExtReady, ExtFutexWait,
        ExtFutexWake, ExtRelock, TimedPoll, TimedLock, TimedCheck, TimedFutexWake, TimedRelock,
        SpinAcquire, SpinRelease, Waiters
  <2>4. ~is_timedout[t]
    BY <2>1 DEF IInv, OwnInv
  <2>5. ~Asleep(t) => Entry(t) \notin Waiters
    BY EntryAsleep DEF IInv
  <2>. QED  BY <2>1, <2>2, <2>3, <2>4, <2>5, InWaitPoints
       DEF Same, Waits, ListPoint, WaitPoint, TimedPoint
<1>6. CASE TimedOut(t) /\ state[Entry(t)] = "READY"
  <2>1. /\ pc[t] = "timed_out" /\ pc'[t] = "relock" /\ ~is_timedout'[t] /\ UNCHANGED program
    BY <1>0, <1>6 DEF TimedOut, IInv, CondTypes
  <2>2. Mutex(t)' = Mutex(t)
    BY <2>1 DEF Mutex
  <2>3. ~Asleep(t)
    BY <1>6, <2>1 DEF Asleep
  <2>4. Entry(t) \notin Waiters
    BY <2>3, EntryAsleep DEF IInv
  <2>. QED  BY <2>1, <2>2, <2>4, InWaitPoints
       DEF Same, Waits, ListPoint, WaitPoint, TimedPoint
<1>. QED  BY <1>2, <1>3, <1>4, <1>5, <1>6 DEF CondStep

(* The holder of p_lock keeps others from broadcasting.                    *)
LEMMA NoBroadcast ==
    ASSUME PLockExclusion, NEW t \in Client,
           ~p_lock \/ (pc[t] \in PLockPoint /\ pc[t] \notin {"broadcast", "broadcast_dec"})
    PROVE  ~Broadcasting
  BY DEF PLockExclusion, PLockPoint, DecPoint, Broadcasting

(* A broadcast begins with p_lock, and ends with the list.                 *)
LEMMA BroadcastStays ==
    ASSUME IInv, NEW t \in Client, CondStep(t), ~NotifyLock(t),
           ~BroadcastEnd(t, "broadcast", "notify_unlock")
    PROVE  Broadcasting' <=> Broadcasting
<1>. USE DEF condVars, At, GoTo
<1>0. t \in Thread /\ DOMAIN pc = Thread
  BY Clients DEF IInv, CondTypes
<1>1. \A u \in Client : u # t => pc'[u] = pc[u]
  BY OthersStay, Clients DEF IInv
<1>2. pc'[t] \in {"broadcast", "broadcast_dec"} <=> pc[t] \in {"broadcast", "broadcast_dec"}
  <2>1. CASE Notify(t)
    <3>1. CASE Signal(t, "signal", "signal_dec", "notify_unlock")
      BY <1>0, <3>1 DEF Signal, SignalNone, SignalOne, BroadcastDec, ResumePush,
                        ResumeDecNumBlocked
    <3>2. CASE BroadcastOne(t, "broadcast", "broadcast_dec")
      BY <1>0, <3>2 DEF BroadcastOne, ResumePush
    <3>3. CASE BroadcastDec(t, "broadcast_dec", "broadcast")
      BY <1>0, <3>3 DEF BroadcastDec, ResumeDecNumBlocked
    <3>. QED  BY <2>1, <3>1, <3>2, <3>3 DEF Notify, Broadcast
  <2>2. CASE CondWaitStep(t)
    BY <1>0, <2>2
    DEF CondWaitStep, WaitStep, SuspendBlock, CallbackBlock, SuspendUnlock, WaitResumed, ExtReady,
        ExtFutexWait, ExtFutexWake, ExtRelock, SpinAcquire, SpinRelease
  <2>3. CASE \/ LockMutex(t) \/ Leave(t) \/ Produce(t) \/ NotifyUnlock(t) \/ CondLock(t)
             \/ CondCheck(t) \/ CondUnlock(t) \/ Relock(t) \/ ThreadExit(t)
    BY <1>0, <2>3
    DEF LockMutex, Leave, OperationDone, Produce, NotifyUnlock, CondLock, CondCheck, CondUnlock,
        Relock, ThreadExit, Exit, SpinAcquire, SpinRelease
  <2>4. CASE \/ CondWait(t) \/ TimedAppend(t) \/ TimedPoll(t) \/ TimedLock(t) \/ TimedCheck(t)
             \/ TimedFutexWake(t) \/ TimedRelock(t) \/ TimedOut(t)
    BY <1>0, <2>4
    DEF CondWait, WaitAppend, TimedAppend, TimedPoll, Yield, TimedLock, TimedCheck,
        TimedFutexWake, TimedRelock, TimedOut, SpinAcquire
  <2>. QED  BY <2>1, <2>2, <2>3, <2>4 DEF CondStep
<1>. QED  BY <1>1, <1>2 DEF Broadcasting

(* What becomes of the pairs when no program changes.                      *)
LEMMA PairsNext ==
    ASSUME \A u \in Client : Mutex(u)' = Mutex(u)
    PROVE  /\ Pairs(Waiting)' = {<<u, Mutex(u)>> : u \in Waiting'}
           /\ Pairs(Woken)' = {<<u, Mutex(u)>> : u \in Woken'}
           /\ Pairs(Expired)' = {<<u, Mutex(u)>> : u \in Expired'}
<1>1. Waiting' \subseteq Client /\ Woken' \subseteq Client /\ Expired' \subseteq Client
  BY DEF Waiting, Woken, Expired
<1>. QED  BY <1>1 DEF Pairs

(* The unlock of the mutex begins the wait.                                *)
LEMMA WaitRefined ==
    ASSUME IInv, NEW t \in Client, CondStep(t), CondUnlock(t)
    PROVE  Abstract!Wait(t, Mutex(t))
<1>1. pc[t] = "cond_unlock" /\ pc'[t] = "cond_wait"
  BY Clients DEF CondUnlock, At, GoTo, IInv, CondTypes
<1>2. /\ ~NotifyLock(t) /\ ~BroadcastEnd(t, "broadcast", "notify_unlock") /\ ~Leave(t)
      /\ ~SignalOne(t, "signal", "signal_dec", "notify_unlock")
  BY <1>1, Clients DEF NotifyLock, SpinAcquire, BroadcastEnd, SignalOne, Leave, OperationDone, At,
                       GoTo, IInv, CondTypes
<1>3. ~Broadcasting /\ ~Broadcasting'
  BY <1>1, <1>2, NoBroadcast, BroadcastStays DEF IInv, PLockPoint
<1>4. \A u \in Client : u # t => Same(u)
  BY <1>2, OthersSame DEF IInv
<1>5. \A u \in Client : Mutex(u)' = Mutex(u)
  BY <1>2, ProgramStays
<1>6. t \notin Waiting /\ Waiting' = Waiting \cup {t}
  BY <1>1, <1>3, <1>4, WaitingIs DEF Same, Waits, ListPoint, WaitPoint, TimedPoint
<1>7. Expired' = Expired
  BY <1>1, <1>4 DEF Same, Expired
<1>8. Woken' = Woken
  BY <1>1, <1>4, <1>6, <1>7 DEF Same, Woken, InWait, WaitPoint, TimedPoint
<1>9. /\ Pairs(Waiting)' = Pairs(Waiting) \cup {<<t, Mutex(t)>>}
      /\ Pairs(Woken)' = Pairs(Woken) /\ Pairs(Expired)' = Pairs(Expired)
  <2>1. Pairs(Waiting)' = Pairs(Waiting) \cup {<<t, Mutex(t)>>}
    BY <1>5, <1>6, PairsNext DEF Pairs
  <2>2. Pairs(Woken)' = Pairs(Woken) /\ Pairs(Expired)' = Pairs(Expired)
    BY <1>5, <1>7, <1>8, PairsNext DEF Pairs
  <2>. QED  BY <2>1, <2>2
<1>10. owner[Mutex(t)] = t /\ owner' = [owner EXCEPT ![Mutex(t)] = NULL]
  BY <1>1 DEF IInv, OwnInv, CondUnlock, Give
<1>. QED  BY <1>9, <1>10 DEF Abstract!Wait, Abstract!Give

(* A signal wakes one thread that waits.                                   *)
LEMMA SignalRefined ==
    ASSUME IInv, NEW t \in Client, CondStep(t), Notify(t),
           SignalOne(t, "signal", "signal_dec", "notify_unlock")
    PROVE  Abstract!Signal
<1>1. /\ pc[t] = "signal" /\ pc'[t] \in {"signal_dec", "notify_unlock"}
      /\ waitlist # <<>> /\ waitlist' = Tail(waitlist)
  BY Clients DEF SignalOne, ResumePush, At, GoTo, IInv, CondTypes
<1>2. ~NotifyLock(t) /\ ~BroadcastEnd(t, "broadcast", "notify_unlock") /\ ~Leave(t)
  BY <1>1, Clients DEF NotifyLock, SpinAcquire, BroadcastEnd, Leave, At
<1>3. ~Broadcasting /\ ~Broadcasting'
  BY <1>1, <1>2, NoBroadcast, BroadcastStays DEF IInv, PLockPoint
<1>4. PICK w \in Client : w # t /\ Asleep(w) /\ Entry(w) = Head(waitlist)
  <2>1. pc[t] \in PLockPoint /\ pc[t] \notin ListPoint
    BY <1>1 DEF PLockPoint, ListPoint, WaitPoint, TimedPoint
  <2>. QED  BY <1>1, <2>1, HolderAlone, HeadWaits DEF IInv
<1>5. Waiters' = Waiters \ {Entry(w)}
  BY <1>1, <1>4, ListTail DEF IInv
<1>6. \A u \in Client : Mutex(u)' = Mutex(u) /\ Entry(u)' = Entry(u)
  BY <1>2, ProgramStays
<1>7. /\ \A u \in Client : u # t => pc'[u] = pc[u]
      /\ UNCHANGED is_timedout
  BY OthersStay, Clients DEF IInv, Notify, condVars
<1>8. \A u \in Client : (pc'[u] \in InWait <=> pc[u] \in InWait)
                        /\ (pc'[u] = "relock" <=> pc[u] = "relock")
  BY <1>1, <1>7 DEF InWait, WaitPoint, TimedPoint
<1>9. \A u \in Client : Waits(u)' <=> Waits(u) /\ u # w
  <2>1. \A u \in Client : Entry(u) = Entry(w) => u = w
    BY Entries
  <2>2. ~Waits(t) /\ ~Waits(t)'
    BY <1>1 DEF Waits, ListPoint, WaitPoint, TimedPoint
  <2>3. pc[w] # "cond_wait"
    BY <1>4 DEF Asleep, ListPoint, WaitPoint, TimedPoint
  <2>. QED  BY <1>5, <1>6, <1>7, <2>1, <2>2, <2>3 DEF Waits
<1>10. Waits(w)
  BY <1>4 DEF Waits, Asleep, IInv, ListInv
<1>11. w \in Waiting /\ Waiting' = Waiting \ {w}
  BY <1>3, <1>9, <1>10, WaitingIs
<1>12. Expired' = Expired /\ w \notin Expired
  <2>1. pc[w] # "relock"
    BY <1>4 DEF Asleep, ListPoint, WaitPoint, TimedPoint
  <2>. QED  BY <1>7, <1>8, <2>1 DEF Expired
<1>13. Woken' = Woken \cup {w}
  <2>1. pc[w] \in InWait
    BY <1>4, InWaitPoints DEF Asleep
  <2>. QED  BY <1>8, <1>11, <1>12, <2>1 DEF Woken
<1>14. /\ <<w, Mutex(w)>> \in Pairs(Waiting)
       /\ Pairs(Waiting)' = Pairs(Waiting) \ {<<w, Mutex(w)>>}
  BY <1>6, <1>11, PairsNext DEF Pairs
<1>15. /\ Pairs(Woken)' = Pairs(Woken) \cup {<<w, Mutex(w)>>}
       /\ Pairs(Expired)' = Pairs(Expired)
  BY <1>6, <1>12, <1>13, PairsNext DEF Pairs
<1>16. UNCHANGED owner
  BY DEF Notify, condVars
<1>. QED  BY <1>14, <1>15, <1>16 DEF Abstract!Signal

(* A broadcast counts for all the waiters from the moment it has p_lock;   *)
(* a signal is about to.                                                   *)
LEMMA NotifyRefined ==
    ASSUME IInv, NEW t \in Client, CondStep(t), NotifyLock(t)
    PROVE  Abstract!Broadcast \/ UNCHANGED Abstract!condVars
<1>1. /\ pc[t] = "notify" /\ pc'[t] \in {"signal", "broadcast"}
      /\ ~p_lock /\ UNCHANGED <<owner, is_timedout, program>>
  <2>1. Head(program[t])[1] \in {"signal", "broadcast"}
    BY DEF NotifyLock, SpinAcquire, At, IInv, CallInv, CallOK, Wants
  <2>. QED  BY <2>1, Clients DEF NotifyLock, SpinAcquire, At, GoTo, condVars, IInv, CondTypes
<1>2. ~Broadcasting
  BY <1>1, NoBroadcast DEF IInv
<1>3. \A u \in Client : u # t => pc'[u] = pc[u] /\ Same(u)
  BY <1>1, OthersStay, OthersSame, Clients DEF IInv, SignalOne, At
<1>4. Same(t)
  BY <1>1, SelfSame DEF CondUnlock, Relock, TimedOut, At
<1>5. CASE pc'[t] = "signal"
  <2>1. ~Broadcasting'
    BY <1>2, <1>3, <1>5 DEF Broadcasting
  <2>. QED  BY <1>1, <1>2, <1>3, <1>4, <2>1, MapSame DEF Abstract!condVars
<1>6. CASE pc'[t] = "broadcast"
  <2>1. Broadcasting'
    BY <1>6 DEF Broadcasting
  <2>2. Waiting' = {}
    BY <2>1, WaitingIs
  <2>3. Expired' = Expired
    BY <1>3, <1>4 DEF Same, Expired
  <2>4. Woken' = Woken \cup Waiting
    <3>1. \A u \in Waiting : u \in Client /\ pc[u] \in InWait /\ u \notin Expired
      BY WaitingIs, InWaitPoints DEF Waits, Expired
    <3>. QED  BY <1>3, <1>4, <2>2, <2>3, <3>1 DEF Same, Woken
  <2>5. \A u \in Client : Mutex(u)' = Mutex(u)
    BY <1>1 DEF Mutex
  <2>6. Pairs(Waiting)' = {} /\ Pairs(Expired)' = Pairs(Expired)
    BY <2>2, <2>3, <2>5, PairsNext DEF Pairs
  <2>7. Pairs(Woken)' = Pairs(Woken) \cup Pairs(Waiting)
    BY <2>4, <2>5, PairsNext DEF Pairs
  <2>. QED  BY <1>1, <2>6, <2>7 DEF Abstract!Broadcast
<1>. QED  BY <1>1, <1>5, <1>6

(* When a broadcast ends nobody is left on the list.                       *)
LEMMA BroadcastEndRefined ==
    ASSUME IInv, NEW t \in Client, CondStep(t), Notify(t),
           BroadcastEnd(t, "broadcast", "notify_unlock")
    PROVE  UNCHANGED Abstract!condVars
<1>1. /\ pc[t] = "broadcast" /\ pc'[t] = "notify_unlock"
      /\ waitlist = <<>> /\ waitlist' = <<>> /\ UNCHANGED <<owner, is_timedout, program>>
  BY Clients DEF BroadcastEnd, Notify, At, GoTo, condVars, IInv, CondTypes
<1>2. \A u \in Client : u # t => pc'[u] = pc[u]
  BY OthersStay, Clients DEF IInv
<1>3. Waiting = {}
  <2>1. Broadcasting
    BY <1>1 DEF Broadcasting
  <2>. QED  BY <2>1, WaitingIs
<1>4. Waiting' = {}
  <2>1. Waiters' = {}
    BY <1>1 DEF Waiters, Range
  <2>2. \A u \in Client : pc'[u] # "cond_wait"
    <3>1. \A u \in Client : pc[u] = "cond_wait" => u = t
      BY <1>1 DEF IInv, PLockExclusion, PLockPoint
    <3>. QED  BY <1>1, <1>2, <3>1
  <2>3. \A u \in Client : ~Waits(u)'
    BY <2>1, <2>2 DEF Waits
  <2>. QED  BY <2>3, WaitingIs
<1>5. \A u \in Client : (pc'[u] \in InWait <=> pc[u] \in InWait)
                        /\ (pc'[u] = "relock" <=> pc[u] = "relock")
  BY <1>1, <1>2 DEF InWait, WaitPoint, TimedPoint
<1>6. Expired' = Expired
  BY <1>1, <1>5 DEF Expired
<1>7. Woken' = Woken
  BY <1>3, <1>4, <1>5, <1>6 DEF Woken
<1>8. \A u \in Client : Mutex(u)' = Mutex(u)
  BY <1>1 DEF Mutex
<1>9. /\ Pairs(Waiting)' = Pairs(Waiting) /\ Pairs(Woken)' = Pairs(Woken)
      /\ Pairs(Expired)' = Pairs(Expired)
  BY <1>3, <1>4, <1>6, <1>7, <1>8, PairsNext DEF Pairs
<1>. QED  BY <1>1, <1>9 DEF Abstract!condVars

(* A timed wait whose dummy nobody woke was waiting until now.             *)
LEMMA ExpireRefined ==
    ASSUME IInv, NEW t \in Client, CondStep(t), TimedOut(t), state[Entry(t)] # "READY"
    PROVE  Abstract!Expire(<<t, Mutex(t)>>)
<1>1. /\ pc[t] = "timed_out" /\ pc'[t] = "relock" /\ is_timedout'[t]
      /\ UNCHANGED <<owner, program>>
  BY Clients DEF TimedOut, At, GoTo, IInv, CondTypes
<1>2. /\ ~NotifyLock(t) /\ ~BroadcastEnd(t, "broadcast", "notify_unlock")
      /\ ~SignalOne(t, "signal", "signal_dec", "notify_unlock")
  BY <1>1 DEF NotifyLock, SpinAcquire, BroadcastEnd, SignalOne, At
<1>3. ~Broadcasting /\ ~Broadcasting'
  BY <1>1, <1>2, NoBroadcast, BroadcastStays DEF IInv, PLockPoint
<1>4. \A u \in Client : u # t => Same(u)
  BY <1>2, OthersSame DEF IInv
<1>5. Waits(t)
  <2>1. Asleep(t)
    BY TimedOutStep DEF IInv
  <2>. QED  BY <2>1 DEF Waits, Asleep, IInv, ListInv
<1>6. t \in Waiting /\ Waiting' = Waiting \ {t}
  <2>1. ~Waits(t)'
    BY <1>1, InWaitPoints DEF Waits
  <2>. QED  BY <1>3, <1>4, <1>5, <2>1, WaitingIs DEF Same
<1>7. Expired' = Expired \cup {t}
  BY <1>1, <1>4 DEF Same, Expired
<1>8. Woken' = Woken
  <2>1. pc[t] \in InWait
    BY <1>1 DEF InWait, TimedPoint
  <2>. QED  BY <1>4, <1>6, <1>7, <2>1 DEF Same, Woken
<1>9. \A u \in Client : Mutex(u)' = Mutex(u)
  BY <1>1 DEF Mutex
<1>10. /\ <<t, Mutex(t)>> \in Pairs(Waiting)
       /\ Pairs(Waiting)' = Pairs(Waiting) \ {<<t, Mutex(t)>>}
  BY <1>6, <1>9, PairsNext DEF Pairs
<1>11. /\ Pairs(Expired)' = Pairs(Expired) \cup {<<t, Mutex(t)>>}
       /\ Pairs(Woken)' = Pairs(Woken)
  BY <1>7, <1>8, <1>9, PairsNext DEF Pairs
<1>. QED  BY <1>1, <1>10, <1>11 DEF Abstract!Expire

(* The mutex is taken again by a thread that was woken, or has timed out.  *)
LEMMA ReturnRefined ==
    ASSUME IInv, NEW t \in Client, CondStep(t), Relock(t)
    PROVE  Abstract!Return(t, Mutex(t))
<1>1. pc[t] = "relock" /\ pc'[t] = "locked" /\ UNCHANGED program
  BY Clients DEF Relock, At, GoTo, IInv, CondTypes
<1>2. /\ ~NotifyLock(t) /\ ~BroadcastEnd(t, "broadcast", "notify_unlock")
      /\ ~SignalOne(t, "signal", "signal_dec", "notify_unlock")
  BY <1>1 DEF NotifyLock, SpinAcquire, BroadcastEnd, SignalOne, At
<1>3. Broadcasting' <=> Broadcasting
  BY <1>2, BroadcastStays
<1>4. \A u \in Client : u # t => Same(u)
  BY <1>2, OthersSame DEF IInv
<1>5. t \notin Waiting /\ Waiting' = Waiting
  <2>1. ~Waits(t) /\ ~Waits(t)'
    BY <1>1 DEF Waits, ListPoint, WaitPoint, TimedPoint
  <2>. QED  BY <1>3, <1>4, <2>1, WaitingIs DEF Same
<1>6. Expired' = Expired \ {t}
  BY <1>1, <1>4 DEF Same, Expired
<1>7. Woken' = Woken \ {t} /\ t \in Woken \cup Expired
  BY <1>1, <1>4, <1>5, <1>6 DEF Same, Woken, InWait, WaitPoint, TimedPoint
<1>8. \A u \in Client : Mutex(u)' = Mutex(u)
  BY <1>1 DEF Mutex
<1>9. /\ <<t, Mutex(t)>> \in Pairs(Woken) \cup Pairs(Expired)
      /\ Pairs(Waiting)' = Pairs(Waiting)
  BY <1>5, <1>7, <1>8, PairsNext DEF Pairs
<1>10. /\ Pairs(Woken)' = Pairs(Woken) \ {<<t, Mutex(t)>>}
       /\ Pairs(Expired)' = Pairs(Expired) \ {<<t, Mutex(t)>>}
  BY <1>6, <1>7, <1>8, PairsNext DEF Pairs
<1>11. owner[Mutex(t)] = NULL /\ owner' = [owner EXCEPT ![Mutex(t)] = t]
  BY DEF Relock, Take
<1>. QED  BY <1>9, <1>10, <1>11 DEF Abstract!Return, Abstract!Take

(* The steps of a thread that are not about waiting: its mutex apart,      *)
(* nothing changes.                                                        *)
LEMMA OtherRefined ==
    ASSUME IInv, NEW t \in Client, CondStep(t), ~CondUnlock(t), ~Relock(t), ~NotifyLock(t),
           ~SignalOne(t, "signal", "signal_dec", "notify_unlock"),
           ~BroadcastEnd(t, "broadcast", "notify_unlock"),
           ~(TimedOut(t) /\ state[Entry(t)] # "READY")
    PROVE  \/ Abstract!Lock(t, Mutex(t)) /\ Mutex(t) \in MUTEX
           \/ Abstract!Unlock(t, Mutex(t)) /\ Mutex(t) \in MUTEX
           \/ UNCHANGED Abstract!condVars
<1>1. UNCHANGED <<Pairs(Waiting), Pairs(Woken), Pairs(Expired)>>
  <2>1. \A u \in Client : Same(u)
    BY OthersSame, SelfSame DEF IInv
  <2>. QED  BY <2>1, BroadcastStays, MapSame
<1>2. CASE UNCHANGED owner
  BY <1>1, <1>2 DEF Abstract!condVars
<1>3. CASE Take(t) /\ LockMutex(t)
  <2>1. Mutex(t) \in MUTEX
    BY <1>3, ProgramTypes DEF LockMutex, IInv
  <2>. QED  BY <1>1, <1>3, <2>1 DEF Take, Abstract!Lock, Abstract!Take
<1>4. CASE Give(t) /\ owner[Mutex(t)] = t /\ (Leave(t) \/ Produce(t))
  <2>1. program[t] # <<>>
    BY <1>4 DEF Leave, Produce, At, IInv, CallInv, CallOK, Wants
  <2>2. Mutex(t) \in MUTEX
    BY <2>1, ProgramTypes DEF IInv
  <2>. QED  BY <1>1, <1>4, <2>2 DEF Give, Abstract!Unlock, Abstract!Give
<1>. QED  BY <1>2, <1>3, <1>4, OwnerSteps DEF IInv

(* Every step is one of AbstractCond, or changes nothing it speaks of.     *)
LEMMA AbstractStep ==
    ASSUME IInv, [CondNext]_vars
    PROVE  [Abstract!Next]_(Abstract!condVars)
<1>1. ASSUME NEW t \in Client, CondStep(t)
      PROVE  Abstract!Next \/ UNCHANGED Abstract!condVars
  <2>1. program[t] # <<>> => Mutex(t) \in MUTEX
    BY ProgramTypes DEF IInv
  <2>2. CASE CondUnlock(t)
    <3>1. Mutex(t) \in MUTEX
      BY <2>1, <2>2 DEF CondUnlock, At, IInv, CallInv, CallOK, Wants
    <3>2. Abstract!Wait(t, Mutex(t))
      BY <1>1, <2>2, WaitRefined
    <3>. QED  BY <3>1, <3>2 DEF Abstract!Next
  <2>3. CASE Relock(t)
    <3>1. Mutex(t) \in MUTEX
      BY <2>1, <2>3 DEF Relock, At, IInv, CallInv, CallOK, Wants
    <3>2. Abstract!Return(t, Mutex(t))
      BY <1>1, <2>3, ReturnRefined
    <3>. QED  BY <3>1, <3>2 DEF Abstract!Next
  <2>4. CASE TimedOut(t) /\ state[Entry(t)] # "READY"
    <3>1. Mutex(t) \in MUTEX
      BY <2>1, <2>4 DEF TimedOut, At, IInv, CallInv, CallOK, Wants, TimedPoint
    <3>2. Abstract!Expire(<<t, Mutex(t)>>)
      BY <1>1, <2>4, ExpireRefined
    <3>. QED  BY <3>1, <3>2 DEF Abstract!Next
  <2>5. CASE NotifyLock(t)
    BY <1>1, <2>5, NotifyRefined DEF Abstract!Next
  <2>6. CASE /\ \/ SignalOne(t, "signal", "signal_dec", "notify_unlock")
                \/ BroadcastEnd(t, "broadcast", "notify_unlock")
             /\ Notify(t)
    BY <1>1, <2>6, SignalRefined, BroadcastEndRefined DEF Abstract!Next
  <2>7. CASE Notify(t)
             /\ ~SignalOne(t, "signal", "signal_dec", "notify_unlock")
             /\ ~BroadcastEnd(t, "broadcast", "notify_unlock")
    <3>1. pc[t] \in {"signal", "broadcast"} \cup DecPoint
      BY <2>7 DEF Notify, Signal, SignalNone, Broadcast, BroadcastOne, BroadcastDec, DecPoint, At
    <3>2. ~CondUnlock(t) /\ ~Relock(t) /\ ~NotifyLock(t) /\ ~TimedOut(t)
      BY <3>1 DEF CondUnlock, Relock, NotifyLock, SpinAcquire, TimedOut, DecPoint, At
    <3>. QED  BY <1>1, <2>7, <3>2, OtherRefined DEF Abstract!Next
  <2>8. CASE /\ ~CondUnlock(t) /\ ~Relock(t) /\ ~(TimedOut(t) /\ state[Entry(t)] # "READY")
             /\ ~NotifyLock(t) /\ ~Notify(t)
    <3>1. /\ ~SignalOne(t, "signal", "signal_dec", "notify_unlock")
          /\ ~BroadcastEnd(t, "broadcast", "notify_unlock")
      <4>1. pc[t] \notin {"signal", "broadcast"}
        BY <1>1, <2>8
        DEF CondStep, LockMutex, Leave, Produce, NotifyUnlock, CondLock, CondCheck, CondWait,
            CondWaitStep, WaitStep, SuspendBlock, SuspendUnlock, WaitResumed, ExtReady,
            ExtFutexWait, ExtFutexWake, ExtRelock, TimedAppend, TimedPoll, TimedLock, TimedCheck,
            TimedFutexWake, TimedRelock, TimedOut, ThreadExit, SpinAcquire, SpinRelease, At
      <4>. QED  BY <4>1 DEF SignalOne, BroadcastEnd, At
    <3>. QED  BY <1>1, <2>8, <3>1, OtherRefined DEF Abstract!Next
  <2>. QED  BY <2>2, <2>3, <2>4, <2>5, <2>6, <2>7, <2>8
<1>2. ASSUME \/ \E t \in Client : TimePasses(t)
             \/ \E e \in XSTREAM : CondSchedule(e)
             \/ UNCHANGED vars
      PROVE  UNCHANGED Abstract!condVars
  <2>1. UNCHANGED <<pc, owner, waitlist, is_timedout, program>>
    BY <1>2 DEF TimePasses, CondSchedule, Schedule, condVars, vars
  <2>2. Broadcasting' <=> Broadcasting
    BY <2>1 DEF Broadcasting
  <2>3. \A u \in Client : Same(u)
    BY <2>1 DEF Same, Waits, Mutex, Entry, Wants, Waiters
  <2>. QED  BY <2>1, <2>2, <2>3, MapSame DEF Abstract!condVars
<1>. QED  BY <1>1, <1>2 DEF CondNext, AllDone

(* At first nobody waits.                                                  *)
LEMMA AbstractInit == CondInit => Abstract!Init
<1>. SUFFICES ASSUME CondInit PROVE Abstract!Init
  OBVIOUS
<1>1. \A t \in Client : pc[t] = "idle"
  BY Clients DEF CondInit, YthreadInit
<1>2. Waiting = {} /\ Woken = {} /\ Expired = {}
  BY <1>1, WaitingIs, InWaitPoints
     DEF Waits, Woken, Expired, ListPoint, WaitPoint, TimedPoint
<1>3. Pairs(Waiting) = {} /\ Pairs(Woken) = {} /\ Pairs(Expired) = {}
  BY <1>2 DEF Pairs
<1>. QED  BY <1>3 DEF CondInit, Abstract!Init

(* ABTI_cond keeps the promises of AbstractCond, whatever the threads, the *)
(* mutexes and the programs: no signal falls between the unlock of the     *)
(* mutex and the wait, no wait ends of nothing, and none reports a timeout *)
(* after it was woken, although the target time may pass at any moment and *)
(* a timed wait leaves the list from the middle.                           *)
THEOREM Implementation == CondSpec => ImplementsAbstractCond
<1>1. IInv /\ [CondNext]_vars => [Abstract!Next]_(Abstract!condVars)
  BY AbstractStep
<1>. QED
  BY <1>1, AbstractInit, Invariance, PTL
     DEF CondSpec, ImplementsAbstractCond, Abstract!Spec
=============================================================================
