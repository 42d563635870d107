--------------------------- MODULE WaitlistProofs ---------------------------
(***************************************************************************)
(* What the proofs about the objects built on Ythread and Waitlist share:  *)
(* lemmas about pools and lists as sequences, about the ULTs on the ESs    *)
(* and the BLOCKED ULTs, and an invariant that each operation of Waitlist  *)
(* preserves.                                                              *)
(***************************************************************************)
EXTENDS Waitlist, FiniteSetTheorems, TLAPS

-----------------------------------------------------------------------------
(* What pushing and popping do to the elements of a sequence: the facts    *)
(* about pools and waiting lists that the proofs rest on.                  *)

(* A push adds its element.                                                *)
LEMMA AppendRange ==
    ASSUME NEW S, NEW s \in Seq(S), NEW x \in S
    PROVE  /\ Append(s, x) \in Seq(S)
           /\ Range(Append(s, x)) = Range(s) \cup {x}
<1>1. /\ DOMAIN s = 1 .. Len(s)
      /\ DOMAIN Append(s, x) = 1 .. Len(s) + 1
      /\ \A i \in 1 .. Len(s) : Append(s, x)[i] = s[i]
      /\ Append(s, x)[Len(s) + 1] = x
      /\ Len(s) \in Nat
  OBVIOUS
<1>2. Range(Append(s, x)) \subseteq Range(s) \cup {x}
  BY <1>1 DEF Range
<1>3. Range(s) \cup {x} \subseteq Range(Append(s, x))
  BY <1>1 DEF Range
<1>. QED  BY <1>2, <1>3

(* A push of a new element keeps the elements distinct.                    *)
LEMMA AppendInjective ==
    ASSUME NEW S, NEW s \in Seq(S), NEW x \in S, IsInjective(s), x \notin Range(s)
    PROVE  IsInjective(Append(s, x))
<1>1. /\ DOMAIN s = 1 .. Len(s)
      /\ DOMAIN Append(s, x) = 1 .. Len(s) + 1
      /\ \A i \in 1 .. Len(s) : Append(s, x)[i] = s[i]
      /\ Append(s, x)[Len(s) + 1] = x
      /\ Len(s) \in Nat
  OBVIOUS
<1>. QED  BY <1>1 DEF IsInjective, Range

(* A pop takes the first element away, and only it.                        *)
LEMMA TailRange ==
    ASSUME NEW S, NEW s \in Seq(S), s # <<>>
    PROVE  /\ Tail(s) \in Seq(S)
           /\ Head(s) \in S
           /\ Head(s) \in Range(s)
           /\ Range(Tail(s)) \subseteq Range(s)
           /\ Range(s) \subseteq Range(Tail(s)) \cup {Head(s)}
<1>1. /\ DOMAIN s = 1 .. Len(s)
      /\ Len(s) \in Nat \ {0}
      /\ DOMAIN Tail(s) = 1 .. Len(s) - 1
      /\ \A i \in 1 .. Len(s) - 1 : Tail(s)[i] = s[i + 1]
      /\ Head(s) = s[1]
  OBVIOUS
<1>2. Tail(s) \in Seq(S) /\ Head(s) \in S
  OBVIOUS
<1>3. Head(s) \in Range(s)
  BY <1>1 DEF Range
<1>4. Range(Tail(s)) \subseteq Range(s)
  BY <1>1 DEF Range
<1>5. ASSUME NEW i \in DOMAIN s
      PROVE  s[i] \in Range(Tail(s)) \cup {Head(s)}
  <2>1. CASE i = 1
    BY <1>1, <2>1
  <2>2. CASE i # 1
    <3>1. i - 1 \in DOMAIN Tail(s) /\ Tail(s)[i - 1] = s[i]
      BY <1>1, <2>2
    <3>. QED  BY <3>1 DEF Range
  <2>. QED  BY <2>1, <2>2
<1>. QED  BY <1>2, <1>3, <1>4, <1>5 DEF Range

(* What is left after a pop is distinct, and without the first element.    *)
LEMMA TailInjective ==
    ASSUME NEW S, NEW s \in Seq(S), s # <<>>, IsInjective(s)
    PROVE  /\ IsInjective(Tail(s))
           /\ Head(s) \notin Range(Tail(s))
<1>1. /\ DOMAIN s = 1 .. Len(s)
      /\ Len(s) \in Nat \ {0}
      /\ DOMAIN Tail(s) = 1 .. Len(s) - 1
      /\ \A i \in 1 .. Len(s) - 1 : Tail(s)[i] = s[i + 1]
      /\ Head(s) = s[1]
  OBVIOUS
<1>. QED  BY <1>1 DEF IsInjective, Range

(* A sequence of distinct elements has as many of them as it is long.      *)
LEMMA RangeCardinality ==
    ASSUME NEW S, NEW s \in Seq(S), IsInjective(s)
    PROVE  IsFiniteSet(Range(s)) /\ Cardinality(Range(s)) = Len(s)
<1>1. DOMAIN s = 1 .. Len(s) /\ Len(s) \in Nat
  OBVIOUS
<1>2. IsFiniteSet(1 .. Len(s)) /\ Cardinality(1 .. Len(s)) = Len(s)
  BY <1>1, FS_Interval
<1>3. s \in Bijection(1 .. Len(s), Range(s))
  BY <1>1 DEF IsInjective, Range, Bijection, Injection, Surjection
<1>4. ExistsBijection(1 .. Len(s), Range(s))
  BY <1>3 DEF ExistsBijection
<1>. QED  BY <1>2, <1>4, FS_Bijection

-----------------------------------------------------------------------------

USE DEF Thread, YthreadTypeOK, ythreadVars

(* Initially all ULTs are in the pool.                                     *)
LEMMA YthreadInitTypes ==
    ASSUME NEW Pts, NEW start \in Pts, YthreadInit(start)
    PROVE  YthreadTypeOK(Pts)
<1>. USE DEF YthreadInit, State
<1>1. Cardinality(ULT) \in Nat
  BY FS_CardinalityType, ThreadAssumption
<1>2. pool \in Seq(ULT)
  BY <1>1
<1>3. pc \in [Thread -> Pts]
  OBVIOUS
<1>4. state \in [Thread -> State]
  OBVIOUS
<1>5. p_thread \in [XSTREAM -> ULT \cup {NULL}]
  OBVIOUS
<1>6. num_blocked \in Int
  OBVIOUS
<1>. QED  BY <1>2, <1>3, <1>4, <1>5, <1>6

(* The thread whose ES goes back to its scheduler leaves OnXstream.        *)
LEMMA SwitchOnXstream ==
    ASSUME NEW Pts, YthreadTypeOK(Pts), NEW t \in ULT, SwitchToParent(t),
           \A d, e \in XSTREAM : p_thread[d] = p_thread[e] /\ p_thread[d] # NULL => d = e
    PROVE  /\ OnXstream' = OnXstream \ {t}
           /\ \A d, e \in XSTREAM :
                p_thread'[d] = p_thread'[e] /\ p_thread'[d] # NULL => d = e
<1>1. \A e \in XSTREAM : p_thread'[e] = IF p_thread[e] = t THEN NULL ELSE p_thread[e]
  BY DEF SwitchToParent
<1>2. DOMAIN p_thread = XSTREAM /\ DOMAIN p_thread' = XSTREAM
  BY DEF SwitchToParent
<1>. QED  BY <1>1, <1>2 DEF OnXstream, Range

Blocked == {u \in ULT : state[u] = "BLOCKED"}

(* There are finitely many of them.                                        *)
LEMMA BlockedFinite ==
    /\ IsFiniteSet(Blocked) /\ Cardinality(Blocked) \in Nat
    /\ IsFiniteSet(Blocked') /\ Cardinality(Blocked') \in Nat
<1>1. Blocked \subseteq ULT /\ Blocked' \subseteq ULT
  BY DEF Blocked
<1>. QED  BY <1>1, FS_Subset, FS_CardinalityType, ThreadAssumption

-----------------------------------------------------------------------------

(* Where a thread of the list is: it is suspending, with its state BLOCKED *)
(* before p_lock is given up, or it is suspended, or it is an external     *)
(* thread in its loop.  A ULT that runs is BLOCKED only while it suspends. *)
WaitersSuspended ==
    /\ IsInjective(waitlist)
    /\ \A u \in ULT : pc[u] \notin {"ext_check", "ext_futex", "ext_relock"}
    /\ \A u \in OnXstream : state[u] = "BLOCKED" => pc[u] = "suspend_unlock"
    /\ \A u \in Waiters \cap OnXstream :
         pc[u] = "suspend" \/ (pc[u] = "suspend_unlock" /\ state[u] = "BLOCKED")
    /\ \A u \in Thread : pc[u] \in {"suspend", "suspend_unlock"}
                           => u \in Waiters \cap OnXstream
    /\ \A u \in Waiters \cap EXT :
         pc[u] \in {"ext_check", "ext_futex", "ext_relock"} /\ state[u] = "BLOCKED"

WaitInv == UltInOnePlace /\ WaitersSuspended

USE DEF WaitlistTypeOK, waitlistVars

LEMMA ThreadSets ==
    ASSUME NEW Pts, YthreadTypeOK(Pts), WaitlistTypeOK
    PROVE  /\ OnXstream \subseteq ULT
           /\ Waiters \subseteq Thread
           /\ Range(pool) \subseteq ULT
<1>1. OnXstream \subseteq ULT
  BY DEF OnXstream, Range
<1>2. Waiters \subseteq Thread
  BY DEF Waiters, Range
<1>3. Range(pool) \subseteq ULT
  BY DEF Range
<1>. QED  BY <1>1, <1>2, <1>3

(* A running thread outside the waits, or one that was resumed, or an      *)
(* external thread whose dummy is READY, is not in the list.               *)
LEMMA RunningNotWaiter ==
    ASSUME NEW Pts, YthreadTypeOK(Pts), WaitlistTypeOK, WaitInv,
           NEW t \in Thread, Running(t),
           \/ pc[t] \notin WaitPoint
           \/ pc[t] = "waiting"
           \/ pc[t] \in {"ext_check", "ext_futex", "ext_relock"} /\ state[t] = "READY"
    PROVE  t \notin Waiters
  BY DEF WaitInv, WaitersSuspended, WaitPoint, Running

(* A step that moves one thread that is not in the list.                   *)
LEMMA LocalStep ==
    ASSUME NEW Pts, YthreadTypeOK(Pts), WaitlistTypeOK, WaitInv,
           NEW t \in Thread, t \notin Waiters,
           NEW l, l \notin WaitPoint, GoTo(t, l),
           UNCHANGED <<state, p_thread, pool, waitlist>>
    PROVE  WaitInv'
<1>2. /\ \A u \in Thread : u # t => pc'[u] = pc[u]
      /\ pc'[t] = l
  BY DEF GoTo
<1>3. UNCHANGED <<OnXstream, Waiters>>
  BY DEF OnXstream, Waiters
<1>4. UltInOnePlace'
  BY <1>2, <1>3 DEF WaitInv, UltInOnePlace
<1>5. WaitersSuspended'
  BY <1>2, <1>3, ThreadSets DEF WaitInv, WaitersSuspended, WaitPoint
<1>. QED  BY <1>4, <1>5 DEF WaitInv

(* A step inside the loop of an external thread.                           *)
LEMMA ExtStep ==
    ASSUME NEW Pts, YthreadTypeOK(Pts), WaitlistTypeOK, WaitInv,
           NEW t \in Thread, Running(t),
           pc[t] \in {"ext_check", "ext_futex", "ext_relock"},
           NEW l \in {"ext_check", "ext_futex", "ext_relock"}, GoTo(t, l),
           UNCHANGED <<state, p_thread, pool, waitlist>>
    PROVE  WaitInv'
<1>1. /\ \A u \in Thread : u # t => pc'[u] = pc[u]
      /\ pc'[t] = l
  BY DEF GoTo
<1>2. UNCHANGED <<OnXstream, Waiters>>
  BY DEF OnXstream, Waiters
<1>3. t \in Waiters => t \in EXT
  BY DEF WaitInv, WaitersSuspended, Running
<1>4. UltInOnePlace'
  BY <1>1, <1>2, <1>3, ThreadAssumption DEF WaitInv, UltInOnePlace
<1>5. WaitersSuspended'
  BY <1>1, <1>2, ThreadSets DEF WaitInv, WaitersSuspended
<1>. QED  BY <1>4, <1>5 DEF WaitInv

(* A thread joins the list.                                                *)
LEMMA WaitAppendStep ==
    ASSUME NEW Pts, YthreadTypeOK(Pts), WaitlistTypeOK, WaitInv,
           NEW t \in Thread, Running(t), pc[t] \notin WaitPoint, WaitAppend(t)
    PROVE  WaitInv'
<1>0. OnXstream \subseteq ULT /\ Waiters \subseteq Thread /\ Range(pool) \subseteq ULT
  BY ThreadSets
<1>1. t \notin Waiters
  BY RunningNotWaiter
<1>2. Waiters' = Waiters \cup {t}
  BY AppendRange DEF WaitAppend, Waiters
<1>3. IsInjective(waitlist)'
  BY <1>1, AppendInjective DEF WaitAppend, Waiters, WaitInv, WaitersSuspended
<1>4. UNCHANGED OnXstream /\ UNCHANGED <<p_thread, pool>>
  BY DEF WaitAppend, OnXstream
<1>5. CASE t \in ULT
  <2>1. /\ t \in OnXstream
        /\ UNCHANGED <<state, p_thread, pool>>
        /\ \A u \in Thread : u # t => pc'[u] = pc[u]
        /\ pc'[t] = "suspend"
    BY <1>5, ThreadAssumption DEF Running, WaitAppend, GoTo
  <2>2. UltInOnePlace'
    BY <1>1, <1>2, <1>4, <2>1 DEF WaitInv, UltInOnePlace
  <2>3. WaitersSuspended'
    BY <1>0, <1>1, <1>2, <1>3, <1>4, <1>5, <2>1, ThreadAssumption
    DEF WaitInv, WaitersSuspended
  <2>. QED  BY <2>2, <2>3 DEF WaitInv
<1>6. CASE t \in EXT
  <2>1. /\ UNCHANGED <<p_thread, pool>>
        /\ \A u \in Thread : u # t => pc'[u] = pc[u] /\ state'[u] = state[u]
        /\ pc'[t] = "ext_check"
        /\ state'[t] = "BLOCKED"
    BY <1>6, ThreadAssumption DEF WaitAppend, GoTo
  <2>2. UltInOnePlace'
    BY <1>1, <1>2, <1>4, <1>0, <1>6, <2>1, ThreadAssumption DEF WaitInv, UltInOnePlace
  <2>3. WaitersSuspended'
    BY <1>1, <1>2, <1>3, <1>4, <1>0, <1>6, <2>1, ThreadAssumption
    DEF WaitInv, WaitersSuspended
  <2>. QED  BY <2>2, <2>3 DEF WaitInv
<1>. QED  BY <1>5, <1>6

(* The suspension callback marks the ULT BLOCKED...                        *)
LEMMA SuspendBlockStep ==
    ASSUME NEW Pts, YthreadTypeOK(Pts), WaitlistTypeOK, WaitInv,
           NEW t \in Thread, SuspendBlock(t)
    PROVE  WaitInv'
<1>0. OnXstream \subseteq ULT /\ Waiters \subseteq Thread /\ Range(pool) \subseteq ULT
  BY ThreadSets
<1>1. t \in Waiters \cap OnXstream
  BY DEF WaitInv, WaitersSuspended, SuspendBlock, At
<1>2. /\ UNCHANGED <<p_thread, pool, waitlist>>
      /\ UNCHANGED <<OnXstream, Waiters>>
      /\ \A u \in Thread : u # t => pc'[u] = pc[u] /\ state'[u] = state[u]
      /\ pc'[t] = "suspend_unlock"
      /\ state'[t] = "BLOCKED"
  BY DEF SuspendBlock, CallbackBlock, GoTo, OnXstream, Waiters
<1>3. UltInOnePlace'
  BY <1>0, <1>1, <1>2 DEF WaitInv, UltInOnePlace
<1>4. WaitersSuspended'
  BY <1>0, <1>1, <1>2, ThreadAssumption DEF WaitInv, WaitersSuspended
<1>. QED  BY <1>3, <1>4 DEF WaitInv

(* ...and then gives p_lock and the ES up.                                 *)
LEMMA SuspendUnlockStep ==
    ASSUME NEW Pts, YthreadTypeOK(Pts), WaitlistTypeOK, WaitInv,
           NEW t \in Thread, SuspendUnlock(t)
    PROVE  WaitInv'
<1>0. OnXstream \subseteq ULT /\ Waiters \subseteq Thread /\ Range(pool) \subseteq ULT
  BY ThreadSets
<1>1. t \in Waiters \cap OnXstream /\ state[t] = "BLOCKED"
  BY DEF WaitInv, WaitersSuspended, SuspendUnlock, At
<1>2. /\ OnXstream' = OnXstream \ {t}
      /\ \A d, e \in XSTREAM :
           p_thread'[d] = p_thread'[e] /\ p_thread'[d] # NULL => d = e
  <2>1. \A d, e \in XSTREAM : p_thread[d] = p_thread[e] /\ p_thread[d] # NULL => d = e
    BY DEF WaitInv, UltInOnePlace
  <2>2. t \in ULT /\ SwitchToParent(t)
    BY <1>0, <1>1 DEF SuspendUnlock
  <2>. QED  BY <2>1, <2>2, SwitchOnXstream
<1>3. /\ UNCHANGED <<state, pool, waitlist>>
      /\ Waiters' = Waiters
      /\ \A u \in Thread : u # t => pc'[u] = pc[u]
      /\ pc'[t] = "waiting"
  BY DEF SuspendUnlock, GoTo, Waiters
<1>4. UltInOnePlace'
  BY <1>0, <1>1, <1>2, <1>3 DEF WaitInv, UltInOnePlace
<1>5. WaitersSuspended'
  BY <1>0, <1>1, <1>2, <1>3, ThreadAssumption DEF WaitInv, WaitersSuspended
<1>. QED  BY <1>4, <1>5 DEF WaitInv

(* Every step of a wait, once the thread is in the list.                   *)
LEMMA WaitStepStep ==
    ASSUME NEW Pts, YthreadTypeOK(Pts), WaitlistTypeOK, WaitInv,
           NEW t \in Thread, NEW next, next \notin WaitPoint, WaitStep(t, next)
    PROVE  WaitInv'
<1>. USE DEF WaitPoint
<1>1. CASE SuspendBlock(t)
  BY <1>1, SuspendBlockStep
<1>2. CASE SuspendUnlock(t)
  BY <1>2, SuspendUnlockStep
<1>3. CASE WaitResumed(t, next)
  <2>1. t \notin Waiters
    BY <1>3, RunningNotWaiter DEF WaitResumed, At
  <2>2. GoTo(t, next) /\ UNCHANGED <<state, p_thread, pool, waitlist>>
    BY <1>3 DEF WaitResumed
  <2>. QED  BY <2>1, <2>2, LocalStep
<1>4. CASE ExtReady(t, next)
  <2>1. t \notin Waiters
    BY <1>4, RunningNotWaiter DEF ExtReady, At
  <2>2. GoTo(t, next) /\ UNCHANGED <<state, p_thread, pool, waitlist>>
    BY <1>4 DEF ExtReady, SpinRelease
  <2>. QED  BY <2>1, <2>2, LocalStep
<1>5. CASE ExtFutexWait(t)
  <2>. /\ Running(t) /\ pc[t] = "ext_check" /\ GoTo(t, "ext_futex")
       /\ UNCHANGED <<state, p_thread, pool, waitlist>>
    BY <1>5 DEF ExtFutexWait, At
  <2>. QED  BY ExtStep
<1>6. CASE ExtFutexWake(t, next)
  <2>1. CASE state[t] = "READY"
    <3>1. t \notin Waiters
      BY <1>6, <2>1, RunningNotWaiter DEF ExtFutexWake, At
    <3>2. GoTo(t, next) /\ UNCHANGED <<state, p_thread, pool, waitlist>>
      BY <1>6, <2>1 DEF ExtFutexWake
    <3>. QED  BY <3>1, <3>2, LocalStep
  <2>2. CASE state[t] # "READY"
    <3>. /\ Running(t) /\ pc[t] = "ext_futex" /\ GoTo(t, "ext_relock")
         /\ UNCHANGED <<state, p_thread, pool, waitlist>>
      BY <1>6, <2>2 DEF ExtFutexWake, At
    <3>. QED  BY ExtStep
  <2>. QED  BY <2>1, <2>2
<1>7. CASE ExtRelock(t)
  <2>. /\ Running(t) /\ pc[t] = "ext_relock" /\ GoTo(t, "ext_check")
       /\ UNCHANGED <<state, p_thread, pool, waitlist>>
    BY <1>7 DEF ExtRelock, SpinAcquire, At
  <2>. QED  BY ExtStep
<1>. QED  BY <1>1, <1>2, <1>3, <1>4, <1>5, <1>6, <1>7 DEF WaitStep

(* The head of the list is taken off and resumed by a thread t that holds  *)
(* p_lock, so that no waiter is still suspending.                          *)
LEMMA WakeHeadStep ==
    ASSUME NEW Pts, YthreadTypeOK(Pts), WaitlistTypeOK, WaitInv,
           NEW t \in Thread, t \notin Waiters,
           \A u \in Thread : pc[u] \notin {"suspend", "suspend_unlock"},
           waitlist # <<>>, waitlist' = Tail(waitlist),
           \A u \in Thread : u # t => pc'[u] = pc[u],
           pc'[t] \notin WaitPoint,
           \/ Head(waitlist) \in ULT /\ AddThread(Head(waitlist)) /\ UNCHANGED p_thread
           \/ /\ Head(waitlist) \in EXT
              /\ state' = [state EXCEPT ![Head(waitlist)] = "READY"]
              /\ UNCHANGED <<p_thread, pool>>
    PROVE  WaitInv'
<1>. DEFINE w == Head(waitlist)
<1>0. OnXstream \subseteq ULT /\ Waiters \subseteq Thread /\ Range(pool) \subseteq ULT
  BY ThreadSets
<1>1. IsInjective(waitlist)
  BY DEF WaitInv, WaitersSuspended
<1>2. w \in Waiters /\ Waiters' = Waiters \ {w}
  BY <1>1, TailRange, TailInjective DEF Waiters
<1>3. IsInjective(waitlist)'
  BY <1>1, TailInjective
<1>4. Waiters \cap OnXstream = {}
  BY <1>0 DEF WaitInv, WaitersSuspended
<1>5. /\ UNCHANGED <<p_thread, OnXstream>>
      /\ \A u \in Thread : u # w => state'[u] = state[u]
      /\ state'[w] = "READY"
  BY <1>0, <1>2 DEF AddThread, OnXstream
<1>6. CASE w \in ULT
  <2>1. pool' = Append(pool, w)
    BY <1>6, ThreadAssumption DEF AddThread
  <2>2. w \notin Range(pool)
    BY <1>2 DEF WaitInv, UltInOnePlace
  <2>3. Range(pool)' = Range(pool) \cup {w}
    BY <1>6, <2>1, AppendRange
  <2>4. IsInjective(pool)'
    BY <1>6, <2>1, <2>2, AppendInjective DEF WaitInv, UltInOnePlace
  <2>5. UltInOnePlace'
    BY <1>0, <1>2, <1>4, <1>5, <2>2, <2>3, <2>4 DEF WaitInv, UltInOnePlace
  <2>6. WaitersSuspended'
    BY <1>0, <1>2, <1>3, <1>4, <1>5, ThreadAssumption
    DEF WaitInv, WaitersSuspended, WaitPoint
  <2>. QED  BY <2>5, <2>6 DEF WaitInv
<1>7. CASE w \in EXT
  <2>1. UNCHANGED pool
    BY <1>7, ThreadAssumption
  <2>2. UltInOnePlace'
    BY <1>0, <1>2, <1>4, <1>5, <1>7, <2>1, ThreadAssumption DEF WaitInv, UltInOnePlace
  <2>3. WaitersSuspended'
    BY <1>0, <1>2, <1>3, <1>4, <1>5, ThreadAssumption
    DEF WaitInv, WaitersSuspended, WaitPoint
  <2>. QED  BY <2>2, <2>3 DEF WaitInv
<1>. QED  BY <1>6, <1>7

(* A running ULT yields.                                                   *)
LEMMA YieldStep ==
    ASSUME NEW Pts, YthreadTypeOK(Pts), WaitlistTypeOK, WaitInv,
           NEW t \in Thread, Running(t), pc[t] \notin WaitPoint,
           NEW l, l \notin WaitPoint, Yield(t, l), UNCHANGED waitlist
    PROVE  WaitInv'
<1>0. OnXstream \subseteq ULT /\ Waiters \subseteq Thread /\ Range(pool) \subseteq ULT
  BY ThreadSets
<1>1. t \notin Waiters /\ t \in ULT /\ t \in OnXstream
  BY RunningNotWaiter, ThreadAssumption DEF Yield, Running
<1>2. t \notin Range(pool) /\ IsInjective(pool)
  BY <1>1 DEF WaitInv, UltInOnePlace
<1>3. Range(pool)' = Range(pool) \cup {t} /\ IsInjective(pool)'
  BY <1>1, <1>2, AppendRange, AppendInjective DEF Yield, AddThread
<1>4. /\ OnXstream' = OnXstream \ {t}
      /\ \A d, e \in XSTREAM :
           p_thread'[d] = p_thread'[e] /\ p_thread'[d] # NULL => d = e
  <2>1. \A d, e \in XSTREAM : p_thread[d] = p_thread[e] /\ p_thread[d] # NULL => d = e
    BY DEF WaitInv, UltInOnePlace
  <2>. QED  BY <1>1, <2>1, SwitchOnXstream DEF Yield
<1>5. /\ Waiters' = Waiters /\ UNCHANGED waitlist
      /\ \A u \in Thread : u # t => pc'[u] = pc[u] /\ state'[u] = state[u]
      /\ pc'[t] = l /\ state'[t] = "READY"
  BY DEF Waiters, Yield, GoTo, AddThread
<1>6. UltInOnePlace'
  BY <1>0, <1>1, <1>3, <1>4, <1>5 DEF WaitInv, UltInOnePlace
<1>7. WaitersSuspended'
  BY <1>0, <1>1, <1>4, <1>5, ThreadAssumption DEF WaitInv, WaitersSuspended, WaitPoint
<1>. QED  BY <1>6, <1>7 DEF WaitInv

(* A running thread terminates.                                            *)
LEMMA ExitStep ==
    ASSUME NEW Pts, YthreadTypeOK(Pts), WaitlistTypeOK, WaitInv,
           NEW t \in Thread, Running(t), pc[t] \notin WaitPoint,
           NEW l, l \notin WaitPoint, Exit(t, l), UNCHANGED waitlist
    PROVE  WaitInv'
<1>0. OnXstream \subseteq ULT /\ Waiters \subseteq Thread /\ Range(pool) \subseteq ULT
  BY ThreadSets
<1>1. t \notin Waiters
  BY RunningNotWaiter
<1>2. /\ OnXstream' = OnXstream \ {t}
      /\ \A d, e \in XSTREAM :
           p_thread'[d] = p_thread'[e] /\ p_thread'[d] # NULL => d = e
  <2>1. \A d, e \in XSTREAM : p_thread[d] = p_thread[e] /\ p_thread[d] # NULL => d = e
    BY DEF WaitInv, UltInOnePlace
  <2>2. CASE t \in ULT
    BY <2>1, <2>2, SwitchOnXstream DEF Exit
  <2>3. CASE t \in EXT
    <3>1. \A e \in XSTREAM : p_thread[e] # t
      BY <2>3, ThreadAssumption
    <3>2. p_thread' = p_thread
      BY <3>1 DEF Exit, SwitchToParent
    <3>. QED  BY <1>0, <2>1, <2>3, <3>2, ThreadAssumption DEF OnXstream
  <2>. QED  BY <2>2, <2>3
<1>3. /\ Waiters' = Waiters /\ UNCHANGED <<waitlist, pool>>
      /\ \A u \in Thread : u # t => pc'[u] = pc[u] /\ state'[u] = state[u]
      /\ pc'[t] = l /\ state'[t] = "TERMINATED"
  BY DEF Waiters, Exit, GoTo
<1>4. t \notin Range(pool)
  BY <1>0, ThreadAssumption DEF WaitInv, UltInOnePlace, Running
<1>5. UltInOnePlace'
  BY <1>0, <1>1, <1>2, <1>3, <1>4 DEF WaitInv, UltInOnePlace
<1>6. WaitersSuspended'
  BY <1>0, <1>1, <1>2, <1>3, ThreadAssumption DEF WaitInv, WaitersSuspended, WaitPoint
<1>. QED  BY <1>5, <1>6 DEF WaitInv

(* A scheduler pops a ULT and runs it.                                     *)
LEMMA ScheduleStep ==
    ASSUME NEW Pts, YthreadTypeOK(Pts), WaitlistTypeOK, WaitInv,
           NEW e \in XSTREAM, Schedule(e), UNCHANGED waitlist
    PROVE  WaitInv'
<1>. DEFINE u == Head(pool)
<1>0. OnXstream \subseteq ULT /\ Waiters \subseteq Thread /\ Range(pool) \subseteq ULT
  BY ThreadSets
<1>1. pool # <<>> /\ IsInjective(pool) /\ pool' = Tail(pool)
  BY DEF Schedule, WaitInv, UltInOnePlace
<1>2. /\ u \in Range(pool) /\ u \in ULT
      /\ Range(pool)' = Range(pool) \ {u}
      /\ IsInjective(pool)'
  BY <1>1, TailRange, TailInjective
<1>3. u \notin OnXstream \cup Waiters
  BY <1>2 DEF WaitInv, UltInOnePlace
<1>4. /\ p_thread[e] = NULL
      /\ \A d \in XSTREAM : d # e => p_thread'[d] = p_thread[d] /\ p_thread[d] # u
      /\ p_thread'[e] = u
      /\ DOMAIN p_thread = XSTREAM /\ DOMAIN p_thread' = XSTREAM
  BY <1>2, <1>3, ThreadAssumption DEF Schedule, OnXstream, Range
<1>5. OnXstream' = OnXstream \cup {u}
  BY <1>2, <1>4, ThreadAssumption DEF OnXstream, Range
<1>6. \A c, d \in XSTREAM : p_thread'[c] = p_thread'[d] /\ p_thread'[c] # NULL => c = d
  BY <1>4 DEF WaitInv, UltInOnePlace
<1>7. /\ Waiters' = Waiters /\ UNCHANGED <<waitlist, pc>>
      /\ \A v \in Thread : v # u => state'[v] = state[v]
      /\ state'[u] = "RUNNING"
  BY <1>2 DEF Waiters, Schedule
<1>8. UltInOnePlace'
  BY <1>0, <1>2, <1>3, <1>5, <1>6, <1>7 DEF WaitInv, UltInOnePlace
<1>9. WaitersSuspended'
  BY <1>0, <1>2, <1>3, <1>5, <1>7, ThreadAssumption DEF WaitInv, WaitersSuspended
<1>. QED  BY <1>8, <1>9 DEF WaitInv

(* Initially nobody waits.                                                 *)
LEMMA WaitInitInv ==
    ASSUME NEW start, start \notin WaitPoint, YthreadInit(start), WaitlistInit
    PROVE  WaitInv
<1>1. Cardinality(ULT) \in Nat
  BY FS_CardinalityType, ThreadAssumption
<1>2. OnXstream = {} /\ Waiters = {} /\ IsInjective(waitlist)
  BY DEF YthreadInit, WaitlistInit, OnXstream, Waiters, Range, IsInjective
<1>3. IsInjective(pool) /\ Range(pool) = ULT
  <2>1. /\ pool \in [1 .. Cardinality(ULT) -> ULT] /\ Range(pool) = ULT
    BY DEF YthreadInit
  <2>2. pool \in Surjection(1 .. Cardinality(ULT), ULT)
    BY <2>1 DEF Surjection, Range
  <2>3. Cardinality(1 .. Cardinality(ULT)) = Cardinality(ULT) /\ IsFiniteSet(1 .. Cardinality(ULT))
    BY <1>1, FS_Interval
  <2>. QED  BY <2>1, <2>2, <2>3, FS_Surjection, ThreadAssumption DEF Injection, IsInjective
<1>4. UltInOnePlace
  BY <1>2, <1>3 DEF UltInOnePlace, YthreadInit
<1>5. WaitersSuspended
  BY <1>2 DEF WaitersSuspended, YthreadInit, WaitPoint
<1>. QED  BY <1>4, <1>5 DEF WaitInv

-----------------------------------------------------------------------------
(* The types of the variables, in steps that take a thread to points of    *)
(* Pts.                                                                    *)

(* Initially all ULTs are in the pool.                                     *)
LEMMA InitTypes ==
    ASSUME NEW Pts, NEW start \in Pts, YthreadInit(start), WaitlistInit
    PROVE  YthreadTypeOK(Pts) /\ WaitlistTypeOK
<1>1. YthreadTypeOK(Pts)
  BY YthreadInitTypes
<1>2. waitlist \in Seq(Thread)
  BY DEF WaitlistInit
<1>3. p_lock \in BOOLEAN
  BY DEF WaitlistInit
<1>4. futex \in SUBSET Thread
  BY DEF WaitlistInit
<1>. QED  BY <1>1, <1>2, <1>3, <1>4

(* A thread joins the list.                                                *)
LEMMA WaitAppendTypes ==
    ASSUME NEW Pts, YthreadTypeOK(Pts), WaitlistTypeOK, WaitPoint \subseteq Pts,
           NEW t \in Thread, WaitAppend(t)
    PROVE  YthreadTypeOK(Pts)' /\ WaitlistTypeOK'
<1>. USE DEF WaitAppend, GoTo, WaitPoint, State
<1>1. waitlist' \in Seq(Thread)
  BY AppendRange
<1>2. pc' \in [Thread -> Pts] /\ state' \in [Thread -> State]
  OBVIOUS
<1>. QED  BY <1>1, <1>2

(* A wait.                                                                 *)
LEMMA WaitStepTypes ==
    ASSUME NEW Pts, YthreadTypeOK(Pts), WaitlistTypeOK, WaitPoint \subseteq Pts,
           NEW t \in Thread, NEW next \in Pts, WaitStep(t, next)
    PROVE  YthreadTypeOK(Pts)' /\ WaitlistTypeOK'
<1>. USE DEF GoTo, WaitPoint, State
<1>1. CASE SuspendBlock(t)
  BY <1>1 DEF SuspendBlock, CallbackBlock
<1>2. CASE SuspendUnlock(t)
  BY <1>2 DEF SuspendUnlock, SwitchToParent
<1>3. CASE WaitResumed(t, next)
  BY <1>3 DEF WaitResumed
<1>4. CASE ExtReady(t, next)
  BY <1>4 DEF ExtReady, SpinRelease
<1>5. CASE ExtFutexWait(t)
  BY <1>5 DEF ExtFutexWait
<1>6. CASE ExtFutexWake(t, next)
  BY <1>6 DEF ExtFutexWake
<1>7. CASE ExtRelock(t)
  BY <1>7 DEF ExtRelock, SpinAcquire
<1>. QED  BY <1>1, <1>2, <1>3, <1>4, <1>5, <1>6, <1>7 DEF WaitStep

(* The list is woken.                                                      *)
LEMMA BroadcastTypes ==
    ASSUME NEW Pts, YthreadTypeOK(Pts), WaitlistTypeOK, NEW t \in Thread,
           NEW from \in Pts, NEW dec \in Pts, NEW next \in Pts,
           Broadcast(t, from, dec, next)
    PROVE  YthreadTypeOK(Pts)' /\ WaitlistTypeOK'
<1>. USE DEF GoTo, State
<1>1. CASE BroadcastOne(t, from, dec)
  <2>1. waitlist' \in Seq(Thread) /\ Head(waitlist) \in Thread
    BY <1>1, TailRange DEF BroadcastOne
  <2>2. CASE Head(waitlist) \in ULT /\ ResumePush(t, Head(waitlist), dec)
    <3>1. pool' \in Seq(ULT)
      BY <2>2, AppendRange DEF ResumePush, AddThread
    <3>. QED  BY <1>1, <2>1, <2>2, <3>1 DEF BroadcastOne, ResumePush, AddThread
  <2>3. CASE Head(waitlist) \in EXT /\ UNCHANGED <<pc, p_thread, pool, num_blocked>>
    BY <1>1, <2>1, <2>3 DEF BroadcastOne, ResumePush, AddThread
  <2>. QED  BY <1>1, <2>2, <2>3 DEF BroadcastOne
<1>2. CASE BroadcastDec(t, dec, from)
  BY <1>2 DEF BroadcastDec, ResumeDecNumBlocked
<1>3. CASE BroadcastEnd(t, from, next)
  BY <1>3 DEF BroadcastEnd
<1>. QED  BY <1>1, <1>2, <1>3 DEF Broadcast

(* A yield, an exit, or a scheduler.                                       *)
LEMMA SwitchTypes ==
    ASSUME NEW Pts, YthreadTypeOK(Pts), WaitlistTypeOK, UNCHANGED waitlistVars,
           \/ \E t \in Thread, l \in Pts : Yield(t, l) \/ Exit(t, l)
           \/ \E e \in XSTREAM : Schedule(e)
    PROVE  YthreadTypeOK(Pts)' /\ WaitlistTypeOK'
<1>. USE DEF GoTo, State
<1>1. ASSUME NEW t \in Thread, NEW l \in Pts, Yield(t, l)
      PROVE  YthreadTypeOK(Pts)'
  <2>1. pool' \in Seq(ULT)
    BY <1>1, AppendRange DEF Yield, AddThread
  <2>2. p_thread' \in [XSTREAM -> ULT \cup {NULL}]
    BY <1>1 DEF Yield, SwitchToParent
  <2>. QED  BY <1>1, <2>1, <2>2 DEF Yield, AddThread
<1>2. ASSUME NEW t \in Thread, NEW l \in Pts, Exit(t, l)
      PROVE  YthreadTypeOK(Pts)'
  BY <1>2 DEF Exit, SwitchToParent
<1>3. ASSUME NEW e \in XSTREAM, Schedule(e)
      PROVE  YthreadTypeOK(Pts)'
  <2>1. pool' \in Seq(ULT) /\ Head(pool) \in ULT
    BY <1>3, TailRange DEF Schedule
  <2>. QED  BY <1>3, <2>1 DEF Schedule
<1>. QED  BY <1>1, <1>2, <1>3

-----------------------------------------------------------------------------
(* The count of the pool.                                                  *)

Decreasing(dec) == {t \in Thread : pc[t] = dec}

(* BlockedCounted, with only finitely many threads between the push and    *)
(* the decrement.                                                          *)
CountInv(dec) == IsFiniteSet(Decreasing(dec)) /\ BlockedCounted(dec)

(* A step that neither blocks, nor resumes, nor counts.                    *)
LEMMA CountSame ==
    ASSUME NEW dec, CountInv(dec),
           \A u \in ULT : state'[u] = "BLOCKED" <=> state[u] = "BLOCKED",
           \A t \in Thread : pc'[t] = dec <=> pc[t] = dec,
           UNCHANGED num_blocked
    PROVE  CountInv(dec)'
<1>1. Blocked' = Blocked /\ Decreasing(dec)' = Decreasing(dec)
  BY DEF Blocked, Decreasing
<1>. QED  BY <1>1 DEF CountInv, BlockedCounted, Blocked, Decreasing

(* t becomes BLOCKED, and is counted.                                      *)
LEMMA CountBlock ==
    ASSUME NEW dec, CountInv(dec), NEW t \in ULT,
           state[t] # "BLOCKED", state'[t] = "BLOCKED",
           \A u \in ULT : u # t => state'[u] = state[u],
           \A u \in Thread : pc'[u] = dec <=> pc[u] = dec,
           num_blocked' = num_blocked + 1
    PROVE  CountInv(dec)'
<1>1. Blocked' = Blocked \cup {t} /\ t \notin Blocked
  BY DEF Blocked
<1>2. Decreasing(dec)' = Decreasing(dec)
  BY DEF Decreasing
<1>3. Cardinality(Blocked') = Cardinality(Blocked) + 1
  BY <1>1, BlockedFinite, FS_AddElement
<1>4. Cardinality(Decreasing(dec)) \in Nat
  BY FS_CardinalityType DEF CountInv
<1>5. num_blocked = Cardinality(Blocked) + Cardinality(Decreasing(dec))
  BY DEF CountInv, BlockedCounted, Blocked, Decreasing
<1>6. num_blocked' = Cardinality(Blocked') + Cardinality(Decreasing(dec)')
  BY <1>2, <1>3, <1>4, <1>5, BlockedFinite
<1>. QED  BY <1>2, <1>6 DEF CountInv, BlockedCounted, Blocked, Decreasing

(* u is resumed by t, which has yet to decrease the count.                 *)
LEMMA CountResume ==
    ASSUME NEW dec, CountInv(dec), NEW t \in Thread, NEW u \in ULT,
           state[u] = "BLOCKED", state'[u] # "BLOCKED",
           \A v \in ULT : v # u => state'[v] = state[v],
           pc[t] # dec, pc'[t] = dec,
           \A v \in Thread : v # t => pc'[v] = pc[v],
           UNCHANGED num_blocked
    PROVE  CountInv(dec)'
<1>1. Blocked' = Blocked \ {u} /\ u \in Blocked
  BY DEF Blocked
<1>2. Decreasing(dec)' = Decreasing(dec) \cup {t} /\ t \notin Decreasing(dec)
  BY DEF Decreasing
<1>3. Cardinality(Blocked') = Cardinality(Blocked) - 1
  BY <1>1, BlockedFinite, FS_RemoveElement
<1>4. /\ IsFiniteSet(Decreasing(dec)')
      /\ Cardinality(Decreasing(dec)') = Cardinality(Decreasing(dec)) + 1
      /\ Cardinality(Decreasing(dec)) \in Nat
  BY <1>2, FS_AddElement, FS_CardinalityType DEF CountInv
<1>5. num_blocked = Cardinality(Blocked) + Cardinality(Decreasing(dec))
  BY DEF CountInv, BlockedCounted, Blocked, Decreasing
<1>6. num_blocked' = Cardinality(Blocked') + Cardinality(Decreasing(dec)')
  BY <1>3, <1>4, <1>5, BlockedFinite
<1>. QED  BY <1>4, <1>6 DEF CountInv, BlockedCounted, Blocked, Decreasing

(* ...and does.                                                            *)
LEMMA CountDecrease ==
    ASSUME NEW dec, CountInv(dec), NEW t \in Thread,
           \A u \in ULT : state'[u] = state[u],
           pc[t] = dec, pc'[t] # dec,
           \A v \in Thread : v # t => pc'[v] = pc[v],
           num_blocked' = num_blocked - 1
    PROVE  CountInv(dec)'
<1>1. Blocked' = Blocked
  BY DEF Blocked
<1>2. Decreasing(dec)' = Decreasing(dec) \ {t} /\ t \in Decreasing(dec)
  BY DEF Decreasing
<1>3. /\ IsFiniteSet(Decreasing(dec)')
      /\ Cardinality(Decreasing(dec)') = Cardinality(Decreasing(dec)) - 1
      /\ Cardinality(Decreasing(dec)) \in Nat
  BY <1>2, FS_RemoveElement, FS_CardinalityType DEF CountInv
<1>4. num_blocked = Cardinality(Blocked) + Cardinality(Decreasing(dec))
  BY DEF CountInv, BlockedCounted, Blocked, Decreasing
<1>5. num_blocked' = Cardinality(Blocked') + Cardinality(Decreasing(dec)')
  BY <1>1, <1>3, <1>4, BlockedFinite
<1>. QED  BY <1>3, <1>5 DEF CountInv, BlockedCounted, Blocked, Decreasing

(* A running ULT is not BLOCKED outside its suspension.                    *)
LEMMA RunningNotBlocked ==
    ASSUME WaitInv, NEW t \in ULT, Running(t), pc[t] # "suspend_unlock"
    PROVE  state[t] # "BLOCKED"
  BY ThreadAssumption DEF WaitInv, WaitersSuspended, Running

(* A step that only moves t.                                               *)
LEMMA CountMove ==
    ASSUME NEW Pts, YthreadTypeOK(Pts), NEW dec, CountInv(dec),
           NEW t \in Thread, NEW l, GoTo(t, l),
           pc[t] # dec, l # dec, UNCHANGED <<state, num_blocked>>
    PROVE  CountInv(dec)'
<1>1. \A u \in Thread : pc'[u] = dec <=> pc[u] = dec
  BY DEF GoTo
<1>2. \A u \in ULT : state'[u] = "BLOCKED" <=> state[u] = "BLOCKED"
  OBVIOUS
<1>. QED  BY <1>1, <1>2, CountSame

(* A thread joins the list: it is not BLOCKED yet, or is external.         *)
LEMMA WaitAppendCounted ==
    ASSUME NEW Pts, YthreadTypeOK(Pts), NEW dec, dec \notin WaitPoint, CountInv(dec),
           NEW t \in Thread, pc[t] # dec, WaitAppend(t)
    PROVE  CountInv(dec)'
<1>1. \A u \in Thread : pc'[u] = dec <=> pc[u] = dec
  BY DEF WaitAppend, GoTo, WaitPoint
<1>2. \A u \in ULT : state'[u] = state[u]
  BY ThreadAssumption DEF WaitAppend
<1>. QED  BY <1>1, <1>2, CountSame DEF WaitAppend

(* A wait: the callback of the suspension counts its ULT.                  *)
LEMMA WaitStepCounted ==
    ASSUME NEW Pts, YthreadTypeOK(Pts), WaitlistTypeOK, WaitInv,
           NEW dec, dec \notin WaitPoint, CountInv(dec),
           NEW t \in Thread, NEW next, next # dec, WaitStep(t, next)
    PROVE  CountInv(dec)'
<1>. USE DEF WaitPoint, At
<1>1. CASE SuspendBlock(t)
  <2>1. t \in ULT /\ Running(t) /\ pc[t] = "suspend"
    BY <1>1, ThreadSets DEF SuspendBlock, WaitInv, WaitersSuspended
  <2>2. state[t] # "BLOCKED"
    BY <2>1, RunningNotBlocked
  <2>3. /\ state'[t] = "BLOCKED"
        /\ \A u \in ULT : u # t => state'[u] = state[u]
        /\ \A u \in Thread : pc'[u] = dec <=> pc[u] = dec
        /\ num_blocked' = num_blocked + 1
    BY <1>1, <2>1 DEF SuspendBlock, CallbackBlock, GoTo
  <2>. QED  BY <2>1, <2>2, <2>3, CountBlock
<1>2. CASE SuspendUnlock(t)
  BY <1>2, CountMove DEF SuspendUnlock
<1>3. CASE WaitResumed(t, next)
  BY <1>3, CountMove DEF WaitResumed
<1>4. CASE ExtReady(t, next)
  BY <1>4, CountMove DEF ExtReady, SpinRelease
<1>5. CASE ExtFutexWait(t)
  BY <1>5, CountMove DEF ExtFutexWait
<1>6. CASE ExtFutexWake(t, next)
  BY <1>6, CountMove DEF ExtFutexWake
<1>7. CASE ExtRelock(t)
  BY <1>7, CountMove DEF ExtRelock, SpinAcquire
<1>. QED  BY <1>1, <1>2, <1>3, <1>4, <1>5, <1>6, <1>7 DEF WaitStep

(* The head of the list is BLOCKED when no waiter is suspending any more.  *)
LEMMA HeadBlocked ==
    ASSUME NEW Pts, YthreadTypeOK(Pts), WaitlistTypeOK, WaitInv,
           \A u \in Thread : pc[u] \notin {"suspend", "suspend_unlock"},
           waitlist # <<>>
    PROVE  Head(waitlist) \in Thread /\ state[Head(waitlist)] = "BLOCKED"
<1>1. Head(waitlist) \in Waiters /\ Head(waitlist) \in Thread
  BY TailRange DEF Waiters
<1>. QED  BY <1>1 DEF WaitInv, UltInOnePlace, WaitersSuspended

(* Waking the list: a resumed ULT is counted until its waker decreases.    *)
LEMMA BroadcastCounted ==
    ASSUME NEW Pts, YthreadTypeOK(Pts), WaitlistTypeOK, WaitInv,
           NEW dec, CountInv(dec), NEW t \in Thread,
           NEW from, from # dec, NEW next, next # dec,
           At(t, from) => \A u \in Thread : pc[u] \notin {"suspend", "suspend_unlock"},
           Broadcast(t, from, dec, next)
    PROVE  CountInv(dec)'
<1>1. CASE BroadcastOne(t, from, dec)
  <2>. DEFINE w == Head(waitlist)
  <2>1. w \in Thread /\ state[w] = "BLOCKED"
    BY <1>1, HeadBlocked DEF BroadcastOne
  <2>2. CASE w \in ULT /\ ResumePush(t, w, dec)
    <3>1. /\ state'[w] = "READY"
          /\ \A v \in ULT : v # w => state'[v] = state[v]
          /\ pc[t] # dec /\ pc'[t] = dec
          /\ \A v \in Thread : v # t => pc'[v] = pc[v]
          /\ UNCHANGED num_blocked
      BY <1>1, <2>2 DEF BroadcastOne, At, ResumePush, GoTo, AddThread
    <3>. QED  BY <2>1, <2>2, <3>1, CountResume
  <2>3. CASE ~(w \in ULT /\ ResumePush(t, w, dec))
    <3>1. \A v \in ULT : state'[v] = state[v]
      BY <1>1, <2>3, ThreadAssumption DEF BroadcastOne
    <3>2. UNCHANGED <<pc, num_blocked>>
      BY <1>1, <2>3 DEF BroadcastOne
    <3>. QED  BY <3>1, <3>2, CountSame
  <2>. QED  BY <2>2, <2>3
<1>2. CASE BroadcastDec(t, dec, from)
  <2>1. /\ \A u \in ULT : state'[u] = state[u]
        /\ pc[t] = dec /\ pc'[t] # dec
        /\ \A v \in Thread : v # t => pc'[v] = pc[v]
        /\ num_blocked' = num_blocked - 1
    BY <1>2 DEF BroadcastDec, At, ResumeDecNumBlocked, GoTo
  <2>. QED  BY <2>1, CountDecrease
<1>3. CASE BroadcastEnd(t, from, next)
  BY <1>3, CountMove DEF BroadcastEnd, At
<1>. QED  BY <1>1, <1>2, <1>3 DEF Broadcast

(* A yield or an exit of a thread that runs, or a scheduler.               *)
LEMMA SwitchCounted ==
    ASSUME NEW Pts, YthreadTypeOK(Pts), WaitlistTypeOK, WaitInv,
           NEW dec, CountInv(dec),
           \/ \E t \in Thread : \E l :
                /\ Running(t) /\ pc[t] \notin {dec, "suspend_unlock"}
                /\ l # dec /\ (Yield(t, l) \/ Exit(t, l))
           \/ \E e \in XSTREAM : Schedule(e)
    PROVE  CountInv(dec)'
<1>1. ASSUME NEW t \in Thread, NEW l, Running(t), pc[t] \notin {dec, "suspend_unlock"},
             l # dec, Yield(t, l) \/ Exit(t, l)
      PROVE  CountInv(dec)'
  <2>1. \A u \in Thread : pc'[u] = dec <=> pc[u] = dec
    BY <1>1 DEF Yield, Exit, GoTo
  <2>2. /\ t \in ULT => state[t] # "BLOCKED"
        /\ state'[t] # "BLOCKED"
        /\ \A u \in ULT : u # t => state'[u] = state[u]
        /\ UNCHANGED num_blocked
    BY <1>1, RunningNotBlocked DEF Yield, Exit, AddThread
  <2>. QED  BY <2>1, <2>2, CountSame
<1>2. ASSUME NEW e \in XSTREAM, Schedule(e)
      PROVE  CountInv(dec)'
  <2>1. /\ Head(pool) \in ULT /\ state[Head(pool)] = "READY"
    BY <1>2, TailRange DEF Schedule, WaitInv, UltInOnePlace
  <2>2. /\ state' = [state EXCEPT ![Head(pool)] = "RUNNING"]
        /\ UNCHANGED <<pc, num_blocked>>
    BY <1>2 DEF Schedule
  <2>3. \A u \in ULT : state'[u] = "BLOCKED" <=> state[u] = "BLOCKED"
    BY <2>1, <2>2
  <2>. QED  BY <2>2, <2>3, CountSame
<1>. QED  BY <1>1, <1>2

(* Initially no ULT is BLOCKED.                                            *)
LEMMA CountInit ==
    ASSUME NEW dec, NEW start, start # dec, YthreadInit(start)
    PROVE  CountInv(dec)
<1>1. Blocked = {} /\ Decreasing(dec) = {} /\ num_blocked = 0
  BY DEF Blocked, Decreasing, YthreadInit
<1>. QED  BY <1>1, FS_EmptySet DEF CountInv, BlockedCounted, Blocked, Decreasing
=============================================================================
