---------------------------- MODULE XstreamBarrier ----------------------------
(***************************************************************************)
(* The barrier that blocks the execution streams of its waiters, of builds *)
(* without barriers of pthreads: waiters spin on a tag, which the last one *)
(* of each group changes.  The tag is read without the lock.               *)
(***************************************************************************)
EXTENDS Integers, FiniteSets

CONSTANTS
    WAITER,       \* threads that use the barrier, each on an ES of its own
    NUM_WAITERS,
    TAGS,         \* the tag wraps around here (2^63 in the code)
    WAITS         \* how often each thread waits

(* A group is everybody: a thread is at most one group behind the tag, as  *)
(* none can be complete without it.                                        *)
XstreamBarrierConstants ==
    /\ IsFiniteSet(WAITER)
    /\ NUM_WAITERS \in Nat \ {0, 1} /\ NUM_WAITERS = Cardinality(WAITER)
    /\ TAGS \in Nat \ {0, 1}
    /\ WAITS \in Nat

VARIABLES
    counter, tag,  \* ABTI_xstream_barrier
    lock,          \* its spinlock
    cur_tag,       \* what each waiter has read
    at,            \* the point each thread is at
    waits_left

xstreamBarrierVars == <<counter, tag, lock, cur_tag, at, waits_left>>

XstreamBarrierInit ==
    /\ counter = 0 /\ tag = 0 /\ lock = FALSE
    /\ cur_tag = [t \in WAITER |-> 0]
    /\ at = [t \in WAITER |-> "out"]
    /\ waits_left = [t \in WAITER |-> WAITS]

Move(t, from, next) == at[t] = from /\ at' = [at EXCEPT ![t] = next]

-----------------------------------------------------------------------------

(* Not the last: the lock is held only in this step.                       *)
ArriveEarly(t) ==
    /\ ~lock /\ waits_left[t] > 0
    /\ counter + 1 # NUM_WAITERS
    /\ Move(t, "out", "spin")
    /\ counter' = counter + 1
    /\ cur_tag' = [cur_tag EXCEPT ![t] = tag]
    /\ UNCHANGED <<tag, lock, waits_left>>

(* Mutant of ArriveFinal: the waiters are counted without the last one.    *)
ArriveFinalEarly(t) ==
    /\ ~lock /\ waits_left[t] > 0
    /\ counter + 2 = NUM_WAITERS
    /\ Move(t, "out", "tag")
    /\ counter' = 0
    /\ lock' = TRUE
    /\ UNCHANGED <<tag, cur_tag, waits_left>>

ArriveFinal(t) ==
    /\ ~lock /\ waits_left[t] > 0
    /\ counter + 1 = NUM_WAITERS
    /\ Move(t, "out", "tag")
    /\ counter' = 0
    /\ lock' = TRUE
    /\ UNCHANGED <<tag, cur_tag, waits_left>>

(* Waiters return from here on, and arrive again.                          *)
StoreTag(t) ==
    /\ Move(t, "tag", "unlock")
    /\ tag' = (tag + 1) % TAGS
    /\ UNCHANGED <<counter, lock, cur_tag, waits_left>>

Returns(t, from) ==
    /\ Move(t, from, "out")
    /\ waits_left' = [waits_left EXCEPT ![t] = @ - 1]

ReleaseLock(t) ==
    /\ Returns(t, "unlock")
    /\ lock' = FALSE
    /\ UNCHANGED <<counter, tag, cur_tag>>

SpinOver(t) ==
    /\ cur_tag[t] # tag
    /\ Returns(t, "spin")
    /\ UNCHANGED <<counter, tag, lock, cur_tag>>

XstreamBarrierStep(t) ==
    \/ ArriveEarly(t) \/ ArriveFinal(t) \/ StoreTag(t) \/ ReleaseLock(t) \/ SpinOver(t)

XstreamBarrierSpec ==
    XstreamBarrierInit /\ [][\E t \in WAITER : XstreamBarrierStep(t)]_xstreamBarrierVars

XstreamBarrierDone == \A t \in WAITER : waits_left[t] = 0

-----------------------------------------------------------------------------

(* The barrier implements AbstractBarrier: a group is complete when its    *)
(* last thread stores the tag, and its threads may leave from then on,     *)
(* while those who have left arrive for the next group.                    *)
Spinning == {t \in WAITER : at[t] = "spin"}

Unreleased == {t \in Spinning : cur_tag[t] = tag}

Released == (Spinning \ Unreleased) \cup {t \in WAITER : at[t] = "unlock"}

Abstract == INSTANCE AbstractBarrier
    WITH Thread <- WAITER, inside <- Unreleased, released <- Released

XstreamBarrierImplements == Abstract!Spec
=============================================================================
