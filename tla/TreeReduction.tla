---------------------------- MODULE TreeReduction ----------------------------
(***************************************************************************)
(* reduce_common (the tree variant, which abt_reduction.h selects): the    *)
(* caller cuts the array into one slice per thread, creates the threads    *)
(* and joins them.  Each thread reduces its slice, publishes the partial   *)
(* result, and from level to level every second remaining thread absorbs   *)
(* the result of its partner, with a barrier between the levels.           *)
(*                                                                         *)
(* A value is the sequence of the indices of the array elements it was     *)
(* reduced from: reduce_func concatenates, which stands for any            *)
(* associative function, and the default value is its identity.  The       *)
(* barrier is the one AbstractBarrier promises, the scheduling of the ULTs *)
(* is left to the interleaving of their steps.                             *)
(***************************************************************************)
EXTENDS Integers, Sequences, FiniteSets

CONSTANTS
    NUM_THREADS,  \* reduction_context->num_threads
    NUM_ELEMS     \* num_elems of the array

(* What reduce_common relies on, for who instantiates the module to assume. *)
ReductionConstants == NUM_THREADS \in Nat \ {0} /\ NUM_ELEMS \in Nat

Id == 0 .. NUM_THREADS - 1

VARIABLES
    pc,              \* the point each reduction thread is at
    step,            \* its loop variable
    operand,         \* what its reduce_func has read from the partner
    thread_results,  \* the shared array of partial results
    live,            \* the entries of thread_results that are allocated
    result,          \* *result, of the caller
    created,         \* threads the caller has created
    joined,          \* threads the caller has joined and freed
    freed,           \* the caller has freed the barrier and thread_results
    inside, released \* the barrier

barrierVars == <<inside, released>>
callerVars == <<created, joined, freed>>
vars == <<pc, step, operand, thread_results, live, result, callerVars, barrierVars>>

Barrier == INSTANCE AbstractBarrier WITH Thread <- Id, NUM_WAITERS <- NUM_THREADS

GoTo(t, l) == pc' = [pc EXCEPT ![t] = l]

-----------------------------------------------------------------------------
(* Slices of the array.                                                    *)

(* The indices a .. b - 1, in order.                                       *)
Elems(a, b) == [k \in 1 .. b - a |-> a + k - 1]

elems_per_thread == NUM_ELEMS \div NUM_THREADS

(* The slice of thread t begins here, and as long as this; the last thread *)
(* takes what the division leaves.                                         *)
First(t) == t * elems_per_thread

Count(t) == IF t = NUM_THREADS - 1 THEN NUM_ELEMS - t * elems_per_thread
                                   ELSE elems_per_thread

Slice(t) == Elems(First(t), First(t) + Count(t))

-----------------------------------------------------------------------------

Init ==
    /\ pc = [t \in Id |-> "none"]
    /\ step = [t \in Id |-> 1]
    /\ operand = [t \in Id |-> <<>>]
    /\ thread_results = [t \in Id |-> <<>>]
    /\ live = {}
    /\ result = <<>>
    /\ created = 0 /\ joined = 0 /\ freed = FALSE
    /\ Barrier!Init

(* Mutant of Create: the loop runs once too often.                         *)
CreateOneMore ==
    /\ created <= NUM_THREADS
    /\ created' = created + 1
    /\ GoTo(created, "publish")
    /\ UNCHANGED <<step, operand, thread_results, live, result, joined, freed, barrierVars>>

(* The caller creates the threads in order...                              *)
Create ==
    /\ created < NUM_THREADS
    /\ created' = created + 1
    /\ GoTo(created, "publish")
    /\ UNCHANGED <<step, operand, thread_results, live, result, joined, freed, barrierVars>>

(* Mutant of Join: the last thread is not waited for.                      *)
JoinNotLast ==
    /\ created = NUM_THREADS
    /\ joined < NUM_THREADS
    /\ joined < NUM_THREADS - 1 => pc[joined] = "done"
    /\ joined' = joined + 1
    /\ UNCHANGED <<pc, step, operand, thread_results, live, result, created, freed, barrierVars>>

(* ...joins and frees them in order...                                     *)
Join ==
    /\ created = NUM_THREADS
    /\ joined < NUM_THREADS
    /\ pc[joined] = "done"
    /\ joined' = joined + 1
    /\ UNCHANGED <<pc, step, operand, thread_results, live, result, created, freed, barrierVars>>

(* ...and frees the barrier and the array of partial results.              *)
Finish ==
    /\ joined = NUM_THREADS
    /\ ~freed
    /\ freed' = TRUE
    /\ UNCHANGED <<pc, step, operand, thread_results, live, result, created, joined, barrierVars>>

-----------------------------------------------------------------------------
(* reduction_thread.                                                       *)

(* The slice is reduced into local_result, which is copied to a new buffer.*)
Publish(t) ==
    /\ pc[t] = "publish"
    /\ thread_results' = [thread_results EXCEPT ![t] = Slice(t)]
    /\ live' = live \cup {t}
    /\ GoTo(t, "enter")
    /\ UNCHANGED <<step, operand, result, callerVars, barrierVars>>

BarrierEnter(t) ==
    /\ pc[t] = "enter"
    /\ Barrier!Enter(t)
    /\ GoTo(t, "leave")
    /\ UNCHANGED <<step, operand, thread_results, live, result, callerVars>>

(* Mutant of BarrierLeave: no barrier between the levels.                  *)
BarrierLeaveAny(t) ==
    /\ pc[t] = "leave"
    /\ IF step[t] = 1 THEN Barrier!Leave(t)
                      ELSE inside' = inside \ {t} /\ released' = released \ {t}
    /\ GoTo(t, "level")
    /\ UNCHANGED <<step, operand, thread_results, live, result, callerVars>>

BarrierLeave(t) ==
    /\ pc[t] = "leave"
    /\ Barrier!Leave(t)
    /\ GoTo(t, "level")
    /\ UNCHANGED <<step, operand, thread_results, live, result, callerVars>>

partner_thread_id(t) == t + step[t]

(* The threads that absorb their partner at their current level.           *)
Combines(t) ==
    /\ t % (2 * step[t]) = 0
    /\ partner_thread_id(t) < NUM_THREADS

(* reduce_func(a, b) reads b...                                            *)
ReadPartner(t) ==
    /\ pc[t] = "level"
    /\ step[t] < NUM_THREADS
    /\ Combines(t)
    /\ operand' = [operand EXCEPT ![t] = thread_results[partner_thread_id(t)]]
    /\ GoTo(t, "combine")
    /\ UNCHANGED <<step, thread_results, live, result, callerVars, barrierVars>>

(* Mutant of Combine: the operands of reduce_func are swapped.             *)
CombineSwapped(t) ==
    /\ pc[t] = "combine"
    /\ thread_results' = [thread_results EXCEPT ![t] = operand[t] \o @]
    /\ step' = [step EXCEPT ![t] = 2 * @]
    /\ GoTo(t, "enter")
    /\ UNCHANGED <<operand, live, result, callerVars, barrierVars>>

(* ...and writes a; then the next level, behind the barrier.               *)
Combine(t) ==
    /\ pc[t] = "combine"
    /\ thread_results' = [thread_results EXCEPT ![t] = @ \o operand[t]]
    /\ step' = [step EXCEPT ![t] = 2 * @]
    /\ GoTo(t, "enter")
    /\ UNCHANGED <<operand, live, result, callerVars, barrierVars>>

(* Mutant of SkipLevel: a thread that was absorbed leaves the loop.        *)
SkipLevelLeaves(t) ==
    /\ pc[t] = "level"
    /\ step[t] < NUM_THREADS
    /\ ~Combines(t)
    /\ step' = [step EXCEPT ![t] = 2 * @]
    /\ GoTo(t, IF t % (2 * step[t]) = 0 THEN "enter" ELSE "free")
    /\ UNCHANGED <<operand, thread_results, live, result, callerVars, barrierVars>>

(* A thread that absorbs nobody at this level.                             *)
SkipLevel(t) ==
    /\ pc[t] = "level"
    /\ step[t] < NUM_THREADS
    /\ ~Combines(t)
    /\ step' = [step EXCEPT ![t] = 2 * @]
    /\ GoTo(t, "enter")
    /\ UNCHANGED <<operand, thread_results, live, result, callerVars, barrierVars>>

(* The end of the loop: thread 0 stores the result...                      *)
Store(t) ==
    /\ pc[t] = "level"
    /\ step[t] >= NUM_THREADS
    /\ result' = IF t = 0 THEN thread_results[0] ELSE result
    /\ GoTo(t, "free")
    /\ UNCHANGED <<step, operand, thread_results, live, callerVars, barrierVars>>

(* ...and every thread frees its own buffer.                               *)
Free(t) ==
    /\ pc[t] = "free"
    /\ live' = live \ {t}
    /\ GoTo(t, "done")
    /\ UNCHANGED <<step, operand, thread_results, result, callerVars, barrierVars>>

ThreadStep(t) ==
    \/ Publish(t) \/ BarrierEnter(t) \/ BarrierLeave(t)
    \/ ReadPartner(t) \/ Combine(t) \/ SkipLevel(t) \/ Store(t) \/ Free(t)

CallerStep == Create \/ Join \/ Finish

Returned == freed /\ UNCHANGED vars

Next == (\E t \in Id : ThreadStep(t)) \/ CallerStep \/ Returned

Spec == Init /\ [][Next]_vars

-----------------------------------------------------------------------------
(* Properties.                                                             *)

TypeOK ==
    /\ pc \in [Id -> {"none", "publish", "enter", "leave", "level",
                      "combine", "free", "done"}]
    /\ step \in [Id -> Nat \ {0}]
    /\ operand \in [Id -> Seq(Nat)]
    /\ thread_results \in [Id -> Seq(Nat)]
    /\ live \in SUBSET Id
    /\ result \in Seq(Nat)
    /\ created \in 0 .. NUM_THREADS /\ joined \in 0 .. NUM_THREADS
    /\ freed \in BOOLEAN
    /\ inside \in SUBSET Id /\ released \in SUBSET Id

(* What a thread reads of its partner is allocated and at rest: nobody     *)
(* writes either of the two buffers, and no two threads combine into, or   *)
(* out of, the same one.                                                   *)
CombinesUndisturbed ==
    \A t \in Id : pc[t] = "combine" =>
        /\ {t, partner_thread_id(t)} \subseteq live
        /\ operand[t] = thread_results[partner_thread_id(t)]
        /\ \A u \in Id \ {t} : pc[u] = "combine" =>
              {t, partner_thread_id(t)} \cap {u, partner_thread_id(u)} = {}

(* At a level of step s, a thread that is a multiple of s holds the slices *)
(* of the s threads from itself on, in the order of the array.             *)
PartialResults ==
    /\ TypeOK
    /\ \A t \in Id : pc[t] = "level" /\ t % step[t] = 0 =>
          LET u == IF t + step[t] < NUM_THREADS THEN First(t + step[t])
                                                ELSE NUM_ELEMS
          IN  thread_results[t] = Elems(First(t), u)

(* When reduce_common returns, the result has every element of the array   *)
(* exactly once and in order, and neither the barrier nor a buffer is in   *)
(* use or left allocated.                                                  *)
ResultComplete ==
    freed => /\ result = Elems(0, NUM_ELEMS)
             /\ live = {} /\ inside = {} /\ released = {}
=============================================================================
