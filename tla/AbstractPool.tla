----------------------------- MODULE AbstractPool ----------------------------
(***************************************************************************)
(* What a pool promises: it is a sequence of units, every push, pop and    *)
(* remove takes effect in one step, and a pop finds nothing only when      *)
(* there is nothing.  A FIFO pool is pushed at one end and popped at the   *)
(* other, so that units come in order unless somebody removes one, and     *)
(* nobody removes a unit but the one it asks for.                          *)
(***************************************************************************)
EXTENDS SequencesExt

CONSTANTS User, Unit, None

VARIABLES
    fifo,   \* it is a FIFO pool
    units,  \* what is in the pool
    asked,  \* the unit that each user asks to remove, None of the others
    got     \* what each user got: units, and None for a pop without one

poolVars == <<fifo, units, asked, got>>

Init ==
    /\ fifo \in BOOLEAN
    /\ units = <<>>
    /\ asked = [t \in User |-> None]
    /\ got = [t \in User |-> <<>>]

Push(u) ==
    /\ ~Contains(units, u)
    /\ units' = Append(units, u) \/ (~fifo /\ units' = <<u>> \o units)
    /\ UNCHANGED <<fifo, asked, got>>

(* A user asks for a unit, or no longer does.                              *)
Ask(t, u) ==
    /\ asked' = [asked EXCEPT ![t] = u]
    /\ UNCHANGED <<fifo, units, got>>

Take(t, u) ==
    /\ got' = [got EXCEPT ![t] = Append(@, u)]
    /\ UNCHANGED fifo

Pop(t, u) == asked[t] = None /\ Take(t, u) /\ UNCHANGED asked

PopHead(t) == units # <<>> /\ units' = Tail(units) /\ Pop(t, Head(units))

PopTail(t) == ~fifo /\ units # <<>> /\ units' = Front(units) /\ Pop(t, Last(units))

PopNone(t) == units = <<>> /\ UNCHANGED units /\ Pop(t, None)

RemoveUnit(t, i) ==
    /\ asked[t] = units[i]
    /\ units' = RemoveAt(units, i)
    /\ asked' = [asked EXCEPT ![t] = None]
    /\ Take(t, units[i])

Next ==
    \/ \E u \in Unit : Push(u)
    \/ \E t \in User : PopHead(t) \/ PopTail(t) \/ PopNone(t)
    \/ \E t \in User : \E u \in Unit \cup {None} : Ask(t, u)
    \/ \E t \in User : \E i \in DOMAIN units : RemoveUnit(t, i)

Spec == Init /\ [][Next]_poolVars
=============================================================================
