----------------------------- MODULE AbstractKeys ----------------------------
(***************************************************************************)
(* What work-unit-specific data promise: "values associated with a         *)
(* work-unit-specific data key are read and updated atomically".  A set    *)
(* takes effect in one step between its call and its return, unless memory *)
(* cannot be allocated, a get returns what was set last.                   *)
(***************************************************************************)
EXTENDS Naturals, Sequences

CONSTANTS User, Key, Value, None

VARIABLES
    value,    \* of each key, or None
    setting,  \* the key and the value of a set that has not taken effect, or <<>>
    failing,  \* allocations that may fail
    seen      \* what each user has read

keysVars == <<value, setting, failing, seen>>

Init ==
    /\ value = [k \in Key |-> None]
    /\ setting = [t \in User |-> <<>>]
    /\ failing \in Nat
    /\ seen = [t \in User |-> <<>>]

Call(t, k, v) ==
    /\ setting[t] = <<>>
    /\ setting' = [setting EXCEPT ![t] = <<k, v>>]
    /\ UNCHANGED <<value, failing, seen>>

Set(t) ==
    /\ setting[t] # <<>>
    /\ value' = [value EXCEPT ![setting[t][1]] = setting[t][2]]
    /\ setting' = [setting EXCEPT ![t] = <<>>]
    /\ UNCHANGED <<failing, seen>>

Fail(t) ==
    /\ setting[t] # <<>>
    /\ failing > 0
    /\ setting' = [setting EXCEPT ![t] = <<>>]
    /\ failing' = failing - 1
    /\ UNCHANGED <<value, seen>>

Get(t, k) ==
    /\ seen' = [seen EXCEPT ![t] = Append(@, value[k])]
    /\ UNCHANGED <<value, setting, failing>>

Next ==
    \E t \in User :
        \/ \E k \in Key, v \in Value \cup {None} : Call(t, k, v)
        \/ Set(t)
        \/ Fail(t)
        \/ \E k \in Key : Get(t, k)

Spec == Init /\ [][Next]_keysVars
=============================================================================
