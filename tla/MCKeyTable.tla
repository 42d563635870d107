----------------------------- MODULE MCKeyTable ------------------------------
(* Two threads ask a unit to migrate, each to a pool of its own.            *)
EXTENDS KeyTable

CONSTANTS t1, t2, pool1, pool2

MCSETTER == {t1, t2}

Migrate(pool) == <<"migrate", MIGRATION, pool>>

MCKEYUSES == {<<"mempool", 0, (t1 :> <<Migrate(pool1)>>) @@ (t2 :> <<Migrate(pool2)>>)>>}

AllDone == KeyDone /\ UNCHANGED keyVars

Spec == KeyInit /\ [][KeyNext \/ AllDone]_keyVars
=============================================================================
