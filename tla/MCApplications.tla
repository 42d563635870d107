--------------------------- MODULE MCApplications ----------------------------
(* cg on its own, two ULTs, to find the loops that are not ordered.        *)
EXTENDS Applications

CONSTANTS MODE, PROGRAM

MCJOBS == {<<MODE, PROGRAM>>}

AllDone == AppDone /\ UNCHANGED appVars

Spec == AppInit /\ [][AppNext \/ AllDone]_appVars
=============================================================================
