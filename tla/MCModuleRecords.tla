--------------------------- MODULE MCModuleRecords ---------------------------
(***************************************************************************)
(* An instance of ModuleRecords for TLC: application 1 of user 100 and its *)
(* clone 2, and application 3 of user 101.                                 *)
(***************************************************************************)
EXTENDS ModuleRecords

Users == <<100, 100, 101>>
Removed == <<{1, 2}, {2}, {3}>>
Jumps == {-2, 2}

\* Of a behaviour whose records may all be wrong no property says anything.
SomeUndisturbed == disturbed # Uid
=============================================================================
