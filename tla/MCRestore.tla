------------------------------ MODULE MCRestore ------------------------------
(* BackupRestore with a chain of two points, one of one, and a legacy file. *)
EXTENDS BackupRestore, TLC

CONSTANTS c1, c2
DepthDef == (c1 :> 2) @@ (c2 :> 1)
=============================================================================
