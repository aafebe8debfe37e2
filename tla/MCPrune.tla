------------------------------- MODULE MCPrune -------------------------------
(* BackupPrune on a small instance, with one fault of either kind. *)
EXTENDS BackupPrune, TLC

Symmetry == Permutations(Val)

\* BOUND: a crash or a fault, not both.
OneFault == crashes + damage <= 1
=============================================================================
