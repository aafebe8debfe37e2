------------------------------ MODULE MCDrives ------------------------------
(* SharedDrives on two drives. *)
EXTENDS SharedDrives, TLC

Symmetry == Permutations(Drives)
=============================================================================
