------------------------------ MODULE MCBackup ------------------------------
(* BackupUploader on a small instance. *)
EXTENDS BackupUploader, TLC

\* Page contents and records versions are interchangeable.
Symmetry == Permutations(Val) \cup Permutations(Recs)
=============================================================================
