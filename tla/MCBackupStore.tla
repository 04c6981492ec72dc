--------------------------- MODULE MCBackupStore ---------------------------
(* Instances of BackupStore for TLC. *)
EXTENDS BackupStore, TLC

Symmetry == Permutations(Process)
=============================================================================
