----------------------------- MODULE MCBackups -----------------------------
(* The processes and the files are interchangeable. *)
EXTENDS Backups, TLC

Symmetric == Permutations(Process) \cup Permutations(File)
=============================================================================
