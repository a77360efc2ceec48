-------------------------- MODULE MCSqliteSession --------------------------
(* SqliteSession for TLC: the processes are interchangeable. *)
EXTENDS SqliteSession, TLC

Symmetry == Permutations(Procs)
=============================================================================
