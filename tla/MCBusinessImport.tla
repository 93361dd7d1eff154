-------------------------- MODULE MCBusinessImport --------------------------
(* A small instance of BusinessImport for TLC. *)
EXTENDS BusinessImport, TLC

\* Workers are alike.
WorkerSymmetry == Permutations(Workers)
=============================================================================
