--------------------------- MODULE MCRuntimeInbox ----------------------------
(* Small instances of RuntimeInbox for TLC. *)
EXTENDS RuntimeInbox, TLC

\* Handler runs are interchangeable.
WorkerSymmetry == Permutations(Workers)
=============================================================================
