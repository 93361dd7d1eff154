---------------------------- MODULE MCAiReplyRun -----------------------------
(* Small instances of AiReplyRun for TLC. *)
EXTENDS AiReplyRun, TLC

\* Attempts are interchangeable; messages are ordered.
AttemptSymmetry == Permutations(Attempts)
=============================================================================
