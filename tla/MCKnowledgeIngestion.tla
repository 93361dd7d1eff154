------------------------ MODULE MCKnowledgeIngestion ------------------------
(* A small instance of KnowledgeIngestion for TLC. *)
EXTENDS KnowledgeIngestion, TLC

\* Executions are alike, and so are the contents.
Symmetry == Permutations(Workers) \cup Permutations(Contents)
=============================================================================
