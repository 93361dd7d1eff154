------------------------ MODULE MCKnowledgePublication ------------------------
(* Small instances of KnowledgePublication for TLC. *)
EXTENDS KnowledgePublication, TLC

\* Requests are interchangeable, and so are dispatchers.
PublicationSymmetry == Permutations(Publications) \cup Permutations(Dispatchers)
=============================================================================
