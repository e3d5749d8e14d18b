--------------------------- MODULE MCKnowledgeIndexer ---------------------------
(* A small instance of KnowledgeIndexer. *)
EXTENDS KnowledgeIndexer, TLC

\* Texts are only compared with each other.
TextSymmetry == Permutations(Versions)

===============================================================================
