--------------------------- MODULE MCKnowledgeSync ---------------------------
(* KnowledgeSync for TLC. No symmetry: a liveness property is checked.     *)
EXTENDS KnowledgeSync
=============================================================================
