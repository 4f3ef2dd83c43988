------------------------- MODULE MCRelationshipFlows -------------------------
(* RelationshipFlows for TLC.                                              *)
EXTENDS RelationshipFlows, TLC

\* None, one or two roles, the same one twice as well.
MCInitialRoles == BoundedSeq(Roles, 2)

Symmetry == Permutations(Flows) \cup Permutations(Roles)
=============================================================================
