--------------------------- MODULE MCAgentControl ---------------------------
(***************************************************************************)
(* TLC instances of AgentControl.                                           *)
(***************************************************************************)
EXTENDS AgentControl, TLC

\* Addresses are interchangeable.
Symmetry == Permutations(Users)
=============================================================================
