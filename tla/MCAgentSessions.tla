--------------------------- MODULE MCAgentSessions ---------------------------
(***************************************************************************)
(* TLC instances of AgentSessions.                                          *)
(***************************************************************************)
EXTENDS AgentSessions, TLC

Symmetry ==
  Permutations(Accounts) \cup Permutations(Reqs) \cup Permutations(Tokens)
    \cup Permutations(Challenges)
=============================================================================
