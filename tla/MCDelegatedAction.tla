------------------------- MODULE MCDelegatedAction -------------------------
(***************************************************************************)
(* TLC instances of DelegatedAction.                                        *)
(***************************************************************************)
EXTENDS DelegatedAction, TLC

\* person-mcp, and a name only a caller of /wallet-action/verify gives.
AskedServices == { "person-mcp", "org-mcp" }

\* One shape every check accepts.
GoodShapes ==
  { [type |-> "CreatePresentation", service |-> "person-mcp",
     verifier |-> "someVerifier"] }

\* One shape for each check of steps 5 to 8 to refuse, and a good one.
MixedShapes ==
  GoodShapes \cup
  { [type |-> "CreatePresentation", service |-> "person-mcp", verifier |-> "none"],
    [type |-> "AcceptCredentialOffer", service |-> "org-mcp", verifier |-> "none"],
    [type |-> "RotateLinkSecret", service |-> "person-mcp", verifier |-> "none"],
    [type |-> "AddPasskey", service |-> "person-mcp", verifier |-> "none"] }

SessionSymmetry == Permutations(Sessions)
NonceSymmetry == Permutations(Nonces) \cup Permutations(Reqs)
=============================================================================
