---------------------------- MODULE SessionGrant ----------------------------
(***************************************************************************)
(* The static policy of a SessionGrant.v1: which wallet actions a delegated *)
(* session may perform at all.  Translated from the server-side risk        *)
(* classifier (packages/privacy-creds), the grant minted at sign-in         *)
(* (apps/web) and steps 5 to 8 of the verifier (apps/person-mcp).           *)
(***************************************************************************)
EXTENDS Naturals

ActionType ==
  { "ProvisionHolderWallet", "MatchAgainstPublicSet", "MatchAgainstPublicGeoSet",
    "AcceptCredentialOffer", "CreatePresentation", "RotateLinkSecret",
    "RevokeCredential", "AddPasskey", "RemovePasskey", "RecoveryUpdate",
    "CreateDelegation" }

LowRisk == { "ProvisionHolderWallet", "MatchAgainstPublicSet",
             "MatchAgainstPublicGeoSet" }
MediumRisk == { "AcceptCredentialOffer", "CreatePresentation" }

\* low, medium and high, ranked.
RiskRank(type) == IF type \in LowRisk THEN 1
                  ELSE IF type \in MediumRisk THEN 2 ELSE 3

\* The grant buildDefaultSessionGrant mints; finalize refuses any other policy.
DefaultGrant ==
  [ maxRisk              |-> 2,
    walletActions        |-> LowRisk \cup MediumRisk,
    audience             |-> { "person-mcp", "a2a-agent", "verifier-mcp", "web" },
    verifiers            |-> {},
    requireKnownVerifier |-> FALSE,
    allowAccountMutation |-> FALSE ]

\* enforceConstraints: types that no grant, however wide, can authorise.
HardRails == { "AddPasskey", "RemovePasskey", "RecoveryUpdate", "CreateDelegation" }

\* What the checks of steps 5 to 8 and the signature look at in an action.
\* "none" stands for a presentation that names no verifier.
Verifier == { "none", "someVerifier" }
Shape == [ type : ActionType, service : STRING, verifier : Verifier ]

VerifierPolicyOK(shape, grant) ==
  shape.type = "CreatePresentation" =>
    /\ shape.verifier # "none"
    /\ grant.requireKnownVerifier => shape.verifier \in grant.verifiers

ConstraintsOK(shape, grant) ==
  /\ shape.type \notin HardRails
  /\ ~grant.allowAccountMutation

\* Steps 5 to 8 of verifyDelegatedWalletAction at the verifier named self.
Permitted(shape, grant, self) ==
  /\ self \in grant.audience
  /\ shape.service = self
  /\ RiskRank(shape.type) <= grant.maxRisk
  /\ shape.type \in grant.walletActions
  /\ ConstraintsOK(shape, grant)
  /\ VerifierPolicyOK(shape, grant)
=============================================================================
