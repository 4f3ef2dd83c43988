SPECIFICATION Spec
CONSTANTS
  Accounts = {alice, bob}
  Challenges = {c1}
  Tokens = {t1}
  Reqs = {r1, r2}
  NumSessions = 2
  MaxRevocations = 1
  Granted = {}
  Durations = {0, 1}
  Untils = {1}
  ChallengeTTL = 0
  LoginTTL = 1
  UsageLimit = 1
  MaxTime = 1
  NoRow = NoRow
  Idle = Idle
  Unsigned = Unsigned
  NoPackage = NoPackage
INVARIANTS TokensSpeakForOwner TokenUseMetered RevocationReachesTokens
PROPERTIES ImplementsTokens ChallengeSpent RevokedStays
SYMMETRY Symmetry
