SPECIFICATION Spec
CONSTANTS
  Accounts = {acct}
  Sessions = {s1}
  Nonces = {n1}
  Services <- AskedServices
  Reqs = {r1}
  Shapes <- MixedShapes
  NoNonce = NoNonce
  NoRow = NoRow
  Idle = Idle
  HardTTL = 2
  IdleWindow = 2
  TokenTTL = 1
  ActionWindow = 1
  NonceTTL = 2
  ClockSkew = 0
  MaxVerify = 1
  MaxTime = 1
  MaxEpoch = 0
INVARIANTS EveryDecisionAudited
