SPECIFICATION Spec
CONSTANTS
  Accounts = {acct}
  Sessions = {s1}
  Nonces = {n1, n2}
  Services <- AskedServices
  Reqs = {r1, r2}
  Shapes <- GoodShapes
  NoNonce = NoNonce
  NoRow = NoRow
  Idle = Idle
  HardTTL = 4
  IdleWindow = 3
  TokenTTL = 1
  ActionWindow = 1
  NonceTTL = 3
  ClockSkew = 0
  MaxVerify = 2
  MaxTime = 4
  MaxEpoch = 1
INVARIANTS ReplayFree AuditBacked AllowedIsAudited
SYMMETRY NonceSymmetry
PROPERTIES ImplementsActions IdleNeverCollapses
