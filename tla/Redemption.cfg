SPECIFICATION Spec
CONSTANTS
  acct = acct
  g1 = g1
  g2 = g2
  o1 = o1
  o2 = o2
  k1 = k1
  Accounts = {acct}
  EOAs = {g1, g2}
  Owners = {o1, o2}
  Passkeys = {k1}
  Hashes = {"fast", "slow", "root", "leaf"}
  ScopeKeys = {"burst"}
  Delegation <- MCDelegation
  Chains <- MCChains
  Calls <- MCCalls
  Other = Other
  HookTerms <- MCHookTerms
  DelayRange = 4
  Root = Root
  Open = Open
  NoAccount = NoAccount
  MaxTime = 3
INVARIANTS AccountsSound RateBounded RecoveryDelayed RecoveryOnce
PROPERTIES ImplementsGuarded
CONSTRAINT Bounded
