SPECIFICATION Spec
CONSTANTS
  c1 = c1
  c2 = c2
  c3 = c3
  n1 = n1
  n2 = n2
  n3 = n3
  Calls = {c1, c2, c3}
  Nonces = {n1, n2, n3}
  NoWallet = NoWallet
  MaxSecrets = 3
  MaxRequests = 2
SYMMETRY Symmetry
INVARIANTS
  ActiveIsCurrent
  OneCredentialPerRequest
  BoundToItsRequest
PROPERTIES
  ProvisioningKeepsWallet
  ImplementsExchange
