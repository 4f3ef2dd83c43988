SPECIFICATION Spec
CONSTANTS
  r1 = r1
  r2 = r2
  e1 = e1
  f1 = f1
  f2 = f2
  f3 = f3
  Roles = {r1, r2}
  Deployer = Deployer
  Subject = Subject
  Object = Object
  ObjectOwner = ObjectOwner
  Stranger = Stranger
  Edges = {e1}
  Flows = {f1, f2, f3}
  MaxCalls = 3
  NoRole = NoRole
  InitialRoles <- MCInitialRoles
INVARIANTS
  RolesAgree
  RolesGranted
  SelfClaimed
  RejectionStands
SYMMETRY Symmetry
