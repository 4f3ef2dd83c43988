SPECIFICATION Spec
CONSTANTS
  Users = {u1, u2, u3, u4}
  Sizes = {0, 1, 2, 3}
  MaxProposals = 2
INVARIANTS OwnersAgree VotesCounted
PROPERTIES ImplementsCouncil DecidedByQuorum QuorumAttainable
SYMMETRY Symmetry
