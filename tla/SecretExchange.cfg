SPECIFICATION FairSpec

CONSTANTS
  Challenges = {1, 2, 3}
  PortLike = {3}
  HiddenPort = 4025
  MaxAttempts = 3
  Networks = {TRUE, FALSE}

INVARIANTS
  SolvedIsConfirmed
  LossIsRetried
  IInv

PROPERTIES
  Returns

CHECK_DEADLOCK FALSE
