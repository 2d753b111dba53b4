SPECIFICATION FairSpec

CONSTANTS
  a = a
  b = b
  c = c
  Ports = {a, b, c}
  Plans <- SomePlans
  Networks = {TRUE, FALSE}
  Tempers = {TRUE, FALSE}

INVARIANTS
  CompleteUnlessKnockLost
  SuccessIsComplete
  IInv

PROPERTIES
  Returns

CHECK_DEADLOCK FALSE
