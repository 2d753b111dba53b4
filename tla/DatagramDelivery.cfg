SPECIFICATION FairSpec

CONSTANTS
  Clients = {c1, c2}
  Messages <- ShortList
  BufferSize = 25
  Room = 2
  Networks = {TRUE, FALSE}

INVARIANTS
  IInv
  PrintedAsSent

PROPERTIES
  EndsUnlessLost

CHECK_DEADLOCK FALSE
