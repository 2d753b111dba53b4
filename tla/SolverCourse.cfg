SPECIFICATION FairSpec

CONSTANTS
  Programs = {"puzzlesolver", "puzzlesolver1", "chat"}
  Challenges = {1, 2}
  PortLike = {2}
  Instructions = {1, 2}
  ZeroBytes = {2}
  Quoted = {1}
  NumLocals = 3
  Networks = {TRUE, FALSE}

INVARIANTS
  KnocksWithTold
  PacketFitsInstruction
  SignatureIsDrawn

PROPERTIES
  PlaysExchange
  Returns

CHECK_DEADLOCK FALSE
