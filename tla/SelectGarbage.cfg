SPECIFICATION Spec

CONSTANTS
  c1 = c1
  c2 = c2
  c3 = c3
  Conns = {c1, c2, c3}
  NoConn = none
  ListenSock = 1
  MaxFd = 3
  Backlog = 1
  MaxMsg = 3
  RecvCap = 2
  MaxOutput = 1
  SndCap = 1
  MinusOneBit = 3
  StackBits <- DirtyStack
  StackLens <- AnyLength
  AcceptErrors = TRUE
  Popen = FALSE

SYMMETRY Symmetry

INVARIANTS
  IInv
  OtherClientsPolled
  OnlyStdUnhandled

CHECK_DEADLOCK FALSE
