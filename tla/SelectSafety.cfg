SPECIFICATION Spec

CONSTANTS
  c1 = c1
  c2 = c2
  c3 = c3
  Conns = {c1, c2, c3}
  NoConn = none
  ListenSock = 1
  MaxFd = 4
  Backlog = 1
  MaxMsg = 3
  RecvCap = 2
  MaxOutput = 2
  SndCap = 1
  MinusOneBit = 63
  StackBits <- StdStack
  StackLens <- LengthUsable
  AcceptErrors = FALSE
  Popen = TRUE

SYMMETRY Symmetry

INVARIANTS
  TableMatchesKernel
  EveryClientPolled
  OpenSocketsAreOpen
  AllHandled
  BufferFromThisRound

PROPERTIES
  ClosesOnlyFinished

CHECK_DEADLOCK FALSE
