SPECIFICATION FairSpec

CONSTANTS
  c1 = c1
  c2 = c2
  Conns = {c1, c2}
  NoConn = none
  ListenSock = 1
  MaxFd = 4
  Backlog = 1
  MaxMsg = 3
  RecvCap = 2
  MaxOutput = 3
  SndCap = 1
  MinusOneBit = 63
  StackBits <- CleanStack
  StackLens <- LengthUsable
  AcceptErrors = FALSE
  Popen = TRUE

PROPERTIES
  ServiceSpec
  RequestServed

CHECK_DEADLOCK FALSE
