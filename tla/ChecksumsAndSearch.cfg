SPECIFICATION SearchSpec

CONSTANTS
  Half = 4
  MaxWords = 3

INVARIANTS
  IcmpIsChecksum
  UdpIsChecksumUnlessCarry
  FirstIsUdpChecksum
  SentIsValidUnlessCarry

CHECK_DEADLOCK FALSE
