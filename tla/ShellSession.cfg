SPECIFICATION FairSpec

CONSTANTS
  MaxCommands = 4
  MaxLine = 3
  MaxOutput = 3
  ServerCap = 2
  RecvCap = 2

INVARIANTS
  IInv
  ShownIsAnswer
  RunsAsEntered

PROPERTIES
  PromptReturns

CHECK_DEADLOCK FALSE
