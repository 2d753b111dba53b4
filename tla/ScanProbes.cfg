SPECIFICATION FairSpec

CONSTANTS
  Programs = {"scanner1", "scanner", "scannernew", "chat", "identify"}
  NumPorts = 3
  Responders <- Answering
  Locals = {1, 2}
  Networks = {TRUE, FALSE}
  Leftovers <- Greetings

INVARIANTS
  AnswersArePorts
  AllFoundAreRight
  MissedOnlyIfAllFailed
  IInv

PROPERTIES
  Ends

CHECK_DEADLOCK FALSE
