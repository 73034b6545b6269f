SPECIFICATION FairSpec
CONSTANTS
  N = 3
  Programs <- AllPrograms
  Capacity = 2
  SendUnits = 3
  RespUnits <- Responses
INVARIANTS FramesWhole
PROPERTIES Completes
CHECK_DEADLOCK FALSE
