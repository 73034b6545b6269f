SPECIFICATION FairSpec
CONSTANTS
  N = 2
  Programs <- PipelineOnly
  Capacity = 1
  SendUnits = 2
  RespUnits <- OneUnit
PROPERTIES Completes
CHECK_DEADLOCK FALSE
