SPECIFICATION FairSpec
CONSTANTS
  N = 3
  Modes <- AllModes
INVARIANTS ResultsRight BarrierHolds
PROPERTIES AllReturn
CHECK_DEADLOCK FALSE
