SPECIFICATION FairSpec
CONSTANTS
  N = 4
  Rounds = 2
  Odd = {2}
  MaxDead = 1
INVARIANTS ResultsInOrder LateOnlyAfterMiss VectorsOnce
PROPERTIES AllFinish
CHECK_DEADLOCK FALSE
