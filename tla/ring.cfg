SPECIFICATION FairSpec
CONSTANTS
  N = 4
  NCalls = 2
  Length = 3
  Overlap = FALSE
INVARIANTS SingleTagSafe MailBounded
PROPERTIES ImplementsAllReduce AllReturn
CHECK_DEADLOCK FALSE
