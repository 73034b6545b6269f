SPECIFICATION CallsSpec
CONSTANTS
  N = 3
  Schedules <- MCSchedules
  Counts <- MCCounts
  Capacities = {0, 1, 9}
INVARIANTS StreamsNeverCross NoLeftovers ResultsRight
PROPERTIES AllReturn
CHECK_DEADLOCK FALSE
