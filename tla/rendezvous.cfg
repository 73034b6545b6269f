SPECIFICATION ServeSpec
CONSTANTS
  Coord = c0
  Workers = {w1, w2}
  WorldArgs <- Worlds
  Wants <- Requests
INVARIANTS OnePeerList NoMemberRefused ReturnedMeansServed
PROPERTIES RosterStable MembersInformed EveryoneResolved RendezvousSpec
CHECK_DEADLOCK FALSE
