SPECIFICATION Spec
CONSTANTS
    c1 = c1
    c2 = c2
    Clients <- MCClients
    MaxCalls <- MCMaxCalls
    Maxes = {0, 2}
INVARIANTS ReplyMatches NothingLost
PROPERTIES ServeStops
\* Clients may stop calling.
CHECK_DEADLOCK FALSE
