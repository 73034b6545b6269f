SPECIFICATION EdgeSpec
CONSTANTS
    Threads = {t1, t2}
    MaxFrames = 2
    MaxEdges = 3
    MaxDeaths = 1
INVARIANTS OnceInOrder
PROPERTIES RecvEnds
\* The sender may fall silent.
CHECK_DEADLOCK FALSE
