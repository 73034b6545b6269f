SPECIFICATION DiscoverFairSpec
CONSTANTS
    Procs <- MCProcs
    Lans <- MCLans
INVARIANTS ListRight LeftTogether
PROPERTIES AllReturn
\* Discovery ends.
CHECK_DEADLOCK FALSE
