CONSTANTS
    MaxRuns = 2
    MaxConns = 3
INIT Init
NEXT Next
INVARIANT
    SessionStaysReady
CHECK_DEADLOCK FALSE
