CONSTANTS
    MaxRuns = 2
    MaxConns = 3
SPECIFICATION Spec
INVARIANTS
    NoTunLeaked
    NothingLeftReady
PROPERTIES
    StopEndsRun
    OfferAppliedOrRetried
CHECK_DEADLOCK FALSE
