CONSTANTS
    Egress = {e1, e2}
    NoIf = NoIf
    MaxConns = 2
    Bounds <- MCBounds
SPECIFICATION Spec
INVARIANTS
    NatStateTruthful
    StopRestores
PROPERTIES
    StopReturns
    ListenerEnds
CHECK_DEADLOCK FALSE
