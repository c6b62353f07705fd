CONSTANTS
    IPs = {a1, a2}
    NoIP = NoIP
    Proxy = TRUE
    MaxConns = 3
SPECIFICATION Spec
INVARIANTS
    ProxyStateTruthful
    StopCleansUp
    ReadyIsConfigured
PROPERTIES
    PacketsMatchAddress
    StopReturns
    OfferAppliedOrRetried
CHECK_DEADLOCK FALSE
