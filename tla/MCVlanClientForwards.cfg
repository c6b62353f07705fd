CONSTANTS
    IPs = {a1, a2}
    NoIP = NoIP
    Proxy = TRUE
    MaxConns = 3
INIT Init
NEXT Next
INVARIANT
    ReadyForwards
CHECK_DEADLOCK FALSE
