CONSTANTS
    c1 = c1
    c2 = c2
    c3 = c3
    p1 = p1
    p2 = p2
    p3 = p3
    Clients = {c1, c2}
    Conns = {p1, p2, p3}
    NoClient = NoClient
    NoPeer = NoPeer
    NoIP = NoIP
    StartIP <- MCStartIP
    EndIP <- MCEndIP
    Gateway <- MCGateway
    LeaseTTL = 2
    OfflineGrace = 1
    MaxDiscovers = 1
INIT Init
NEXT Next
INVARIANT
    LiveSessionHoldsLease
