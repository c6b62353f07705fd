CONSTANTS
    c1 = c1
    c2 = c2
    p1 = p1
    p2 = p2
    c3 = c3
    Clients = {c1, c2, c3}
    Conns = {p1, p2}
    NoClient = NoClient
    NoPeer = NoPeer
    NoIP = NoIP
    StartIP <- MCStartIP
    EndIP <- MCEndIP
    Gateway <- MCGateway
    LeaseTTL = 1
    OfflineGrace = 1
    MaxDiscovers = 2
SPECIFICATION MCSpec
CONSTRAINT MCConstraint
INVARIANTS
    TypeOK
    OnlineLeaseHasSession
    OfferedAddressIsLeased
    SupersededIsClosed
    RegistryAgrees
PROPERTY
    LeaseReclaimed
