CONSTANTS
    c1 = c1
    c2 = c2
    c3 = c3
    Clients = {c1, c2, c3}
    NoClient = NoClient
    NoIP = NoIP
    StartIP <- MCStartIP
    EndIP <- MCEndIP
    Gateway <- MCGateway
    LeaseTTL = 2
    OfflineGrace = 1
SYMMETRY ClientSymmetry
SPECIFICATION Spec
INVARIANTS
    MapsAgree
    ExclusiveAddresses
    RefusedOnlyWhenFull
PROPERTIES
    GraceHonoured
    AddressPoolSpec
