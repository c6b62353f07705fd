CONSTANTS
    NoIP = NoIP
    StartIP <- MCStartIP
    EndIP <- MCEndIP
    Gateway <- MCGateway
SPECIFICATION ScanSpec
INVARIANTS
    ScanInv
    NeverExhaustedWhileFree
PROPERTY
    ScanEnds
CHECK_DEADLOCK FALSE
