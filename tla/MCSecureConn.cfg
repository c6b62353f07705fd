CONSTANTS
    ReplaySize = 2
    Links <- MCLinks
SPECIFICATION Spec
INVARIANTS
    NonceOnce
    RotationTransparent
    DeliveredInOrder
    NoPayloadTwice
PROPERTY
    Delivered
