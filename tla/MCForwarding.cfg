CONSTANTS
    p1 = p1
    p2 = p2
    a1 = a1
    a2 = a2
    Conns = {p1, p2}
    Addresses = {a1, a2}
    Tun = Tun
    NoPeer = NoPeer
    Leases <- MCLeases
    QueueSize <- MCQueueSize
    MaxPackets <- MCMaxPackets
    Flows <- MCFlows
SPECIFICATION Spec
INVARIANTS
    NothingLostOrOvertaken
    DeadlockUntilReconnect
PROPERTIES
    ClosedSessionEnds
    WaitingEnds
CHECK_DEADLOCK FALSE
