SPECIFICATION Spec
CONSTANTS
    IdMod = 8
    QueueMax = 1
    Client = {"c1"}
    Slot = {"s1"}
    Server = 0
    ClientNode <- ApartNodes
    ClientPort <- Ports
    ListenPort = 10
    AcceptPorts = {21}
    RequestIds = {7}
    StaleAcks <- Fresh
    Garbage <- Fresh
    CacheMax = 1
    Calls = {"get_received"}
    Reorder = FALSE
    NetCap <- TwoToServer
    MaxFaults = 1
    MaxOutgoing <- TwoThree
INVARIANTS TypeOK MissedIsLost ClientUnconfirmedIsPending UnconfirmedInv OrderInv
PROPERTIES ImplementsFifoStream
CHECK_DEADLOCK FALSE
