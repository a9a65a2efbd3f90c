SPECIFICATION FairSpec
CONSTANTS
    IdMod = 8
    QueueMax = 3
    Client = {"c1"}
    Slot = {"s1"}
    Server = 0
    ClientNode <- ApartNodes
    ClientPort <- Ports
    ListenPort = 10
    AcceptPorts = {21}
    RequestIds = {7}
    StaleAcks <- Fresh
    Garbage <- Fresh
    CacheMax = 1
    Calls = {}
    Reorder = FALSE
    NetCap <- OneEach
    MaxFaults = 1
    MaxOutgoing <- TwoThree
PROPERTIES EveryRequestConnects EverySendReached EveryTaskConfirmed
CHECK_DEADLOCK FALSE
