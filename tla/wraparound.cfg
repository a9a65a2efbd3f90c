SPECIFICATION Spec
CONSTANTS
    IdMod = 3
    QueueMax = 3
    Client = {"c1"}
    Slot = {"s1"}
    Server = 0
    ClientNode <- ApartNodes
    ClientPort <- Ports
    ListenPort = 10
    AcceptPorts = {21}
    RequestIds = {2}
    StaleAcks <- Fresh
    Garbage <- Fresh
    CacheMax = 1
    Calls = {}
    Reorder = FALSE
    NetCap <- OneEach
    MaxFaults = 0
    MaxOutgoing <- ClientThree
INVARIANTS ConfirmedReached
CHECK_DEADLOCK FALSE
