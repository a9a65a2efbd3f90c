SPECIFICATION Spec
CONSTANTS
    IdMod = 4
    QueueMax = 3
    Client = {"c1", "c2"}
    Slot = {"s1", "s2"}
    Server = 0
    ClientNode <- OneNode
    ClientPort <- Ports
    ListenPort = 10
    AcceptPorts = {21}
    RequestIds = {2, 3}
    StaleAcks <- Fresh
    Garbage <- Fresh
    CacheMax = 2
    Calls = {}
    Reorder = FALSE
    NetCap <- OneEach
    MaxFaults = 1
    MaxOutgoing <- None
INVARIANTS ConnectedHasPeer OneSocketPerRequest ConnectionInv RequestInv
CHECK_DEADLOCK FALSE
