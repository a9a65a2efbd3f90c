SPECIFICATION Spec
CONSTANTS
    IdMod = 4
    QueueMax = 3
    Client = {"c1"}
    Slot = {"s1"}
    Server = 0
    ClientNode <- ApartNodes
    ClientPort <- Ports
    ListenPort = 10
    AcceptPorts = {21}
    RequestIds = {3}
    StaleAcks <- Dirty
    Garbage <- Stale
    CacheMax = 1
    Calls = {"destroy", "expire"}
    Reorder = TRUE
    NetCap <- TwoToServer
    MaxFaults = 1
    MaxOutgoing <- ClientTwo
INVARIANTS AtMostOnce AcceptorStreamsInOrder StreamInv ConfirmInv
PROPERTIES ImplementsAnyStream
CHECK_DEADLOCK FALSE
