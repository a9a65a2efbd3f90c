SPECIFICATION FairSpec
CONSTANTS
    Base = 8
    HopEscape = 3
    Device <- Triangle
    RetransmitBack = {}
    PackageIds = {1, 2}
    Sends <- Traffic
    SeenMax = 1
    RingMax = 2
    MaxSends = 2
    MayLose = TRUE
INVARIANTS TypeOK DeliveredOnce NetworkInv FloodInv FloodingReaches
PROPERTIES ImplementsDelivery FloodingEnds
CHECK_DEADLOCK FALSE
