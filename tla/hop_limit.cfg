SPECIFICATION Spec
CONSTANTS
    Base = 256
    HopEscape = 15
    Device <- Pair
    RetransmitBack = {}
    PackageIds = {1}
    Sends <- Far
    SeenMax = 1
    RingMax = 1
    MaxSends = 1
    MayLose = FALSE
INVARIANT HeaderIntact
CHECK_DEADLOCK FALSE
