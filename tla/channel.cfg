SPECIFICATION FairSpec
CONSTANTS
    Devices = 1
    Byte = {0, 2, 3, 4}
    Header <- Headers
    HeaderSize = 2
    Block <- BytesAndFrames
    RingMax = 6
    MaxStream = 7
INVARIANTS TypeOK FramesAreInStream NoFrameMissed ChannelInv
PROPERTY FullBufferDrains
CHECK_DEADLOCK FALSE
