SPECIFICATION Spec
CONSTANTS
    Devices = 2
    Byte = {0, 2, 3, 4}
    Header <- Headers
    HeaderSize = 2
    Block <- BytesAndFrames
    RingMax = 6
    MaxStream = 5
INVARIANT NoFrameMissed
CHECK_DEADLOCK FALSE
