SPECIFICATION Spec
CONSTANTS
    Byte = {0, 1}
    Capacity = 4
    Block <- Blocks
    Request <- Requests
INVARIANTS TypeOK
PROPERTIES ImplementsByteQueue
