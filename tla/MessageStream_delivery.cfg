SPECIFICATION LiveSpec
CONSTANTS
    GroupBits = 1
    Limit = 2
    Message <- Payloads
    Window = 4
    MaxMessages = 3
INVARIANTS
    TypeOK
    InOrder
    NoneLostAtClose
PROPERTIES
    IsChannel
    Delivered
CHECK_DEADLOCK FALSE
