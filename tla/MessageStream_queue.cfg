SPECIFICATION Spec
CONSTANTS
    GroupBits = 1
    Limit = 2
    Message <- Payloads
    Window = 4
    MaxMessages = 3
INVARIANTS
    QueuedWhenAsked
CHECK_DEADLOCK FALSE
