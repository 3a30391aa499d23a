SPECIFICATION LiveSpec
CONSTANTS
    Entity = {e1, e2}
    Window = 1
    StreamLimit = 1
    MaxMessages = 2
    MaxConnections = 3
INVARIANTS
    TypeOK
    Conserved
    ForgottenIsClosed
    KeptIsOpen
PROPERTIES
    QueuedIsSent
