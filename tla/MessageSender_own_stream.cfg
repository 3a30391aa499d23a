SPECIFICATION Spec
CONSTANTS
    Entity = {e1, e2}
    Window = 1
    StreamLimit = 2
    MaxMessages = 2
    MaxConnections = 3
INVARIANT
    OnlyOnOwnStream
