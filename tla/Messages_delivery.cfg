SPECIFICATION LiveSpec
CONSTANTS
    A = A
    B = B
    P = P
    O = O
    None = None
    Type <- TypeSet
    Proto <- ProtoSet
    Programs <- AllPrograms
    Used = P
    Entity = {c1, c2}
    Handle = {1, 2}
    MaxMessages = 2
    MaxInserts = 2
INVARIANTS
    TypeOK
    LookupIsInverse
    SameCallsSameIds
    Accounted
    TypedInOrder
    ReceiversHaveIds
PROPERTIES
    IdsAreStable
    Received
CHECK_DEADLOCK FALSE
