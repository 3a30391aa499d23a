SPECIFICATION Spec
CONSTANTS
    GroupBits = 2
    Limit = 2
    Value <- Small
    MaxSent = 2
INVARIANTS
    RoundTrip
    Synchronous
CHECK_DEADLOCK FALSE
