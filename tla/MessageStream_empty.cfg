SPECIFICATION Spec
CONSTANTS
    GroupBits = 1
    Limit = 2
    Message <- WithEmpty
    Window = 4
    MaxMessages = 2
INVARIANTS
    WholeMessageIsPushed
CHECK_DEADLOCK FALSE
