SPECIFICATION LiveSpec
CONSTANTS
    Entity = {e1, e2}
    Handle = {h1}
    None = None
    MaxInserts = 1
    AcceptMayFail = FALSE
PROPERTIES
    CloseReleasesHandle
    ConnectingResolves
