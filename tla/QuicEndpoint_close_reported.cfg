SPECIFICATION Spec
CONSTANTS
    Entity = {e1, e2}
    Handle = {h1, h2}
    None = None
    MaxInserts = 1
    AcceptMayFail = FALSE
SYMMETRY Symmetry
INVARIANT
    CloseIsReported
