SPECIFICATION Spec
CONSTANTS
    Entity = {e1, e2}
    Handle = {h1, h2}
    None = None
    MaxInserts = 2
    AcceptMayFail = TRUE
SYMMETRY Symmetry
INVARIANTS
    TypeOK
    SlabAgreement
    OwnerReachesConnection
    IncomingIsKept
    StatusReflectsState
PROPERTIES
    LossIsFinal
