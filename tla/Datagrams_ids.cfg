SPECIFICATION Spec
CONSTANTS
    Datagram = {d1, d2}
    None = None
    Closed = Closed
    Missing = Missing
    MaxDatagrams = 5
    MaxStreams = 1
    MaxInbox = 2
SYMMETRY Symmetry
INVARIANTS
    TypeOK
    NoneIsMissing
    FrontIsUnread
PROPERTIES
    ReadsOwn
