SPECIFICATION Spec

CONSTANTS
    o1 = o1
    o2 = o2
    o3 = o3
    u = u
    NoOrder = NoOrder
    NoSession = NoSession
    OrderIDs = {o1, o2, o3}
    Users = {u}
    UserOf <- ThreeUserOf
    Quantity <- ThreeQuantity
    InitialStock = 4
    Sessions = {s1, s2}

INVARIANTS
    TypeOK
    CreatedOnce
    DuplicateMeansDone
    WriterIsCurrent

PROPERTIES
    LedgerSpec
