SPECIFICATION FairSpec

CONSTANTS
    o1 = o1
    o2 = o2
    o3 = o3
    u = u
    v = v
    c1 = c1
    c2 = c2
    NoOrder = NoOrder
    OrderIDs = {o1, o2, o3}
    Users = {u, v}
    UserOf <- ThreeUserOf
    Quantity <- ThreeQuantity
    InitialStock = 3
    BufferSize = 1
    Contexts = {c1, c2}
    ContextOf <- ThreeContextOf
    TokenMode = "firebase"
    Faults <- AllFaults

INVARIANTS
    TypeOK
    AcceptedAccounted
    DeliveredOnce

PROPERTIES
    PublishNeverBlocks
    AcceptedSettled
    NeverGivenUpForStock
    PromiseSpec
