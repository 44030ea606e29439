SPECIFICATION Spec

CONSTANTS
    a1 = a1
    a2 = a2
    a = a
    b = b
    b1 = b1
    NoToken = NoToken
    OrderIDs = {a1, a2}
    Users = {a}
    UserOf <- PairUserOf
    Quantity <- PairQuantity
    InitialStock = 3
    MaxReceive = 1
    MaxBatch = 10
    MaxCopies = 1
    Workers = {w1}
    Faults <- OnlyQueueReplyLost

INVARIANTS
    RefusedNeverQueued
