SPECIFICATION FairSpec

CONSTANTS
    a1 = a1
    a2 = a2
    a = a
    b = b
    b1 = b1
    NoToken = NoToken
    OrderIDs = {a1, a2, b1}
    Users = {a, b}
    UserOf <- ThreeUserOf
    Quantity <- ThreeQuantity
    InitialStock = 2
    MaxReceive = 2
    MaxBatch = 2
    MaxCopies = 1
    Workers = {w1, w2}
    Faults <- WorkerFaults

INVARIANTS
    AcceptedNeverLost
    WorkDoneBeforeAck
    OneRequestInFlight
    RefusedMayRetry
    AcceptedCanBeSold

PROPERTIES
    NoUnitLeaks
    AcceptedSettled
