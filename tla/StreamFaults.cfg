SPECIFICATION FairSpec

CONSTANTS
    s1 = s1
    s2 = s2
    s3 = s3
    s4 = s4
    s5 = s5
    buyer = buyer
    other = other
    Users = {buyer, other}
    NoUser = NoUser
    Streams = {s1, s2, s3, s4, s5}
    HeaderOf <- StreamHeaders
    Owner = buyer
    TokenMode = "firebase"
    MaxDeliveries = 2
    Faults = {"disconnect", "event_lost"}

INVARIANTS
    TypeOK
    ToldOnlyToEntitled
    OnlyDuplicatesLeftOver

PROPERTIES
    SubscriptionReleased
    ForwarderEnds
    SubscribedIsTold

CHECK_DEADLOCK FALSE
