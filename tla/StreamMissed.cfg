SPECIFICATION FairSpec

CONSTANTS
    s1 = s1
    s2 = s2
    s3 = s3
    s4 = s4
    s5 = s5
    buyer = buyer
    other = other
    Users = {buyer, other}
    NoUser = NoUser
    Streams = {s1, s2, s3, s4, s5}
    HeaderOf <- StreamHeaders
    Owner = buyer
    TokenMode = "firebase"
    MaxDeliveries = 1
    Faults = {}

PROPERTY
    StreamCompletes

CHECK_DEADLOCK FALSE
