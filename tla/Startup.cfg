SPECIFICATION FairSpec

CONSTANTS
    Users = {u}
    NoUser = NoUser
    Deployments <- RepositoryDeployments

INVARIANTS
    TypeOK
    ProductionIsSound
    QueueHasConsumer
    ValidatedDriversStart
    OrdersReachAQueue

PROPERTIES
    StartupSettles
