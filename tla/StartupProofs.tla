----------------------------- MODULE StartupProofs -----------------------------
(***************************************************************************)
(* What holds of a start whatever the environment, one variable or all of  *)
(* them astray: TLC starts what is near the repository's deployments.      *)
(***************************************************************************)
EXTENDS Startup, TLAPS

(* NewClient accepts the Redis settings.                                    *)
CanOpenRedis ==
    IF Given(cfg.RedisURL) THEN cfg.RedisURL # "malformed" ELSE Given(cfg.RedisAddr)

PastQueue == {"storage", "auth", "consumer", "listen", "serving"}
PastRedis == {"index", "queue"} \cup PastQueue

(* A process past a step has passed it.                                     *)
Passed ==
    /\ \A p \in Processes : phase[p] # "config" /\ failed[p] # "config" => Validate(cfg)
    /\ phase["worker"] # "config" /\ failed["worker"] # "config" => cfg.QueueDriver = "sqs"
    /\ phase["api"] \in PastRedis => CanOpenRedis

(* A worker's setting ends it only if it was at fault.                      *)
WorkerEnded ==
    /\ failed["worker"] = "config" => ~(Validate(cfg) /\ cfg.QueueDriver = "sqs")
    /\ failed["worker"] = "redis" => ~CanOpenRedis

(* The API has what its settings name.                                      *)
Chosen ==
    /\ queue \in {"memory", "sqs"} => cfg.QueueDriver = queue
    /\ phase["api"] \in PastQueue /\ queue = "nil" => cfg.QueueDriver \notin {"memory", "sqs"}
    /\ storage = "s3" => cfg.StorageDriver = "s3"
    /\ auth = "development" => cfg.FirebaseDevMode
    /\ phase["api"] \in {"listen", "serving"} => consumer = (cfg.QueueDriver = "memory")

StartInv ==
    TypeOK /\ Passed /\ WorkerEnded /\ Chosen /\ ValidatedDriversStart /\ OrdersReachAQueue

-----------------------------------------------------------------------------
(* The settings the properties speak of, as LoadConfig reads them.          *)
LEMMA Settings ==
    /\ cfg.Env                = getEnv(environment.ENV, "development")
    /\ cfg.QueueDriver        = Trimmed(getEnv(environment.QUEUE_DRIVER, "sqs"))
    /\ cfg.StorageDriver      = Trimmed(getEnv(environment.STORAGE_DRIVER, "s3"))
    /\ cfg.AWSAccessKeyID     = OrLocalStack(cfg.Env, environment.AWS_ACCESS_KEY_ID)
    /\ cfg.AWSSecretAccessKey = OrLocalStack(cfg.Env, environment.AWS_SECRET_ACCESS_KEY)
    /\ cfg.AWSS3Bucket        = OrLocalStack(cfg.Env, environment.AWS_S3_BUCKET)
    /\ cfg.AWSSQSQueueURL     = OrLocalStack(cfg.Env, environment.AWS_SQS_QUEUE_URL)
BY DEF cfg, LoadConfig

(* Past Validate both drivers can be built: in production it has seen both  *)
(* keys, elsewhere LoadConfig has put LocalStack's in their place.          *)
LEMMA ValidatedCanLoadAWSConfig ==
    ASSUME Validate(cfg), cfg.QueueDriver = "sqs" \/ cfg.StorageDriver = "s3"
    PROVE  CanLoadAWSConfig
<1>1. CASE cfg.Env = "production"
  BY <1>1 DEF Validate, FitForProduction, queueDriver, storageDriver, getEnv, Given, CanLoadAWSConfig
<1>2. CASE cfg.Env # "production"
  BY <1>2, Settings DEF OrLocalStack, getEnv, CanLoadAWSConfig
<1> QED
  BY <1>1, <1>2

(* A driver that Validate knows and main does not is one of white space.    *)
LEMMA UnknownDriverIsBlank ==
    ASSUME Validate(cfg), cfg.QueueDriver \notin {"sqs", "memory"}
    PROVE  environment.QUEUE_DRIVER = "blank"
<1>1. cfg.QueueDriver = "empty"
  BY DEF Validate, DriversKnown, queueDriver, getEnv
<1> QED
  BY <1>1, Settings DEF Trimmed, getEnv

-----------------------------------------------------------------------------
(* Nothing has been passed or chosen at first.                              *)
LEMMA StartInitInv == Init => StartInv
<1> SUFFICES ASSUME Init PROVE StartInv
  OBVIOUS
<1>1. TypeOK
  BY DeploymentsAssumption DEF Init, TypeOK, Processes, Steps
<1>2. phase["worker"] = "config" /\ phase["api"] = "config"
      /\ failed["worker"] = "none" /\ failed["api"] = "none"
  BY DEF Init, Processes
<1> QED
  BY <1>1, <1>2
  DEF Init, StartInv, Passed, WorkerEnded, Chosen, ValidatedDriversStart, OrdersReachAQueue,
      PastRedis, PastQueue, Processes

(* A step of a process is its own: it goes on, or ends where it is.         *)
LEMMA ProceedsAlone ==
    ASSUME TypeOK, NEW p \in Processes, phase[p] \in Steps, NEW next \in Steps \cup {"serving"},
           Proceed(p, next) \/ (Fatal(p) /\ phase[p] # "consumer")
    PROVE  /\ \/ phase'[p] = next /\ failed'[p] = "none"
              \/ phase'[p] = "ended" /\ failed'[p] = phase[p]
           /\ \A q \in Processes \ {p} : phase'[q] = phase[q] /\ failed'[q] = failed[q]
           /\ phase' \in [Processes -> Steps \cup {"serving", "ended"}]
           /\ failed' \in [Processes -> (Steps \ {"consumer"}) \cup {"none"}]
           /\ \A q \in Processes : phase'[q] = "ended" <=> failed'[q] # "none"
BY DEF Proceed, Fatal, TypeOK, Steps

(* The settings do not change.                                              *)
LEMMA SameSettings ==
    ASSUME UNCHANGED environment
    PROVE  cfg' = cfg /\ CanOpenRedis' = CanOpenRedis /\ Validate(cfg)' = Validate(cfg)
BY DEF cfg, CanOpenRedis, Validate, RequiredGiven, DriversKnown, FitForProduction, Given,
       queueDriver, storageDriver, getEnv

(* A step that both mains have keeps the invariant.                         *)
LEMMA CommonStepInv ==
    ASSUME StartInv, NEW p \in Processes,
           CheckConfig(p) \/ ConnectMongo(p) \/ OpenRedis(p) \/ CreateIndex(p)
    PROVE  StartInv'
<1>1. /\ UNCHANGED <<environment, mongo, queue, storage, auth, consumer, placed>>
      /\ phase[p] \in {"config", "mongo", "redis", "index"}
      /\ \/ /\ phase[p] = "config"
            /\ \/ Proceed(p, "mongo") /\ Validate(cfg) /\ (p = "worker" => cfg.QueueDriver = "sqs")
               \/ Fatal(p) /\ ~(Validate(cfg) /\ (p = "worker" => cfg.QueueDriver = "sqs"))
         \/ phase[p] = "mongo" /\ (Proceed(p, "redis") \/ Fatal(p))
         \/ /\ phase[p] = "redis"
            /\ (Proceed(p, "index") /\ CanOpenRedis) \/ (Fatal(p) /\ ~CanOpenRedis)
         \/ phase[p] = "index" /\ (Proceed(p, "queue") \/ Fatal(p))
  BY DEF CheckConfig, ConnectMongo, OpenRedis, CreateIndex, ProceedIf, CanOpenRedis, apiVars
<1>2. /\ \/ phase[p] = "config" /\ phase'[p] = "mongo" /\ failed'[p] = "none"
         \/ phase[p] = "mongo" /\ phase'[p] = "redis" /\ failed'[p] = "none"
         \/ phase[p] = "redis" /\ phase'[p] = "index" /\ failed'[p] = "none" /\ CanOpenRedis
         \/ phase[p] = "index" /\ phase'[p] = "queue" /\ failed'[p] = "none"
         \/ phase'[p] = "ended" /\ failed'[p] = phase[p]
      /\ \A q \in Processes \ {p} : phase'[q] = phase[q] /\ failed'[q] = failed[q]
      /\ phase' \in [Processes -> Steps \cup {"serving", "ended"}]
      /\ failed' \in [Processes -> (Steps \ {"consumer"}) \cup {"none"}]
      /\ \A q \in Processes : phase'[q] = "ended" <=> failed'[q] # "none"
  BY <1>1, ProceedsAlone DEF StartInv, Steps
<1>3. /\ phase[p] = "config" /\ failed'[p] # "config" =>
            Validate(cfg) /\ (p = "worker" => cfg.QueueDriver = "sqs")
      /\ failed'[p] = "config" => ~(Validate(cfg) /\ (p = "worker" => cfg.QueueDriver = "sqs"))
      /\ failed'[p] = "redis" => ~CanOpenRedis
      /\ failed'[p] \in {"none", "config", "mongo", "redis", "index"}
      /\ failed[p] = "none"
  BY <1>1, <1>2 DEF Proceed, Fatal, StartInv, TypeOK, Steps
<1>4. cfg' = cfg /\ CanOpenRedis' = CanOpenRedis /\ Validate(cfg)' = Validate(cfg)
  BY <1>1, SameSettings
<1>5. p = "api" \/ p = "worker"
  BY DEF Processes
<1>6. TypeOK'
  BY <1>1, <1>2 DEF StartInv, TypeOK
<1>7. Passed'
  BY <1>2, <1>3, <1>4, <1>5 DEF StartInv, Passed, PastRedis, PastQueue, Processes
<1>8. WorkerEnded'
  BY <1>2, <1>3, <1>4, <1>5 DEF StartInv, WorkerEnded, Processes
<1>9. Chosen'
  BY <1>1, <1>2, <1>4, <1>5 DEF StartInv, Chosen, PastQueue, Processes
<1>10. ValidatedDriversStart' /\ OrdersReachAQueue'
  BY <1>1, <1>2, <1>3 DEF StartInv, ValidatedDriversStart, OrdersReachAQueue
<1> QED
  BY <1>6, <1>7, <1>8, <1>9, <1>10 DEF StartInv

(* The worker opens its queue, whatever the keys.                           *)
LEMMA WorkerStepInv == ASSUME StartInv, OpenWorkerQueue PROVE StartInv'
<1>1. /\ UNCHANGED <<environment, mongo, queue, storage, auth, consumer, placed>>
      /\ phase["worker"] = "queue"
      /\ "worker" \in Processes /\ "api" \in Processes \ {"worker"}
  BY DEF OpenWorkerQueue, apiVars, Processes
<1>2. failed["worker"] = "none" /\ CanLoadAWSConfig
  BY <1>1, ValidatedCanLoadAWSConfig DEF StartInv, TypeOK, Passed
<1>3. Proceed("worker", "serving")
  BY <1>2 DEF OpenWorkerQueue, ProceedIf
<1>4. /\ phase'["worker"] = "serving" /\ failed'["worker"] = "none"
      /\ phase'["api"] = phase["api"] /\ failed'["api"] = failed["api"]
      /\ phase' \in [Processes -> Steps \cup {"serving", "ended"}]
      /\ failed' \in [Processes -> (Steps \ {"consumer"}) \cup {"none"}]
      /\ \A q \in Processes : phase'[q] = "ended" <=> failed'[q] # "none"
  BY <1>1, <1>2, <1>3 DEF Proceed, StartInv, TypeOK, Steps
<1>5. cfg' = cfg /\ CanOpenRedis' = CanOpenRedis /\ Validate(cfg)' = Validate(cfg)
  BY <1>1, SameSettings
<1>6. TypeOK'
  BY <1>1, <1>4 DEF StartInv, TypeOK
<1>7. Passed' /\ WorkerEnded' /\ Chosen'
  BY <1>1, <1>2, <1>4, <1>5 DEF StartInv, Passed, WorkerEnded, Chosen, Processes
<1>8. ValidatedDriversStart' /\ OrdersReachAQueue'
  BY <1>1, <1>4 DEF StartInv, ValidatedDriversStart, OrdersReachAQueue, Processes
<1> QED
  BY <1>6, <1>7, <1>8 DEF StartInv

(* The rest of the API's main: each driver can be built, and is the one its *)
(* setting names.                                                           *)
LEMMA ApiStepInv == ASSUME StartInv, ApiStep PROVE StartInv'
<1>1. /\ UNCHANGED <<environment, mongo, placed>>
      /\ phase["api"] \in {"queue", "storage", "auth", "consumer", "listen"}
      /\ "api" \in Processes /\ "worker" \in Processes \ {"api"}
  BY DEF ApiStep, SelectQueue, SelectStorage, NewAuthClient, StartConsumer, Listen, apiVars, Processes
<1>2. /\ failed["api"] = "none" /\ Validate(cfg)
      /\ cfg.QueueDriver = "sqs" \/ cfg.StorageDriver = "s3" => CanLoadAWSConfig
  BY <1>1, ValidatedCanLoadAWSConfig DEF StartInv, TypeOK, Passed
<1>3. cfg' = cfg /\ CanOpenRedis' = CanOpenRedis /\ Validate(cfg)' = Validate(cfg)
  BY <1>1, SameSettings
<1>4. \/ phase["api"] = "queue" /\ Proceed("api", "storage")
      \/ phase["api"] = "storage" /\ Proceed("api", "auth")
      \/ phase["api"] = "auth" /\ (Proceed("api", "consumer") \/ Fatal("api"))
      \/ phase["api"] = "consumer" /\ Proceed("api", "listen")
      \/ phase["api"] = "listen" /\ (Proceed("api", "serving") \/ Fatal("api"))
  BY <1>2 DEF ApiStep, SelectQueue, SelectStorage, NewAuthClient, StartConsumer, Listen, ProceedIf
<1>5. /\ \/ phase["api"] = "queue" /\ phase'["api"] = "storage" /\ failed'["api"] = "none"
         \/ phase["api"] = "storage" /\ phase'["api"] = "auth" /\ failed'["api"] = "none"
         \/ phase["api"] = "auth" /\ phase'["api"] = "consumer" /\ failed'["api"] = "none"
         \/ phase["api"] = "consumer" /\ phase'["api"] = "listen" /\ failed'["api"] = "none"
         \/ phase["api"] = "listen" /\ phase'["api"] = "serving" /\ failed'["api"] = "none"
         \/ phase'["api"] = "ended" /\ failed'["api"] \in {"auth", "listen"}
      /\ phase'["worker"] = phase["worker"] /\ failed'["worker"] = failed["worker"]
      /\ phase' \in [Processes -> Steps \cup {"serving", "ended"}]
      /\ failed' \in [Processes -> (Steps \ {"consumer"}) \cup {"none"}]
      /\ \A q \in Processes : phase'[q] = "ended" <=> failed'[q] # "none"
  <2>1. TypeOK /\ phase["api"] \in Steps
    BY <1>1 DEF StartInv, Steps
  <2>2. PICK next \in Steps \cup {"serving"} :
           Proceed("api", next) \/ (Fatal("api") /\ phase["api"] # "consumer")
    BY <1>4 DEF Steps
  <2>3. /\ Proceed("api", "storage") => phase'["api"] = "storage" /\ failed'["api"] = "none"
        /\ Proceed("api", "auth") => phase'["api"] = "auth" /\ failed'["api"] = "none"
        /\ Proceed("api", "consumer") => phase'["api"] = "consumer" /\ failed'["api"] = "none"
        /\ Proceed("api", "listen") => phase'["api"] = "listen" /\ failed'["api"] = "none"
        /\ Proceed("api", "serving") => phase'["api"] = "serving" /\ failed'["api"] = "none"
        /\ Fatal("api") => phase'["api"] = "ended" /\ failed'["api"] = phase["api"]
    BY <1>1, <1>2, <2>1 DEF Proceed, Fatal, TypeOK
  <2>4. /\ phase'["worker"] = phase["worker"] /\ failed'["worker"] = failed["worker"]
        /\ phase' \in [Processes -> Steps \cup {"serving", "ended"}]
        /\ failed' \in [Processes -> (Steps \ {"consumer"}) \cup {"none"}]
        /\ \A q \in Processes : phase'[q] = "ended" <=> failed'[q] # "none"
    BY <1>1, <2>1, <2>2, ProceedsAlone
  <2> QED
    BY <1>4, <2>3, <2>4
<1>6. /\ queue' \in {"nil", "memory", "sqs"} /\ storage' \in {"nil", "disabled", "s3"}
      /\ auth' \in {"none", "development", "firebase"} /\ consumer' \in BOOLEAN
  <2>1. (cfg.QueueDriver = "memory") \in BOOLEAN
    BY Zenon
  <2> QED
    BY <2>1 DEF ApiStep, SelectQueue, SelectStorage, NewAuthClient, StartConsumer, Listen, apiVars,
                StartInv, TypeOK
<1>7. TypeOK'
  BY <1>1, <1>5, <1>6 DEF StartInv, TypeOK
<1>8. Passed' /\ WorkerEnded'
  BY <1>1, <1>2, <1>3, <1>5 DEF StartInv, Passed, WorkerEnded, PastRedis, PastQueue, Processes
<1>9. Chosen'
  <2>1. CASE SelectQueue
    <3>1. /\ queue' \in {"memory", "sqs"} => cfg.QueueDriver = queue'
          /\ queue' = "nil" => cfg.QueueDriver \notin {"memory", "sqs"}
      BY <1>2, <2>1 DEF SelectQueue, StartInv, Chosen
    <3> QED
      BY <1>3, <1>5, <2>1, <3>1 DEF SelectQueue, StartInv, Chosen, PastQueue
  <2>2. CASE SelectStorage
    <3>1. storage' = "s3" => cfg.StorageDriver = "s3"
      BY <2>2 DEF SelectStorage, StartInv, Chosen
    <3> QED
      BY <1>3, <1>5, <2>2, <3>1 DEF SelectStorage, StartInv, Chosen, PastQueue
  <2>3. CASE NewAuthClient
    BY <1>3, <1>5, <2>3 DEF NewAuthClient, StartInv, Chosen, PastQueue
  <2>4. CASE StartConsumer
    BY <1>3, <1>5, <2>4 DEF StartConsumer, StartInv, Chosen, PastQueue
  <2>5. CASE Listen
    BY <1>3, <1>5, <2>5 DEF Listen, apiVars, StartInv, Chosen, PastQueue
  <2> QED
    BY <2>1, <2>2, <2>3, <2>4, <2>5 DEF ApiStep
<1>10. ValidatedDriversStart' /\ OrdersReachAQueue'
  BY <1>1, <1>5 DEF StartInv, ValidatedDriversStart, OrdersReachAQueue, Processes
<1> QED
  BY <1>7, <1>8, <1>9, <1>10 DEF StartInv

(* Every step keeps the invariant.                                          *)
LEMMA StartStepInv == StartInv /\ [Next]_vars => StartInv'
<1> SUFFICES ASSUME StartInv, [Next]_vars
             PROVE  StartInv'
  OBVIOUS
<1>1. ASSUME NEW p \in Processes, ProcessStep(p)
      PROVE  StartInv'
  BY <1>1, CommonStepInv, ApiStepInv, WorkerStepInv DEF ProcessStep
<1>2. CASE PlaceOrder
  <2>1. UNCHANGED <<environment, mongo, phase, failed, queue, storage, auth, consumer>>
    BY <1>2 DEF PlaceOrder
  <2>2. cfg' = cfg /\ CanOpenRedis' = CanOpenRedis /\ Validate(cfg)' = Validate(cfg)
    BY <2>1, SameSettings
  <2>3. placed' \in {"queued", "panicked"} /\ (placed' = "panicked" => queue = "nil")
        /\ phase["api"] = "serving"
    BY <1>2 DEF PlaceOrder
  <2>4. failed["api"] = "none" /\ Validate(cfg)
    BY <2>3 DEF StartInv, TypeOK, Passed, Processes
  <2>5. OrdersReachAQueue'
    BY <2>1, <2>3, <2>4, UnknownDriverIsBlank DEF StartInv, Chosen, PastQueue, OrdersReachAQueue
  <2> QED
    BY <2>1, <2>2, <2>3, <2>5
    DEF StartInv, TypeOK, Passed, WorkerEnded, Chosen, ValidatedDriversStart
<1>3. CASE MongoChanges \/ UNCHANGED vars
  <2>1. UNCHANGED <<environment, phase, failed, queue, storage, auth, consumer, placed>>
    BY <1>3 DEF MongoChanges, vars, apiVars
  <2>2. mongo' \in BOOLEAN
    BY <1>3, Zenon DEF MongoChanges, vars, StartInv, TypeOK
  <2>3. cfg' = cfg /\ CanOpenRedis' = CanOpenRedis /\ Validate(cfg)' = Validate(cfg)
    BY <2>1, SameSettings
  <2> QED
    BY <2>1, <2>2, <2>3
    DEF StartInv, TypeOK, Passed, WorkerEnded, Chosen, ValidatedDriversStart, OrdersReachAQueue
<1> QED
  BY <1>1, <1>2, <1>3 DEF Next

(* The invariant holds in every behaviour.                                  *)
LEMMA StartInvariant == Spec => []StartInv
BY StartInitInv, StartStepInv, PTL DEF Spec

-----------------------------------------------------------------------------
(* The variables keep their types: a process has ended exactly if a step of *)
(* it has failed.                                                           *)
THEOREM StartupTypeCorrect == Spec => []TypeOK
<1>1. StartInv => TypeOK
  BY DEF StartInv
<1> QED
  BY <1>1, StartInvariant, PTL

(* A production API has passed the production checks, and holds a client    *)
(* that asks Firebase.                                                      *)
LEMMA ProductionAsksFirebase ==
    ASSUME StartInv, cfg.Env = "production", Serving("api")
    PROVE  Validate(cfg) /\ FitForProduction(cfg) /\ auth # "development"
<1>1. Validate(cfg)
  BY DEF StartInv, TypeOK, Passed, Processes, Serving
<1>2. FitForProduction(cfg)
  BY <1>1 DEF Validate
<1> QED
  BY <1>1, <1>2 DEF StartInv, Chosen, FitForProduction

(* Its middleware lets only signed tokens through, and only staff to the    *)
(* administrators' routes.                                                  *)
LEMMA ProductionAdmitsSigned ==
    ASSUME StartInv, cfg.Env = "production", Serving("api")
    PROVE  AdmitsSignedOnly
<1> SUFFICES ASSUME NEW header \in Headers, NEW route \in LoginRoutes \cup StaffRoutes,
                    Admits(auth, route, header)
             PROVE  /\ header.form = "bearer" /\ header.token.signed /\ header.token.uid # NoUser
                    /\ route \in StaffRoutes => header.token.role \in Staff
  BY DEF AdmitsSignedOnly
<1> DEFINE claims == Authenticate(auth, header)
<1>1. route \notin PublicRoutes
  BY DEF PublicRoutes, LoginRoutes, StaffRoutes
<1>2. claims # Rejected /\ (route \in StaffRoutes => claims.role \in Staff)
  BY <1>1 DEF Admits, RequireRole
<1>3. header.form = "bearer" /\ claims = FirebaseClaims(header.token)
  BY <1>2, ProductionAsksFirebase DEF Authenticate, VerifyIDToken
<1>4. header.token.signed /\ header.token.uid # NoUser
  BY <1>2, <1>3 DEF FirebaseClaims
<1>5. claims.role \in Staff => header.token.role \in Staff
  BY <1>3, <1>4 DEF FirebaseClaims, Staff
<1> QED
  BY <1>2, <1>3, <1>4, <1>5

(* A production API that serves is a safe one, whatever the environment.    *)
THEOREM StartupProductionIsSound == Spec => []ProductionIsSound
<1>1. StartInv => ProductionIsSound
  <2> SUFFICES ASSUME StartInv, cfg.Env = "production", Serving("api")
               PROVE  /\ AdmitsSignedOnly
                      /\ cfg.AllowedOrigins # "*"
                      /\ queue = "sqs" \/ storage = "s3" =>
                            cfg.AWSAccessKeyID = "given" /\ cfg.AWSSecretAccessKey = "given"
                      /\ queue = "sqs" => cfg.AWSSQSQueueURL = "given"
                      /\ storage = "s3" => cfg.AWSS3Bucket = "given"
    BY DEF ProductionIsSound
  <2>1. Validate(cfg) /\ FitForProduction(cfg)
    BY ProductionAsksFirebase
  <2>2. AdmitsSignedOnly
    BY ProductionAdmitsSigned
  <2>3. /\ queue = "sqs" => queueDriver(cfg) = "sqs"
        /\ storage = "s3" => storageDriver(cfg) = "s3"
    BY DEF StartInv, Chosen, queueDriver, storageDriver, getEnv
  <2>4. /\ cfg.AWSAccessKeyID \in Plain /\ cfg.AWSSecretAccessKey \in Plain
        /\ cfg.AWSS3Bucket \in Plain /\ cfg.AWSSQSQueueURL \in Plain
    BY Settings DEF OrLocalStack, StartInv, TypeOK, Environments
  <2>5. \A value \in Plain : Given(value) => value = "given"
    BY DEF Given, Plain
  <2> QED
    BY <2>1, <2>2, <2>3, <2>4, <2>5 DEF Validate, FitForProduction, DriversKnown
<1> QED
  BY <1>1, StartInvariant, PTL

(* A queue that takes orders has somebody to take them from it.             *)
THEOREM StartupQueueHasConsumer == Spec => []QueueHasConsumer
<1>1. StartInv => QueueHasConsumer
  <2> SUFFICES ASSUME StartInv, Serving("api")
               PROVE  /\ queue = "memory" => consumer
                      /\ queue = "sqs" => failed["worker"] \notin {"config", "queue", "redis"}
    BY DEF QueueHasConsumer
  <2>1. Validate(cfg) /\ CanOpenRedis
    BY DEF StartInv, TypeOK, Passed, PastRedis, PastQueue, Processes, Serving
  <2>2. queue = "memory" => consumer
    BY DEF StartInv, Chosen, Serving
  <2>3. queue = "sqs" => failed["worker"] \notin {"config", "queue", "redis"}
    BY <2>1 DEF StartInv, Chosen, WorkerEnded, ValidatedDriversStart, Processes
  <2> QED
    BY <2>2, <2>3
<1> QED
  BY <1>1, StartInvariant, PTL

(* No setting that Validate accepts keeps a driver from being built: it has *)
(* looked at whatever loadAWSConfig will want.                              *)
THEOREM StartupValidatedDrivers == Spec => []ValidatedDriversStart
<1>1. StartInv => ValidatedDriversStart
  BY DEF StartInv
<1> QED
  BY <1>1, StartInvariant, PTL

(* An order meets a nil queue only under a QUEUE_DRIVER of white space.     *)
THEOREM StartupOrdersReachAQueue == Spec => []OrdersReachAQueue
<1>1. StartInv => OrdersReachAQueue
  BY DEF StartInv
<1> QED
  BY <1>1, StartInvariant, PTL
=============================================================================
