--------------------------------- MODULE Startup ---------------------------------
(***************************************************************************)
(* How the two processes of a deployment start: cmd/api/main.go and        *)
(* cmd/worker/main.go, from LoadConfig to the API listening and the worker *)
(* polling, each for itself, with the environment they share (the appEnv   *)
(* of render.yaml).  An error ends the process with log.Fatalf.            *)
(*                                                                         *)
(* failed[p] names the step that ended process p:                          *)
(*   config   Validate, or the worker's check of QUEUE_DRIVER              *)
(*   mongo    NewMongoClient     redis     NewClient                       *)
(*   index    NewOrderRepository queue     NewSQSRepository                *)
(*   storage  NewS3Repository    auth      NewAuthClient                   *)
(*   listen   app.Listen                                                   *)
(***************************************************************************)
EXTENDS Config, AccessControl

CONSTANT Deployments       \* the environments to start in

ASSUME DeploymentsAssumption == Deployments \subseteq Environments

Processes == {"api", "worker"}

VARIABLES
    environment, \* what both processes read
    mongo,       \* whether MongoDB can be reached
    phase,       \* the next step of each process
    failed,      \* the step that ended it, or none
    queue,       \* the API's queueRepository: nil, memory or sqs
    storage,     \* its storageRepository: nil, disabled or s3
    auth,        \* its AuthClient: none, development or firebase
    consumer,    \* its in-memory consumer goroutine has been started
    placed       \* what became of the last order placed with it

vars == <<environment, mongo, phase, failed, queue, storage, auth, consumer, placed>>
apiVars == <<queue, storage, auth, consumer, placed>>

cfg == LoadConfig(environment)

Steps == {"config", "mongo", "redis", "index", "queue", "storage", "auth", "consumer", "listen"}

TypeOK ==
    /\ environment \in Environments
    /\ mongo \in BOOLEAN
    /\ phase \in [Processes -> Steps \cup {"serving", "ended"}]
    /\ failed \in [Processes -> (Steps \ {"consumer"}) \cup {"none"}]
    /\ \A p \in Processes : phase[p] = "ended" <=> failed[p] # "none"
    /\ queue \in {"nil", "memory", "sqs"}
    /\ storage \in {"nil", "disabled", "s3"}
    /\ auth \in {"none", "development", "firebase"}
    /\ consumer \in BOOLEAN
    /\ placed \in {"none", "queued", "panicked"}

Init ==
    /\ environment \in Deployments
    /\ mongo \in BOOLEAN
    /\ phase = [p \in Processes |-> "config"]
    /\ failed = [p \in Processes |-> "none"]
    /\ queue = "nil"
    /\ storage = "nil"
    /\ auth = "none"
    /\ consumer = FALSE
    /\ placed = "none"

-----------------------------------------------------------------------------
(* One step of a process: it goes on to the next, or ends where it is.      *)
Proceed(p, next) ==
    /\ phase' = [phase EXCEPT ![p] = next]
    /\ UNCHANGED failed

(* Mutant: log.Printf for log.Fatalf, and main tries the step again.        *)
LogOnly(p) ==
    /\ failed' = [failed EXCEPT ![p] = phase[p]]
    /\ UNCHANGED phase

Fatal(p) ==
    /\ failed' = [failed EXCEPT ![p] = phase[p]]
    /\ phase' = [phase EXCEPT ![p] = "ended"]

ProceedIf(p, ok, next) == IF ok THEN Proceed(p, next) ELSE Fatal(p)

(* Both mains, as far as they do the same.                                  *)
CheckConfig(p) ==
    /\ phase[p] = "config"
    /\ ProceedIf(p, Validate(cfg) /\ (p = "worker" => cfg.QueueDriver = "sqs"), "mongo")
    /\ UNCHANGED <<environment, mongo, apiVars>>

(* Mutant: no limit on the connection attempt.                              *)
ConnectMongoForever(p) ==
    /\ phase[p] = "mongo"
    /\ mongo
    /\ Proceed(p, "redis")
    /\ UNCHANGED <<environment, mongo, apiVars>>

(* NewMongoClient: connect and ping, ten seconds at most.                   *)
ConnectMongo(p) ==
    /\ phase[p] = "mongo"
    /\ ProceedIf(p, mongo, "redis")
    /\ UNCHANGED <<environment, mongo, apiVars>>

(* NewClient only parses; whether the API's ping succeeds does not matter.  *)
OpenRedis(p) ==
    /\ phase[p] = "redis"
    /\ ProceedIf(p, IF Given(cfg.RedisURL) THEN cfg.RedisURL # "malformed" ELSE Given(cfg.RedisAddr),
                 "index")
    /\ UNCHANGED <<environment, mongo, apiVars>>

(* NewOrderRepository creates the unique index.                             *)
CreateIndex(p) ==
    /\ phase[p] = "index"
    /\ ProceedIf(p, mongo, "queue")
    /\ UNCHANGED <<environment, mongo, apiVars>>

(* loadAWSConfig wants both keys or none.                                   *)
CanLoadAWSConfig == cfg.AWSAccessKeyID = "empty" <=> cfg.AWSSecretAccessKey = "empty"

OpenWorkerQueue ==
    /\ phase["worker"] = "queue"
    /\ ProceedIf("worker", CanLoadAWSConfig, "serving")
    /\ UNCHANGED <<environment, mongo, apiVars>>

-----------------------------------------------------------------------------
(* The rest of the API's main.                                              *)

(* Mutant: the switch without its memory case.                              *)
SelectQueueSQSOnly ==
    /\ phase["api"] = "queue"
    /\ ProceedIf("api", cfg.QueueDriver = "sqs" => CanLoadAWSConfig, "storage")
    /\ queue' = IF cfg.QueueDriver = "sqs" /\ CanLoadAWSConfig THEN "sqs" ELSE queue
    /\ UNCHANGED <<environment, mongo, storage, auth, consumer, placed>>

(* The switch on cfg.QueueDriver, which has no default case.                *)
SelectQueue ==
    /\ phase["api"] = "queue"
    /\ ProceedIf("api", cfg.QueueDriver = "sqs" => CanLoadAWSConfig, "storage")
    /\ queue' = CASE cfg.QueueDriver = "memory"                   -> "memory"
                  [] cfg.QueueDriver = "sqs" /\ CanLoadAWSConfig -> "sqs"
                  [] OTHER                                        -> queue
    /\ UNCHANGED <<environment, mongo, storage, auth, consumer, placed>>

SelectStorage ==
    /\ phase["api"] = "storage"
    /\ ProceedIf("api", cfg.StorageDriver = "s3" => CanLoadAWSConfig, "auth")
    /\ storage' = CASE cfg.StorageDriver = "disabled"               -> "disabled"
                    [] cfg.StorageDriver = "s3" /\ CanLoadAWSConfig -> "s3"
                    [] OTHER                                        -> storage
    /\ UNCHANGED <<environment, mongo, queue, auth, consumer, placed>>

(* NewAuthClient.  A path that is not empty is used, also when it is blank  *)
(* and there is JSON; Firebase may refuse whatever credentials it is given. *)
NewAuthClient ==
    /\ phase["api"] = "auth"
    /\ \/ /\ cfg.FirebaseDevMode
          /\ auth' = "development"
          /\ Proceed("api", "consumer")
       \/ /\ ~cfg.FirebaseDevMode
          /\ cfg.FirebaseCredsPath # "blank"
          /\ auth' = "firebase"
          /\ Proceed("api", "consumer")
       \/ /\ ~cfg.FirebaseDevMode
          /\ Fatal("api")
          /\ UNCHANGED auth
    /\ UNCHANGED <<environment, mongo, queue, storage, consumer, placed>>

(* Mutant: the goroutine forgotten.                                         *)
StartNoConsumer ==
    /\ phase["api"] = "consumer"
    /\ Proceed("api", "listen")
    /\ UNCHANGED <<environment, mongo, apiVars>>

(* The goroutine around ReceiveOrderEvents.                                 *)
StartConsumer ==
    /\ phase["api"] = "consumer"
    /\ consumer' = (cfg.QueueDriver = "memory")
    /\ Proceed("api", "listen")
    /\ UNCHANGED <<environment, mongo, queue, storage, auth, placed>>

(* app.Listen, whose port may be taken.                                     *)
Listen ==
    /\ phase["api"] = "listen"
    /\ Proceed("api", "serving") \/ Fatal("api")
    /\ UNCHANGED <<environment, mongo, apiVars>>

ApiStep == SelectQueue \/ SelectStorage \/ NewAuthClient \/ StartConsumer \/ Listen

-----------------------------------------------------------------------------
(* An order that has reserved its units comes to PublishOrderEvent; the     *)
(* recover middleware answers the panic of a nil queue, and the units are   *)
(* not restored.                                                            *)
PlaceOrder ==
    /\ phase["api"] = "serving"
    /\ placed' = IF queue = "nil" THEN "panicked" ELSE "queued"
    /\ UNCHANGED <<environment, mongo, phase, failed, queue, storage, auth, consumer>>

(* MongoDB goes and comes.                                                  *)
MongoChanges ==
    /\ mongo' = ~mongo
    /\ UNCHANGED <<environment, phase, failed, apiVars>>

ProcessStep(p) ==
    \/ CheckConfig(p) \/ ConnectMongo(p) \/ OpenRedis(p) \/ CreateIndex(p)
    \/ p = "api" /\ ApiStep
    \/ p = "worker" /\ OpenWorkerQueue

Next ==
    \/ \E p \in Processes : ProcessStep(p)
    \/ PlaceOrder
    \/ MongoChanges

Spec == Init /\ [][Next]_vars

(* A process that was started runs; MongoDB need not come back.             *)
FairSpec == Spec /\ \A p \in Processes : WF_vars(ProcessStep(p))

-----------------------------------------------------------------------------
Serving(p) == phase[p] = "serving"

(* Behind the API's middleware a request has a bearer token that Firebase   *)
(* signed for some user, and the administrators' routes are for tokens that *)
(* claim a staff role, as Firebase knows it.                                *)
AdmitsSignedOnly ==
    \A header \in Headers, route \in LoginRoutes \cup StaffRoutes :
        Admits(auth, route, header) =>
            /\ header.form = "bearer" /\ header.token.signed /\ header.token.uid # NoUser
            /\ route \in StaffRoutes => header.token.role \in Staff

(* A production API lets nobody past its middleware on an unsigned token,   *)
(* and no customer to the administrators' routes, opens itself to no foreign*)
(* origin, and talks to AWS with the operator's own settings: Validate and  *)
(* the defaults of LoadConfig leave no combination of variables, unset,     *)
(* blank or misspelt, that starts otherwise.                                *)
ProductionIsSound ==
    cfg.Env = "production" /\ Serving("api") =>
        /\ AdmitsSignedOnly
        /\ cfg.AllowedOrigins # "*"
        /\ queue = "sqs" \/ storage = "s3" =>
              cfg.AWSAccessKeyID = "given" /\ cfg.AWSSecretAccessKey = "given"
        /\ queue = "sqs" => cfg.AWSSQSQueueURL = "given"
        /\ storage = "s3" => cfg.AWSS3Bucket = "given"

(* Orders that the API accepts are taken from their queue: by its own       *)
(* goroutine, or by a worker that the same environment does not turn away.  *)
QueueHasConsumer ==
    Serving("api") =>
        /\ queue = "memory" => consumer
        /\ queue = "sqs" => failed["worker"] \notin {"config", "queue", "redis"}

(* Whether the drivers can be built is settled by Validate: past it only    *)
(* the world outside, and not a setting, keeps a process from having them.  *)
ValidatedDriversStart ==
    \A p \in Processes : failed[p] \notin {"queue", "storage"}

(* An order meets a nil queue only where QUEUE_DRIVER is white space, which *)
(* Validate takes for sqs and main for nothing.                             *)
OrdersReachAQueue ==
    placed = "panicked" => environment.QUEUE_DRIVER = "blank"

(* A start comes to an end, also when MongoDB is down or comes and goes.    *)
StartupSettles ==
    \A p \in Processes : <>(phase[p] \in {"serving", "ended"})
=============================================================================
