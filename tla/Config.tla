--------------------------------- MODULE Config ---------------------------------
(***************************************************************************)
(* LoadConfig and Validate of pkg/config/config.go.  An environment gives  *)
(* each variable a class of values:                                        *)
(*   empty    unset, or the empty string; no function of the code tells    *)
(*            the two apart                                                *)
(*   blank    nothing but white space                                      *)
(*   given    a value of the operator's own                                *)
(* and the values the code names itself (drivers and ENV are compared      *)
(* without regard to case, drivers also without surrounding blanks; a      *)
(* class stands for all spellings).  local is a LocalStack default, which  *)
(* LoadConfig fills in.                                                    *)
(***************************************************************************)

Plain   == {"empty", "blank", "given"}
Drivers == {"empty", "blank", "other"}

Environments ==
    [ENV : Plain \cup {"production"},
     PORT : Plain, MONGO_URI : Plain, MONGO_DB_NAME : Plain,
     REDIS_URL : Plain \cup {"malformed"}, REDIS_ADDR : Plain,
     QUEUE_DRIVER : Drivers \cup {"sqs", "memory"},
     STORAGE_DRIVER : Drivers \cup {"s3", "disabled"},
     AWS_ACCESS_KEY_ID : Plain, AWS_SECRET_ACCESS_KEY : Plain,
     AWS_SQS_QUEUE_URL : Plain, AWS_S3_BUCKET : Plain,
     FIREBASE_DEV_MODE : {"empty", "blank", "true", "false", "garbled"},
     FIREBASE_CREDENTIALS_PATH : Plain, FIREBASE_CREDENTIALS_JSON : Plain,
     ALLOWED_ORIGINS : Plain \cup {"*"}]

(* strings.TrimSpace(value) != ""                                           *)
Given(value) == value \notin {"empty", "blank"}

Trimmed(value) == IF value = "blank" THEN "empty" ELSE value

(* getEnv, and getEnvBool: what is not a boolean leaves the default in      *)
(* place.                                                                   *)
getEnv(value, default) == IF value = "empty" THEN default ELSE value

getEnvBool(value, default) ==
    CASE value = "true"  -> TRUE
      [] value = "false" -> FALSE
      [] OTHER           -> default

(* The four AWS settings, outside production.                               *)
OrLocalStack(env, value) ==
    IF env # "production" THEN getEnv(value, "local") ELSE value

LoadConfig(e) ==
    LET env == getEnv(e.ENV, "development")
    IN  [Env                |-> env,
         Port               |-> getEnv(e.PORT, "8080"),
         MongoURI           |-> getEnv(e.MONGO_URI, "local"),
         MongoDBName        |-> getEnv(e.MONGO_DB_NAME, "flashsale_db"),
         RedisURL           |-> e.REDIS_URL,
         RedisAddr          |-> getEnv(e.REDIS_ADDR, "local"),
         QueueDriver        |-> Trimmed(getEnv(e.QUEUE_DRIVER, "sqs")),
         StorageDriver      |-> Trimmed(getEnv(e.STORAGE_DRIVER, "s3")),
         AWSAccessKeyID     |-> OrLocalStack(env, e.AWS_ACCESS_KEY_ID),
         AWSSecretAccessKey |-> OrLocalStack(env, e.AWS_SECRET_ACCESS_KEY),
         AWSS3Bucket        |-> OrLocalStack(env, e.AWS_S3_BUCKET),
         AWSSQSQueueURL     |-> OrLocalStack(env, e.AWS_SQS_QUEUE_URL),
         FirebaseDevMode    |-> getEnvBool(e.FIREBASE_DEV_MODE, TRUE),
         FirebaseCredsPath  |-> e.FIREBASE_CREDENTIALS_PATH,
         FirebaseCredsJSON  |-> e.FIREBASE_CREDENTIALS_JSON,
         AllowedOrigins     |-> getEnv(e.ALLOWED_ORIGINS, "given")]

-----------------------------------------------------------------------------
(* Validate, which reads the drivers with defaults of its own.              *)
queueDriver(c)   == getEnv(c.QueueDriver, "sqs")
storageDriver(c) == getEnv(c.StorageDriver, "s3")

RequiredGiven(c) ==
    /\ Given(c.Port) /\ Given(c.MongoURI) /\ Given(c.MongoDBName)
    /\ Given(c.RedisURL) \/ Given(c.RedisAddr)
    /\ Given(c.AllowedOrigins)

DriversKnown(c) ==
    /\ queueDriver(c) \in {"sqs", "memory"}
    /\ queueDriver(c) = "sqs" => Given(c.AWSSQSQueueURL)
    /\ storageDriver(c) \in {"s3", "disabled"}

(* Mutants: the production checks without the keys; without the dev mode.   *)
FitWithoutKeys(c) ==
    /\ ~c.FirebaseDevMode
    /\ c.AllowedOrigins # "*"
    /\ Given(c.FirebaseCredsPath) \/ Given(c.FirebaseCredsJSON)
    /\ storageDriver(c) = "s3" => Given(c.AWSS3Bucket)

FitInDevMode(c) ==
    /\ c.AllowedOrigins # "*"
    /\ Given(c.FirebaseCredsPath) \/ Given(c.FirebaseCredsJSON)
    /\ queueDriver(c) = "sqs" \/ storageDriver(c) = "s3" =>
          Given(c.AWSAccessKeyID) /\ Given(c.AWSSecretAccessKey)
    /\ storageDriver(c) = "s3" => Given(c.AWSS3Bucket)

FitForProduction(c) ==
    /\ ~c.FirebaseDevMode
    /\ c.AllowedOrigins # "*"
    /\ Given(c.FirebaseCredsPath) \/ Given(c.FirebaseCredsJSON)
    /\ queueDriver(c) = "sqs" \/ storageDriver(c) = "s3" =>
          Given(c.AWSAccessKeyID) /\ Given(c.AWSSecretAccessKey)
    /\ storageDriver(c) = "s3" => Given(c.AWSS3Bucket)

Validate(c) ==
    /\ RequiredGiven(c)
    /\ DriversKnown(c)
    /\ c.Env = "production" => FitForProduction(c)
=============================================================================
