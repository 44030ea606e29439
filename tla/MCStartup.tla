------------------------------- MODULE MCStartup -------------------------------
(***************************************************************************)
(* Instances of Startup for TLC: the deployments the repository describes, *)
(* and all that differ from one of them in at most two variables.          *)
(***************************************************************************)
EXTENDS Startup, TLC

(* render.yaml                                                              *)
Render ==
    [ENV |-> "production", PORT |-> "given",
     MONGO_URI |-> "given", MONGO_DB_NAME |-> "given",
     REDIS_URL |-> "given", REDIS_ADDR |-> "empty",
     QUEUE_DRIVER |-> "sqs", STORAGE_DRIVER |-> "s3",
     AWS_ACCESS_KEY_ID |-> "given", AWS_SECRET_ACCESS_KEY |-> "given",
     AWS_SQS_QUEUE_URL |-> "given", AWS_S3_BUCKET |-> "given",
     FIREBASE_DEV_MODE |-> "false", FIREBASE_CREDENTIALS_PATH |-> "empty",
     FIREBASE_CREDENTIALS_JSON |-> "given", ALLOWED_ORIGINS |-> "given"]

(* docker-compose.yml                                                       *)
Compose ==
    [Render EXCEPT !.ENV = "given", !.REDIS_URL = "empty", !.REDIS_ADDR = "given",
                   !.QUEUE_DRIVER = "empty", !.STORAGE_DRIVER = "empty",
                   !.FIREBASE_DEV_MODE = "true", !.FIREBASE_CREDENTIALS_JSON = "empty"]

(* A production API of its own: no SQS, no S3.                              *)
SingleProcess ==
    [Render EXCEPT !.QUEUE_DRIVER = "memory", !.STORAGE_DRIVER = "disabled",
                   !.AWS_ACCESS_KEY_ID = "empty", !.AWS_SECRET_ACCESS_KEY = "empty",
                   !.AWS_SQS_QUEUE_URL = "empty", !.AWS_S3_BUCKET = "empty"]

Values ==
    {"empty", "blank", "given", "production", "malformed", "other", "sqs", "memory",
     "s3", "disabled", "true", "false", "garbled", "*"}

Near(e) == {[e EXCEPT ![name] = value] : name \in DOMAIN e, value \in Values} \cap Environments

RepositoryDeployments ==
    UNION {Near(e) : e \in Near(Render) \cup Near(Compose) \cup Near(SingleProcess)}
=============================================================================
