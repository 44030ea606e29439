---------------------------- MODULE MCOrderPipeline ----------------------------
(***************************************************************************)
(* Instances of OrderPipeline for TLC.  Orders are named after their user, *)
(* so a1 and a2 are a double click of user a, and b1 is a rival's order.   *)
(***************************************************************************)
EXTENDS OrderPipeline, TLC

CONSTANTS a1, a2, b1, a, b

PairUserOf   == (a1 :> a) @@ (a2 :> a)
PairQuantity == (a1 :> 1) @@ (a2 :> 2)

ThreeUserOf   == PairUserOf @@ (b1 :> b)
ThreeQuantity == PairQuantity @@ (b1 :> 1)

AllFaults  == FaultKinds
SafeFaults == FaultKinds \ UnsafeFaults

(* A queue that refuses an event, and the faults between it and the store.  *)
WorkerFaults ==
    {"queue_error", "receive_lost", "ack_lost", "slow_handler", "worker_crash",
     "db_error", "db_reply_lost"}

OnlySlowRequest    == {"slow_request"}
OnlyQueueReplyLost == {"queue_error", "queue_reply_lost"}
OnlyLatePrewarm    == {"late_prewarm"}
=============================================================================
