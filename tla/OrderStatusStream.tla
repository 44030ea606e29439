--------------------------- MODULE OrderStatusStream ---------------------------
(***************************************************************************)
(* Server-sent events for one order: StreamOrderStatus of the HTTP API     *)
(* (internal/delivery/http/handler/order_handler.go), the forwarding       *)
(* goroutine of SubscribeEvent (internal/repository/redis), Redis pub/sub, *)
(* and the workers that store the order and publish COMPLETED, one         *)
(* delivery of its message after another.                                  *)
(*                                                                         *)
(* Each order has its own channel, so one order is modelled.  COMPLETED is *)
(* the only status the program publishes.                                  *)
(***************************************************************************)
EXTENDS Integers, AccessControl

CONSTANTS Streams,         \* requests for the order's stream
          HeaderOf,        \* their Authorization headers
          Owner,           \* the order's user_id
          TokenMode,       \* development or firebase
          MaxDeliveries,   \* bound on the deliveries of the order's event
          Faults           \* what may go wrong: disconnect, event_lost

ASSUME HeaderOfAssumption      == HeaderOf \in [Streams -> Headers]
ASSUME OwnerAssumption         == Owner \in Users
ASSUME TokenModeAssumption     == TokenMode \in {"development", "firebase"}
ASSUME MaxDeliveriesAssumption == MaxDeliveries \in Nat \ {0}
ASSUME FaultsAssumption        == Faults \subseteq {"disconnect", "event_lost"}

VARIABLES
    stored,      \* the order is in the orders collection, COMPLETED
    deliveries,  \* handler runs that found or made it so
    due,         \* those of them about to publish
    handler,     \* where each StreamOrderStatus is
    sub,         \* its subscription, as Redis sees it
    buffer,      \* events in the channel pubsub.Channel() returns
    forwarder,   \* the goroutine of SubscribeEvent
    connected,   \* whether the client is still there
    told,        \* the last status the client was sent
    dropped      \* an event was lost between PublishEvent and Redis

workerVars == <<stored, deliveries, due, dropped>>
vars == <<workerVars, handler, sub, buffer, forwarder, connected, told>>

TypeOK ==
    /\ stored \in BOOLEAN
    /\ deliveries \in 0..MaxDeliveries
    /\ due \in 0..MaxDeliveries
    /\ handler \in [Streams -> {"idle", "found", "subscribed", "writing", "closed",
                               "unauthorized", "notfound"}]
    /\ sub \in [Streams -> {"none", "requested", "active", "closed"}]
    /\ buffer \in [Streams -> Nat]
    /\ forwarder \in [Streams -> {"none", "receive", "send", "done"}]
    /\ connected \in [Streams -> BOOLEAN]
    /\ told \in [Streams -> {"nothing", "PENDING", "COMPLETED"}]
    /\ dropped \in BOOLEAN

Init ==
    /\ stored = FALSE
    /\ deliveries = 0
    /\ due = 0
    /\ handler = [s \in Streams |-> "idle"]
    /\ sub = [s \in Streams |-> "none"]
    /\ buffer = [s \in Streams |-> 0]
    /\ forwarder = [s \in Streams |-> "none"]
    /\ connected = [s \in Streams |-> TRUE]
    /\ told = [s \in Streams |-> "nothing"]
    /\ dropped = FALSE

-----------------------------------------------------------------------------
(* The workers: ProcessOrderFromQueue, up to its notification and after.    *)

(* A transaction that created the order or found it there.                  *)
ProcessOrder ==
    /\ deliveries < MaxDeliveries
    /\ deliveries' = deliveries + 1
    /\ due' = due + 1
    /\ stored' = TRUE
    /\ UNCHANGED <<handler, sub, buffer, forwarder, connected, told, dropped>>

(* Mutant: the notification of a created order runs into that of a duplicate.*)
PublishTwice ==
    /\ due > 0
    /\ due' = due - 1
    /\ buffer' = [s \in Streams |->
                     IF sub[s] = "active" THEN buffer[s] + 2 ELSE buffer[s]]
    /\ UNCHANGED <<stored, deliveries, handler, sub, forwarder, connected, told, dropped>>

(* Its PublishEvent reaches the subscriptions in force at that moment.      *)
PublishEvent ==
    /\ due > 0
    /\ due' = due - 1
    /\ \/ /\ buffer' = [s \in Streams |->
                           IF sub[s] = "active" THEN buffer[s] + 1 ELSE buffer[s]]
          /\ UNCHANGED dropped
       \/ /\ "event_lost" \in Faults
          /\ dropped' = TRUE
          /\ UNCHANGED buffer
    /\ UNCHANGED <<stored, deliveries, handler, sub, forwarder, connected, told>>

-----------------------------------------------------------------------------
(* The HTTP handler.                                                        *)
GotoStep(s, step) == handler' = [handler EXCEPT ![s] = step]

(* GetOrderByID and canAccessOrder, behind the middleware: until the order  *)
(* is stored nobody has a stream of it.                                     *)
LoggedIn(s) == Admits(TokenMode, "StreamOrderStatus", HeaderOf[s])

MayOpen(s) ==
    /\ LoggedIn(s)
    /\ stored
    /\ canAccessOrder(Authenticate(TokenMode, HeaderOf[s]), Owner)

(* Mutant: an order that is there but not the caller's is answered apart    *)
(* from one that is not there.                                              *)
ForbidStored(s) ==
    /\ handler[s] = "idle"
    /\ \/ ~stored /\ LoggedIn(s) /\ GotoStep(s, "notfound")
       \/ ~MayOpen(s) /\ (stored \/ ~LoggedIn(s)) /\ GotoStep(s, "unauthorized")
       \/ MayOpen(s) /\ GotoStep(s, "found")
    /\ UNCHANGED <<workerVars, sub, buffer, forwarder, connected, told>>

(* 401 by the middleware; 404 for an order that is not there, not the       *)
(* caller's, or that the store failed to look up.                           *)
FindOrder(s) ==
    /\ handler[s] = "idle"
    /\ \/ ~LoggedIn(s) /\ GotoStep(s, "unauthorized")
       \/ LoggedIn(s) /\ GotoStep(s, "notfound")
       \/ MayOpen(s) /\ GotoStep(s, "found")
    /\ UNCHANGED <<workerVars, sub, buffer, forwarder, connected, told>>

(* SubscribeEvent sends SUBSCRIBE, does not wait for its confirmation, and  *)
(* starts the forwarding goroutine.                                         *)
SubscribeEvent(s) ==
    /\ handler[s] = "found"
    /\ GotoStep(s, "subscribed")
    /\ sub' = [sub EXCEPT ![s] = "requested"]
    /\ forwarder' = [forwarder EXCEPT ![s] = "receive"]
    /\ UNCHANGED <<workerVars, buffer, connected, told>>

(* The writer returns, and its deferred cancel closes the subscription.     *)
Close(s) ==
    /\ GotoStep(s, "closed")
    /\ sub' = [sub EXCEPT ![s] = "closed"]

(* The writer's first event, PENDING.                                       *)
WritePending(s) ==
    /\ handler[s] = "subscribed"
    /\ \/ /\ connected[s]
          /\ GotoStep(s, "writing")
          /\ told' = [told EXCEPT ![s] = "PENDING"]
          /\ UNCHANGED sub
       \/ ~connected[s] /\ Close(s) /\ UNCHANGED told
    /\ UNCHANGED <<workerVars, buffer, forwarder, connected>>

(* The loop takes a status from the forwarder, writes it, and returns.      *)
WriteStatus(s) ==
    /\ handler[s] = "writing"
    /\ forwarder[s] = "send"
    /\ forwarder' = [forwarder EXCEPT ![s] = "receive"]
    /\ told' = IF connected[s] THEN [told EXCEPT ![s] = "COMPLETED"] ELSE told
    /\ Close(s)
    /\ UNCHANGED <<workerVars, buffer, connected>>

(* Mutant: no ticker.                                                       *)
NoHeartbeat(s) == FALSE

(* A heartbeat changes nothing for a client that is there.                  *)
Heartbeat(s) ==
    /\ handler[s] = "writing"
    /\ ~connected[s]
    /\ Close(s)
    /\ UNCHANGED <<workerVars, buffer, forwarder, connected, told>>

-----------------------------------------------------------------------------
(* The goroutine of SubscribeEvent.                                         *)

(* Mutants: a receive that does not tell a closed channel from an event; a  *)
(* send that drops the event when nobody is waiting for it.                 *)
ForwardClosed(s) ==
    /\ forwarder[s] = "receive"
    /\ buffer[s] > 0 \/ sub[s] = "closed"
    /\ buffer' = [buffer EXCEPT ![s] = @ - 1]
    /\ forwarder' = [forwarder EXCEPT ![s] = "send"]
    /\ UNCHANGED <<workerVars, handler, sub, connected, told>>

ForwardOrDrop(s) ==
    /\ forwarder[s] = "receive"
    /\ buffer[s] > 0
    /\ buffer' = [buffer EXCEPT ![s] = @ - 1]
    /\ forwarder' = [forwarder EXCEPT ![s] =
                        IF handler[s] = "writing" THEN "send" ELSE "receive"]
    /\ UNCHANGED <<workerVars, handler, sub, connected, told>>

(* It holds one event and waits for the writer to take it.                  *)
Forward(s) ==
    /\ forwarder[s] = "receive"
    /\ buffer[s] > 0
    /\ buffer' = [buffer EXCEPT ![s] = @ - 1]
    /\ forwarder' = [forwarder EXCEPT ![s] = "send"]
    /\ UNCHANGED <<workerVars, handler, sub, connected, told>>

(* The range loop ends when the channel is closed and drained.              *)
EndForwarder(s) ==
    /\ forwarder[s] = "receive"
    /\ sub[s] = "closed"
    /\ buffer[s] = 0
    /\ forwarder' = [forwarder EXCEPT ![s] = "done"]
    /\ UNCHANGED <<workerVars, handler, sub, buffer, connected, told>>

-----------------------------------------------------------------------------
(* Redis and the client.                                                    *)
ConfirmSubscription(s) ==
    /\ sub[s] = "requested"
    /\ sub' = [sub EXCEPT ![s] = "active"]
    /\ UNCHANGED <<workerVars, handler, buffer, forwarder, connected, told>>

(* The client leaves, or the server's write timeout ends the connection.    *)
Disconnect(s) ==
    /\ "disconnect" \in Faults
    /\ connected[s]
    /\ handler[s] \in {"found", "subscribed", "writing"}
    /\ connected' = [connected EXCEPT ![s] = FALSE]
    /\ UNCHANGED <<workerVars, handler, sub, buffer, forwarder, told>>

StreamStep(s) == SubscribeEvent(s) \/ WritePending(s) \/ WriteStatus(s) \/ Heartbeat(s)
ForwarderStep(s) == Forward(s) \/ EndForwarder(s)

Next ==
    \/ ProcessOrder
    \/ PublishEvent
    \/ \E s \in Streams :
          \/ FindOrder(s) \/ StreamStep(s) \/ ForwarderStep(s)
          \/ ConfirmSubscription(s) \/ Disconnect(s)

Spec == Init /\ [][Next]_vars

(* Goroutines that can run do, and Redis answers.  Nobody need ask for a    *)
(* stream, and no message need be delivered.                                *)
Fairness ==
    /\ WF_vars(PublishEvent)
    /\ \A s \in Streams :
          /\ WF_vars(StreamStep(s))
          /\ WF_vars(ForwarderStep(s))
          /\ WF_vars(ConfirmSubscription(s))

FairSpec == Spec /\ Fairness

-----------------------------------------------------------------------------
(* The buyer and the staff, as their token says, and its signature unless   *)
(* in development.                                                          *)
Entitled(s) ==
    LET token == HeaderOf[s].token
    IN  /\ HeaderOf[s].form = "bearer"
        /\ token.signed \/ TokenMode = "development"
        /\ token.uid = Owner \/ (token.uid # NoUser /\ token.role \in Staff)

(* Nobody else holds the order's stream or a subscription for it, and what  *)
(* they are answered does not say whether the order exists: it depends on   *)
(* their token alone, before the order is stored and after.                 *)
ToldOnlyToEntitled ==
    \A s \in Streams :
        ~Entitled(s) =>
            /\ handler[s] \in {"idle", IF LoggedIn(s) THEN "notfound" ELSE "unauthorized"}
            /\ sub[s] = "none" /\ told[s] = "nothing"

(* What a forwarder has left over when its writer has gone is a duplicate's *)
(* event or one for a client that left: one delivery makes one event, and a *)
(* writer leaves a client that stays only after it has taken that event.    *)
(* So only those two leave the goroutine blocked in its send.               *)
OnlyDuplicatesLeftOver ==
    \A s \in Streams :
        handler[s] = "closed" /\ connected[s] /\ (buffer[s] > 0 \/ forwarder[s] = "send")
            => deliveries > 1

(* A subscription in force when a worker is about to publish brings its     *)
(* client the status, also when the writer has not started yet, unless the  *)
(* publication itself failed: a worker does not repeat one.                 *)
SubscribedIsTold ==
    \A s \in Streams :
        (sub[s] = "active" /\ due > 0) ~> (told[s] = "COMPLETED" \/ ~connected[s] \/ dropped)

(* A client that left costs Redis no subscription for long: the next        *)
(* heartbeat notices it and the deferred cancel runs.                       *)
SubscriptionReleased ==
    \A s \in Streams : ~connected[s] ~> sub[s] \in {"none", "closed"}

(* The forwarding goroutine ends with its stream.  It stays behind, blocked *)
(* in its send, only when an event arrives that the writer will not take:   *)
(* a duplicate delivery's second COMPLETED, or one for a client that left.  *)
ForwarderEnds ==
    \A s \in Streams :
        handler[s] = "closed" ~>
            (forwarder[s] = "done" \/ ~connected[s] \/ deliveries > 1)

(* "Real-Time Server-Sent Events stream for order status changes": a stream *)
(* that was opened delivers the order's COMPLETED while its client stays.   *)
StreamCompletes ==
    \A s \in Streams :
        handler[s] = "writing" ~> (told[s] = "COMPLETED" \/ ~connected[s])
=============================================================================
