------------------------ MODULE OrderStatusStreamProofs ------------------------
(***************************************************************************)
(* The safety of the order status stream, for any users, requests, headers *)
(* and number of deliveries, and whatever fails.                           *)
(***************************************************************************)
EXTENDS OrderStatusStream, TLAPS

(* A publication that is due belongs to a delivery.                         *)
StreamInv == TypeOK /\ due <= deliveries

(* What the middleware and canAccessOrder let through: the buyer or staff,  *)
(* known by a token that was signed, or believed in development.            *)
LEMMA MayOpenEntitles ==
    ASSUME NEW s \in Streams, MayOpen(s)
    PROVE  Entitled(s)
<1> DEFINE token  == HeaderOf[s].token
           claims == Authenticate(TokenMode, HeaderOf[s])
<1>1. HeaderOf[s] \in Headers /\ token \in Tokens /\ token.uid \in Users \cup {NoUser}
  BY HeaderOfAssumption DEF Headers, Tokens
<1>2. claims # Rejected /\ canAccessOrder(claims, Owner)
  BY DEF MayOpen, LoggedIn, Admits, PublicRoutes
<1>3. HeaderOf[s].form = "bearer" /\ claims = VerifyIDToken(TokenMode, token)
  BY <1>2 DEF Authenticate
<1>4. /\ token.uid # NoUser
      /\ claims.uid = token.uid
      /\ claims.role \in Staff => token.role \in Staff
      /\ token.signed \/ TokenMode = "development"
  <2>1. CASE TokenMode = "development"
    BY <1>2, <1>3, <2>1 DEF VerifyIDToken, DevelopmentClaims, Staff
  <2>2. CASE TokenMode = "firebase"
    BY <1>2, <1>3, <2>2 DEF VerifyIDToken, FirebaseClaims, Staff
  <2> QED
    BY <2>1, <2>2, TokenModeAssumption
<1> QED
  BY <1>2, <1>3, <1>4 DEF canAccessOrder, Entitled

(* The variables start with their types.                                    *)
LEMMA StreamInitInv == Init => StreamInv
<1> SUFFICES ASSUME Init PROVE StreamInv
  OBVIOUS
<1>1. connected \in [Streams -> BOOLEAN]
  BY Zenon DEF Init
<1>2. 0 \in 0..MaxDeliveries /\ 0 \in Nat /\ 0 <= 0
  BY MaxDeliveriesAssumption
<1> QED
  BY <1>1, <1>2 DEF Init, StreamInv, TypeOK

(* Every step keeps them.                                                   *)
LEMMA StreamStepInv == StreamInv /\ [Next]_vars => StreamInv'
<1> SUFFICES ASSUME StreamInv, [Next]_vars
             PROVE  StreamInv'
  OBVIOUS
<1> USE MaxDeliveriesAssumption
<1>1. CASE ProcessOrder
  BY <1>1 DEF ProcessOrder, StreamInv, TypeOK
<1>2. CASE PublishEvent
  <2>1. due' \in 0..MaxDeliveries /\ due' <= deliveries
    BY <1>2 DEF PublishEvent, StreamInv, TypeOK
  <2>2. dropped' \in BOOLEAN
    BY <1>2, Zenon DEF PublishEvent, StreamInv, TypeOK
  <2>4. buffer' \in [Streams -> Nat]
    <3>1. \A s \in Streams :
             (IF sub[s] = "active" THEN buffer[s] + 1 ELSE buffer[s]) \in Nat
      BY DEF StreamInv, TypeOK
    <3>2. \/ buffer' = [s \in Streams |-> IF sub[s] = "active" THEN buffer[s] + 1 ELSE buffer[s]]
          \/ buffer' = buffer
      BY <1>2 DEF PublishEvent
    <3> QED
      BY <3>1, <3>2 DEF StreamInv, TypeOK
  <2>3. UNCHANGED <<stored, deliveries, handler, sub, forwarder, connected, told>>
    BY <1>2 DEF PublishEvent
  <2> QED
    BY <2>1, <2>2, <2>3, <2>4 DEF StreamInv, TypeOK
<1>3. ASSUME NEW s \in Streams,
             FindOrder(s) \/ StreamStep(s) \/ ConfirmSubscription(s) \/ Disconnect(s)
      PROVE  StreamInv'
  BY <1>3
  DEF FindOrder, GotoStep, StreamStep, SubscribeEvent, WritePending, WriteStatus, Heartbeat, Close,
      ConfirmSubscription, Disconnect, workerVars, StreamInv, TypeOK
<1>4. ASSUME NEW s \in Streams, ForwarderStep(s)
      PROVE  StreamInv'
  <2>1. buffer[s] \in Nat /\ (buffer[s] > 0 => buffer[s] - 1 \in Nat)
    BY DEF StreamInv, TypeOK
  <2> QED
    BY <1>4, <2>1 DEF ForwarderStep, Forward, EndForwarder, workerVars, StreamInv, TypeOK
<1>5. CASE UNCHANGED vars
  BY <1>5 DEF vars, workerVars, StreamInv, TypeOK
<1> QED
  BY <1>1, <1>2, <1>3, <1>4, <1>5 DEF Next

(* The variables keep their types: in particular the forwarder never takes  *)
(* an event that is not there.                                              *)
THEOREM StreamTypeCorrect == Spec => []TypeOK
<1>1. StreamInv => TypeOK
  BY DEF StreamInv
<1> QED
  BY <1>1, StreamInitInv, StreamStepInv, PTL DEF Spec

(* Nobody but the order's buyer and the staff gets a subscription for the   *)
(* order, or a word about it, however the steps interleave: the others are  *)
(* refused in a way that does not depend on the order.                      *)
THEOREM StreamToldOnlyToEntitled == Spec => []ToldOnlyToEntitled
<1> DEFINE Refusal(s) == IF LoggedIn(s) THEN "notfound" ELSE "unauthorized"
           Shut(s) == /\ handler[s] \in {"idle", Refusal(s)}
                      /\ sub[s] = "none" /\ told[s] = "nothing"
<1>1. Init => ToldOnlyToEntitled
  BY DEF Init, ToldOnlyToEntitled
<1>2. StreamInv /\ ToldOnlyToEntitled /\ [Next]_vars => ToldOnlyToEntitled'
  <2> SUFFICES ASSUME StreamInv, ToldOnlyToEntitled, [Next]_vars,
                      NEW t \in Streams, ~Entitled(t)
               PROVE  Shut(t)'
    BY DEF ToldOnlyToEntitled, Entitled
  <2>1. Shut(t) /\ LoggedIn(t)' = LoggedIn(t)
    BY DEF ToldOnlyToEntitled, LoggedIn
  <2>2. CASE handler'[t] = handler[t] /\ sub'[t] = sub[t] /\ told'[t] = told[t]
    BY <2>1, <2>2
  <2>3. CASE ~(handler'[t] = handler[t] /\ sub'[t] = sub[t] /\ told'[t] = told[t])
    <3>1. FindOrder(t)
      BY <2>1, <2>3 DEF Next, vars, workerVars, ProcessOrder, PublishEvent, FindOrder, GotoStep,
          StreamStep, SubscribeEvent, WritePending, WriteStatus, Heartbeat, Close, ForwarderStep,
          Forward, EndForwarder, ConfirmSubscription, Disconnect, StreamInv, TypeOK
    <3>2. ~MayOpen(t)
      BY MayOpenEntitles
    <3>3. handler'[t] = Refusal(t) /\ sub' = sub /\ told' = told
      BY <3>1, <3>2 DEF FindOrder, GotoStep, StreamInv, TypeOK
    <3> QED
      BY <2>1, <3>3
  <2> QED
    BY <2>2, <2>3
<1> QED
  BY <1>1, <1>2, StreamInitInv, StreamStepInv, PTL DEF Spec

-----------------------------------------------------------------------------
(* The events of a stream, and the one its client has seen.                 *)
Sending(s) == IF forwarder[s] = "send" THEN 1 ELSE 0
Seen(s)    == IF told[s] = "COMPLETED" THEN 1 ELSE 0

(* A delivery makes one event for a stream: it is due, or in the buffer, or *)
(* in the forwarder's hands, or its client has seen it.                     *)
EventsCounted == \A s \in Streams : buffer[s] + Sending(s) + Seen(s) + due <= deliveries

(* A writer leaves a client that stays when it has told it, and then only.  *)
ToldThenClosed ==
    \A s \in Streams :
        /\ told[s] = "COMPLETED" => handler[s] = "closed"
        /\ handler[s] = "closed" /\ connected[s] => told[s] = "COMPLETED"

CountInv == EventsCounted /\ ToldThenClosed

(* Every step counts its events.                                            *)
LEMMA CountStepInv == StreamInv /\ CountInv /\ [Next]_vars => CountInv'
<1> SUFFICES ASSUME StreamInv, CountInv, [Next]_vars
             PROVE  CountInv'
  OBVIOUS
<1>0. /\ due \in Int /\ deliveries \in Int
      /\ \A s \in Streams : buffer[s] \in Int /\ Sending(s) \in 0..1 /\ Seen(s) \in 0..1
  BY MaxDeliveriesAssumption DEF StreamInv, TypeOK, Sending, Seen
<1>1. CASE ProcessOrder
  <2>1. \A s \in Streams : Sending(s)' = Sending(s) /\ Seen(s)' = Seen(s)
    BY <1>1 DEF ProcessOrder, Sending, Seen
  <2> QED
    BY <1>0, <1>1, <2>1 DEF ProcessOrder, CountInv, EventsCounted, ToldThenClosed
<1>2. CASE PublishEvent
  <2>1. \A s \in Streams : Sending(s)' = Sending(s) /\ Seen(s)' = Seen(s)
    BY <1>2 DEF PublishEvent, Sending, Seen
  <2>2. \A s \in Streams : buffer'[s] \in {buffer[s], buffer[s] + 1}
    BY <1>2 DEF PublishEvent, StreamInv, TypeOK
  <2>3. due' = due - 1 /\ deliveries' = deliveries
    BY <1>2 DEF PublishEvent
  <2>4. EventsCounted'
    BY <1>0, <2>1, <2>2, <2>3 DEF CountInv, EventsCounted
  <2> QED
    BY <1>2, <2>4 DEF PublishEvent, CountInv, ToldThenClosed
<1>3. ASSUME NEW s \in Streams,
             FindOrder(s) \/ SubscribeEvent(s) \/ WritePending(s) \/ Heartbeat(s)
                 \/ ConfirmSubscription(s) \/ Disconnect(s)
      PROVE  CountInv'
  <2>1. due' = due /\ deliveries' = deliveries /\ buffer' = buffer
    BY <1>3 DEF FindOrder, SubscribeEvent, WritePending, Heartbeat, ConfirmSubscription, Disconnect,
                workerVars
  <2>2. \A t \in Streams : told'[t] = "COMPLETED" <=> told[t] = "COMPLETED"
    BY <1>3 DEF FindOrder, SubscribeEvent, WritePending, Heartbeat, ConfirmSubscription, Disconnect,
                CountInv, ToldThenClosed, StreamInv, TypeOK
  <2>3. \A t \in Streams : forwarder'[t] = "send" => forwarder[t] = "send"
    BY <1>3 DEF FindOrder, SubscribeEvent, WritePending, Heartbeat, ConfirmSubscription, Disconnect,
                StreamInv, TypeOK
  <2>4. \A t \in Streams : Sending(t)' \in 0..1 /\ Sending(t)' <= Sending(t) /\ Seen(t)' = Seen(t)
    BY <2>2, <2>3 DEF Sending, Seen
  <2>5. EventsCounted'
    BY <1>0, <2>1, <2>4 DEF CountInv, EventsCounted
  <2>6. ToldThenClosed'
    BY <1>3, <2>2
    DEF FindOrder, GotoStep, SubscribeEvent, WritePending, Heartbeat, Close, ConfirmSubscription,
        Disconnect, CountInv, ToldThenClosed, StreamInv, TypeOK
  <2> QED
    BY <2>5, <2>6 DEF CountInv
<1>4. ASSUME NEW s \in Streams, WriteStatus(s)
      PROVE  CountInv'
  <2>1. due' = due /\ deliveries' = deliveries /\ buffer' = buffer /\ connected' = connected
    BY <1>4 DEF WriteStatus, workerVars
  <2>2. /\ handler'[s] = "closed" /\ Sending(s) = 1 /\ Sending(s)' = 0 /\ Seen(s) = 0
        /\ Seen(s)' \in 0..1 /\ (connected[s] => told'[s] = "COMPLETED")
    BY <1>4 DEF WriteStatus, Close, GotoStep, Sending, Seen, CountInv, ToldThenClosed,
                StreamInv, TypeOK
  <2>3. \A t \in Streams \ {s} :
           /\ handler'[t] = handler[t] /\ told'[t] = told[t]
           /\ Sending(t)' = Sending(t) /\ Seen(t)' = Seen(t)
    BY <1>4 DEF WriteStatus, Close, GotoStep, Sending, Seen, StreamInv, TypeOK
  <2>4. EventsCounted'
    BY <1>0, <2>1, <2>2, <2>3 DEF CountInv, EventsCounted
  <2> QED
    BY <2>1, <2>2, <2>3, <2>4 DEF CountInv, ToldThenClosed
<1>5. ASSUME NEW s \in Streams, Forward(s)
      PROVE  CountInv'
  <2>1. UNCHANGED <<due, deliveries, handler, connected, told>>
    BY <1>5 DEF Forward, workerVars
  <2>2. Sending(s) = 0 /\ Sending(s)' = 1 /\ buffer'[s] = buffer[s] - 1
    BY <1>5 DEF Forward, Sending, StreamInv, TypeOK
  <2>3. \A t \in Streams \ {s} : Sending(t)' = Sending(t) /\ buffer'[t] = buffer[t]
    BY <1>5 DEF Forward, Sending, StreamInv, TypeOK
  <2>4. \A t \in Streams : Seen(t)' = Seen(t)
    BY <2>1 DEF Seen
  <2>5. EventsCounted'
    BY <1>0, <2>1, <2>2, <2>3, <2>4 DEF CountInv, EventsCounted
  <2> QED
    BY <2>1, <2>5 DEF CountInv, ToldThenClosed
<1>6. ASSUME NEW s \in Streams, EndForwarder(s)
      PROVE  CountInv'
  <2>1. UNCHANGED <<due, deliveries, handler, connected, told, buffer>>
    BY <1>6 DEF EndForwarder, workerVars
  <2>2. \A t \in Streams : Sending(t)' = Sending(t) /\ Seen(t)' = Seen(t)
    BY <1>6, <2>1 DEF EndForwarder, Sending, Seen, StreamInv, TypeOK
  <2> QED
    BY <2>1, <2>2 DEF CountInv, EventsCounted, ToldThenClosed
<1>7. CASE UNCHANGED vars
  BY <1>7 DEF vars, workerVars, CountInv, EventsCounted, ToldThenClosed, Sending, Seen
<1> QED
  BY <1>1, <1>2, <1>3, <1>4, <1>5, <1>6, <1>7 DEF Next, StreamStep, ForwarderStep

(* However the steps interleave and whatever is lost, a forwarder is left   *)
(* with an event only by a duplicate delivery or a client that went: the    *)
(* safety part of ForwarderEnds, for every number of streams and deliveries.*)
THEOREM StreamOnlyDuplicatesLeftOver == Spec => []OnlyDuplicatesLeftOver
<1>1. Init => CountInv
  BY DEF Init, CountInv, EventsCounted, ToldThenClosed, Sending, Seen
<1>2. StreamInv /\ CountInv => OnlyDuplicatesLeftOver
  <2> SUFFICES ASSUME StreamInv, CountInv, NEW s \in Streams,
                      handler[s] = "closed", connected[s], buffer[s] > 0 \/ forwarder[s] = "send"
               PROVE  deliveries > 1
    BY DEF OnlyDuplicatesLeftOver
  <2>1. Seen(s) = 1 /\ buffer[s] \in Nat /\ due \in Nat /\ deliveries \in Nat
    BY MaxDeliveriesAssumption DEF CountInv, ToldThenClosed, Seen, StreamInv, TypeOK
  <2>2. buffer[s] + Sending(s) >= 1 /\ Sending(s) \in 0..1
    BY <2>1 DEF Sending
  <2> QED
    BY <2>1, <2>2 DEF CountInv, EventsCounted
<1> QED
  BY <1>1, <1>2, CountStepInv, StreamInitInv, StreamStepInv, PTL DEF Spec
=============================================================================
