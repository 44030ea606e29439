------------------------ MODULE OrderReservationProofs ------------------------
(***************************************************************************)
(* What the reservations in Redis are worth, and the lock, when some of    *)
(* the faults stay away.  Each theorem names the faults that would break   *)
(* it; the runs that expect a violation show that they do.                 *)
(***************************************************************************)
EXTENDS OrderPipelineProofs

Without(faults) == Faults \cap faults = {}

-----------------------------------------------------------------------------
(* The lock.  While a request is in flight its lock holds its token.        *)
LockHeld == \A r \in OrderIDs : InFlight(r) => lock[UserOf[r]] = r

(* No request is in flight initially.                                       *)
LEMMA LockHeldInit == Init => LockHeld
BY DEF Init, LockHeld, InFlight, InFlightSteps

(* A lock in use is taken away only by its time to live or a Redis restart. *)
LEMMA LockHeldStep ==
    ASSUME Without(UnlockingFaults), PipelineInv, LockHeld, [Next]_vars
    PROVE  LockHeld'
<1> USE DEF InFlight, InFlightSteps
<1>1. /\ lock \in [Users -> OrderIDs \cup {NoToken}]
      /\ pc \in [OrderIDs -> RequestSteps]
      /\ \A r \in OrderIDs : UserOf[r] \in Users
      /\ "slow_request" \notin Faults /\ "cache_flush" \notin Faults
  BY UserOfAssumption
  DEF PipelineInv, TypeOK, CacheTypeOK, Without, UnlockingFaults
<1>2. ASSUME UNCHANGED <<lock, pc>>
      PROVE  LockHeld'
  BY <1>2 DEF LockHeld
<1>3. ASSUME NEW r \in OrderIDs, LockUser(r)
      PROVE  LockHeld'
  BY <1>1, <1>3, NoTokenAssumption
  DEF LockUser, Goto, AcquireLock, LockHeld, cacheVars
<1>4. ASSUME NEW r \in OrderIDs,
             \/ Release(r)
             \/ LoadProduct(r) \/ Reserve(r) \/ Publish(r) \/ Restore(r) \/ ApiCrash(r)
      PROVE  LockHeld'
  <2>1. CASE Release(r)
    BY <1>1, <2>1, NoTokenAssumption DEF Release, Goto, ReleaseLock, LockHeld, cacheVars
  <2>2. CASE \/ LoadProduct(r) \/ Reserve(r) \/ Publish(r) \/ Restore(r) \/ ApiCrash(r)
    <3>1. /\ lock' = lock
          /\ \E next \in RequestSteps : Goto(r, next) /\ (next \in InFlightSteps => InFlight(r))
      BY <2>2
      DEF LoadProduct, Reserve, Publish, Restore, ApiCrash, cacheVars,
          DecrementStockAtomic, DecrementStockTwice, IncrementStock, RequestSteps, FinalSteps
    <3> QED
      BY <1>1, <3>1 DEF Goto, LockHeld
  <2> QED
    BY <1>4, <2>1, <2>2
<1>5. ASSUME NEW u \in Users, LockExpires(u)
      PROVE  LockHeld'
  BY <1>1, <1>5, NoTokenAssumption DEF LockExpires, ExpireLock, ServiceUnchanged, LockHeld
<1>6. CASE AdminNext
  BY <1>2, <1>6
  DEF AdminNext, InsertProduct, AutoPrewarm, CheckPrewarm, SetPrewarm, ResendPrewarm,
      SetStock, AdminUnchanged, PrewarmStock, cacheVars
<1>7. ASSUME NEW w \in Workers,
             \/ ReceiveOrderEvents(w) \/ WorkerCrash(w)
             \/ \E m \in Messages : TaskStep(w, m)
      PROVE  LockHeld'
  BY <1>2, <1>7
  DEF ReceiveOrderEvents, WorkerCrash, TaskStep, ProcessOrder, Notify, Acknowledge,
      WorkerUnchanged, cacheVars
<1>8. ASSUME NEW m \in Messages, VisibilityTimeout(m) \/ Redrive(m)
      PROVE  LockHeld'
  BY <1>2, <1>8 DEF VisibilityTimeout, Redrive, ServiceUnchanged, cacheVars
<1>9. CASE UNCHANGED vars
  BY <1>2, <1>9 DEF vars
<1>10. ~CacheLost
  BY <1>1 DEF CacheLost
<1> QED
  BY <1>3, <1>4, <1>5, <1>6, <1>7, <1>8, <1>9, <1>10 DEF Next, Terminated, RequestStep

(* Two requests of one user are never in flight together, provided the lock *)
(* outlives the request and Redis keeps it.                                 *)
THEOREM DoubleClickExcluded ==
    ASSUME Without(UnlockingFaults)
    PROVE  Spec => []OneRequestInFlight
<1>1. LockHeld => OneRequestInFlight
  BY DEF LockHeld, OneRequestInFlight
<1>2. PipelineInv /\ LockHeld /\ [Next]_vars => LockHeld'
  BY LockHeldStep
<1> QED
  BY <1>1, <1>2, LockHeldInit, PipelineInvariant, PTL DEF Spec

-----------------------------------------------------------------------------
(* The calls to Redis that leave a refused request its lock: a SETNX that   *)
(* took effect behind an error, and a ReleaseLock that failed.              *)
LockingFaults == {"cache_error", "cache_reply_lost", "cache_retried"}

(* A token in the lock is that of a request that got the lock and was not   *)
(* refused since.                                                           *)
TokenInUse ==
    \A r \in OrderIDs : lock[UserOf[r]] = r => pc[r] \notin {"idle", "lock", "rejected"}

(* No lock holds a token initially.                                         *)
LEMMA TokenInUseInit == Init => TokenInUse
BY UserOfAssumption, NoTokenAssumption DEF Init, CacheInit, TokenInUse

(* Only LockUser puts a token in, and the only way back to the answer that  *)
(* refuses goes through Release, which takes it out.                        *)
LEMMA TokenInUseStep ==
    ASSUME Without(LockingFaults), PipelineInv, TokenInUse, [Next]_vars
    PROVE  TokenInUse'
<1>1. /\ lock \in [Users -> OrderIDs \cup {NoToken}]
      /\ pc \in [OrderIDs -> RequestSteps]
      /\ \A r \in OrderIDs : UserOf[r] \in Users /\ r # NoToken
      /\ Faults \cap LockingFaults = {}
  BY UserOfAssumption, NoTokenAssumption DEF PipelineInv, TypeOK, CacheTypeOK, Without
<1>2. ASSUME pc' = pc,
             \A u \in Users : lock'[u] = lock[u] \/ lock'[u] = NoToken
      PROVE  TokenInUse'
  BY <1>1, <1>2 DEF TokenInUse
<1>3. ASSUME NEW r \in OrderIDs, LockUser(r)
      PROVE  TokenInUse'
  <2>1. PICK ok \in BOOLEAN : /\ AcquireLock(UserOf[r], r, ok)
                              /\ Goto(r, IF ok THEN "reserve" ELSE "rejected")
    BY <1>1, <1>3 DEF LockUser, LockingFaults
  <2>2. lock[UserOf[r]] # r
    BY <1>3 DEF LockUser, TokenInUse
  <2> QED
    BY <1>1, <2>1, <2>2 DEF AcquireLock, Goto, TokenInUse
<1>4. ASSUME NEW r \in OrderIDs, Release(r)
      PROVE  TokenInUse'
  <2>1. ReleaseLock(UserOf[r], r) /\ Goto(r, "rejected")
    BY <1>1, <1>4 DEF Release, LockingFaults
  <2> QED
    BY <1>1, <2>1 DEF ReleaseLock, Goto, TokenInUse
<1>5. ASSUME NEW r \in OrderIDs, LoadProduct(r)
      PROVE  TokenInUse'
  BY <1>1, <1>5 DEF LoadProduct, Goto, TokenInUse, cacheVars
<1>6. ASSUME NEW r \in OrderIDs, Reserve(r) \/ Publish(r) \/ Restore(r) \/ ApiCrash(r)
      PROVE  TokenInUse'
  <2>1. /\ lock' = lock
        /\ \E next \in RequestSteps \ {"idle", "lock", "rejected"} : Goto(r, next)
    BY <1>6
    DEF Reserve, Publish, Restore, ApiCrash, cacheVars, DecrementStockAtomic,
        DecrementStockTwice, IncrementStock, RequestSteps, InFlightSteps, FinalSteps
  <2> QED
    BY <1>1, <2>1 DEF Goto, TokenInUse
<1>7. CASE AdminNext
  <2>1. UNCHANGED <<lock, pc>>
    BY <1>7
    DEF AdminNext, InsertProduct, AutoPrewarm, CheckPrewarm, SetPrewarm,
        ResendPrewarm, SetStock, AdminUnchanged, PrewarmStock, cacheVars
  <2> QED
    BY <1>2, <2>1
<1>8. ASSUME NEW w \in Workers,
             \/ ReceiveOrderEvents(w) \/ WorkerCrash(w)
             \/ \E m \in Messages : TaskStep(w, m)
      PROVE  TokenInUse'
  BY <1>2, <1>8
  DEF ReceiveOrderEvents, WorkerCrash, TaskStep, ProcessOrder, Notify, Acknowledge,
      WorkerUnchanged, cacheVars
<1>9. ASSUME \/ \E u \in Users : LockExpires(u)
             \/ \E m \in Messages : VisibilityTimeout(m) \/ Redrive(m)
             \/ CacheLost
      PROVE  TokenInUse'
  <2>1. pc' = pc
    BY <1>9 DEF LockExpires, VisibilityTimeout, Redrive, CacheLost, ServiceUnchanged
  <2>2. \A u \in Users : lock'[u] = lock[u] \/ lock'[u] = NoToken
    BY <1>1, <1>9
    DEF LockExpires, ExpireLock, VisibilityTimeout, Redrive, CacheLost, FlushCache, cacheVars
  <2> QED
    BY <1>2, <2>1, <2>2
<1>10. CASE UNCHANGED vars
  BY <1>2, <1>10 DEF vars
<1> QED
  BY <1>3, <1>4, <1>5, <1>6, <1>7, <1>8, <1>9, <1>10 DEF Next, Terminated, RequestStep

(* A refused buyer is not locked out, however far the request had come and  *)
(* whatever the queue and the timers did, provided Redis answers what it is *)
(* asked: only an accepted order, or a process that died, leaves its token. *)
THEOREM RefusedBuyerMayRetry ==
    ASSUME Without(LockingFaults)
    PROVE  Spec => []RefusedMayRetry
<1>1. PipelineInv /\ TokenInUse /\ [Next]_vars => TokenInUse'
  BY TokenInUseStep
<1>2. TokenInUse => RefusedMayRetry
  BY DEF TokenInUse, RefusedMayRetry
<1> QED
  BY <1>1, <1>2, TokenInUseInit, PipelineInvariant, PTL DEF Spec

-----------------------------------------------------------------------------
(* A refused request.  Only Publish sends, and with an honest reply it then *)
(* goes on to the 202.                                                      *)
LEMMA RefusedInit == Init => RefusedNeverQueued
BY DEF Init, RefusedNeverQueued

(* Sent changes only for the request that publishes.                        *)
LEMMA SentOnlyByPublish ==
    ASSUME PipelineInv, [Next]_vars, NEW r \in OrderIDs, ~Publish(r)
    PROVE  Sent(r)' <=> Sent(r)
<1> SUFFICES ASSUME \E m \in CopiesOf(r) :
                       ~((queue'[m] = "none") <=> (queue[m] = "none"))
             PROVE  FALSE
  BY DEF Sent, CopiesOf
<1>1. QueueTypeOK
  BY DEF PipelineInv, TypeOK
<1>2. queue' # queue
  OBVIOUS
<1>3. ASSUME NEW s \in OrderIDs, Publish(s)
      PROVE  FALSE
  <2>1. s # r /\ \E copies \in Nat \ {0} : SendMessage(s, copies)
    BY <1>2, <1>3, QueueBoundsAssumption DEF Publish, queueVars
  <2> QED
    BY <1>1, <2>1, SendMessageSends DEF CopiesOf
<1>4. ASSUME NEW m \in Messages, NEW w \in Workers, Acknowledge(w, m)
      PROVE  FALSE
  BY <1>1, <1>2, <1>4, DeleteMessageDeletes DEF Acknowledge, CopiesOf, queueVars
<1>5. ASSUME \/ \E w \in Workers : ReceiveOrderEvents(w)
             \/ \E m \in Messages : VisibilityTimeout(m) \/ Redrive(m)
      PROVE  FALSE
  BY <1>1, <1>5, QueueKeepsMessages
  DEF ReceiveOrderEvents, VisibilityTimeout, Redrive, CopiesOf
<1>6. ASSUME \/ AdminNext
             \/ \E s \in OrderIDs : LoadProduct(s) \/ LockUser(s) \/ Reserve(s)
                                   \/ Restore(s) \/ Release(s) \/ ApiCrash(s)
      PROVE  queue' = queue
  BY <1>6
  DEF AdminNext, InsertProduct, AutoPrewarm, CheckPrewarm, SetPrewarm, ResendPrewarm,
      SetStock, AdminUnchanged, LoadProduct, LockUser, Reserve, Restore, Release,
      ApiCrash, queueVars
<1>7. ASSUME \/ \E w \in Workers : WorkerCrash(w)
             \/ \E w \in Workers, m \in Messages : ProcessOrder(w, m) \/ Notify(w, m)
             \/ \E u \in Users : LockExpires(u)
             \/ CacheLost
             \/ UNCHANGED vars
      PROVE  queue' = queue
  BY <1>7
  DEF WorkerCrash, ProcessOrder, Notify, LockExpires, CacheLost, queueVars, vars
<1> QED
  BY <1>2, <1>3, <1>4, <1>5, <1>6, <1>7 DEF Next, Terminated, RequestStep, TaskStep

(* Where a request can go in one step, Publish apart.                       *)
LEMMA RequestMoves ==
    ASSUME PipelineInv, [Next]_vars, NEW r \in OrderIDs, ~Publish(r)
    PROVE  \/ pc'[r] = pc[r]
           \/ pc'[r] = "release" /\ pc[r] \in {"reserve", "restore"}
           \/ pc'[r] = "rejected" /\ pc[r] \in {"idle", "lock", "release"}
           \/ pc'[r] \in {"lock", "reserve", "publish", "crashed"}
<1>1. pc \in [OrderIDs -> RequestSteps]
  BY DEF PipelineInv, TypeOK
<1>2. ASSUME NEW s \in OrderIDs, LoadProduct(s) \/ RequestStep(s) \/ ApiCrash(s)
      PROVE  \/ pc'[r] = pc[r]
             \/ pc'[r] = "release" /\ pc[r] \in {"reserve", "restore"}
             \/ pc'[r] = "rejected" /\ pc[r] \in {"idle", "lock", "release"}
             \/ pc'[r] \in {"lock", "reserve", "publish", "crashed"}
  <2>1. CASE s = r
    BY <1>1, <1>2, <2>1
    DEF LoadProduct, RequestStep, LockUser, Reserve, Restore, Release, ApiCrash, Goto
  <2>2. CASE s # r
    <3>1. \E next \in RequestSteps : Goto(s, next)
      BY <1>2
      DEF LoadProduct, RequestStep, LockUser, Reserve, Publish, Restore, Release, ApiCrash,
          RequestSteps, InFlightSteps, FinalSteps
    <3> QED
      BY <1>1, <2>2, <3>1 DEF Goto
  <2> QED
    BY <2>1, <2>2
<1>3. ASSUME ~\E s \in OrderIDs : LoadProduct(s) \/ RequestStep(s) \/ ApiCrash(s)
      PROVE  pc' = pc
  BY <1>3
  DEF Next, Terminated, vars, AdminNext, InsertProduct, AutoPrewarm, CheckPrewarm,
      SetPrewarm, ResendPrewarm, SetStock, AdminUnchanged, RequestStep,
      ReceiveOrderEvents, WorkerCrash, TaskStep, ProcessOrder, Notify, Acknowledge,
      WorkerUnchanged, LockExpires, VisibilityTimeout, Redrive, CacheLost,
      ServiceUnchanged
<1> QED
  BY <1>2, <1>3

(* A refused request has published nothing, or an honest error came back.   *)
LEMMA RefusedStep ==
    ASSUME Without({"queue_reply_lost"}), PipelineInv, RefusedNeverQueued, [Next]_vars
    PROVE  RefusedNeverQueued'
<1> SUFFICES ASSUME NEW r \in OrderIDs, pc'[r] \in {"restore", "release", "rejected"}
             PROVE  ~Sent(r)' /\ r \notin orders'
  BY DEF RefusedNeverQueued
<1>1. PipelineInv'
  BY PipelineStepInv
<1>2. SUFFICES ~Sent(r)'
  BY <1>1 DEF PipelineInv, SentInv
<1>3. CASE Publish(r)
  <2>1. UNCHANGED queueVars /\ pc[r] = "publish"
    BY <1>3 DEF Publish, Goto, Without, PipelineInv, TypeOK
  <2>2. ~Sent(r)
    BY <2>1 DEF PipelineInv, SentInv
  <2> QED
    BY <2>1, <2>2 DEF Sent, CopiesOf, queueVars
<1>4. CASE ~Publish(r)
  <2>1. ~Sent(r)
    BY <1>4, RequestMoves DEF RefusedNeverQueued, PipelineInv, SentInv
  <2> QED
    BY <1>4, <2>1, SentOnlyByPublish
<1> QED
  BY <1>3, <1>4

(* Stock is given back only for a request whose event is not in the queue,  *)
(* and a buyer who was refused is not charged later, provided the queue     *)
(* never fails a SendMessage it has accepted.                               *)
THEOREM RefusedStaysRefused ==
    ASSUME Without({"queue_reply_lost"})
    PROVE  Spec => []RefusedNeverQueued
<1>1. PipelineInv /\ RefusedNeverQueued /\ [Next]_vars => RefusedNeverQueued'
  BY RefusedStep
<1> QED
  BY <1>1, RefusedInit, PipelineInvariant, PTL DEF Spec
-----------------------------------------------------------------------------
(* The slack.  Outstanding gains a request when it reserves, loses it when  *)
(* it restores or crashes, and loses an order when it is sold; the stock on *)
(* either side moves by the same amount.                                    *)
LEMMA OutstandingType ==
    /\ Outstanding \in SUBSET OrderIDs
    /\ Total(Outstanding) \in Nat
<1>1. Outstanding \in SUBSET OrderIDs
  BY DEF Outstanding
<1> QED
  BY <1>1, TotalType

(* The slack is an integer, before and after a step.                        *)
LEMMA SlackType == TypeOK => Slack \in Int
BY OutstandingType DEF Slack, TypeOK, LedgerTypeOK, CacheTypeOK

(* The same for the state after a step.                                     *)
LEMMA SlackTypeNext ==
    ASSUME TypeOK'
    PROVE  Slack' \in Int
<1>1. Outstanding' \in SUBSET OrderIDs
  BY DEF Outstanding
<1>2. Slack' = dbStock' - cacheStock' - Total(Outstanding')
  BY DEF Slack, Total, Units
<1> QED
  BY <1>1, <1>2, TotalType DEF TypeOK, LedgerTypeOK, CacheTypeOK

(* Nothing moves on either side.                                            *)
LEMMA SlackUnchanged ==
    ASSUME UNCHANGED <<dbStock, cacheStock>>, Outstanding' = Outstanding
    PROVE  Slack' = Slack
<1>1. Total(Outstanding)' = Total(Outstanding)
  BY DEF Total, Units
<1> QED
  BY <1>1 DEF Slack

(* Redis or the outstanding orders lose something.                          *)
LEMMA SlackGrows ==
    ASSUME TypeOK, TypeOK', dbStock' = dbStock, cacheStock' <= cacheStock,
           Outstanding' \subseteq Outstanding
    PROVE  Slack' >= Slack
<1>1. Total(Outstanding') <= Total(Outstanding)
  BY OutstandingType, TotalMonotone
<1>2. Outstanding' \in SUBSET OrderIDs
  BY OutstandingType
<1>3. Total(Outstanding') \in Nat /\ Total(Outstanding) \in Nat
  BY <1>2, OutstandingType, TotalType
<1>4. Slack' = dbStock' - cacheStock' - Total(Outstanding')
  BY DEF Slack, Total, Units
<1> QED
  BY <1>1, <1>3, <1>4 DEF Slack, TypeOK, LedgerTypeOK, CacheTypeOK

(* Units move from Redis to a new outstanding order; a repeated script took *)
(* more than it reserved.                                                   *)
LEMMA SlackReserve ==
    ASSUME TypeOK, TypeOK', NEW r \in OrderIDs, ValidQuantity(r), r \notin Outstanding,
           Outstanding' = Outstanding \cup {r}, dbStock' = dbStock,
           cacheStock' <= cacheStock - Quantity[r]
    PROVE  /\ Slack' >= Slack
           /\ cacheStock' = cacheStock - Quantity[r] => Slack' = Slack
<1>1. Total(Outstanding') = Total(Outstanding) + Quantity[r]
  BY OutstandingType, TotalAdd
<1>2. Slack' = dbStock' - cacheStock' - Total(Outstanding')
  BY DEF Slack, Total, Units
<1>3. Quantity[r] \in Int
  BY QuantityAssumption
<1> QED
  BY <1>1, <1>2, <1>3, OutstandingType DEF Slack, TypeOK, LedgerTypeOK, CacheTypeOK

(* Units of an order that is outstanding no more go back to Redis, or out   *)
(* of the persistent stock.                                                 *)
LEMMA SlackSettle ==
    ASSUME TypeOK, TypeOK', NEW r \in Outstanding, ValidQuantity(r),
           Outstanding' = Outstanding \ {r},
           dbStock' - cacheStock' = dbStock - cacheStock - Quantity[r]
    PROVE  Slack' = Slack
<1>1. Total(Outstanding') = Total(Outstanding) - Quantity[r]
  BY OutstandingType, TotalRemove
<1>2. Slack' = dbStock' - cacheStock' - Total(Outstanding')
  BY DEF Slack, Total, Units
<1>3. Quantity[r] \in Int
  BY QuantityAssumption, OutstandingType
<1> QED
  BY <1>1, <1>2, <1>3, OutstandingType DEF Slack, TypeOK, LedgerTypeOK, CacheTypeOK

(* Whether a request holds a claim, had its order not been created.         *)
Reserved(r) == pc[r] \in {"publish", "restore"} \/ Sent(r)

(* What a request's step does to the slack, whatever fails: only a rollback *)
(* can make it smaller.                                                     *)
LEMMA RequestSlack ==
    ASSUME PipelineInv, PipelineInv', [Next]_vars,
           NEW r \in OrderIDs, LoadProduct(r) \/ RequestStep(r) \/ ApiCrash(r)
    PROVE  /\ Slack' >= Slack \/ (Restore(r) /\ Overpromises(r))
           /\ Without(LeakyFaults) /\ RefusedNeverQueued => Slack' = Slack
<1>1. /\ TypeOK /\ TypeOK' /\ Slack \in Int
      /\ pc \in [OrderIDs -> RequestSteps]
      /\ Quantity[r] \in Int
      /\ pc[r] \in RequestSteps \ {"idle", "rejected"} =>
            ValidQuantity(r) /\ Quantity[r] >= 1
      /\ r \in orders => Sent(r)
      /\ pc[r] \in {"idle", "lock", "reserve", "publish"} => ~Sent(r)
  BY SlackType, QuantityAssumption
  DEF PipelineInv, TypeOK, SentInv, ValidQuantity, MaxQuantity
<1>2. /\ UNCHANGED <<dbStock, orders>>
      /\ \E next \in RequestSteps : Goto(r, next)
  BY DEF LoadProduct, RequestStep, LockUser, Reserve, Publish, Restore, Release,
         ApiCrash, RequestUnchanged, ledgerVars, RequestSteps, InFlightSteps, FinalSteps
<1>3. \A s \in OrderIDs \ {r} : Reserved(s)' <=> Reserved(s)
  <2> TAKE s \in OrderIDs \ {r}
  <2>1. ~Publish(s)
    BY <1>1, <1>2 DEF Publish, Goto
  <2>2. Sent(s)' <=> Sent(s)
    BY <2>1, SentOnlyByPublish
  <2> QED
    BY <1>1, <1>2, <2>2 DEF Reserved, Goto
<1>4. ASSUME Reserved(r)' <=> Reserved(r)
      PROVE  Outstanding' = Outstanding
  BY <1>2, <1>3, <1>4 DEF Outstanding, Reserved
<1>5. ASSUME ~Publish(r), pc'[r] = pc[r] \/ {pc'[r], pc[r]} \cap {"publish", "restore"} = {}
      PROVE  Reserved(r)' <=> Reserved(r)
  <2>1. Sent(r)' <=> Sent(r)
    BY <1>5, SentOnlyByPublish
  <2> QED
    BY <1>5, <2>1 DEF Reserved
<1>6. CASE LoadProduct(r) \/ LockUser(r) \/ Release(r)
  <2>1. /\ ~Publish(r) /\ cacheStock' = cacheStock
        /\ {pc'[r], pc[r]} \cap {"publish", "restore"} = {}
    BY <1>1, <1>6
    DEF LoadProduct, LockUser, Release, Publish, Goto, AcquireLock, ReleaseLock, cacheVars
  <2> QED
    BY <1>1, <1>2, <1>4, <1>5, <2>1, SlackUnchanged
<1>7. CASE Reserve(r)
  <2>1. pc[r] = "reserve" /\ ~Publish(r) /\ ~Reserved(r) /\ ~Sent(r)'
    BY <1>1, <1>7, SentOnlyByPublish DEF Reserve, Publish, Reserved
  <2>2. CASE pc'[r] = "publish"
    <3>1. /\ cacheStock' <= cacheStock - Quantity[r]
          /\ Without(LeakyFaults) => cacheStock' = cacheStock - Quantity[r]
      BY <1>1, <1>7, <2>2
      DEF Reserve, Goto, DecrementStockAtomic, DecrementStockTwice, AfterDecrement,
          Without, LeakyFaults, TypeOK, CacheTypeOK
    <3>2. r \notin Outstanding /\ Outstanding' = Outstanding \cup {r}
      BY <1>1, <1>2, <1>3, <2>1, <2>2 DEF Outstanding, Reserved
    <3> QED
      BY <1>1, <1>2, <2>1, <3>1, <3>2, SlackReserve
      DEF RequestSteps, InFlightSteps
  <2>3. CASE pc'[r] = "release"
    <3>1. /\ cacheStock' <= cacheStock
          /\ Without(LeakyFaults) => cacheStock' = cacheStock
      BY <1>1, <1>7, <2>1, <2>3
      DEF Reserve, Goto, DecrementStockAtomic, DecrementStockTwice, AfterDecrement,
          Without, LeakyFaults, TypeOK, CacheTypeOK, cacheVars, RequestSteps, InFlightSteps
    <3>2. Outstanding' = Outstanding
      BY <1>4, <1>5, <2>1, <2>3
    <3> QED
      BY <1>1, <1>2, <3>1, <3>2, SlackGrows, SlackUnchanged
  <2> QED
    BY <1>1, <1>7, <2>2, <2>3 DEF Reserve, Goto
<1>8. CASE Publish(r)
  <2>1. /\ cacheStock' = cacheStock /\ pc[r] = "publish"
        /\ \/ pc'[r] = "restore"
           \/ pc'[r] = "accepted"
    BY <1>1, <1>8 DEF Publish, Goto, cacheVars
  <2>2. Reserved(r) /\ Reserved(r)'
    BY <2>1 DEF Reserved, PipelineInv, SentInv
  <2> QED
    BY <1>1, <1>2, <1>4, <2>1, <2>2, SlackUnchanged
<1>9. CASE Restore(r)
  <2>1. /\ pc[r] = "restore" /\ pc'[r] = "release" /\ ~Publish(r)
        /\ cacheStock' \in {cacheStock, cacheStock + Quantity[r], cacheStock + 2 * Quantity[r]}
        /\ Without(LeakyFaults) => cacheStock' = cacheStock + Quantity[r]
    BY <1>1, <1>9
    DEF Restore, Publish, Goto, IncrementStock, Without, LeakyFaults, cacheVars
  <2>2. Quantity[r] >= 1 /\ ValidQuantity(r)
    BY <1>1, <2>1 DEF RequestSteps, InFlightSteps
  <2>3. CASE Sent(r)
    BY <1>9, <2>1, <2>3 DEF Overpromises, RefusedNeverQueued
  <2>4. ASSUME ~Sent(r)
        PROVE  r \in Outstanding /\ Outstanding' = Outstanding \ {r}
    <3>1. ~Sent(r)'
      BY <2>1, <2>4, SentOnlyByPublish
    <3> QED
      BY <1>1, <1>2, <1>3, <2>1, <2>4, <3>1 DEF Outstanding, Reserved
  <2>5. ASSUME ~Sent(r), cacheStock' = cacheStock + Quantity[r]
        PROVE  Slack' = Slack
    <3>1. dbStock' - cacheStock' = dbStock - cacheStock - Quantity[r]
      BY <1>1, <1>2, <2>5 DEF TypeOK, LedgerTypeOK, CacheTypeOK
    <3> QED
      BY <1>1, <2>2, <2>4, <2>5, <3>1, SlackSettle
  <2>6. ASSUME ~Sent(r), cacheStock' = cacheStock
        PROVE  Slack' >= Slack
    BY <1>1, <1>2, <2>4, <2>6, SlackGrows DEF TypeOK, CacheTypeOK
  <2>7. ASSUME cacheStock' = cacheStock + 2 * Quantity[r]
        PROVE  Overpromises(r)
    BY <1>1, <2>1, <2>2, <2>7 DEF Overpromises, TypeOK, CacheTypeOK
  <2> QED
    BY <1>1, <1>9, <2>1, <2>3, <2>5, <2>6, <2>7
<1>10. CASE ApiCrash(r)
  <2>1. /\ ~Without(LeakyFaults) /\ ~Publish(r) /\ cacheStock' = cacheStock
        /\ pc'[r] = "crashed"
    BY <1>1, <1>10 DEF ApiCrash, Publish, Goto, Without, LeakyFaults, cacheVars
  <2>2. Outstanding' \subseteq Outstanding
    BY <1>2, <1>3, <2>1, SentOnlyByPublish DEF Outstanding, Reserved
  <2> QED
    BY <1>1, <1>2, <2>1, <2>2, SlackGrows DEF TypeOK, CacheTypeOK
<1> QED
  BY <1>6, <1>7, <1>8, <1>9, <1>10 DEF RequestStep
(* What a worker's step does to the slack: the transaction takes an order's *)
(* units from the stock and its claim away, everything else leaves both.    *)
LEMMA WorkerSlack ==
    ASSUME PipelineInv, PipelineInv', [Next]_vars,
           NEW w \in Workers,
           \/ ReceiveOrderEvents(w) \/ WorkerCrash(w)
           \/ \E m \in Messages : TaskStep(w, m)
    PROVE  Slack' = Slack
<1>1. /\ TypeOK /\ TypeOK' /\ UNCHANGED <<cacheStock, pc>>
      /\ \A r \in OrderIDs : ~Publish(r)
  <2>1. TypeOK /\ TypeOK' /\ UNCHANGED <<cacheStock, pc>>
    BY DEF PipelineInv, ReceiveOrderEvents, WorkerCrash, TaskStep, ProcessOrder, Notify,
           Acknowledge, WorkerUnchanged, cacheVars
  <2> QED
    BY <2>1 DEF Publish, Goto, TypeOK
<1>2. \A r \in OrderIDs : Sent(r)' <=> Sent(r)
  BY <1>1, SentOnlyByPublish
<1>3. CASE UNCHANGED ledgerVars
  BY <1>1, <1>2, <1>3, SlackUnchanged DEF Outstanding, ledgerVars
<1>4. ASSUME NEW m \in Messages, Fulfil(OrderOf(m)), task[w][m] = "handle"
      PROVE  Slack' = Slack
  <2> DEFINE o == OrderOf(m)
  <2>1. o \in OrderIDs /\ Sent(o) /\ ValidQuantity(o)
    BY <1>4, MessageOrder
    DEF PipelineInv, WorkInv, SentInv, Sent, CopiesOf
  <2>2. o \in Outstanding /\ Outstanding' = Outstanding \ {o}
    BY <1>1, <1>2, <1>4, <2>1 DEF Fulfil, CanFulfil, Outstanding
  <2>3. Quantity[o] \in Int
    BY <2>1, QuantityAssumption
  <2>4. dbStock' - cacheStock' = dbStock - cacheStock - Quantity[o]
    BY <1>1, <1>4, <2>3 DEF Fulfil, TypeOK, LedgerTypeOK, CacheTypeOK
  <2> HIDE DEF o
  <2> QED
    BY <1>1, <2>1, <2>2, <2>4, SlackSettle
<1> QED
  BY <1>3, <1>4 DEF ReceiveOrderEvents, WorkerCrash, TaskStep, ProcessOrder, Notify,
                    Acknowledge

(* The timers touch neither side; losing Redis empties one.                 *)
LEMMA ServiceSlack ==
    ASSUME PipelineInv, PipelineInv', [Next]_vars,
           \/ \E u \in Users : LockExpires(u)
           \/ \E m \in Messages : VisibilityTimeout(m) \/ Redrive(m)
           \/ CacheLost
    PROVE  /\ Slack' >= Slack
           /\ Without(LeakyFaults) => Slack' = Slack
<1>1. /\ TypeOK /\ TypeOK' /\ UNCHANGED <<dbStock, orders, pc>>
      /\ \/ cacheStock' = cacheStock
         \/ cacheStock' = 0 /\ ~Without(LeakyFaults)
  BY DEF PipelineInv, LockExpires, ExpireLock, VisibilityTimeout, Redrive, CacheLost,
         FlushCache, ServiceUnchanged, cacheVars, ledgerVars, Without, LeakyFaults
<1>2. \A r \in OrderIDs : ~Publish(r)
  BY <1>1 DEF Publish, Goto, TypeOK
<1>3. Outstanding' = Outstanding
  BY <1>1, <1>2, SentOnlyByPublish DEF Outstanding
<1>4. cacheStock' <= cacheStock
  BY <1>1 DEF TypeOK, CacheTypeOK
<1> QED
  BY <1>1, <1>3, <1>4, SlackGrows, SlackUnchanged, SlackType

(* Together: apart from the administrator and a rollback nothing makes the  *)
(* slack smaller, and only a lossy fault makes it larger.                   *)
LEMMA SlackStep ==
    ASSUME PipelineInv, [Next]_vars, ~AdminNext
    PROVE  /\ Slack' >= Slack \/ (\E r \in OrderIDs : Restore(r) /\ Overpromises(r))
           /\ Without(LeakyFaults) /\ RefusedNeverQueued => Slack' = Slack
<1>1. PipelineInv'
  BY PipelineStepInv
<1>2. CASE UNCHANGED vars
  <2>1. Slack' = Slack
    BY <1>2, SlackUnchanged DEF vars, Outstanding, Sent, CopiesOf
  <2> QED
    BY <2>1, SlackType DEF PipelineInv
<1>3. ASSUME NEW r \in OrderIDs, LoadProduct(r) \/ RequestStep(r) \/ ApiCrash(r)
      PROVE  /\ Slack' >= Slack \/ (Restore(r) /\ Overpromises(r))
             /\ Without(LeakyFaults) /\ RefusedNeverQueued => Slack' = Slack
  BY <1>1, <1>3, RequestSlack
<1>4. ASSUME NEW w \in Workers,
             \/ ReceiveOrderEvents(w) \/ WorkerCrash(w)
             \/ \E m \in Messages : TaskStep(w, m)
      PROVE  Slack' >= Slack /\ Slack' = Slack
  <2>1. Slack' = Slack
    BY <1>1, <1>4, WorkerSlack
  <2> QED
    BY <2>1, SlackType DEF PipelineInv
<1>5. ASSUME \/ \E u \in Users : LockExpires(u)
             \/ \E m \in Messages : VisibilityTimeout(m) \/ Redrive(m)
             \/ CacheLost
      PROVE  /\ Slack' >= Slack
             /\ Without(LeakyFaults) => Slack' = Slack
  BY <1>1, <1>5, ServiceSlack
<1> QED
  BY <1>2, <1>3, <1>4, <1>5 DEF Next, Terminated

(* A rollback returns no more than was taken when SendMessage's errors are  *)
(* true and no INCRBY is repeated.                                          *)
LEMMA SlackNeverFalls ==
    ASSUME Without({"queue_reply_lost", "restore_retried"}), PipelineInv,
           RefusedNeverQueued, [Next]_vars, ~AdminNext
    PROVE  Slack' >= Slack
<1>1. ASSUME NEW r \in OrderIDs, Restore(r), Overpromises(r)
      PROVE  FALSE
  <2>1. pc[r] = "restore" /\ ~Sent(r)
    BY <1>1 DEF Restore, RefusedNeverQueued
  <2>2. ValidQuantity(r) /\ Quantity[r] \in Nat /\ cacheStock \in Nat
    BY <2>1, QuantityAssumption
    DEF PipelineInv, SentInv, TypeOK, CacheTypeOK, ValidQuantity, MaxQuantity, RequestSteps,
        InFlightSteps
  <2>3. cacheStock' \in {cacheStock, cacheStock + Quantity[r]}
    BY <1>1, <2>2 DEF Restore, IncrementStock, Without, cacheVars
  <2> QED
    BY <1>1, <2>1, <2>2, <2>3 DEF Overpromises
<1> QED
  BY <1>1, SlackStep

(* The administrator always moves on in the catalog.                        *)
LEMMA AdminMovesOn == AdminNext => catalog' # catalog
BY DEF AdminNext, InsertProduct, CreateProduct, AutoPrewarm, CheckPrewarm, SetPrewarm,
       ResendPrewarm, SetStock

(* Under every fault the model knows, and any number of them: units are     *)
(* promised twice only where a SET overwrites the counter and where a       *)
(* rollback returns what its order keeps, or returns it twice.              *)
THEOREM OverpromisedOnlyThere == Spec => OverpromisedOnlyByRollback
<1>1. PipelineInv /\ [Next]_vars
        => [Slack' < Slack => \/ catalog' # catalog
                             \/ \E r \in OrderIDs : Overpromises(r)]_vars
  <2> SUFFICES ASSUME PipelineInv, [Next]_vars, Slack' < Slack, ~AdminNext
               PROVE  \E r \in OrderIDs : Overpromises(r)
    BY AdminMovesOn
  <2>1. Slack \in Int /\ Slack' \in Int
    BY PipelineStepInv, SlackType, SlackTypeNext DEF PipelineInv
  <2> QED
    BY <2>1, SlackStep
<1> QED
  BY <1>1, PipelineInvariant, PTL DEF Spec, OverpromisedOnlyByRollback

(* No unit leaks from the sale, and none is invented, while no fault loses  *)
(* a request or a call to Redis.                                            *)
THEOREM UnitsNeverLeak ==
    ASSUME Without(LeakyFaults)
    PROVE  Spec => NoUnitLeaks
<1>1. Without({"queue_reply_lost"})
  BY DEF Without, LeakyFaults
<1>2. PipelineInv /\ RefusedNeverQueued /\ [Next]_vars
        => [catalog' = catalog => Slack' = Slack]_vars
  BY SlackStep, AdminMovesOn
<1>3. Spec => []RefusedNeverQueued
  BY <1>1, RefusedStaysRefused
<1> QED
  BY <1>2, <1>3, PipelineInvariant, PTL DEF Spec, NoUnitLeaks

-----------------------------------------------------------------------------
(* Where the administrator is.  Before the product is prewarmed nothing is  *)
(* reserved; what a prewarming has checked stays true until its SET, which  *)
(* is sent once.                                                            *)
StageInv ==
    /\ catalog # "resending"
    /\ catalog = "empty" <=> product = "absent"
    /\ catalog \in {"empty", "inserted"} => cacheStock = 0 /\ Outstanding = {}
    /\ catalog = "inserted" => dbStock = InitialStock
    /\ catalog = "checked" => amount <= dbStock /\ Outstanding = {} /\ BeforeSale

BackedInv == PipelineInv /\ RefusedNeverQueued /\ StageInv /\ ReservationsBacked

(* Nothing is reserved or on sale initially.                                *)
LEMMA BackedInit == Init => BackedInv
<1> SUFFICES ASSUME Init
             PROVE  BackedInv
  OBVIOUS
<1>1. PipelineInv /\ RefusedNeverQueued
  BY PipelineInitInv, RefusedInit
<1>2. Outstanding = {}
  BY DEF Init, LedgerInit, QueueInit, Outstanding, Sent, CopiesOf
<1>3. StageInv
  BY <1>2 DEF Init, LedgerInit, CacheInit, StageInv
<1>4. Slack = 0
  BY <1>2, TotalEmpty DEF Init, LedgerInit, CacheInit, Slack
<1> QED
  BY <1>1, <1>3, <1>4 DEF BackedInv, ReservationsBacked

(* The administrator's steps, before the sale or not.                       *)
LEMMA AdminBacked ==
    ASSUME Without(UnsafeFaults), BackedInv, PipelineInv', AdminNext
    PROVE  StageInv' /\ ReservationsBacked'
<1>1. /\ TypeOK /\ TypeOK' /\ StageInv /\ Slack >= 0 /\ "late_prewarm" \notin Faults
      /\ "prewarm_retried" \notin Faults
      /\ InitialStock \in Nat
  BY InitialStockAssumption
  DEF BackedInv, PipelineInv, ReservationsBacked, Without, UnsafeFaults
<1>2. UNCHANGED <<queue, pc, orders>> /\ Outstanding' = Outstanding
  BY DEF AdminNext, InsertProduct, CreateProduct, AutoPrewarm, CheckPrewarm,
         SetPrewarm, ResendPrewarm, SetStock, AdminUnchanged, queueVars, ledgerVars,
         Outstanding, Sent, CopiesOf
<1>3. BeforeSale => Outstanding = {}
  BY DEF BeforeSale, Outstanding, BackedInv, PipelineInv, SentInv
<1>4. BeforeSale' <=> BeforeSale
  BY <1>2 DEF BeforeSale
<1>5. ASSUME Outstanding = {}, cacheStock' <= dbStock'
      PROVE  ReservationsBacked'
  <2>1. Slack' = dbStock' - cacheStock' - Total({})
    BY <1>2, <1>5 DEF Slack, Total, Units
  <2> QED
    BY <1>1, <1>5, <2>1, TotalEmpty
    DEF ReservationsBacked, TypeOK, LedgerTypeOK, CacheTypeOK
<1>6. CASE InsertProduct
  BY <1>1, <1>2, <1>5, <1>6
  DEF InsertProduct, CreateProduct, StageInv, cacheVars, TypeOK, LedgerTypeOK
<1>7. CASE AutoPrewarm
  BY <1>1, <1>2, <1>5, <1>7
  DEF AutoPrewarm, SetStock, PrewarmStock, StageInv, cacheVars, ledgerVars
<1>8. CASE \E n \in 0..InitialStock : CheckPrewarm(n)
  <2>1. /\ catalog = "ready" /\ catalog' = "checked" /\ amount' <= dbStock /\ BeforeSale
        /\ UNCHANGED <<product, dbStock, cacheStock>>
    BY <1>1, <1>8 DEF CheckPrewarm, ledgerVars, cacheVars
  <2>2. Slack' = Slack
    BY <1>2, <2>1, SlackUnchanged
  <2> QED
    BY <1>1, <1>2, <1>3, <1>4, <2>1, <2>2 DEF StageInv, ReservationsBacked
<1>9. CASE SetPrewarm
  <2>1. /\ catalog = "checked" /\ catalog' = "ready"
        /\ UNCHANGED <<product, dbStock>>
        /\ cacheStock' \in {amount, cacheStock}
    BY <1>1, <1>9 DEF SetPrewarm, SetStock, PrewarmStock, ledgerVars, cacheVars
  <2>2. StageInv'
    BY <1>1, <2>1 DEF StageInv
  <2>3. CASE cacheStock' = amount
    BY <1>1, <1>5, <2>1, <2>2, <2>3 DEF StageInv
  <2>4. CASE cacheStock' = cacheStock
    BY <1>1, <1>2, <2>1, <2>2, <2>4, SlackUnchanged DEF ReservationsBacked
  <2> QED
    BY <2>1, <2>2, <2>3, <2>4
<1>10. ~ResendPrewarm
  BY <1>1 DEF ResendPrewarm, StageInv
<1> QED
  BY <1>6, <1>7, <1>8, <1>9, <1>10 DEF AdminNext

(* The others cannot reserve before there is stock, and cannot arrive       *)
(* between a prewarming's check and its SET.                                *)
LEMMA StageKept ==
    ASSUME Without(UnsafeFaults), BackedInv, PipelineInv', [Next]_vars, ~AdminNext
    PROVE  StageInv'
<1>1. /\ UNCHANGED <<catalog, amount>>
      /\ (product' = "absent") <=> (product = "absent")
  BY DEF Next, Terminated, vars, RequestStep, LoadProduct, LockUser, Reserve, Publish,
         Restore, Release, ApiCrash, RequestUnchanged, ReceiveOrderEvents, WorkerCrash,
         TaskStep, ProcessOrder, Notify, Acknowledge, WorkerUnchanged, LockExpires,
         VisibilityTimeout, Redrive, CacheLost, ServiceUnchanged, ledgerVars, Fulfil
<1>2. /\ TypeOK /\ StageInv /\ SentInv /\ WorkInv /\ "late_prewarm" \notin Faults
      /\ pc \in [OrderIDs -> RequestSteps]
  BY DEF BackedInv, PipelineInv, TypeOK, Without, UnsafeFaults
<1>3. ASSUME catalog \in {"empty", "inserted", "checked"}
      PROVE  /\ dbStock' = dbStock /\ orders' = orders
             /\ \A r \in OrderIDs : r \notin orders => ~Sent(r)
             /\ \A r \in OrderIDs : pc[r] \notin {"publish", "restore"} \/ r \in orders
  <2>1. \A r \in OrderIDs : r \notin orders =>
          ~Sent(r) /\ pc[r] \notin {"publish", "restore"}
    BY <1>2, <1>3 DEF StageInv, Outstanding
  <2>2. ASSUME NEW w \in Workers, NEW m \in Messages, task[w][m] = "handle",
               Fulfil(OrderOf(m))
        PROVE  FALSE
    BY <1>2, <2>1, <2>2, MessageOrder DEF WorkInv, Sent, CopiesOf, Fulfil, CanFulfil
  <2>3. UNCHANGED ledgerVars
    BY <2>2
    DEF Next, Terminated, vars, RequestStep, LoadProduct, LockUser, Reserve, Publish,
        Restore, Release, ApiCrash, RequestUnchanged, ReceiveOrderEvents, WorkerCrash,
        TaskStep, ProcessOrder, Notify, Acknowledge, LockExpires,
        VisibilityTimeout, Redrive, CacheLost, ServiceUnchanged, ledgerVars
  <2> QED
    BY <2>1, <2>3 DEF ledgerVars
<1>4. ASSUME catalog \in {"empty", "inserted"}
      PROVE  cacheStock' = 0 /\ Outstanding' = {}
  <2>1. cacheStock = 0 /\ Outstanding = {}
    BY <1>2, <1>4 DEF StageInv
  <2>2. \A r \in OrderIDs : pc[r] # "idle" => pc[r] \notin {"publish", "restore"} \/ r \in orders
    BY <1>3, <1>4
  <2>3. \A r \in OrderIDs : ~Publish(r) /\ ~Restore(r)
    BY <1>2, <2>1 DEF Publish, Restore, Outstanding, SentInv, BackedInv, RefusedNeverQueued
  <2>4. cacheStock' = 0 /\ \A r \in OrderIDs : pc'[r] \in {"publish", "restore"} => pc'[r] = pc[r]
    <3>1. ASSUME NEW r \in OrderIDs,
                 LoadProduct(r) \/ LockUser(r) \/ Reserve(r) \/ Release(r) \/ ApiCrash(r)
          PROVE  /\ cacheStock' = 0
                 /\ pc'[r] \notin {"publish", "restore"}
                 /\ \A s \in OrderIDs \ {r} : pc'[s] = pc[s]
      <4>1. CASE Reserve(r)
        <5>1. Quantity[r] \in Int /\ Quantity[r] >= 1
          BY <1>2, <4>1, QuantityAssumption
          DEF Reserve, SentInv, ValidQuantity, MaxQuantity, RequestSteps, InFlightSteps
        <5> QED
          BY <1>2, <2>1, <4>1, <5>1
          DEF Reserve, Goto, DecrementStockAtomic, DecrementStockTwice, AfterDecrement,
              cacheVars
      <4> QED
        BY <1>2, <2>1, <3>1, <4>1
        DEF LoadProduct, LockUser, Release, ApiCrash, Goto, AcquireLock, ReleaseLock,
            cacheVars
    <3>2. ASSUME ~\E r \in OrderIDs :
                    LoadProduct(r) \/ LockUser(r) \/ Reserve(r) \/ Release(r) \/ ApiCrash(r)
          PROVE  cacheStock' = 0 /\ pc' = pc
      BY <2>1, <2>3, <3>2
      DEF Next, Terminated, vars, RequestStep, ReceiveOrderEvents, WorkerCrash, TaskStep,
          ProcessOrder, Notify, Acknowledge, WorkerUnchanged, LockExpires, ExpireLock,
          VisibilityTimeout, Redrive, CacheLost, FlushCache, ServiceUnchanged, cacheVars
    <3> QED
      BY <3>1, <3>2
  <2>5. \A r \in OrderIDs : Sent(r)' <=> Sent(r)
    BY <1>2, <2>3, SentOnlyByPublish DEF BackedInv
  <2> QED
    BY <1>3, <1>4, <2>4, <2>5 DEF Outstanding
<1>5. ASSUME catalog = "checked"
      PROVE  Outstanding' = {} /\ BeforeSale'
  <2>1. \A r \in OrderIDs : pc[r] = "idle"
    BY <1>2, <1>5 DEF StageInv, BeforeSale
  <2>2. pc' = pc
    BY <1>2, <1>5, <2>1
    DEF Next, Terminated, vars, LoadProduct, RequestStep, LockUser, Reserve, Publish,
        Restore, Release, ApiCrash, InFlightSteps, ReceiveOrderEvents, WorkerCrash,
        TaskStep, ProcessOrder, Notify, Acknowledge, WorkerUnchanged, LockExpires,
        VisibilityTimeout, Redrive, CacheLost, ServiceUnchanged
  <2>3. \A r \in OrderIDs : ~Publish(r)
    BY <2>1 DEF Publish
  <2>4. \A r \in OrderIDs : Sent(r)' <=> Sent(r)
    BY <2>3, SentOnlyByPublish DEF BackedInv
  <2> QED
    BY <1>3, <1>5, <2>1, <2>2, <2>4 DEF Outstanding, BeforeSale
<1> QED
  BY <1>1, <1>2, <1>3, <1>4, <1>5 DEF StageInv

(* No step makes the reservations exceed the persistent stock.              *)
LEMMA BackedStep ==
    ASSUME Without(UnsafeFaults), BackedInv, [Next]_vars
    PROVE  BackedInv'
<1>1. /\ Without({"queue_reply_lost", "restore_retried"})
      /\ Without({"queue_reply_lost"})
  BY DEF Without, UnsafeFaults
<1>2. PipelineInv' /\ RefusedNeverQueued'
  BY <1>1, PipelineStepInv, RefusedStep DEF BackedInv
<1>3. CASE AdminNext
  BY <1>2, <1>3, AdminBacked DEF BackedInv
<1>4. CASE ~AdminNext
  <2>1. Slack' >= Slack /\ Slack >= 0
    BY <1>1, <1>4, SlackNeverFalls DEF BackedInv, ReservationsBacked
  <2>2. Slack \in Int /\ Slack' \in Int
    BY <1>2, SlackType, SlackTypeNext DEF BackedInv, PipelineInv
  <2>3. ReservationsBacked'
    BY <2>1, <2>2 DEF ReservationsBacked
  <2> QED
    BY <1>2, <1>4, <2>3, StageKept DEF BackedInv
<1> QED
  BY <1>3, <1>4

(* No overselling: the persistent stock always covers what Redis may still  *)
(* hand out and every order promised, for any number of buyers and whatever *)
(* fails, as long as no SendMessage takes effect behind an error, Redis's   *)
(* client repeats neither an INCRBY nor a prewarming SET, and nobody        *)
(* prewarms while the sale runs.                                            *)
THEOREM NeverOversold ==
    ASSUME Without(UnsafeFaults)
    PROVE  Spec => []ReservationsBacked
<1>1. BackedInv /\ [Next]_vars => BackedInv'
  BY BackedStep
<1>2. BackedInv => ReservationsBacked
  BY DEF BackedInv
<1> QED
  BY <1>1, <1>2, BackedInit, PTL DEF Spec

(* What the account comes down to for one order: its own units are among    *)
(* those the persistent stock covers.                                       *)
LEMMA BackedCanBeSold == BackedInv => AcceptedCanBeSold
<1> SUFFICES ASSUME BackedInv, NEW r \in OrderIDs \ orders, Sent(r)
             PROVE  CanFulfil(r)
  BY DEF AcceptedCanBeSold
<1>1. TypeOK /\ ValidQuantity(r) /\ StageInv /\ Slack >= 0
  BY DEF BackedInv, PipelineInv, SentInv, ReservationsBacked
<1>2. r \in Outstanding
  BY DEF Outstanding
<1>3. product # "absent"
  BY <1>1, <1>2 DEF StageInv
<1>4. Total({r}) = Quantity[r] /\ Total({r}) <= Total(Outstanding)
  BY <1>1, <1>2, OutstandingType, TotalSingleton, TotalMonotone
<1>5. dbStock >= Quantity[r]
  BY <1>1, <1>4, OutstandingType, QuantityAssumption
  DEF Slack, TypeOK, LedgerTypeOK, CacheTypeOK
<1> QED
  BY <1>1, <1>3, <1>5 DEF CanFulfil

(* No accepted order meets "insufficient MongoDB stock", for any number of  *)
(* rivals, workers and copies of its event, as long as no unit is promised  *)
(* twice: a worker that has its event may always create it.                 *)
THEOREM AcceptedAlwaysCanBeSold ==
    ASSUME Without(UnsafeFaults)
    PROVE  Spec => []AcceptedCanBeSold
<1>1. BackedInv /\ [Next]_vars => BackedInv'
  BY BackedStep
<1> QED
  BY <1>1, BackedCanBeSold, BackedInit, PTL DEF Spec

(* Redis offers no more than the persistent stock, unless a SET overwrites  *)
(* the counter while the sale runs (an administrator's, or one that the     *)
(* Redis client repeats) or a rollback promises a unit twice: the complement*)
(* of what PrewarmStock's comparison is there for.                          *)
THEOREM CacheStaysWithinStock ==
    ASSUME Without(UnsafeFaults)
    PROVE  Spec => []CacheWithinStock
<1>1. BackedInv /\ [Next]_vars => BackedInv'
  BY BackedStep
<1>2. BackedInv => CacheWithinStock
  BY OutstandingType
  DEF BackedInv, PipelineInv, ReservationsBacked, Slack, CacheWithinStock, TypeOK,
      LedgerTypeOK, CacheTypeOK
<1> QED
  BY <1>1, <1>2, BackedInit, PTL DEF Spec

-----------------------------------------------------------------------------
(* A sale in which every delivery reaches a handler, and no handler fails.  *)
DeliveryFaults ==
    {"receive_lost", "ack_lost", "slow_handler", "worker_crash", "db_error", "db_reply_lost"}

(* A message is received once, and is in hand until it is deleted.          *)
ReceivedOnce ==
    \A m \in Messages :
        /\ queue[m] \in {"none", "ready"} => receives[m] = 0
        /\ queue[m] = "hidden" => InHand(m)
        /\ queue[m] # "dead"

(* The queue is empty initially.                                            *)
LEMMA ReceivedOnceInit == Init => ReceivedOnce
BY DEF Init, QueueInit, ReceivedOnce

(* Nothing makes a handler give up: what it has in hand can be sold.        *)
LEMMA ReceivedOnceStep ==
    ASSUME Without(DeliveryFaults), BackedInv, ReceivedOnce, [Next]_vars
    PROVE  ReceivedOnce'
<1>1. /\ queue \in [Messages -> MessageStates]
      /\ receives \in [Messages -> 0..MaxReceive]
      /\ task \in [Workers -> [Messages -> TaskSteps]]
      /\ Faults \cap DeliveryFaults = {}
      /\ QueueTypeOK /\ PipelineInv
  BY DEF BackedInv, PipelineInv, TypeOK, QueueTypeOK, Without
<1>2. ASSUME UNCHANGED <<queue, receives, task>>
      PROVE  ReceivedOnce'
  BY <1>2 DEF ReceivedOnce, InHand
<1>3. ASSUME NEW r \in OrderIDs, Publish(r)
      PROVE  ReceivedOnce'
  <2>1. UNCHANGED <<task, receives>>
    BY <1>3 DEF Publish, RequestUnchanged, SendMessage, queueVars
  <2>2. \A m \in Messages : OrderOf(m) = r => queue[m] = "none"
    BY <1>1, <1>3 DEF Publish, PipelineInv, SentInv, Sent, CopiesOf
  <2>3. \A m \in Messages : /\ OrderOf(m) # r => queue'[m] = queue[m]
                            /\ queue'[m] \in {queue[m], "ready"}
    BY <1>1, <1>3, QueueBoundsAssumption, SendMessageSends DEF Publish, queueVars
  <2> QED
    BY <2>1, <2>2, <2>3 DEF ReceivedOnce, InHand
<1>4. ASSUME NEW w \in Workers, ReceiveOrderEvents(w)
      PROVE  ReceivedOnce'
  <2>1. PICK batch \in SUBSET Messages :
           /\ ReceiveMessage(batch)
           /\ task' = [task EXCEPT ![w] =
                          [m \in Messages |-> IF m \in batch THEN "handle" ELSE "none"]]
    BY <1>1, <1>4 DEF ReceiveOrderEvents, DeliveryFaults
  <2>2. /\ \A m \in batch : queue'[m] = "hidden"
        /\ \A m \in Messages \ batch : queue'[m] = queue[m] /\ receives'[m] = receives[m]
    BY <2>1 DEF ReceiveMessage
  <2>3. /\ \A m \in Messages : task'[w][m] = IF m \in batch THEN "handle" ELSE "none"
        /\ \A v \in Workers \ {w} : task'[v] = task[v]
        /\ \A m \in Messages : task[w][m] = "none"
    BY <1>1, <1>4, <2>1 DEF ReceiveOrderEvents, Busy
  <2>4. \A m \in Messages : InHand(m) \/ m \in batch => InHand(m)'
    BY <2>3 DEF InHand
  <2> QED
    BY <2>2, <2>4 DEF ReceivedOnce
<1>5. ASSUME NEW w \in Workers, NEW m \in Messages, ProcessOrder(w, m) \/ Notify(w, m)
      PROVE  ReceivedOnce'
  <2> DEFINE o == OrderOf(m)
  <2>1. o \in OrderIDs /\ UNCHANGED queueVars /\ task[w][m] # "none"
    BY <1>5, MessageOrder DEF ProcessOrder, Notify
  <2>2. o \in orders \/ CanFulfil(o)
    <3>1. Sent(o)
      BY <1>1, <2>1 DEF PipelineInv, WorkInv, Sent, CopiesOf
    <3> QED
      BY <2>1, <3>1, BackedCanBeSold DEF AcceptedCanBeSold
  <2>3. GotoTask(w, m, "notify") \/ GotoTask(w, m, "ack")
    BY <1>1, <1>5, <2>2 DEF ProcessOrder, Notify, DeliveryFaults
  <2>4. \A n \in Messages : InHand(n) => InHand(n)'
    BY <1>1, <2>3 DEF GotoTask, InHand
  <2> QED
    BY <2>1, <2>4 DEF ReceivedOnce, queueVars
<1>6. ASSUME NEW w \in Workers, NEW m \in Messages, Acknowledge(w, m)
      PROVE  ReceivedOnce'
  <2>1. DeleteMessage(m) /\ GotoTask(w, m, "none")
    BY <1>1, <1>6 DEF Acknowledge, DeliveryFaults
  <2>2. /\ queue'[m] \notin {"ready", "hidden"} /\ (queue'[m] # "deleted" => queue'[m] = queue[m])
        /\ \A n \in Messages : n # m => queue'[n] = queue[n]
        /\ receives' = receives
    BY <1>1, <2>1 DEF DeleteMessage
  <2>3. \A n \in Messages : n # m /\ InHand(n) => InHand(n)'
    BY <1>1, <2>1 DEF GotoTask, InHand
  <2> QED
    BY <2>2, <2>3 DEF ReceivedOnce
<1>7. ASSUME NEW m \in Messages, VisibilityTimeout(m) \/ Redrive(m)
      PROVE  FALSE
  <2>1. ~VisibilityTimeout(m)
    BY <1>1 DEF VisibilityTimeout, Reappear, ReceivedOnce, DeliveryFaults
  <2>2. ~Redrive(m)
    BY QueueBoundsAssumption DEF Redrive, DeadLetter, ReceivedOnce
  <2> QED
    BY <1>7, <2>1, <2>2
<1>8. ASSUME NEW w \in Workers, WorkerCrash(w)
      PROVE  FALSE
  BY <1>1, <1>8 DEF WorkerCrash, DeliveryFaults
<1>9. ASSUME \/ AdminNext
             \/ \E r \in OrderIDs : LoadProduct(r) \/ LockUser(r) \/ Reserve(r)
                                   \/ Restore(r) \/ Release(r) \/ ApiCrash(r)
             \/ \E u \in Users : LockExpires(u)
             \/ CacheLost
             \/ UNCHANGED vars
      PROVE  ReceivedOnce'
  <2>1. UNCHANGED <<queue, receives, task>>
    BY <1>9
    DEF AdminNext, InsertProduct, AutoPrewarm, CheckPrewarm, SetPrewarm,
        ResendPrewarm, SetStock, AdminUnchanged, LoadProduct, LockUser, Reserve,
        Restore, Release, ApiCrash, RequestUnchanged, LockExpires, CacheLost,
        ServiceUnchanged, queueVars, vars
  <2> QED
    BY <1>2, <2>1
<1> QED
  BY <1>3, <1>4, <1>5, <1>6, <1>7, <1>8, <1>9 DEF Next, Terminated, RequestStep, TaskStep

(* Where an order that was answered 202 is, when no delivery fails: sold,    *)
(* waiting in the queue, or in a worker's hand.                             *)
OnItsWay ==
    \A r \in OrderIDs :
        pc[r] = "accepted" =>
            \/ r \in orders
            \/ \E m \in CopiesOf(r) : queue[m] = "ready" \/ (queue[m] = "hidden" /\ InHand(m))

(* The sale itself parks nothing: shortage, rivals, double clicks, repeated *)
(* sends and errors of the cache never bring an accepted order to the       *)
(* dead-letter queue, nor leave it invisible with nobody at work on it; it  *)
(* takes a delivery that is lost or late, a failing store, worker or        *)
(* acknowledgement, or a unit promised twice.                               *)
THEOREM OnlyFailedDeliveriesPark ==
    ASSUME Without(DeliveryFaults), Without(UnsafeFaults)
    PROVE  Spec => [](OnItsWay /\ \A m \in Messages : queue[m] # "dead")
<1>1. BackedInv /\ [Next]_vars => BackedInv'
  BY BackedStep
<1>2. BackedInv /\ ReceivedOnce /\ [Next]_vars => ReceivedOnce'
  BY ReceivedOnceStep
<1>3. ReceivedOnce /\ AcceptedNeverLost => OnItsWay /\ \A m \in Messages : queue[m] # "dead"
  BY DEF ReceivedOnce, AcceptedNeverLost, OnItsWay, CopiesOf
<1> QED
  BY <1>1, <1>2, <1>3, BackedInit, ReceivedOnceInit, PipelineAcceptedNeverLost, PTL DEF Spec

-----------------------------------------------------------------------------
(* The lock of others.  Only Release ends a request that gave its units     *)
(* back, and it compares the token.                                         *)
THEOREM OthersLockKept == Spec => ReleaseKeepsOthersLock
<1> DEFINE Kept == \A r \in OrderIDs :
                      pc[r] = "release" /\ pc'[r] = "rejected" /\ lock[UserOf[r]] # r
                          => lock' = lock
<1>1. PipelineInv /\ [Next]_vars => [Kept]_vars
  <2> SUFFICES ASSUME PipelineInv, [Next]_vars, NEW r \in OrderIDs,
                      pc[r] = "release", pc'[r] = "rejected", lock[UserOf[r]] # r
               PROVE  lock' = lock
    BY DEF vars
  <2>1. pc \in [OrderIDs -> RequestSteps]
    BY DEF PipelineInv, TypeOK
  <2>2. PICK s \in OrderIDs : LoadProduct(s) \/ RequestStep(s) \/ ApiCrash(s)
    BY DEF Next, Terminated, vars, AdminNext, InsertProduct, AutoPrewarm,
           CheckPrewarm, SetPrewarm, ResendPrewarm, SetStock, AdminUnchanged,
           ReceiveOrderEvents, WorkerCrash, TaskStep, ProcessOrder, Notify,
           Acknowledge, WorkerUnchanged, LockExpires, VisibilityTimeout, Redrive,
           CacheLost, ServiceUnchanged
  <2>3. \E next \in RequestSteps : Goto(s, next)
    BY <2>2
    DEF LoadProduct, RequestStep, LockUser, Reserve, Publish, Restore, Release, ApiCrash,
        RequestSteps, InFlightSteps, FinalSteps
  <2>4. s = r
    BY <2>1, <2>3 DEF Goto
  <2>5. Release(r)
    BY <2>1, <2>2, <2>4
    DEF LoadProduct, RequestStep, LockUser, Reserve, Publish, Restore, ApiCrash, Goto
  <2> QED
    BY <2>5 DEF Release, ReleaseLock, cacheVars
<1> QED
  BY <1>1, PipelineInvariant, PTL DEF Spec, ReleaseKeepsOthersLock

-----------------------------------------------------------------------------
(* The contract of OrderPromise.  What fate depends on: which orders are    *)
(* sold, and which messages are left outside the dead-letter queue.         *)
LEMMA FateKept ==
    ASSUME orders' = orders, NEW S \in SUBSET OrderIDs,
           \A m \in Messages : OrderOf(m) \in S =>
               /\ (queue'[m] = "none") <=> (queue[m] = "none")
               /\ (queue'[m] = "dead") <=> (queue[m] = "dead")
    PROVE  \A r \in S : fate'[r] = fate[r]
<1>1. \A r \in S : DeadLettered(r)' <=> DeadLettered(r)
  BY DEF DeadLettered, Sent, CopiesOf
<1> QED
  BY <1>1 DEF fate

LEMMA FateKeptByMessages ==
    ASSUME orders' = orders,
           \A m \in Messages : /\ (queue'[m] = "none") <=> (queue[m] = "none")
                               /\ (queue'[m] = "dead") <=> (queue[m] = "dead")
    PROVE  fate' = fate
<1>1. \A r \in OrderIDs : fate'[r] = fate[r]
  BY FateKept
<1> QED
  BY <1>1 DEF fate

(* A request that moves on without an answer, or gets one.                  *)
LEMMA AnswerMoves ==
    ASSUME pc \in [OrderIDs -> RequestSteps], NEW r \in OrderIDs, NEW next \in RequestSteps,
           Goto(r, next), pc[r] \notin {"accepted", "rejected"}
    PROVE  /\ answer[r] = "none"
           /\ next = "accepted" => answer' = [answer EXCEPT ![r] = "accepted"]
           /\ next = "rejected" => answer' = [answer EXCEPT ![r] = "refused"]
           /\ next \notin {"accepted", "rejected"} => answer' = answer
<1>1. \A s \in OrderIDs : pc'[s] = IF s = r THEN next ELSE pc[s]
  BY DEF Goto
<1> QED
  BY <1>1 DEF answer

(* A step of a request is an answer to it, or none.                         *)
LEMMA RequestKeepsPromise ==
    ASSUME Without({"queue_reply_lost"}), PipelineInv, RefusedNeverQueued, NEW r \in OrderIDs,
           LoadProduct(r) \/ RequestStep(r) \/ ApiCrash(r)
    PROVE  Promise!Accept(r) \/ Promise!Refuse(r) \/ UNCHANGED <<answer, fate>>
<1>1. /\ pc \in [OrderIDs -> RequestSteps] /\ QueueTypeOK
      /\ Sent(r) => pc[r] \notin {"idle", "lock", "reserve", "publish"}
      /\ r \in orders => Sent(r)
  BY DEF PipelineInv, TypeOK, SentInv
<1>2. CASE Publish(r)
  <2>1. pc[r] = "publish" /\ orders' = orders
    BY <1>2 DEF Publish, RequestUnchanged, ledgerVars
  <2>2. fate[r] = "open"
    BY <1>1, <2>1 DEF fate, DeadLettered
  <2>3. CASE Goto(r, "restore") /\ UNCHANGED queueVars
    <3>1. UNCHANGED fate
      BY <2>1, <2>3, FateKeptByMessages DEF queueVars
    <3>2. UNCHANGED answer
      BY <1>1, <2>1, <2>3, AnswerMoves DEF RequestSteps, InFlightSteps
    <3> QED
      BY <3>1, <3>2
  <2>4. ASSUME NEW copies \in Nat \ {0}, SendMessage(r, copies), Goto(r, "accepted")
        PROVE  Promise!Accept(r)
    <3>1. /\ answer[r] = "none" /\ answer' = [answer EXCEPT ![r] = "accepted"]
      BY <1>1, <2>1, <2>4, AnswerMoves DEF RequestSteps, FinalSteps
    <3>2. \A s \in OrderIDs \ {r} : fate'[s] = fate[s]
      <4>1. \A m \in Messages : OrderOf(m) \in OrderIDs \ {r} => queue'[m] = queue[m]
        BY <1>1, <2>4, SendMessageSends
      <4> QED
        BY <2>1, <4>1, FateKept
    <3>3. fate'[r] = "open"
      <4>1. queue'[<<r, 1>>] = "ready" /\ <<r, 1>> \in CopiesOf(r)
        <5>1. <<r, 1>> \in Messages /\ OrderOf(<<r, 1>>) = r /\ <<r, 1>>[2] <= copies
          BY MessageOrder
        <5> QED
          BY <2>4, <5>1 DEF SendMessage, CopiesOf
      <4>2. ~DeadLettered(r)'
        BY <4>1 DEF DeadLettered, CopiesOf
      <4>3. r \notin orders'
        BY <1>1, <2>1
      <4> QED
        BY <4>2, <4>3 DEF fate
    <3>4. fate' = fate
      BY <2>2, <3>2, <3>3 DEF fate
    <3> QED
      BY <3>1, <3>4 DEF Promise!Accept
  <2> QED
    BY <1>2, <2>3, <2>4, QueueBoundsAssumption DEF Publish, Without
<1>3. CASE ~Publish(r)
  <2>1. orders' = orders /\ UNCHANGED queueVars
    BY <1>3 DEF LoadProduct, RequestStep, LockUser, Reserve, Restore, Release, ApiCrash,
                RequestUnchanged, ledgerVars
  <2>2. UNCHANGED fate
    BY <2>1, FateKeptByMessages DEF queueVars
  <2>3. \/ pc[r] \in {"idle", "lock", "release"} /\ Goto(r, "rejected")
        \/ /\ pc[r] \notin {"accepted", "rejected"}
           /\ \E next \in RequestSteps \ {"accepted", "rejected"} : Goto(r, next)
    BY <1>3 DEF LoadProduct, RequestStep, LockUser, Reserve, Restore, Release, ApiCrash,
                RequestSteps, InFlightSteps, FinalSteps
  <2>4. ASSUME pc[r] \in {"idle", "lock", "release"}, Goto(r, "rejected")
        PROVE  Promise!Refuse(r)
    <3>1. ~Sent(r)
      BY <1>1, <2>4 DEF RefusedNeverQueued
    <3>2. fate[r] = "open"
      BY <1>1, <3>1 DEF fate, DeadLettered
    <3>3. answer[r] = "none" /\ answer' = [answer EXCEPT ![r] = "refused"]
      BY <1>1, <2>4, AnswerMoves DEF RequestSteps, FinalSteps
    <3> QED
      BY <2>2, <3>2, <3>3 DEF Promise!Refuse
  <2>5. ASSUME pc[r] \notin {"accepted", "rejected"},
               NEW next \in RequestSteps \ {"accepted", "rejected"}, Goto(r, next)
        PROVE  UNCHANGED answer
    BY <1>1, <2>5, AnswerMoves
  <2> QED
    BY <2>2, <2>3, <2>4, <2>5
<1> QED
  BY <1>2, <1>3

(* A step of a worker sells an order or changes nothing here: what it has   *)
(* in hand was never refused.                                               *)
LEMMA WorkerKeepsPromise ==
    ASSUME PipelineInv, RefusedNeverQueued,
           \/ \E w \in Workers : ReceiveOrderEvents(w) \/ WorkerCrash(w)
           \/ \E w \in Workers, m \in Messages : TaskStep(w, m)
    PROVE  (\E r \in OrderIDs : Promise!Sell(r)) \/ UNCHANGED <<answer, fate>>
<1>1. UNCHANGED answer
  BY DEF ReceiveOrderEvents, WorkerCrash, TaskStep, ProcessOrder, Notify, Acknowledge,
         WorkerUnchanged, answer
<1>2. ASSUME orders' = orders,
             \A m \in Messages : /\ (queue'[m] = "none") <=> (queue[m] = "none")
                                 /\ (queue'[m] = "dead") <=> (queue[m] = "dead")
      PROVE  UNCHANGED <<answer, fate>>
  BY <1>1, <1>2, FateKeptByMessages
<1>3. QueueTypeOK
  BY DEF PipelineInv, TypeOK
<1>4. ASSUME NEW w \in Workers, NEW m \in Messages, ProcessOrder(w, m), Fulfil(OrderOf(m))
      PROVE  Promise!Sell(OrderOf(m))
  <2> DEFINE o == OrderOf(m)
  <2>1. o \in OrderIDs /\ m \in CopiesOf(o)
    BY MessageOrder DEF CopiesOf
  <2>2. task[w][m] # "none" /\ UNCHANGED queueVars
    BY <1>4 DEF ProcessOrder
  <2>3. Sent(o)
    BY <2>1, <2>2 DEF PipelineInv, WorkInv, Sent
  <2>4. answer[o] # "refused"
    BY <2>1, <2>3 DEF RefusedNeverQueued, answer
  <2>5. o \notin orders /\ orders' = orders \cup {o}
    BY <1>4 DEF Fulfil, CanFulfil
  <2>6. \A r \in OrderIDs : DeadLettered(r)' <=> DeadLettered(r)
    BY <2>2 DEF DeadLettered, Sent, CopiesOf, queueVars
  <2>7. fate[o] # "sold" /\ fate' = [fate EXCEPT ![o] = "sold"]
    BY <2>1, <2>5, <2>6 DEF fate
  <2> QED
    BY <1>1, <2>4, <2>7 DEF Promise!Sell
<1>5. ASSUME NEW w \in Workers, NEW m \in Messages, ProcessOrder(w, m), UNCHANGED ledgerVars
      PROVE  UNCHANGED <<answer, fate>>
  BY <1>2, <1>5 DEF ProcessOrder, queueVars, ledgerVars
<1>6. ASSUME NEW w \in Workers, ReceiveOrderEvents(w)
      PROVE  UNCHANGED <<answer, fate>>
  BY <1>2, <1>3, <1>6 DEF ReceiveOrderEvents, ReceiveMessage, QueueTypeOK, ledgerVars
<1>7. ASSUME NEW w \in Workers, NEW m \in Messages, Acknowledge(w, m)
      PROVE  UNCHANGED <<answer, fate>>
  BY <1>2, <1>3, <1>7 DEF Acknowledge, DeleteMessage, QueueTypeOK, ledgerVars, queueVars
<1>8. ASSUME NEW w \in Workers, NEW m \in Messages, Notify(w, m) \/ WorkerCrash(w)
      PROVE  UNCHANGED <<answer, fate>>
  BY <1>2, <1>8 DEF Notify, WorkerCrash, ledgerVars, queueVars
<1>9. ASSUME NEW w \in Workers, WorkerCrash(w)
      PROVE  UNCHANGED <<answer, fate>>
  BY <1>2, <1>9 DEF WorkerCrash, ledgerVars, queueVars
<1>10. ASSUME NEW w \in Workers, NEW m \in Messages, ProcessOrder(w, m)
       PROVE  Promise!Sell(OrderOf(m)) \/ UNCHANGED <<answer, fate>>
  BY <1>4, <1>5, <1>10 DEF ProcessOrder
<1> QED
  BY <1>6, <1>7, <1>8, <1>9, <1>10, MessageOrder DEF TaskStep

(* A step of a service parks the order of the last message that goes to the *)
(* dead-letter queue, or changes nothing here.                              *)
LEMMA ServiceKeepsPromise ==
    ASSUME PipelineInv, RefusedNeverQueued,
           \/ AdminNext
           \/ \E u \in Users : LockExpires(u)
           \/ \E m \in Messages : VisibilityTimeout(m) \/ Redrive(m)
           \/ CacheLost
    PROVE  (\E r \in OrderIDs : Promise!GiveUp({r})) \/ UNCHANGED <<answer, fate>>
<1>1. UNCHANGED <<pc, orders>>
  BY DEF AdminNext, InsertProduct, CreateProduct, AutoPrewarm, CheckPrewarm,
         SetPrewarm, ResendPrewarm, SetStock, AdminUnchanged, LockExpires,
         VisibilityTimeout, Redrive, CacheLost, ServiceUnchanged, ledgerVars
<1>2. UNCHANGED answer
  BY <1>1 DEF answer
<1>3. QueueTypeOK
  BY DEF PipelineInv, TypeOK
<1>4. CASE UNCHANGED queueVars
  BY <1>1, <1>2, <1>4, FateKeptByMessages DEF queueVars
<1>5. ASSUME NEW m \in Messages, VisibilityTimeout(m)
      PROVE  UNCHANGED <<answer, fate>>
  BY <1>1, <1>2, <1>3, <1>5, FateKeptByMessages DEF VisibilityTimeout, Reappear, QueueTypeOK
<1>6. ASSUME NEW m \in Messages, Redrive(m)
      PROVE  Promise!GiveUp({OrderOf(m)}) \/ UNCHANGED <<answer, fate>>
  <2> DEFINE o == OrderOf(m)
  <2>1. o \in OrderIDs /\ m \in CopiesOf(o)
    BY MessageOrder DEF CopiesOf
  <2>2. queue[m] = "ready" /\ \A n \in Messages : n # m => queue'[n] = queue[n]
    BY <1>3, <1>6 DEF Redrive, DeadLetter, QueueTypeOK
  <2>3. Sent(o) /\ ~DeadLettered(o)
    BY <2>1, <2>2 DEF Sent, DeadLettered
  <2>4. answer[o] # "refused"
    BY <2>1, <2>3 DEF RefusedNeverQueued, answer
  <2>5. \A r \in OrderIDs \ {o} : fate'[r] = fate[r]
    BY <1>1, <2>2, FateKept
  <2>6. o \in orders => fate'[o] = fate[o]
    BY <1>1, <2>1 DEF fate
  <2>7. o \notin orders => fate[o] = "open" /\ fate'[o] \in {"open", "parked"}
    BY <1>1, <2>1, <2>3 DEF fate
  <2>8. fate'[o] = fate[o] \/ (fate[o] = "open" /\ fate'[o] = "parked")
    BY <2>6, <2>7
  <2>9. CASE fate'[o] = fate[o]
    <3>1. fate' = fate
      BY <2>5, <2>9 DEF fate
    <3> QED
      BY <1>2, <3>1
  <2>10. CASE fate[o] = "open" /\ fate'[o] = "parked"
    <3>1. fate' = [r \in OrderIDs |-> IF r \in {o} THEN "parked" ELSE fate[r]]
      BY <2>5, <2>10 DEF fate
    <3> QED
      BY <1>2, <2>4, <2>10, <3>1 DEF Promise!GiveUp
  <2> QED
    BY <2>8, <2>9, <2>10
<1> QED
  BY <1>4, <1>5, <1>6, MessageOrder
  DEF AdminNext, InsertProduct, AutoPrewarm, CheckPrewarm, SetPrewarm, ResendPrewarm,
      SetStock, AdminUnchanged, LockExpires, CacheLost

(* The pipeline keeps the contract for any number of buyers and workers:    *)
(* whatever fails except a SendMessage that is applied and answered with an *)
(* error, a refused buyer is never charged and no order is sold twice.      *)
THEOREM PipelineKeepsPromise ==
    ASSUME Without({"queue_reply_lost"})
    PROVE  Spec => PromiseSpec
<1>1. Init => Promise!Init
  <2> SUFFICES ASSUME Init PROVE Promise!Init
    OBVIOUS
  <2>1. orders = {} /\ \A r \in OrderIDs : ~DeadLettered(r) /\ pc[r] = "idle"
    BY DEF Init, LedgerInit, QueueInit, DeadLettered, Sent, CopiesOf
  <2> QED
    BY <2>1 DEF Promise!Init, answer, fate
<1>2. PipelineInv /\ RefusedNeverQueued /\ [Next]_vars => [Promise!Next]_(Promise!vars)
  <2> SUFFICES ASSUME PipelineInv, RefusedNeverQueued, [Next]_vars
               PROVE  Promise!Next \/ UNCHANGED <<answer, fate>>
    BY DEF Promise!vars
  <2>1. ASSUME NEW r \in OrderIDs, LoadProduct(r) \/ RequestStep(r) \/ ApiCrash(r)
        PROVE  Promise!Next \/ UNCHANGED <<answer, fate>>
    BY <2>1, RequestKeepsPromise DEF Promise!Next
  <2>2. CASE \/ \E w \in Workers : ReceiveOrderEvents(w) \/ WorkerCrash(w)
             \/ \E w \in Workers, m \in Messages : TaskStep(w, m)
    BY <2>2, WorkerKeepsPromise DEF Promise!Next
  <2>3. CASE \/ AdminNext
             \/ \E u \in Users : LockExpires(u)
             \/ \E m \in Messages : VisibilityTimeout(m) \/ Redrive(m)
             \/ CacheLost
    BY <2>3, ServiceKeepsPromise DEF Promise!Next
  <2>4. CASE UNCHANGED vars
    <3>1. UNCHANGED <<pc, orders, queue>>
      BY <2>4 DEF vars
    <3> QED
      BY <3>1, FateKeptByMessages DEF answer
  <2> QED
    BY <2>1, <2>2, <2>3, <2>4 DEF Next, Terminated
<1> QED
  BY <1>1, <1>2, RefusedStaysRefused, PipelineInvariant, PTL DEF Spec, PromiseSpec, Promise!Spec
=============================================================================
