----------------------------- MODULE OrderPipeline -----------------------------
(***************************************************************************)
(* A flash sale from the product's creation to the last order: the HTTP    *)
(* API (CreateFlashSaleOrder, CreateProduct, PrewarmStock), Redis, SQS,    *)
(* the workers (ReceiveOrderEvents around ProcessOrderFromQueue) and the   *)
(* durable store, each call to a service being a step of its own that      *)
(* other requests and workers interleave with.                             *)
(*                                                                         *)
(* Faults names what may go wrong in a run:                                *)
(*   cache_error       a Redis command fails without being applied         *)
(*   cache_reply_lost  it is applied, and the caller gets an error         *)
(*   cache_retried     SETNX or EVAL is applied, its reply lost, and the   *)
(*                     Redis client sends it again                         *)
(*   restore_retried   the same for the INCRBY that restores stock         *)
(*   prewarm_retried   the same for the SET that prewarms it               *)
(*   cache_flush       Redis restarts empty                                *)
(*   queue_error       SendMessage fails without effect                    *)
(*   queue_reply_lost  SendMessage is applied, and the caller gets an error*)
(*   queue_duplicate   SendMessage is applied, its reply lost, and the AWS *)
(*                     client sends it again                               *)
(*   receive_lost      ReceiveMessage is applied, and the worker gets an   *)
(*                     error                                               *)
(*   ack_lost          DeleteMessage fails                                 *)
(*   slow_request      a request outlives its lock's ten seconds           *)
(*   slow_handler      a handler outlives the visibility timeout, or SQS   *)
(*                     delivers the message again within it                *)
(*   api_crash         the API process dies during a request               *)
(*   worker_crash      a worker process dies during a batch                *)
(*   db_error          the transaction fails without effect                *)
(*   db_reply_lost     it commits, and the worker gets an error            *)
(*   late_prewarm      an administrator prewarms while the sale runs       *)
(***************************************************************************)
EXTENDS OrderLedger, StockCache, OrderQueue

CONSTANTS Workers, Faults

FaultKinds ==
    {"cache_error", "cache_reply_lost", "cache_retried", "restore_retried",
     "prewarm_retried", "cache_flush", "queue_error", "queue_reply_lost",
     "queue_duplicate", "receive_lost", "ack_lost", "slow_request",
     "slow_handler", "api_crash", "worker_crash", "db_error", "db_reply_lost",
     "late_prewarm"}

(* The faults after which a unit of stock may be promised twice, those that *)
(* may lose one, and those that may take the lock from a live request.      *)
UnsafeFaults ==
    {"queue_reply_lost", "restore_retried", "prewarm_retried", "late_prewarm"}
LeakyFaults ==
    {"cache_error", "cache_reply_lost", "cache_retried", "restore_retried",
     "cache_flush", "queue_reply_lost", "api_crash"}
UnlockingFaults == {"slow_request", "cache_flush"}

ASSUME FaultsAssumption == Faults \subseteq FaultKinds

VARIABLES
    catalog,     \* where the administrator's CreateProduct or PrewarmStock is
    amount,      \* the stock a PrewarmStock is about to SET
    pc,          \* where each request's CreateFlashSaleOrder is
    task,        \* where each worker's goroutine for each message is
    announced    \* orders whose COMPLETED was published to their subscribers

vars == <<product, dbStock, orders, cacheStock, lock, queue, receives,
          catalog, amount, pc, task, announced>>

CatalogSteps == {"empty", "inserted", "resending", "ready", "checked"}
InFlightSteps == {"reserve", "publish", "restore", "release"}
FinalSteps == {"accepted", "rejected", "crashed"}
RequestSteps == {"idle", "lock"} \cup InFlightSteps \cup FinalSteps
TaskSteps == {"none", "handle", "notify", "ack"}

TypeOK ==
    /\ LedgerTypeOK
    /\ CacheTypeOK
    /\ QueueTypeOK
    /\ catalog \in CatalogSteps
    /\ amount \in Nat
    /\ pc \in [OrderIDs -> RequestSteps]
    /\ task \in [Workers -> [Messages -> TaskSteps]]
    /\ announced \subseteq OrderIDs

Init ==
    /\ LedgerInit
    /\ CacheInit
    /\ QueueInit
    /\ catalog = "empty"
    /\ amount = 0
    /\ pc = [r \in OrderIDs |-> "idle"]
    /\ task = [w \in Workers |-> [m \in Messages |-> "none"]]
    /\ announced = {}

-----------------------------------------------------------------------------
(* The administrator: CreateProduct and PrewarmStock of productUsecase.     *)

(* The sale has not begun: no request has been served.                      *)
BeforeSale == \A r \in OrderIDs : pc[r] = "idle"

AdminUnchanged == UNCHANGED <<queueVars, pc, task, announced>>

(* The insertion; only a flash-sale product is then prewarmed.              *)
InsertProduct ==
    /\ catalog = "empty"
    /\ \E kind \in {"regular", "flash"} :
          /\ CreateProduct(kind)
          /\ catalog' = IF kind = "flash" THEN "inserted" ELSE "ready"
    /\ UNCHANGED <<cacheVars, amount>>
    /\ AdminUnchanged

(* PrewarmStock of the cache, a SET with n: it succeeds; it fails, which the*)
(* automatic prewarming only warns of; or its reply is lost, and the Redis  *)
(* client has it still to send again.                                       *)
SetStock(n) ==
    \/ PrewarmStock(n) /\ catalog' = "ready" /\ amount' = 0
    \/ /\ "cache_error" \in Faults
       /\ catalog' = "ready"
       /\ amount' = 0
       /\ UNCHANGED cacheVars
    \/ /\ "prewarm_retried" \in Faults
       /\ PrewarmStock(n)
       /\ catalog' = "resending"
       /\ amount' = n

(* The automatic prewarming, with the stock of the product just inserted.   *)
AutoPrewarm ==
    /\ catalog = "inserted"
    /\ SetStock(InitialStock)
    /\ UNCHANGED ledgerVars
    /\ AdminUnchanged

(* PrewarmStock up to its comparison with the persistent stock it has read. *)
CheckPrewarm(n) ==
    /\ catalog = "ready"
    /\ product = "flash"
    /\ n <= dbStock
    /\ BeforeSale \/ "late_prewarm" \in Faults
    /\ amount' = n
    /\ catalog' = "checked"
    /\ UNCHANGED <<ledgerVars, cacheVars>>
    /\ AdminUnchanged

(* Its SET, with what it checked.                                           *)
SetPrewarm ==
    /\ catalog = "checked"
    /\ SetStock(amount)
    /\ UNCHANGED ledgerVars
    /\ AdminUnchanged

(* The second SET, after whatever the requests took in between.  Sending it *)
(* once more is the bound on the client's retries.                          *)
ResendPrewarm ==
    /\ catalog = "resending"
    /\ PrewarmStock(amount)
    /\ catalog' = "ready"
    /\ amount' = 0
    /\ UNCHANGED ledgerVars
    /\ AdminUnchanged

AdminNext ==
    \/ InsertProduct
    \/ AutoPrewarm
    \/ \E n \in 0..InitialStock : CheckPrewarm(n)
    \/ SetPrewarm
    \/ ResendPrewarm

-----------------------------------------------------------------------------
(* A purchase request: CreateFlashSaleOrder of orderUsecase.                *)

Goto(r, step) == pc' = [pc EXCEPT ![r] = step]

RequestUnchanged == UNCHANGED <<ledgerVars, catalog, amount, task, announced>>

(* The quantity is checked first, then the product is loaded, which the     *)
(* store may fail, and checked.                                             *)
LoadProduct(r) ==
    /\ pc[r] = "idle"
    /\ catalog # "checked" \/ "late_prewarm" \in Faults
    /\ \/ Goto(r, IF ValidQuantity(r) /\ product = "flash" THEN "lock" ELSE "rejected")
       \/ "db_error" \in Faults /\ Goto(r, "rejected")
    /\ UNCHANGED <<cacheVars, queueVars>>
    /\ RequestUnchanged

(* The deferred ReleaseLock is registered only after the lock was granted,  *)
(* so neither an error nor a refusal releases anything.                     *)
LockUser(r) ==
    /\ pc[r] = "lock"
    /\ \/ \E ok \in BOOLEAN :
             /\ AcquireLock(UserOf[r], r, ok)
             /\ Goto(r, IF ok THEN "reserve" ELSE "rejected")
       \/ /\ "cache_error" \in Faults
          /\ Goto(r, "rejected")
          /\ UNCHANGED cacheVars
       \/ /\ {"cache_reply_lost", "cache_retried"} \cap Faults # {}
          /\ \E ok \in BOOLEAN : AcquireLock(UserOf[r], r, ok)
          /\ Goto(r, "rejected")
    /\ UNCHANGED queueVars
    /\ RequestUnchanged

(* Mutant: a refusal takes the rollback path too.                           *)
ReserveOrRollBack(r) ==
    /\ pc[r] = "reserve"
    /\ \E ok \in BOOLEAN :
          /\ DecrementStockAtomic(Quantity[r], ok)
          /\ Goto(r, IF ok THEN "publish" ELSE "restore")
    /\ UNCHANGED queueVars
    /\ RequestUnchanged

Reserve(r) ==
    /\ pc[r] = "reserve"
    /\ \/ \E ok \in BOOLEAN :
             /\ \/ DecrementStockAtomic(Quantity[r], ok)
                \/ "cache_retried" \in Faults /\ DecrementStockTwice(Quantity[r], ok)
             /\ Goto(r, IF ok THEN "publish" ELSE "release")
       \/ /\ "cache_error" \in Faults
          /\ Goto(r, "release")
          /\ UNCHANGED cacheVars
       \/ /\ "cache_reply_lost" \in Faults
          /\ \E ok \in BOOLEAN : DecrementStockAtomic(Quantity[r], ok)
          /\ Goto(r, "release")
    /\ UNCHANGED queueVars
    /\ RequestUnchanged

(* PublishOrderEvent; accepting the order keeps the lock.                   *)
Publish(r) ==
    /\ pc[r] = "publish"
    /\ \/ SendMessage(r, 1) /\ Goto(r, "accepted")
       \/ /\ "queue_duplicate" \in Faults
          /\ SendMessage(r, MaxCopies)
          /\ Goto(r, "accepted")
       \/ /\ "queue_error" \in Faults
          /\ Goto(r, "restore")
          /\ UNCHANGED queueVars
       \/ /\ "queue_reply_lost" \in Faults
          /\ SendMessage(r, 1)
          /\ Goto(r, "restore")
    /\ UNCHANGED cacheVars
    /\ RequestUnchanged

(* Mutants: the rollback forgotten; the publishing tried again after it;    *)
(* keepLock set before the publishing.                                      *)
RestoreNothing(r) ==
    /\ pc[r] = "restore"
    /\ Goto(r, "release")
    /\ UNCHANGED <<cacheVars, queueVars>>
    /\ RequestUnchanged

RestoreAndRepublish(r) ==
    /\ pc[r] = "restore"
    /\ Goto(r, "release")
    /\ IncrementStock(Quantity[r], 1)
    /\ SendMessage(r, 1)
    /\ RequestUnchanged

RestoreWithLockKept(r) ==
    /\ pc[r] = "restore"
    /\ Goto(r, "rejected")
    /\ IncrementStock(Quantity[r], 1)
    /\ UNCHANGED queueVars
    /\ RequestUnchanged

(* IncrementStock; whether it failed is only joined to the error returned.  *)
Restore(r) ==
    /\ pc[r] = "restore"
    /\ Goto(r, "release")
    /\ \/ IncrementStock(Quantity[r], 1)
       \/ "restore_retried" \in Faults /\ IncrementStock(Quantity[r], 2)
       \/ "cache_error" \in Faults /\ UNCHANGED cacheVars
    /\ UNCHANGED queueVars
    /\ RequestUnchanged

(* The deferred ReleaseLock, whose error is ignored, and the error response.*)
Release(r) ==
    /\ pc[r] = "release"
    /\ Goto(r, "rejected")
    /\ \/ ReleaseLock(UserOf[r], r)
       \/ "cache_error" \in Faults /\ UNCHANGED cacheVars
    /\ UNCHANGED queueVars
    /\ RequestUnchanged

RequestStep(r) ==
    LockUser(r) \/ Reserve(r) \/ Publish(r) \/ Restore(r) \/ Release(r)

(* The API process dies: what the request has not done it never does.       *)
ApiCrash(r) ==
    /\ "api_crash" \in Faults
    /\ pc[r] \in {"lock"} \cup InFlightSteps
    /\ Goto(r, "crashed")
    /\ UNCHANGED <<cacheVars, queueVars>>
    /\ RequestUnchanged

-----------------------------------------------------------------------------
(* A worker: ReceiveOrderEvents of sqsRepository around the handler         *)
(* ProcessOrderFromQueue, one goroutine per message of the batch.           *)

Busy(w) == \E m \in Messages : task[w][m] # "none"
InHand(m) == \E w \in Workers : task[w][m] # "none"

GotoTask(w, m, step) == task' = [task EXCEPT ![w][m] = step]

WorkerUnchanged == UNCHANGED <<cacheVars, catalog, amount, pc>>

(* The loop comes back to ReceiveMessage only when wg.Wait has returned.  An*)
(* error is logged, and the loop polls again: what SQS hid is in nobody's   *)
(* hand, and has been received.                                             *)
ReceiveOrderEvents(w) ==
    /\ ~Busy(w)
    /\ \E batch \in SUBSET Messages :
          /\ ReceiveMessage(batch)
          /\ \/ task' = [task EXCEPT ![w] =
                            [m \in Messages |-> IF m \in batch THEN "handle" ELSE "none"]]
             \/ "receive_lost" \in Faults /\ UNCHANGED task
    /\ UNCHANGED <<ledgerVars, announced>>
    /\ WorkerUnchanged

(* Mutants: an error deletes the message; an error counts as done.          *)
ProcessOrAbandon(w, m) ==
    /\ task[w][m] = "handle"
    /\ \/ Fulfil(OrderOf(m)) /\ GotoTask(w, m, "notify")
       \/ UNCHANGED ledgerVars /\ GotoTask(w, m, "ack")
    /\ UNCHANGED <<queueVars, announced>>
    /\ WorkerUnchanged

ProcessAndNotify(w, m) ==
    /\ task[w][m] = "handle"
    /\ Fulfil(OrderOf(m)) \/ UNCHANGED ledgerVars
    /\ GotoTask(w, m, "notify")
    /\ UNCHANGED <<queueVars, announced>>
    /\ WorkerUnchanged

(* CreateOrderAndDecrementStock.  created and already-there go on to the    *)
(* notification; every error makes the goroutine return, keeping the message*)
ProcessOrder(w, m) ==
    LET o == OrderOf(m) IN
    /\ task[w][m] = "handle"
    /\ \/ Fulfil(o) /\ GotoTask(w, m, "notify")
       \/ o \in orders /\ UNCHANGED ledgerVars /\ GotoTask(w, m, "notify")
       \/ /\ (o \notin orders /\ ~CanFulfil(o)) \/ "db_error" \in Faults
          /\ UNCHANGED ledgerVars
          /\ GotoTask(w, m, "none")
       \/ "db_reply_lost" \in Faults /\ Fulfil(o) /\ GotoTask(w, m, "none")
    /\ UNCHANGED <<queueVars, announced>>
    /\ WorkerUnchanged

(* PublishEvent(COMPLETED), whose error is ignored.                         *)
Notify(w, m) ==
    /\ task[w][m] = "notify"
    /\ GotoTask(w, m, "ack")
    /\ \/ announced' = announced \cup {OrderOf(m)}
       \/ "cache_error" \in Faults /\ UNCHANGED announced
    /\ UNCHANGED <<ledgerVars, queueVars>>
    /\ WorkerUnchanged

(* DeleteMessage, whose error is only logged.                               *)
Acknowledge(w, m) ==
    /\ task[w][m] = "ack"
    /\ GotoTask(w, m, "none")
    /\ \/ DeleteMessage(m)
       \/ "ack_lost" \in Faults /\ UNCHANGED queueVars
    /\ UNCHANGED <<ledgerVars, announced>>
    /\ WorkerUnchanged

TaskStep(w, m) == ProcessOrder(w, m) \/ Notify(w, m) \/ Acknowledge(w, m)

WorkerCrash(w) ==
    /\ "worker_crash" \in Faults
    /\ Busy(w)
    /\ task' = [task EXCEPT ![w] = [m \in Messages |-> "none"]]
    /\ UNCHANGED <<ledgerVars, queueVars, announced>>
    /\ WorkerUnchanged

-----------------------------------------------------------------------------
(* The timers of Redis and SQS, and the loss of Redis.                      *)

ServiceUnchanged == UNCHANGED <<ledgerVars, catalog, amount, pc, task, announced>>

InFlight(r) == pc[r] \in InFlightSteps

LockExpires(u) ==
    /\ ExpireLock(u)
    /\ ~InFlight(lock[u]) \/ "slow_request" \in Faults
    /\ UNCHANGED queueVars
    /\ ServiceUnchanged

VisibilityTimeout(m) ==
    /\ Reappear(m)
    /\ ~InHand(m) \/ "slow_handler" \in Faults
    /\ UNCHANGED cacheVars
    /\ ServiceUnchanged

Redrive(m) ==
    /\ DeadLetter(m)
    /\ UNCHANGED cacheVars
    /\ ServiceUnchanged

CacheLost ==
    /\ "cache_flush" \in Faults
    /\ FlushCache
    /\ UNCHANGED queueVars
    /\ ServiceUnchanged

(* The sale is over: every request is answered and every message settled.   *)
Terminated ==
    /\ \A r \in OrderIDs : pc[r] \in FinalSteps
    /\ \A w \in Workers : ~Busy(w)
    /\ \A m \in Messages : queue[m] \in {"none", "deleted", "dead"}
    /\ UNCHANGED vars

-----------------------------------------------------------------------------
Next ==
    \/ AdminNext
    \/ \E r \in OrderIDs : LoadProduct(r) \/ RequestStep(r) \/ ApiCrash(r)
    \/ \E w \in Workers : ReceiveOrderEvents(w) \/ WorkerCrash(w)
    \/ \E w \in Workers, m \in Messages : TaskStep(w, m)
    \/ \E u \in Users : LockExpires(u)
    \/ \E m \in Messages : VisibilityTimeout(m) \/ Redrive(m)
    \/ CacheLost
    \/ Terminated

Spec == Init /\ [][Next]_vars

(* A request that is being served goes on, the worker loop polls and its    *)
(* goroutines run, and the services' timers fire.  Requests need not arrive,*)
(* the administrator need not act, and nothing needs to fail.               *)
Fairness ==
    /\ \A r \in OrderIDs : WF_vars(RequestStep(r))
    /\ \A w \in Workers : WF_vars(ReceiveOrderEvents(w))
    /\ \A w \in Workers, m \in Messages : WF_vars(TaskStep(w, m))
    /\ \A u \in Users : WF_vars(LockExpires(u))
    /\ \A m \in Messages : WF_vars(VisibilityTimeout(m) \/ Redrive(m))

FairSpec == Spec /\ Fairness

-----------------------------------------------------------------------------
(* The orders that still hold a claim on stock: reserved, or in the queue.  *)
Outstanding ==
    {r \in OrderIDs \ orders : pc[r] \in {"publish", "restore"} \/ Sent(r)}

(* What the persistent stock has beyond what Redis may still hand out and   *)
(* what is already promised.                                                *)
Slack == dbStock - cacheStock - Total(Outstanding)

(* Every promise can be kept: the persistent stock covers the stock Redis   *)
(* may still hand out plus every outstanding order, so no accepted order    *)
(* ever meets "insufficient MongoDB stock".  This is what the decrement in  *)
(* Redis is for (DecrementStockAtomic, the rollback in CreateFlashSaleOrder,*)
(* the comparison in PrewarmStock).                                         *)
ReservationsBacked == Slack >= 0

(* No order on its way to a worker is ever turned away there: whenever its  *)
(* event is received, and whatever was sold or handed out in between, the   *)
(* filter of CreateOrderAndDecrementStock matches, and its "insufficient    *)
(* MongoDB stock" is never answered to an order that was answered 202.      *)
AcceptedCanBeSold ==
    \A r \in OrderIDs \ orders : Sent(r) => CanFulfil(r)

(* Only the administrator changes the slack: without a lost call to Redis   *)
(* or a crash, a reservation ends up restored, queued or sold, and no unit  *)
(* leaks from the sale or is handed out twice.                              *)
NoUnitLeaks == [][catalog' = catalog => Slack' = Slack]_vars

(* The rollback of r gives back units that r keeps, or gives them back twice*)
Overpromises(r) ==
    /\ pc[r] = "restore"
    /\ pc'[r] = "release"
    /\ Sent(r) \/ cacheStock' > cacheStock + Quantity[r]

(* Whatever fails, units are promised twice at two places only: where a SET *)
(* of the prewarming overwrites the counter, and where the rollback of      *)
(* CreateFlashSaleOrder returns the units of an event that is in the queue  *)
(* after all, or returns them twice.  Redelivery, crashes, lost replies of  *)
(* the script and the loss of Redis may cost units; they never add one.     *)
OverpromisedOnlyByRollback ==
    [][Slack' < Slack => catalog' # catalog \/ \E r \in OrderIDs : Overpromises(r)]_vars

(* An order answered 202 is in the orders collection, or a copy of its      *)
(* event is still in the queue or its dead-letter queue: the worker deletes *)
(* a message only after the transaction for it committed.                   *)
AcceptedNeverLost ==
    \A r \in OrderIDs :
        pc[r] = "accepted" =>
            \/ r \in orders
            \/ \E m \in CopiesOf(r) : queue[m] \in {"ready", "hidden", "dead"}

(* COMPLETED is announced, and a message deleted, only for an order that is *)
(* in the orders collection, whichever handler of whichever copy did it.    *)
WorkDoneBeforeAck ==
    /\ announced \subseteq orders
    /\ \A m \in Messages : queue[m] = "deleted" => OrderOf(m) \in orders

(* "Return stock to Redis when the durable queue did not accept the event": *)
(* a request that gives its units back, or was refused, has no event in the *)
(* queue and never becomes an order.                                        *)
RefusedNeverQueued ==
    \A r \in OrderIDs :
        pc[r] \in {"restore", "release", "rejected"} => ~Sent(r) /\ r \notin orders

(* "Prevent accidental double clicks while the first request is being       *)
(* accepted": two requests of one user are never both between the lock and  *)
(* the answer.                                                              *)
OneRequestInFlight ==
    \A r, s \in OrderIDs :
        r # s /\ UserOf[r] = UserOf[s] => ~(InFlight(r) /\ InFlight(s))

(* A buyer who was refused may try again at once: the key that is left, if  *)
(* any, is another request's.  Only an accepted order keeps its lock, and   *)
(* every path from the lock to an error passes the deferred ReleaseLock.    *)
RefusedMayRetry ==
    \A r \in OrderIDs : pc[r] = "rejected" => lock[UserOf[r]] # r

(* A request that ends after its lock expired leaves the lock the user's    *)
(* next request holds meanwhile alone (releaseLockLuaScript).               *)
ReleaseKeepsOthersLock ==
    [][\A r \in OrderIDs :
          pc[r] = "release" /\ pc'[r] = "rejected" /\ lock[UserOf[r]] # r
              => lock' = lock]_vars

(* Redis never offers more than the persistent stock, which is what the     *)
(* comparison in PrewarmStock is there for.                                 *)
CacheWithinStock == cacheStock <= dbStock

(* The contract of OrderPromise, as SQS and the workers keep it: an order   *)
(* is parked when no copy of its event is left outside the dead-letter      *)
(* queue.                                                                   *)
DeadLettered(r) == Sent(r) /\ \A m \in CopiesOf(r) : queue[m] \in {"none", "dead"}

answer ==
    [r \in OrderIDs |->
        CASE pc[r] = "accepted" -> "accepted"
          [] pc[r] = "rejected" -> "refused"
          [] OTHER              -> "none"]

fate ==
    [r \in OrderIDs |->
        CASE r \in orders                        -> "sold"
          [] r \notin orders /\ DeadLettered(r) -> "parked"
          [] OTHER                               -> "open"]

Promise == INSTANCE OrderPromise WITH
               answer <- answer, fate <- fate, Unsold <- "parked"

(* The pipeline keeps the contract, step by step, as long as SendMessage    *)
(* does not lose its reply: nobody is refused an order that is in the queue,*)
(* and no refused order is sold or dead-lettered.                           *)
PromiseSpec == Promise!Spec

(* An accepted order is eventually in the orders collection, or every copy  *)
(* of its event ends in the dead-letter queue.                              *)
AcceptedSettled == Promise!Settled
=============================================================================
