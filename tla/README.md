# Verification of the flash-sale engine

TLA+ modules for the order path of the flash-sale engine: what happens to a unit
of stock and to an order between the administrator's `CreateProduct` and the
buyer's `COMPLETED`, while HTTP requests, worker goroutines, Redis, SQS and
MongoDB interleave and fail. TLC checks the models on small instances; TLAPS
proves the central results for every number of orders, users, workers and units.

Paths below are relative to the repository (`src/`).

## 1. Inventory

| Part | Code | State | Operations | Model |
|---|---|---|---|---|
| Durable store | `internal/repository/mongodb` | product document with its stock; orders collection, unique `order_id` | `CreateProduct`, `CreateOrderAndDecrementStock`, finders | `OrderLedger` (promise), `OrderTransaction` (MongoDB transaction) |
| Stock cache and lock | `internal/repository/redis` | `product:<id>:stock`, `lock:user:..:product:..:lock` with TTL | `PrewarmStock`, `DecrementStockAtomic`, `IncrementStock`, `AcquireLock`, `ReleaseLock` | `StockCache` |
| SQS queue | `internal/repository/aws/sqs_repository.go`, `scripts/init-localstack.sh` | messages, visibility, receive counts, dead-letter queue | `SendMessage`, `ReceiveMessage`, `DeleteMessage`, redrive | `OrderQueue` |
| Order requests | `internal/usecase/order_usecase.go`, `order_handler.go` | one goroutine per request | `CreateFlashSaleOrder` | `OrderPipeline` |
| Order worker | `cmd/worker`, `sqs_repository.go`, `order_usecase.go` | one goroutine per received message | `ReceiveOrderEvents`, `ProcessOrderFromQueue` | `OrderPipeline` |
| Catalog | `internal/usecase/product_usecase.go` | none of its own | `CreateProduct`, `PrewarmStock` | `OrderPipeline` |
| In-memory queue | `internal/repository/queue`, `cmd/api/main.go` | buffered channel, one consumer | publish, consume with three attempts, shutdown | `MemoryQueue` (with the requests and the Redis counter before it) |
| Status stream | `order_handler.go`, `redis_repository.go` | subscription, forwarding goroutine, writer | `StreamOrderStatus`, `SubscribeEvent`, `PublishEvent` | `OrderStatusStream` |
| Access control | `middleware`, `firebase`, `auth_usecase.go`, `router.go`, `canAccessOrder` | none | verify token, require role, admit to a route, to an order | `AccessControl` |
| Configuration | `pkg/config` | none | load, validate | `Config` |
| Startup | `cmd/api`, `cmd/worker`, the clients' constructors | the drivers chosen, where each main is | connect, select drivers, start consumer, listen | `Startup` |
| Rest | rate limiter, object storage, metrics, tracing, logging, web page, generated docs | - | - | not modelled (section 8) |

How they interact. A request takes the user's lock and then units from the
counter in Redis, sends an event to the queue and answers 202; a worker receives
the event, creates the order and takes the persistent stock in one MongoDB
transaction, publishes `COMPLETED` on the order's Redis channel and deletes the
message. Nothing but the event connects the two halves, so the two stocks agree
only if every path through both halves, the failing ones included, keeps the
books. No component waits for another except through these calls.

What is hard, and what makes each part correct:

* *Store* - conflicting transactions, retried callbacks, lost commit replies: an
  order and its decrement appear together, once, and never below zero.
* *Cache and lock* - check and decrement are one step; a lock that expires early
  must not be released by its late owner; a request must not slip past it.
* *Queue and worker* - at-least-once delivery, a visibility timeout racing the
  handler, crash between commit and acknowledgement: no accepted order is lost,
  none is acknowledged before it is stored.
* *Requests* - partial failure between lock, reservation, publishing and
  rollback: no unit promised twice, none lost.
* *In-memory queue* - full channel, three attempts, shutdown with work queued.
* *Access and startup* - a decision composed of many small ones (headers, modes,
  roles, defaults, drivers chosen in two places) must leave no combination open.
* *Stream* - a subscription racing the one event it waits for; goroutines and
  subscriptions left behind.

`PROJECT.json` lists each such hazard at its line, with the properties that cover it.

## 2. Modules

```
Orders ── OrderLedger ──┬── OrderTransaction      (implements LedgerSpec)
   ├── StockCache ──────┼── MemoryQueue           (implements OrderPromise)
   └── OrderQueue ──────┴── OrderPipeline         (implements OrderPromise)
AccessControl ──┬── OrderStatusStream
Config ─────────┴── Startup
OrderPromise

proofs: OrdersTheorems ─ OrderLedgerProofs ─┬─ OrderTransactionProofs
                                            ├─ OrderPipelineProofs ─ OrderReservationProofs
                                            └─ MemoryQueueProofs
        OrderStatusStreamProofs   StartupProofs
```

The `MC...` modules give the constants their values for TLC.

* **OrderPromise** - the abstract specification of what a buyer is told and gets:
  an order is accepted or refused, and sold or given up; refused orders are never
  sold. `Unsold` names what giving up means: with SQS an order is "parked" in the
  dead-letter queue, where an operator can find it; the in-memory queue has
  "dropped" it, and nothing keeps it. `OrderPipeline` and `MemoryQueue` define `answer` and `fate` as their
  refinement mappings. `Sell` does not wait for `Accept`: a worker may be done
  before the request has read SQS's reply.
* **Orders** - the orders of one product, `UserOf` and `Quantity` as functions of
  the order id, and `Total(S)`. All keys and filters of the code contain the
  product id, so products do not interact. A request, its event and its lock
  token are each drawn fresh, so one id names all three.
* **OrderLedger** - the abstract specification of the store: `CreateProduct` and
  `Fulfil` (check, decrement and insert in one step).
* **StockCache**, **OrderQueue** - state and operations of Redis and SQS as the
  code uses them, one operator per call. They have no `Next` of their own.
* **OrderPipeline** - `CreateFlashSaleOrder`, `ProcessOrderFromQueue` with
  `ReceiveOrderEvents`, `CreateProduct` and `PrewarmStock`, one action per call
  to a service. The constant `Faults` says what may go wrong in an instance; the
  module's header lists the eighteen kinds. A missing Redis key reads as 0
  everywhere in the code and is not told apart from 0.
* **OrderTransaction** - `CreateOrderAndDecrementStock` one MongoDB operation at a
  time. MongoDB is snapshot isolation with first-writer-wins conflicts;
  the driver's `WithTransaction` chooses freely between retrying and returning
  the error, which covers its labels and its time limit.
* **MemoryQueue** - the alternative `QUEUE_DRIVER=memory`: prewarming, the requests
  with their reservation in Redis and their rollback, channel, consumer goroutine,
  and the life of the process. It uses `StockCache`'s counter; the user's lock is left
  out, so that any request may be refused and more of them reserve at a time than
  the code lets. `overfilled` remembers whether Redis was given units it should not
  have: by a SET after the sale began, or by a rollback's INCRBY applied twice. It
  keeps for each request context whose header lies in its buffer, because a
  development token's user id is a piece of that buffer and the channel carries
  pointers.
* **OrderStatusStream** - the SSE handler, the forwarding goroutine of
  `SubscribeEvent`, Redis pub/sub and the notifying workers, for one order. Whether
  a request gets its stream is `AccessControl`'s decision on its header; the
  middleware's refusal (401) and the handler's (404, also for an order of somebody
  else) are told apart.
* **AccessControl** - the middleware chain as operators: `Authenticate` (header and
  `VerifyIDToken` in both modes), `RequireRole`, `Admits` by route, `canAccessOrder`.
* **Config** - `LoadConfig` and `Validate` over classes of values: empty, blank,
  given, and the values the code names. Unset and empty are one class, since
  no function of the code tells them apart.
* **Startup** - both `main` functions step by step, one environment for the two (the
  `appEnv` group of `render.yaml`), MongoDB coming and going, and an order placed
  with the API that results.

Correspondence of `OrderPipeline` with the code:

| Action | Code | |
|---|---|---|
| `LoadProduct` | `order_usecase.go:53-68` | quantity check, load, flash-sale check |
| `LockUser` | `:70-85` | SETNX with TTL; the release is deferred only once granted |
| `Reserve` | `:87-96` | the Lua script, once or, repeated by the client, twice |
| `Publish` | `:98-136` | SendMessage; on success the lock stays |
| `Restore`, `Release` | `:115-124`, `:80-85` | rollback, deferred release |
| `ReceiveOrderEvents` | `sqs_repository.go:57-114` | one batch; again when all its goroutines returned |
| `ProcessOrder`, `Notify` | `order_usecase.go:139-178` | the transaction as the ledger's `Fulfil`; notification, its error ignored |
| `Acknowledge` | `sqs_repository.go:103-108` | DeleteMessage, its error logged |
| `InsertProduct`, `AutoPrewarm` | `product_usecase.go:42-80` | insertion; prewarming, its error a warning |
| `CheckPrewarm`, `SetPrewarm` | `:90-106` | the comparison; the SET |
| `ResendPrewarm` | `redis/client.go:10-29` | the SET of either, sent again by the client after a lost reply |
| `LockExpires`, `VisibilityTimeout`, `Redrive`, `CacheLost`, `ApiCrash`, `WorkerCrash` | timers, services and processes | |

`pc[r]` is where a request's goroutine is, `task[w][m]` where worker `w`'s
goroutine for message `m` is, `catalog`/`amount` where the administrator is.

## 3. Properties

| Property | Says |
|---|---|
| `LedgerSpec` | the transaction: an order and its decrement are one step, once |
| `Conservation` | of the whole pipeline: stock left + stock sold = stock created |
| `ReservationsBacked` | persistent stock covers the Redis counter plus every reserved or queued order: nobody accepted is turned away |
| `AcceptedCanBeSold`, `CacheWithinStock` | so the store's stock filter matches for every order that is queued, at every moment; and Redis never offers more than the store has |
| `OverpromisedOnlyByRollback` | under every fault at once, only a SET of the counter and a rollback of units that are promised already leave more promised than before; crashes, redeliveries and repeated scripts may cost units and add none |
| `NoUnitLeaks` | without lost Redis calls and API crashes that account stays exactly balanced: units are not lost either |
| `RefusedNeverQueued` | units are given back, and a buyer refused, only if the order will never be sold |
| `OneRequestInFlight`, `ReleaseKeepsOthersLock` | the double-click lock excludes; a late release spares its successor |
| `RefusedMayRetry` | a refused request leaves no lock of its own behind: the buyer may try again at once |
| `AcceptedNeverLost`, `WorkDoneBeforeAck` | accepted orders are stored, queued or dead-lettered; acknowledged and announced means stored |
| `PromiseSpec` | step by step, nobody is refused an order that is queued, and no refused order is sold or given up |
| `AcceptedSettled` | liveness of orders, in both queues |
| `CreatedOnce`, `DuplicateMeansDone`, `WriterIsCurrent` | what the calls of the transaction answer, and that no decrement is lost |
| `AcceptedAccounted`, `PublishNeverBlocks` | the in-memory queue: an order is somewhere in it, or sold, given up or lost, exactly if it was answered 202, and a full channel holds nobody up |
| `DeliveredOnce` | an event is waiting, in hand, given up or lost, never two of these; a stored order is met again only in a retry |
| `NeverGivenUpForStock` | unless Redis was overfilled, its consumer gives up only an order that is sold already or could still be: what the script took is still there after rollbacks, retries and restarts |
| `SoldToBuyer` | an order is recorded under the user who placed it, however long it waited (violated, section 6) |
| `SubscribedIsTold`, `SubscriptionReleased`, `ForwarderEnds` | the status stream: events reach their clients, subscriptions and goroutines end |
| `OnlyDuplicatesLeftOver` | the safety core of `ForwarderEnds`: what a forwarder is left with is a duplicate's event or one for a client that left |
| `ToldOnlyToEntitled` | only the buyer and staff ever hold a stream, a subscription or a status of an order; the refusal of all others depends on their token alone, and not on whether the order exists |
| `ProductionIsSound` | no combination of variables starts a production API whose middleware admits an unsigned token, or a customer to an administrators' route, that is open to every origin, or runs on LocalStack's settings |
| `ValidatedDriversStart`, `OrdersReachAQueue`, `QueueHasConsumer` | past `Validate` drivers can be built, orders meet a queue (unless `QUEUE_DRIVER` is blank), and the queue a consumer |
| `StartupSettles` | a start ends, with MongoDB up, down or flapping |

## 4. Runs

| Run | Instance | Shows |
|---|---|---|
| PipelineSafe | a1, a2 of one user; stock 3; one worker, two copies of an event; SafeFaults | types, no overselling, honest refusals, the promise; 517,416 states |
| PipelineAll | the same, stock 2 (not enough for both), one copy; all faults | conservation, the late release, what alone can promise a unit twice; 1,138,746 states |
| PipelineWorkers | a1 and a2 of one user, b1 of another; stock 2, enough for a1 and b1 only; two workers, batches of two, two receives; WorkerFaults; fairness | acknowledgement, exclusion, no leak, no lock left, accepted orders can be sold and are settled; 180,415 states |
| Transaction | three orders, two sessions, stock for two orders | refinement by the transaction |
| MemoryQueueFaults | three orders of two users, stock for any two, channel of one, two contexts; Firebase tokens; all faults; fairness | in-memory queue, single delivery, the promise, stock for every accepted order; 98,732 states |
| StreamFaults | five streams (buyer, seller, stranger with an unknown role, forged, no token), two deliveries; fairness | status stream and who may open it; 45,312 states |
| Startup | every environment at most two variables away from Render's, Compose's or a single process's; fairness | configuration and startup; 174,286 states |
| SlowRequest, ReplyLost, LatePrewarm, StreamMissed, EventAliased | one fault each, or none | the five disagreements of section 6 |

Bounds, and why they suffice. Two requests of one user make a double click and
are rivals for the stock; quantities 1 and 2 with a stock of their sum, or one
less, make "not enough" happen in Redis (also after a smaller prewarming or a
repeated command) and, in PipelineAll, in MongoDB. The third order of
PipelineWorkers is another user's, so its lock excludes nobody: two reservations
really run at once there, over a counter that does not cover all of them. Each order is
requested once (`pc` never returns to idle); a further attempt is another order.
`MaxReceive` is 1 or 2 (3 in the deployment): 1 already dead-letters, 2 lets a
message be redelivered in between. `MaxCopies` 2 is one duplicated send; only PipelineSafe
has it, with the one worker that this leaves room for; two workers are in PipelineWorkers. One
repetition of a Redis command stands for the client's retries: it already takes
or restores twice. The channel of capacity 1 is full after one event. Two
deliveries in the stream are the original and one duplicate.
In Startup two variables astray are what it takes for one check to hide another
(a driver and its keys, a mode and ENV, a path and its JSON); the theorems of
section 7 are about all environments. SafeFaults leaves out the four faults
under which a unit is promised twice (`queue_reply_lost`, `restore_retried`,
`prewarm_retried`, `late_prewarm`); WorkerFaults has those of the queue, the workers and the store, and
none that loses units (lost or repeated calls to Redis, a Redis restart, an API
crash) or takes the lock from a live request (a slow request, a Redis restart).
These sets are what the theorems of section 7 assume.

Only the stream's instances turn the deadlock check off: there everything ends
when all streams are closed. `OrderPipeline` says in `Terminated` where it may stop.

Every property has a mutant, a plausible bug defined beside the code's action
(marked *Mutant* in the modules), under which TLC finds it violated.

## 5. Fairness

Weak fairness for what the Go scheduler and the services run by themselves: the
next step of a request being served, the worker's polling loop and its message
goroutines, the consumer of the in-memory queue, the stream's writer and
forwarder, a process that is starting or shutting down, Redis key expiry, the SQS
visibility timeout and redrive, and the confirmation of a subscription. None for what nobody owes: arriving requests,
the administrator, faults, crashes, disconnections, the beginning of a shutdown,
restart, MongoDB coming back. Polling is fair also after `WorkerCrash`, which assumes that the
platform restarts a worker that died: Render does; `docker-compose.yml` gives its
worker no restart policy, and there the orders in the queue wait for the
operator. A fault that the model offers as an alternative
outcome of a step (say `db_error`) may happen every time, so `AcceptedSettled`
allows the dead-letter queue. `StartupSettles` needs no more than that main goes
on, since `NewMongoClient` gives up after ten seconds.

## 6. Where the code and its words disagree

* **SlowRequest** - a request that outlives its ten-second lock is not excluded from
  running beside the user's next one (`order_usecase.go:70-73`).
* **ReplyLost** - an error from `SendMessage` is taken for "not queued"
  (`order_usecase.go:115-118`): the units are restored, the order is sold later.
* **LatePrewarm** - the comparison with the persistent stock
  (`product_usecase.go:101`) and the SET (`:105`) are two steps, and reservations
  are not subtracted. The endpoint is documented for use "before Flash Sale
  starts", and the other runs use it so (`BeforeSale`).
* **StreamMissed** - a stream can be opened only once the order is stored, that is
  COMPLETED, then reports PENDING (`order_handler.go:135`) and waits for an event
  that has been published already or is about to be.
* **EventAliased** - the "immutable order event" (`order_usecase.go:98`) is immutable
  in SQS, where it is marshalled at once, and with Firebase tokens, whose user id is
  decoded. With `FIREBASE_DEV_MODE` and the in-memory queue its user id lies in the
  request's buffer (`auth_client.go:58`), which Fiber reuses after the handler, and
  the order may be stored under another user.

Three oddities that no comment denies, and so no run reports: a blank
`QUEUE_DRIVER` passes `Validate` and leaves a nil queue (`OrdersReachAQueue` and its
theorem say that nothing else does); a blank `STORAGE_DRIVER` likewise leaves a nil
storage, met by the upload URL only; a blank `FIREBASE_CREDENTIALS_PATH` hides the
JSON credentials, and the API does not start.

## 7. Proofs

Checked by `tlapm`; each proof module extends the module it is about.

* **OrdersTheorems** - `Total` is a natural number, additive and monotone. It is
  the cardinality of a set of units, not a recursive sum, so that these
  facts follow from the library's theorems without induction.
* **OrderLedgerProofs** - `LedgerSpec => []Conservation`.
* **OrderTransactionProofs** - `Spec => LedgerSpec` and the run's invariants.
  `CreatedOnce` and `WriterIsCurrent` are not inductive alone: `IInv` adds
  `SnapshotInv` (what a session checked stays true while its snapshot is not
  stale) and `AnswerInv` (who still has to answer "created"). `CommitFulfils`
  derives from it that the commit is the ledger's `Fulfil`.
* **OrderPipelineProofs** - `Conservation`, types, `WorkDoneBeforeAck` and
  `AcceptedNeverLost`, with any faults. The last two follow from `PipelineInv`, which
  adds that accepted requests have sent their event (`SentInv`) and that a handler
  past its transaction has its order stored (`WorkInv`). That the pipeline touches
  the store by the ledger's own steps only holds by construction, and is a lemma
  (`PipelineUsesLedger`); the result about the code is `TxnImplementsLedger`.
* **OrderReservationProofs** - `DoubleClickExcluded`, `RefusedStaysRefused`,
  `UnitsNeverLeak` and `NeverOversold`, each `ASSUME Without(<faults>)`. The argument
  for the last two is `Slack`: persistent stock minus Redis counter minus
  outstanding claims. Each step moves units between the three; `SlackNeverFalls`
  shows that apart from a SET of the counter and from `Overpromises` no step makes
  it smaller, whatever fails (`OverpromisedOnlyThere`), and `SlackStep` that only lossy
  faults make it larger; by `StageInv` the administrator cannot make it negative before
  the sale. The four `UnsafeFaults` that `NeverOversold` excludes are real: each lets
  a unit be promised twice, `prewarm_retried` even when the only prewarming is the
  automatic one, since the product can be ordered while its SET is repeated.
  `AcceptedAlwaysCanBeSold` and `CacheStaysWithinStock` read the same invariant from
  the worker's and from Redis's side: the claims of the orders still queued are part
  of what the stock covers, so each alone is covered.
  `OthersLockKept` needs no invariant but types and no assumption
  on faults. `PipelineKeepsPromise` is the refinement of `OrderPromise`: with
  `RefusedNeverQueued` and `AcceptedNeverLost` in hand each action is one of its
  steps or a stutter (a redrive is `GiveUp` when it takes the last copy).
  `RefusedBuyerMayRetry` needs `TokenInUse`: the token in a lock is that of a request
  past `lock` and not yet `rejected`; it assumes only that no call to Redis fails
  (`LockingFaults`), since an expired or a flushed lock frees, and does not keep.
  `OnlyFailedDeliveriesPark` assumes neither `UnsafeFaults` nor `DeliveryFaults` (a slow
  or dying handler, a lost receive or acknowledgement, a failing store): then each
  message is received once and deleted (`ReceivedOnce`), so the dead-letter queue
  stays empty and what is hidden is in somebody's hands, whatever the requests and
  Redis do. No run states it, as none has just its faults; its invariant was checked
  with TLC under those faults, on two orders, before it was proved.
* **MemoryQueueProofs** - types, `AcceptedAccounted` and its corollary `RefusedNeverSold`,
  `DeliveredOnce`, `NeverGivenUpForStock` and the refinement `MemoryQueueKeepsPromise`,
  under any faults. `QueueInv` adds what the properties do not say of themselves:
  whatever reached the channel was answered 202 (`OnlyAccepted`), and, unless Redis was
  overfilled, the persistent stock covers the counter together with every order that
  has taken units and may still be sold (`ClaimsCovered`). The script keeps that sum
  (`DecrementTakes`), a SET before the sale starts it (`SetStockCovers`), the rollback
  gives back what its claim took; it is what makes a failing handler's `CanFulfil`
  true. For `DeliveredOnce` a
  request must not publish what is there already, which `OnlyAccepted` gives, and
  sends and receives must keep the channel free of repetitions
  (`SendKeepsDistinct`, `ReceiveKeepsDistinct`, by index).
* **OrderStatusStreamProofs** - types, which need that the notifications due never
  exceed the deliveries, and `ToldOnlyToEntitled` for any set of requests and tokens,
  by way of `MayOpenEntitles`: what the middleware chain admits is entitled, and the
  others get the one answer their token earns.
  `OnlyDuplicatesLeftOver` follows by counting (`EventsCounted`): for each stream the
  events due, buffered, in the forwarder's hands and seen by the client are never
  more than the deliveries, and a writer leaves a client that stays only when it has
  told it (`ToldThenClosed`).
* **StartupProofs** - the run's invariants for every set of environments. `StartInv`
  adds what each step leaves behind (`Passed`: past `config`, `Validate` holds;
  `Chosen`: the drivers are the ones the settings name; `WorkerEnded`: why the worker
  ended); `ValidatedCanLoadAWSConfig` shows that `Validate` and the defaults of
  `LoadConfig` together never leave one AWS key without the other, and
  `ProductionAsksFirebase` that a production API holds the client that asks Firebase,
  on which `ProductionAdmitsSigned`, the first part of `ProductionIsSound`, rests.

The proofs rest on the named assumptions about the constants only (finite
`OrderIDs`, `UserOf` and `Quantity` total, `InitialStock` natural, positive
bounds, `Faults` among the kinds, headers and environments among the modelled
ones), which TLC evaluates in every run, and on the assumptions each theorem states.

Model-checked only: all liveness (TLAPS does not handle ENABLED): `AcceptedSettled`,
`PublishNeverBlocks`, `SubscribedIsTold`, `SubscriptionReleased`,
`ForwarderEnds`, `StartupSettles`. Their safety cores are proved where they have one:
`AcceptedNeverLost`, `AcceptedAccounted` and `AcceptedCanBeSold` (an accepted order has
somewhere to be settled from), `RefusedMayRetry`, `OnlyDuplicatesLeftOver`.

## 8. Not modelled

* MongoDB losing a majority-committed write, and SQS deleting a message after
  its retention time: the services' guarantees are assumed.
* Redis restarting from an append-only log that lacks its last second
  (`docker-compose.yml:37`); the model loses all of Redis or nothing. The overfull
  counter such a restart leaves arises from `late_prewarm`, `prewarm_retried` and
  `restore_retried` too, and `Conservation` is proved whatever the cache holds.
* Malformed messages: `PublishOrderEvent` is the queue's only producer.
* Prices, names and traces; HTTP status codes beyond accepted/rejected.
* `CreateOrder`, `UpdateOrderStatus`, `ProductRepository.DecrementStock`: not called.
* Settings that decide nothing here: `AWS_ENDPOINT`, `AWS_REGION`, `APP_NAME`, passwords.
  Deployments whose two processes have different environments, as the worker of
  `docker-compose.yml` may: what each does with its own is modelled, but
  `QueueHasConsumer` is about a shared one.
* Object storage: an upload URL is signed without any state; of its two drivers
  only the selection is modelled. The rate limiter is the middleware of a library.
* Metrics, tracing, logging, the web page, the generated API documentation.

## 9. What is left

A Redis that restarts with an older counter as an action, with a persisted copy of
the counter in the state; the finders and read-only handlers, whose answers could
be related to the state they race with (`GetRedisStock` during a sale); one
model of a deployment with separate environments.

Of the proofs: what `OrderPromise` and `LedgerSpec` imply of themselves, stated once
and inherited by both queues (answers and sales are final); and what of the promise
survives a lost SendMessage reply.
