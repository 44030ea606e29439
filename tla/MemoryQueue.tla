------------------------------ MODULE MemoryQueue ------------------------------
(***************************************************************************)
(* The API process with QUEUE_DRIVER=memory: the requests, the buffered    *)
(* channel of internal/repository/queue/memory_queue.go between them and   *)
(* the one consumer goroutine that cmd/api/main.go starts, and the         *)
(* shutdown of all three.  What is in the channel dies with the process.   *)
(*                                                                         *)
(* The stock counter in Redis is StockCache's.  The purchase lock is left  *)
(* out: it only keeps requests away, so that any request may be refused    *)
(* here, and more of them reserve at a time than the code lets.            *)
(*                                                                         *)
(* The channel carries pointers, and Fiber's c.Get returns a string over   *)
(* the request's own buffer, which the server reuses for a later request   *)
(* on the same context.  A development token's user id is a part of that   *)
(* string (VerifyIDToken); a Firebase token's is decoded, and so a copy.   *)
(*                                                                         *)
(* Faults names what may go wrong in a run:                                *)
(*   db_error          the transaction fails without effect                *)
(*   db_reply_lost     it commits, and the handler gets an error           *)
(*   crash             the process is killed                               *)
(*   cache_error       a Redis command fails without being applied         *)
(*   cache_reply_lost  it is applied, and the caller gets an error         *)
(*   cache_retried     EVAL or INCRBY is applied, its reply lost, and the  *)
(*                     Redis client sends it again                         *)
(*   late_prewarm      a SET of the stock lands while the sale runs: an    *)
(*                     administrator's, or one that the client sends again *)
(***************************************************************************)
EXTENDS OrderLedger, Sequences

CONSTANTS BufferSize,      \* the channel's capacity, 1000 in cmd/api/main.go
          NoOrder,
          Contexts,        \* the request contexts the server reuses
          ContextOf,       \* the one that serves each request
          TokenMode,       \* development (FIREBASE_DEV_MODE) or firebase
          Faults

ASSUME BufferSizeAssumption == BufferSize \in Nat \ {0}
ASSUME NoOrderAssumption    == NoOrder \notin OrderIDs
ASSUME ContextOfAssumption  == ContextOf \in [OrderIDs -> Contexts]
ASSUME TokenModeAssumption  == TokenMode \in {"development", "firebase"}

FaultKinds ==
    {"db_error", "db_reply_lost", "crash", "cache_error", "cache_reply_lost",
     "cache_retried", "late_prewarm"}

ASSUME FaultsAssumption == Faults \subseteq FaultKinds

VARIABLES
    cacheStock,  \* product:<id>:stock in Redis
    prewarming,  \* CreateProduct has inserted the product, not yet prewarmed it
    overfilled,  \* a SET landed after the sale began, or an INCRBY twice
    process,     \* up, stopping (runtimeCtx is done) or down
    ch,          \* the buffered channel
    worker,      \* the goroutine in ReceiveOrderEvents
    current,     \* the event it is handling
    attempt,     \* how often it has called the handler for it
    pc,          \* where each request is
    header,      \* the request whose header is in each context's buffer
    soldTo,      \* <<order, user>> for each document of the orders collection
    abandoned,   \* events given up after the last attempt
    lost         \* events that were queued or in hand when a process ended

stockVars == <<cacheStock, prewarming, overfilled>>
queueVars == <<ch, worker, current, attempt>>
vars == <<ledgerVars, stockVars, queueVars, process, pc, header, soldTo, abandoned, lost>>

Cache == INSTANCE StockCache WITH NoToken <- NoOrder, lock <- [u \in Users |-> NoOrder]

MaxAttempts == 3

Queued == {ch[i] : i \in DOMAIN ch}
InHand == {current} \ {NoOrder}

Serving == {"publish", "restore"}
RequestSteps == {"idle", "accepted", "refused", "crashed"} \cup Serving

TypeOK ==
    /\ LedgerTypeOK
    /\ cacheStock \in Nat /\ prewarming \in BOOLEAN /\ overfilled \in BOOLEAN
    /\ process \in {"up", "stopping", "down"}
    /\ ch \in Seq(OrderIDs) /\ Len(ch) <= BufferSize
    /\ worker \in {"listening", "handling", "stopped"}
    /\ current \in OrderIDs \cup {NoOrder}
    /\ worker = "handling" <=> current # NoOrder
    /\ attempt \in 0..MaxAttempts
    /\ pc \in [OrderIDs -> RequestSteps]
    /\ header \in [Contexts -> OrderIDs \cup {NoOrder}]
    /\ soldTo \subseteq OrderIDs \X Users
    /\ abandoned \subseteq OrderIDs /\ lost \subseteq OrderIDs

Init ==
    /\ LedgerInit
    /\ cacheStock = 0
    /\ prewarming = FALSE
    /\ overfilled = FALSE
    /\ process = "up"
    /\ ch = <<>>
    /\ worker = "listening"
    /\ current = NoOrder
    /\ attempt = 0
    /\ pc = [o \in OrderIDs |-> "idle"]
    /\ header = [c \in Contexts |-> NoOrder]
    /\ soldTo = {}
    /\ abandoned = {}
    /\ lost = {}

-----------------------------------------------------------------------------
(* The administrator: CreateProduct and PrewarmStock of productUsecase.     *)

AdminUnchanged == UNCHANGED <<queueVars, process, pc, header, soldTo, abandoned, lost>>

InsertProduct ==
    /\ process # "down"
    /\ CreateProduct("flash")
    /\ prewarming' = TRUE
    /\ UNCHANGED <<cacheStock, overfilled>>
    /\ AdminUnchanged

(* Somebody has taken units from the counter, and not had them refused.     *)
SaleBegun == \E o \in OrderIDs : pc[o] \notin {"idle", "refused"}

SetStock(n) ==
    /\ Cache!PrewarmStock(n)
    /\ overfilled' = (overfilled \/ SaleBegun)

(* The automatic prewarming; an error is a warning.                         *)
AutoPrewarm ==
    /\ process # "down"
    /\ prewarming
    /\ prewarming' = FALSE
    /\ \/ SetStock(InitialStock)
       \/ "cache_error" \in Faults /\ UNCHANGED <<cacheStock, overfilled>>
    /\ UNCHANGED ledgerVars
    /\ AdminUnchanged

(* The SET of an administrator's PrewarmStock, or a SET that the client     *)
(* sends again.  The stock it was compared with was read some time earlier, *)
(* and was at most the product's first.                                     *)
PrewarmStock(n) ==
    /\ process # "down"
    /\ product = "flash"
    /\ ~SaleBegun \/ "late_prewarm" \in Faults
    /\ SetStock(n)
    /\ UNCHANGED <<ledgerVars, prewarming>>
    /\ AdminUnchanged

-----------------------------------------------------------------------------
(* The requests: CreateFlashSaleOrder of orderUsecase.                      *)
Goto(o, step) == pc' = [pc EXCEPT ![o] = step]

RequestUnchanged ==
    UNCHANGED <<ledgerVars, worker, current, attempt, prewarming, process, soldTo, abandoned, lost>>

(* A context serves one request at a time.                                  *)
Free(c) == \A o \in OrderIDs : pc[o] \in Serving => ContextOf[o] # c

(* The server reads the request into its context's buffer, and it gets as   *)
(* far as DecrementStockAtomic and its reply, or is refused on the way: for *)
(* its quantity, its product, the user's lock or an error.                  *)
Reserve(o) ==
    /\ process # "down"
    /\ pc[o] = "idle"
    /\ Free(ContextOf[o])
    /\ header' = [header EXCEPT ![ContextOf[o]] = o]
    /\ \/ /\ ValidQuantity(o) /\ product = "flash"
          /\ \E ok \in BOOLEAN :
                \/ /\ Cache!DecrementStockAtomic(Quantity[o], ok)
                   /\ \/ Goto(o, IF ok THEN "publish" ELSE "refused")
                      \/ "cache_reply_lost" \in Faults /\ Goto(o, "refused")
                \/ /\ "cache_retried" \in Faults
                   /\ Cache!DecrementStockTwice(Quantity[o], ok)
                   /\ Goto(o, IF ok THEN "publish" ELSE "refused")
       \/ UNCHANGED cacheStock /\ Goto(o, "refused")
    /\ UNCHANGED <<ch, overfilled>>
    /\ RequestUnchanged

Publishing(o) ==
    /\ process # "down"
    /\ pc[o] = "publish"
    /\ UNCHANGED <<cacheStock, overfilled, header>>
    /\ RequestUnchanged

(* Mutants: a send that waits for room; one that drops the oldest event; one *)
(* that looks at the context only after the send.                           *)
PublishWaiting(o) ==
    /\ Publishing(o)
    /\ Len(ch) < BufferSize
    /\ ch' = Append(ch, o)
    /\ Goto(o, "accepted")

PublishOverOldest(o) ==
    /\ Publishing(o)
    /\ ch' = Append(IF Len(ch) < BufferSize THEN ch ELSE Tail(ch), o)
    /\ Goto(o, "accepted")

PublishThenCheck(o) ==
    /\ Publishing(o)
    /\ Len(ch) < BufferSize
    /\ ch' = Append(ch, o)
    /\ Goto(o, IF process = "up" THEN "accepted" ELSE "restore")

(* The select of PublishOrderEvent: send if there is room, otherwise fail;  *)
(* fail too, or send, when the server's context is done.                    *)
PublishOrderEvent(o) ==
    /\ Publishing(o)
    /\ \/ Len(ch) < BufferSize /\ ch' = Append(ch, o) /\ Goto(o, "accepted")
       \/ /\ Len(ch) = BufferSize \/ process = "stopping"
          /\ UNCHANGED ch
          /\ Goto(o, "restore")

(* The rollback; whether it failed is only joined to the error returned.    *)
Restore(o) ==
    /\ process # "down"
    /\ pc[o] = "restore"
    /\ Goto(o, "refused")
    /\ \/ Cache!IncrementStock(Quantity[o], 1) /\ UNCHANGED overfilled
       \/ "cache_error" \in Faults /\ UNCHANGED <<cacheStock, overfilled>>
       \/ /\ "cache_retried" \in Faults
          /\ Cache!IncrementStock(Quantity[o], 2)
          /\ overfilled' = TRUE
    /\ UNCHANGED <<ch, header>>
    /\ RequestUnchanged

-----------------------------------------------------------------------------
(* The consumer goroutine: ReceiveOrderEvents around ProcessOrderFromQueue. *)
ConsumerUnchanged == UNCHANGED <<stockVars, process, pc, header, lost>>

(* The select of the loop; when both cases are ready it takes either.       *)
Take ==
    /\ worker = "listening"
    /\ ch # <<>>
    /\ current' = Head(ch)
    /\ ch' = Tail(ch)
    /\ worker' = "handling"
    /\ attempt' = 1
    /\ UNCHANGED <<ledgerVars, soldTo, abandoned>>
    /\ ConsumerUnchanged

Stop ==
    /\ worker = "listening"
    /\ process = "stopping"
    /\ worker' = "stopped"
    /\ UNCHANGED <<ledgerVars, ch, current, attempt, soldTo, abandoned>>
    /\ ConsumerUnchanged

(* The handler returned nil, or an error for the last time.                 *)
NextEvent ==
    /\ worker' = "listening"
    /\ current' = NoOrder
    /\ attempt' = 0
    /\ UNCHANGED ch

Retry ==
    /\ attempt' = attempt + 1
    /\ UNCHANGED <<ch, worker, current>>

(* Mutants: no bound on the attempts; one attempt too many; the event goes  *)
(* to the back of the channel for another attempt.                          *)
RetryForever ==
    /\ attempt' = (attempt % MaxAttempts) + 1
    /\ UNCHANGED <<ch, worker, current, abandoned>>

RetryOnceMore ==
    \/ attempt <= MaxAttempts /\ Retry /\ UNCHANGED abandoned
    \/ attempt > MaxAttempts /\ NextEvent /\ abandoned' = abandoned \cup {current}

RetryAtTheBack ==
    /\ worker' = "listening"
    /\ current' = NoOrder
    /\ attempt' = 0
    /\ ch' = Append(ch, current)
    /\ UNCHANGED abandoned

(* The handler returned an error.                                           *)
HandlerError ==
    \/ attempt < MaxAttempts /\ Retry /\ UNCHANGED abandoned
    \/ attempt = MaxAttempts /\ NextEvent /\ abandoned' = abandoned \cup {current}

(* event.UserID, as the consumer reads it when it builds the order.         *)
Buyer(o) ==
    IF TokenMode = "development" THEN UserOf[header[ContextOf[o]]] ELSE UserOf[o]

Store(o) ==
    /\ Fulfil(o)
    /\ soldTo' = soldTo \cup {<<o, Buyer(o)>>}

(* ProcessOrderFromQueue runs under runtimeCtx, so it may fail once that is *)
(* done; an error may also hide a commit.                                   *)
Handle ==
    /\ worker = "handling"
    /\ \/ Store(current) /\ NextEvent /\ UNCHANGED abandoned
       \/ current \in orders /\ NextEvent /\ UNCHANGED <<ledgerVars, soldTo, abandoned>>
       \/ /\ \/ current \notin orders /\ ~CanFulfil(current)
             \/ "db_error" \in Faults
             \/ process = "stopping"
          /\ HandlerError
          /\ UNCHANGED <<ledgerVars, soldTo>>
       \/ /\ "db_reply_lost" \in Faults
          /\ Store(current)
          /\ HandlerError
    /\ ConsumerUnchanged

Consume == Take \/ Stop \/ Handle

-----------------------------------------------------------------------------
(* The process.                                                             *)

(* SIGTERM ends runtimeCtx; requests already read are still served.         *)
Shutdown ==
    /\ process = "up"
    /\ process' = "stopping"
    /\ UNCHANGED <<ledgerVars, stockVars, queueVars, pc, header, soldTo, abandoned, lost>>

(* What is in the channel or in hand ends with the process.                 *)
End ==
    /\ process' = "down"
    /\ lost' = lost \cup Queued \cup InHand
    /\ ch' = <<>>
    /\ current' = NoOrder
    /\ attempt' = 0
    /\ worker' = "stopped"
    /\ pc' = [o \in OrderIDs |-> IF pc[o] \in Serving THEN "crashed" ELSE pc[o]]
    /\ prewarming' = FALSE
    /\ header' = [c \in Contexts |-> NoOrder]
    /\ UNCHANGED <<ledgerVars, cacheStock, overfilled, soldTo, abandoned>>

(* main returns when the HTTP server has answered its requests, without     *)
(* waiting for the consumer.                                                *)
Exit ==
    /\ process = "stopping"
    /\ \A o \in OrderIDs : pc[o] \notin Serving
    /\ ~prewarming
    /\ End

(* The process is killed, or ShutdownWithTimeout gives up after ten seconds.*)
Crash ==
    /\ "crash" \in Faults
    /\ process # "down"
    /\ End

Restart ==
    /\ process = "down"
    /\ process' = "up"
    /\ worker' = "listening"
    /\ UNCHANGED <<ledgerVars, stockVars, ch, current, attempt, pc, header, soldTo, abandoned,
                   lost>>

Next ==
    \/ InsertProduct \/ AutoPrewarm
    \/ \E n \in 0..InitialStock : PrewarmStock(n)
    \/ \E o \in OrderIDs : Reserve(o) \/ PublishOrderEvent(o) \/ Restore(o)
    \/ Consume
    \/ Shutdown \/ Exit \/ Crash \/ Restart

Spec == Init /\ [][Next]_vars

(* A request's goroutine and the consumer run, and a shutdown that began    *)
(* ends.  Nothing else must happen.                                         *)
Fairness ==
    /\ \A o \in OrderIDs : WF_vars(PublishOrderEvent(o) \/ Restore(o))
    /\ WF_vars(AutoPrewarm)
    /\ WF_vars(Consume)
    /\ WF_vars(Exit)

FairSpec == Spec /\ Fairness

-----------------------------------------------------------------------------
(* The contract of OrderPromise, as this queue keeps it: an order is dropped*)
(* when it was given up or lost with its process, and nothing keeps it.     *)
answer ==
    [o \in OrderIDs |->
        IF pc[o] \in {"accepted", "refused"} THEN pc[o] ELSE "none"]

fate ==
    [o \in OrderIDs |->
        CASE o \in orders                               -> "sold"
          [] o \notin orders /\ o \in abandoned \cup lost -> "dropped"
          [] OTHER                                       -> "open"]

Promise == INSTANCE OrderPromise WITH
               answer <- answer, fate <- fate, Unsold <- "dropped"

-----------------------------------------------------------------------------
(* An order is sold, in the channel or in hand, given up after the last     *)
(* attempt or lost with its process, exactly if it was answered 202.  The   *)
(* full channel, the shutdown and the retries drop nothing else; and unlike *)
(* SendMessage a failed send has sent nothing, so an order that is refused, *)
(* and its units given back, is never sold.                                 *)
AcceptedAccounted ==
    \A o \in OrderIDs :
        pc[o] = "accepted" <=> o \in orders \cup abandoned \cup lost \cup Queued \cup InHand

(* Unlike SQS the channel delivers an event once: it is waiting, in hand,   *)
(* given up or lost, never two of these, and an order that is sold is not   *)
(* waiting any more.  The handler meets an order that is stored already     *)
(* only in a retry, after an attempt that committed behind an error.        *)
DeliveredOnce ==
    /\ \A i, j \in DOMAIN ch : ch[i] = ch[j] => i = j
    /\ Queued \cap (InHand \cup orders \cup abandoned \cup lost) = {}
    /\ InHand \cap (abandoned \cup lost) = {}
    /\ abandoned \cap lost = {}
    /\ InHand \cap orders # {} => attempt > 1

(* A full channel turns requests away, it does not hold them: also when the *)
(* consumer has stopped before the server has.                              *)
PublishNeverBlocks ==
    \A o \in OrderIDs : pc[o] = "publish" ~> pc[o] # "publish"

(* The queue keeps the contract, step by step: nobody is refused an order   *)
(* that is queued, and no refused order is sold or given up.                *)
PromiseSpec == Promise!Spec

(* An order answered 202 is settled in the end, however often the store     *)
(* fails and however the process ends: after a shutdown it is lost with the *)
(* channel, not left waiting in it.                                         *)
AcceptedSettled == Promise!Settled

(* The order is recorded under the buyer who placed it, "the immutable      *)
(* order event" (CreateFlashSaleOrder), however long it waits in the channel*)
SoldToBuyer == soldTo = {<<o, UserOf[o]>> : o \in orders}

(* An order is given up for want of stock only after Redis was given units  *)
(* it should not have: by a SET while the sale runs, or by a rollback's     *)
(* INCRBY applied twice.  Otherwise what DecrementStockAtomic promised is   *)
(* still there at the last attempt, or the order is sold already, however   *)
(* requests, rollbacks, retries and restarts interleave.                    *)
NeverGivenUpForStock ==
    [][abandoned' # abandoned /\ ~overfilled => current \in orders \/ CanFulfil(current)]_vars
=============================================================================
