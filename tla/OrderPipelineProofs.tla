-------------------------- MODULE OrderPipelineProofs --------------------------
(***************************************************************************)
(* What holds of the sale for any orders, users, workers, stock, bounds of *)
(* the queue and faults.                                                   *)
(*                                                                         *)
(* First, whatever the faults: the stock is conserved, the variables have  *)
(* their types, and PipelineInv ties requests, messages, handlers and      *)
(* orders together: an order has a message, a message has a request that   *)
(* got past Publish, and a message is acknowledged after its order         *)
(* committed.                                                              *)
(***************************************************************************)
EXTENDS OrderPipeline, OrderLedgerProofs

(* A request has a message in the queue once it has published, never before,*)
(* and no order is without one.                                             *)
SentInv ==
    \A r \in OrderIDs :
        /\ pc[r] \in RequestSteps \ {"idle", "rejected"} => ValidQuantity(r)
        /\ Sent(r) => ValidQuantity(r) /\ pc[r] \notin {"idle", "lock", "reserve", "publish"}
        /\ pc[r] = "accepted" => Sent(r)
        /\ r \in orders => Sent(r)

(* A handler works on a message that was sent, and is past the transaction  *)
(* only if the order is there.                                              *)
WorkInv ==
    /\ WorkDoneBeforeAck
    /\ \A w \in Workers, m \in Messages :
          /\ task[w][m] # "none" => queue[m] # "none"
          /\ task[w][m] \in {"notify", "ack"} => OrderOf(m) \in orders

PipelineInv == TypeOK /\ SentInv /\ WorkInv

-----------------------------------------------------------------------------
(* The calls of the queue, as far as requests can tell.                     *)
LEMMA MessageOrder ==
    /\ \A m \in Messages : OrderOf(m) \in OrderIDs
    /\ \A o \in OrderIDs : <<o, 1>> \in Messages /\ OrderOf(<<o, 1>>) = o
BY QueueBoundsAssumption DEF Messages, OrderOf

(* SendMessage puts a message of this order in the queue and leaves the     *)
(* others alone.                                                            *)
LEMMA SendMessageSends ==
    ASSUME QueueTypeOK, NEW o \in OrderIDs, NEW copies \in Nat \ {0},
           SendMessage(o, copies)
    PROVE  /\ QueueTypeOK'
           /\ Sent(o)'
           /\ \A m \in Messages : OrderOf(m) # o => queue'[m] = queue[m]
           /\ \A m \in Messages : queue'[m] \in {queue[m], "ready"}
<1>1. \A m \in Messages : queue'[m] = IF OrderOf(m) = o /\ m[2] <= copies
                                      THEN "ready" ELSE queue[m]
  BY DEF SendMessage
<1>2. QueueTypeOK'
  BY DEF SendMessage, QueueTypeOK, MessageStates
<1>3. queue'[<<o, 1>>] = "ready" /\ <<o, 1>> \in CopiesOf(o)
  <2>1. <<o, 1>> \in Messages /\ OrderOf(<<o, 1>>) = o /\ <<o, 1>>[2] <= copies
    BY MessageOrder
  <2> QED
    BY <1>1, <2>1 DEF CopiesOf
<1>4. Sent(o)'
  BY <1>3 DEF Sent, CopiesOf
<1> QED
  BY <1>1, <1>2, <1>4

(* No other call creates or forgets a message, and only DeleteMessage       *)
(* deletes one.                                                             *)
LEMMA QueueKeepsMessages ==
    ASSUME QueueTypeOK,
           \/ \E batch \in SUBSET Messages : ReceiveMessage(batch)
           \/ \E m \in Messages : Reappear(m) \/ DeadLetter(m)
    PROVE  /\ QueueTypeOK'
           /\ \A m \in Messages : (queue'[m] = "none") <=> (queue[m] = "none")
           /\ \A m \in Messages : queue'[m] = "deleted" => queue[m] = "deleted"
<1>1. ASSUME NEW batch \in SUBSET Messages, ReceiveMessage(batch)
      PROVE  /\ QueueTypeOK'
             /\ \A m \in Messages : (queue'[m] = "none") <=> (queue[m] = "none")
             /\ \A m \in Messages : queue'[m] = "deleted" => queue[m] = "deleted"
  BY <1>1, QueueBoundsAssumption DEF ReceiveMessage, QueueTypeOK, MessageStates
<1>2. ASSUME NEW m \in Messages, Reappear(m) \/ DeadLetter(m)
      PROVE  /\ QueueTypeOK'
             /\ \A n \in Messages : (queue'[n] = "none") <=> (queue[n] = "none")
             /\ \A n \in Messages : queue'[n] = "deleted" => queue[n] = "deleted"
  BY <1>2 DEF Reappear, DeadLetter, QueueTypeOK, MessageStates
<1> QED
  BY <1>1, <1>2

(* DeleteMessage deletes the acknowledged message and no other.             *)
LEMMA DeleteMessageDeletes ==
    ASSUME QueueTypeOK, NEW m \in Messages, DeleteMessage(m)
    PROVE  /\ QueueTypeOK'
           /\ \A n \in Messages : (queue'[n] = "none") <=> (queue[n] = "none")
           /\ \A n \in Messages : n # m => queue'[n] = queue[n]
BY DEF DeleteMessage, QueueTypeOK, MessageStates

-----------------------------------------------------------------------------
(* Every step of the pipeline is a step of the ledger or leaves it alone:   *)
(* only the insertion of the product and the handler's transaction write to *)
(* MongoDB, and the latter takes effect once however often it is delivered. *)
LEMMA PipelineStepRefines == [Next]_vars => [LedgerNext]_ledgerVars
<1> SUFFICES ASSUME [Next]_vars
             PROVE  [LedgerNext]_ledgerVars
  OBVIOUS
<1>1. CASE AdminNext
  BY <1>1 DEF AdminNext, InsertProduct, AutoPrewarm, CheckPrewarm, SetPrewarm,
              ResendPrewarm, SetStock, LedgerNext
<1>2. ASSUME NEW r \in OrderIDs, LoadProduct(r) \/ RequestStep(r) \/ ApiCrash(r)
      PROVE  UNCHANGED ledgerVars
  BY <1>2 DEF LoadProduct, RequestStep, LockUser, Reserve, Publish, Restore,
       Release, ApiCrash, RequestUnchanged
<1>3. ASSUME NEW w \in Workers, ReceiveOrderEvents(w) \/ WorkerCrash(w)
      PROVE  UNCHANGED ledgerVars
  BY <1>3 DEF ReceiveOrderEvents, WorkerCrash
<1>4. ASSUME NEW w \in Workers, NEW m \in Messages, TaskStep(w, m)
      PROVE  [LedgerNext]_ledgerVars
  BY <1>4, MessageOrder DEF TaskStep, ProcessOrder, Notify, Acknowledge, LedgerNext
<1>5. ASSUME \/ \E u \in Users : LockExpires(u)
             \/ \E m \in Messages : VisibilityTimeout(m) \/ Redrive(m)
             \/ CacheLost
      PROVE  UNCHANGED ledgerVars
  BY <1>5 DEF LockExpires, VisibilityTimeout, Redrive, CacheLost, ServiceUnchanged
<1>6. CASE UNCHANGED vars
  BY <1>6 DEF vars, ledgerVars
<1> QED
  BY <1>1, <1>2, <1>3, <1>4, <1>5, <1>6 DEF Next, Terminated

(* So the pipeline uses the store as the ledger prescribes, under every     *)
(* combination of faults.                                                   *)
LEMMA PipelineUsesLedger == Spec => LedgerSpec
<1>1. Init => LedgerInit
  BY DEF Init
<1> QED
  BY <1>1, PipelineStepRefines, PTL DEF Spec, LedgerSpec

(* The stock left and the stock sold are always the stock created, however  *)
(* often the queue delivers an event and whatever the workers do with it.   *)
THEOREM PipelineConservation == Spec => []Conservation
BY PipelineUsesLedger, LedgerConservation, PTL

-----------------------------------------------------------------------------
(* The invariant holds before the product exists.                           *)
LEMMA PipelineInitInv == Init => PipelineInv
<1> SUFFICES ASSUME Init
             PROVE  PipelineInv
  OBVIOUS
<1>1. TypeOK
  BY QueueBoundsAssumption
  DEF Init, LedgerInit, CacheInit, QueueInit, TypeOK, LedgerTypeOK, CacheTypeOK,
      QueueTypeOK, ProductKinds, MessageStates, CatalogSteps, RequestSteps, TaskSteps
<1>2. SentInv
  BY DEF Init, LedgerInit, QueueInit, SentInv, Sent, CopiesOf
<1>3. WorkInv
  BY DEF Init, QueueInit, WorkInv, WorkDoneBeforeAck
<1> QED
  BY <1>1, <1>2, <1>3 DEF PipelineInv

(* The administrator touches no order and no message.                       *)
LEMMA AdminKeepsInv ==
    ASSUME PipelineInv, AdminNext
    PROVE  PipelineInv'
<1>1. /\ UNCHANGED <<queue, receives, pc, task, announced, orders, lock>>
      /\ product' \in ProductKinds /\ dbStock' \in Nat
      /\ cacheStock' \in Nat /\ catalog' \in CatalogSteps /\ amount' \in Nat
  BY InitialStockAssumption
  DEF AdminNext, InsertProduct, CreateProduct, AutoPrewarm, CheckPrewarm, SetPrewarm,
      ResendPrewarm, SetStock, PrewarmStock, AdminUnchanged, queueVars, ledgerVars,
      cacheVars, CatalogSteps, ProductKinds, PipelineInv, TypeOK, LedgerTypeOK,
      CacheTypeOK
<1>2. TypeOK'
  BY <1>1 DEF PipelineInv, TypeOK, LedgerTypeOK, CacheTypeOK, QueueTypeOK
<1>3. SentInv'
  BY <1>1 DEF PipelineInv, SentInv, Sent, CopiesOf
<1>4. WorkInv'
  BY <1>1 DEF PipelineInv, WorkInv, WorkDoneBeforeAck
<1> QED
  BY <1>2, <1>3, <1>4 DEF PipelineInv

(* What the calls to Redis leave of the types.                              *)
LEMMA CacheStepType ==
    ASSUME CacheTypeOK, NEW o \in OrderIDs, ValidQuantity(o),
           \/ \E ok \in BOOLEAN : DecrementStockAtomic(Quantity[o], ok)
           \/ \E ok \in BOOLEAN : DecrementStockTwice(Quantity[o], ok)
           \/ \E ok \in BOOLEAN : AcquireLock(UserOf[o], o, ok)
           \/ \E times \in Nat : IncrementStock(Quantity[o], times)
           \/ ReleaseLock(UserOf[o], o)
           \/ \E u \in Users : ExpireLock(u)
           \/ FlushCache
           \/ UNCHANGED cacheVars
    PROVE  CacheTypeOK'
<1>1. Quantity[o] \in Nat /\ UserOf[o] \in Users
  BY QuantityAssumption, UserOfAssumption DEF ValidQuantity, MaxQuantity
<1>2. cacheStock \in Nat /\ lock \in [Users -> OrderIDs \cup {NoToken}]
  BY DEF CacheTypeOK
<1>3. ASSUME \/ \E ok \in BOOLEAN : DecrementStockAtomic(Quantity[o], ok)
             \/ \E ok \in BOOLEAN : DecrementStockTwice(Quantity[o], ok)
      PROVE  CacheTypeOK'
  BY <1>1, <1>2, <1>3
  DEF DecrementStockAtomic, DecrementStockTwice, AfterDecrement, CacheTypeOK
<1>4. ASSUME NEW times \in Nat, IncrementStock(Quantity[o], times)
      PROVE  CacheTypeOK'
  <2>1. times * Quantity[o] \in Nat
    BY <1>1
  <2> QED
    BY <1>2, <1>4, <2>1 DEF IncrementStock, CacheTypeOK
<1>5. ASSUME \/ \E ok \in BOOLEAN : AcquireLock(UserOf[o], o, ok)
             \/ ReleaseLock(UserOf[o], o)
             \/ \E u \in Users : ExpireLock(u)
             \/ FlushCache
             \/ UNCHANGED cacheVars
      PROVE  CacheTypeOK'
  BY <1>1, <1>2, <1>5
  DEF AcquireLock, ReleaseLock, ExpireLock, FlushCache, cacheVars, CacheTypeOK
<1> QED
  BY <1>3, <1>4, <1>5

(* A step of a request that sends nothing keeps the invariant if it moves   *)
(* the request in a direction the invariant allows.                         *)
LEMMA QuietRequestStep ==
    ASSUME PipelineInv, NEW r \in OrderIDs, NEW next \in RequestSteps,
           Goto(r, next), RequestUnchanged, UNCHANGED queueVars, CacheTypeOK',
           next \notin {"idle", "rejected"} => ValidQuantity(r),
           Sent(r) => next \notin {"idle", "lock", "reserve", "publish"},
           next # "accepted"
    PROVE  PipelineInv'
<1>1. TypeOK'
  BY DEF PipelineInv, TypeOK, LedgerTypeOK, QueueTypeOK, Goto, RequestUnchanged,
         queueVars, ledgerVars
<1>2. SentInv'
  BY DEF PipelineInv, TypeOK, SentInv, Sent, CopiesOf, Goto, RequestUnchanged,
         queueVars, ledgerVars
<1>3. WorkInv'
  BY DEF PipelineInv, WorkInv, WorkDoneBeforeAck, RequestUnchanged, queueVars,
         ledgerVars
<1> QED
  BY <1>1, <1>2, <1>3 DEF PipelineInv

(* A request moves only itself, and is accepted only with its event sent.   *)
LEMMA RequestKeepsInv ==
    ASSUME PipelineInv, NEW r \in OrderIDs,
           LoadProduct(r) \/ RequestStep(r) \/ ApiCrash(r)
    PROVE  PipelineInv'
<1> USE DEF InFlightSteps, FinalSteps, RequestSteps
<1>1. /\ CacheTypeOK /\ QueueTypeOK /\ pc \in [OrderIDs -> RequestSteps]
      /\ pc[r] \in RequestSteps \ {"idle", "rejected"} => ValidQuantity(r)
      /\ Sent(r) => pc[r] \notin {"idle", "lock", "reserve", "publish"}
  BY DEF PipelineInv, TypeOK, SentInv
<1>2. CASE LoadProduct(r)
  <2>1. /\ pc[r] = "idle" /\ RequestUnchanged /\ UNCHANGED queueVars
        /\ UNCHANGED cacheVars
        /\ \/ Goto(r, "lock") /\ ValidQuantity(r)
           \/ Goto(r, "rejected")
    BY <1>2 DEF LoadProduct
  <2>2. CacheTypeOK'
    BY <1>1, <2>1 DEF CacheTypeOK, cacheVars
  <2> QED
    BY <1>1, <2>1, <2>2, QuietRequestStep
<1>3. CASE LockUser(r)
  <2>1. /\ pc[r] = "lock" /\ RequestUnchanged /\ UNCHANGED queueVars
        /\ Goto(r, "reserve") \/ Goto(r, "rejected")
        /\ (\E ok \in BOOLEAN : AcquireLock(UserOf[r], r, ok)) \/ UNCHANGED cacheVars
    BY <1>3 DEF LockUser
  <2>2. CacheTypeOK'
    BY <1>1, <2>1, CacheStepType
  <2> QED
    BY <1>1, <2>1, <2>2, QuietRequestStep
<1>4. CASE Reserve(r)
  <2>1. /\ pc[r] = "reserve" /\ RequestUnchanged /\ UNCHANGED queueVars
        /\ Goto(r, "publish") \/ Goto(r, "release")
        /\ \/ \E ok \in BOOLEAN : DecrementStockAtomic(Quantity[r], ok)
           \/ \E ok \in BOOLEAN : DecrementStockTwice(Quantity[r], ok)
           \/ UNCHANGED cacheVars
    BY <1>4 DEF Reserve
  <2>2. CacheTypeOK'
    BY <1>1, <2>1, CacheStepType
  <2> QED
    BY <1>1, <2>1, <2>2, QuietRequestStep
<1>5. CASE Publish(r)
  <2>1. /\ pc[r] = "publish" /\ RequestUnchanged /\ UNCHANGED cacheVars
        /\ \/ UNCHANGED queueVars /\ Goto(r, "restore")
           \/ /\ \E copies \in Nat \ {0} : SendMessage(r, copies)
              /\ Goto(r, "accepted") \/ Goto(r, "restore")
    BY <1>5, QueueBoundsAssumption DEF Publish
  <2>2. CacheTypeOK' /\ ValidQuantity(r)
    BY <1>1, <2>1 DEF CacheTypeOK, cacheVars
  <2>3. ASSUME UNCHANGED queueVars, Goto(r, "restore")
        PROVE  PipelineInv'
    BY <1>1, <2>1, <2>2, <2>3, QuietRequestStep
  <2>4. ASSUME NEW copies \in Nat \ {0}, SendMessage(r, copies),
               NEW next \in {"accepted", "restore"}, Goto(r, next)
        PROVE  PipelineInv'
    <3>1. /\ QueueTypeOK' /\ Sent(r)'
          /\ \A m \in Messages : OrderOf(m) # r => queue'[m] = queue[m]
          /\ \A m \in Messages : queue'[m] \in {queue[m], "ready"}
      BY <1>1, <2>4, SendMessageSends
    <3>2. TypeOK'
      BY <2>1, <2>2, <2>4, <3>1
      DEF PipelineInv, TypeOK, LedgerTypeOK, Goto, RequestUnchanged, ledgerVars
    <3>3. \A o \in OrderIDs : o # r => (Sent(o)' <=> Sent(o))
      BY <3>1 DEF Sent, CopiesOf
    <3>4. SentInv'
      BY <1>1, <2>1, <2>2, <2>4, <3>1, <3>3
      DEF PipelineInv, SentInv, Goto, RequestUnchanged, ledgerVars
    <3>5. WorkInv'
      BY <2>1, <3>1
      DEF PipelineInv, WorkInv, WorkDoneBeforeAck, RequestUnchanged, ledgerVars
    <3> QED
      BY <3>2, <3>4, <3>5 DEF PipelineInv
  <2> QED
    BY <2>1, <2>3, <2>4
<1>6. CASE Restore(r)
  <2>1. /\ pc[r] = "restore" /\ RequestUnchanged /\ UNCHANGED queueVars
        /\ Goto(r, "release")
        /\ (\E times \in Nat : IncrementStock(Quantity[r], times)) \/ UNCHANGED cacheVars
    BY <1>6 DEF Restore
  <2>2. CacheTypeOK'
    BY <1>1, <2>1, CacheStepType
  <2> QED
    BY <1>1, <2>1, <2>2, QuietRequestStep
<1>7. CASE Release(r)
  <2>1. /\ pc[r] = "release" /\ RequestUnchanged /\ UNCHANGED queueVars
        /\ Goto(r, "rejected")
        /\ ReleaseLock(UserOf[r], r) \/ UNCHANGED cacheVars
    BY <1>7 DEF Release
  <2>2. CacheTypeOK'
    BY <1>1, <2>1, CacheStepType
  <2> QED
    BY <1>1, <2>1, <2>2, QuietRequestStep
<1>8. CASE ApiCrash(r)
  <2>1. /\ pc[r] \in RequestSteps \ {"idle", "rejected"}
        /\ RequestUnchanged /\ UNCHANGED queueVars /\ UNCHANGED cacheVars
        /\ Goto(r, "crashed")
    BY <1>8 DEF ApiCrash
  <2>2. CacheTypeOK'
    BY <1>1, <2>1 DEF CacheTypeOK, cacheVars
  <2> QED
    BY <1>1, <2>1, <2>2, QuietRequestStep
<1> QED
  BY <1>2, <1>3, <1>4, <1>5, <1>6, <1>7, <1>8 DEF RequestStep

(* What a step of a worker or of a service must keep: every message that    *)
(* was there is there, and no order disappears.                             *)
LEMMA WorkerKeepsInv ==
    ASSUME PipelineInv, NEW w \in Workers,
           \/ ReceiveOrderEvents(w) \/ WorkerCrash(w)
           \/ \E m \in Messages : TaskStep(w, m)
    PROVE  PipelineInv'
<1> USE DEF TaskSteps
<1>1. /\ LedgerTypeOK /\ QueueTypeOK /\ task \in [Workers -> [Messages -> TaskSteps]]
      /\ announced \subseteq OrderIDs
  BY DEF PipelineInv, TypeOK
<1>2. UNCHANGED <<cacheStock, lock, catalog, amount, pc>>
  BY DEF ReceiveOrderEvents, WorkerCrash, TaskStep, ProcessOrder, Notify,
         Acknowledge, WorkerUnchanged, cacheVars
<1> SUFFICES ASSUME TRUE
             PROVE  /\ LedgerTypeOK' /\ QueueTypeOK' /\ announced' \subseteq OrderIDs
                    /\ task' \in [Workers -> [Messages -> TaskSteps]]
                    /\ \A o \in OrderIDs : Sent(o)' <=> Sent(o)
                    /\ \A o \in orders' : o \in orders \/ Sent(o)
                    /\ WorkInv'
  BY <1>2 DEF PipelineInv, TypeOK, CacheTypeOK, SentInv, LedgerTypeOK
<1>3. CASE ReceiveOrderEvents(w)
  <2>1. PICK batch \in SUBSET Messages :
          /\ ReceiveMessage(batch)
          /\ \/ task' = [task EXCEPT ![w] =
                            [m \in Messages |-> IF m \in batch THEN "handle" ELSE "none"]]
             \/ task' = task
          /\ UNCHANGED <<ledgerVars, announced>>
    BY <1>3 DEF ReceiveOrderEvents
  <2>2. /\ QueueTypeOK'
        /\ \A m \in Messages : (queue'[m] = "none") <=> (queue[m] = "none")
        /\ \A m \in Messages : queue'[m] = "deleted" => queue[m] = "deleted"
    BY <1>1, <2>1, QueueKeepsMessages
  <2>3. \A o \in OrderIDs : Sent(o)' <=> Sent(o)
    BY <2>2 DEF Sent, CopiesOf
  <2>4. \A m \in batch : queue[m] # "none"
    BY <2>1 DEF ReceiveMessage
  <2>5. WorkInv'
    BY <1>1, <2>1, <2>2, <2>4 DEF PipelineInv, WorkInv, WorkDoneBeforeAck, ledgerVars
  <2>6. task' \in [Workers -> [Messages -> TaskSteps]]
    BY <1>1, <2>1
  <2> QED
    BY <1>1, <2>1, <2>2, <2>3, <2>5, <2>6 DEF LedgerTypeOK, ledgerVars
<1>4. CASE WorkerCrash(w)
  BY <1>1, <1>4
  DEF WorkerCrash, LedgerTypeOK, QueueTypeOK, PipelineInv, WorkInv,
      WorkDoneBeforeAck, Sent, CopiesOf, ledgerVars, queueVars
<1>5. ASSUME NEW m \in Messages, ProcessOrder(w, m)
      PROVE  /\ LedgerTypeOK' /\ QueueTypeOK' /\ announced' \subseteq OrderIDs
             /\ task' \in [Workers -> [Messages -> TaskSteps]]
             /\ \A o \in OrderIDs : Sent(o)' <=> Sent(o)
             /\ \A o \in orders' : o \in orders \/ Sent(o)
             /\ WorkInv'
  <2>1. /\ task[w][m] = "handle" /\ UNCHANGED queueVars /\ announced' = announced
        /\ \/ /\ GotoTask(w, m, "notify")
              /\ Fulfil(OrderOf(m)) \/ (OrderOf(m) \in orders /\ UNCHANGED ledgerVars)
           \/ /\ GotoTask(w, m, "none")
              /\ Fulfil(OrderOf(m)) \/ UNCHANGED ledgerVars
    BY <1>5 DEF ProcessOrder
  <2>2. OrderOf(m) \in OrderIDs
    BY MessageOrder
  <2>3. LedgerTypeOK' /\ orders \subseteq orders' /\ orders' \subseteq orders \cup {OrderOf(m)}
    BY <1>1, <2>1, <2>2, QuantityAssumption
    DEF Fulfil, CanFulfil, LedgerTypeOK, ledgerVars
  <2>4. Sent(OrderOf(m))
    BY <2>1 DEF PipelineInv, WorkInv, Sent, CopiesOf
  <2>5. task' \in [Workers -> [Messages -> TaskSteps]]
    BY <1>1, <2>1 DEF GotoTask
  <2>6. GotoTask(w, m, "notify") => OrderOf(m) \in orders'
    BY <1>1, <2>1 DEF Fulfil, GotoTask, ledgerVars
  <2>7. WorkInv'
    BY <1>1, <2>1, <2>3, <2>6
    DEF PipelineInv, WorkInv, WorkDoneBeforeAck, GotoTask, queueVars
  <2>8. QueueTypeOK' /\ \A o \in OrderIDs : Sent(o)' <=> Sent(o)
    BY <1>1, <2>1 DEF QueueTypeOK, Sent, CopiesOf, queueVars
  <2> QED
    BY <1>1, <2>1, <2>3, <2>4, <2>5, <2>7, <2>8
<1>6. ASSUME NEW m \in Messages, Notify(w, m)
      PROVE  /\ LedgerTypeOK' /\ QueueTypeOK' /\ announced' \subseteq OrderIDs
             /\ task' \in [Workers -> [Messages -> TaskSteps]]
             /\ \A o \in OrderIDs : Sent(o)' <=> Sent(o)
             /\ \A o \in orders' : o \in orders \/ Sent(o)
             /\ WorkInv'
  <2>1. OrderOf(m) \in orders /\ OrderOf(m) \in OrderIDs
    BY <1>6, MessageOrder DEF Notify, PipelineInv, WorkInv
  <2> QED
    BY <1>1, <1>6, <2>1
    DEF Notify, GotoTask, LedgerTypeOK, QueueTypeOK, PipelineInv, WorkInv,
        WorkDoneBeforeAck, Sent, CopiesOf, ledgerVars, queueVars
<1>7. ASSUME NEW m \in Messages, Acknowledge(w, m)
      PROVE  /\ LedgerTypeOK' /\ QueueTypeOK' /\ announced' \subseteq OrderIDs
             /\ task' \in [Workers -> [Messages -> TaskSteps]]
             /\ \A o \in OrderIDs : Sent(o)' <=> Sent(o)
             /\ \A o \in orders' : o \in orders \/ Sent(o)
             /\ WorkInv'
  <2>1. /\ task[w][m] = "ack" /\ GotoTask(w, m, "none")
        /\ UNCHANGED <<ledgerVars, announced>>
        /\ DeleteMessage(m) \/ UNCHANGED queueVars
    BY <1>7 DEF Acknowledge
  <2>2. /\ QueueTypeOK'
        /\ \A n \in Messages : (queue'[n] = "none") <=> (queue[n] = "none")
        /\ \A n \in Messages : n # m => queue'[n] = queue[n]
    BY <1>1, <2>1, DeleteMessageDeletes DEF QueueTypeOK, queueVars
  <2>3. OrderOf(m) \in orders
    BY <2>1 DEF PipelineInv, WorkInv
  <2>4. \A o \in OrderIDs : Sent(o)' <=> Sent(o)
    BY <2>2 DEF Sent, CopiesOf
  <2>5. WorkInv'
    BY <1>1, <2>1, <2>2, <2>3
    DEF PipelineInv, WorkInv, WorkDoneBeforeAck, GotoTask, ledgerVars
  <2> QED
    BY <1>1, <2>1, <2>2, <2>4, <2>5 DEF GotoTask, LedgerTypeOK, ledgerVars
<1> QED
  BY <1>3, <1>4, <1>5, <1>6, <1>7 DEF TaskStep

(* Timers, the redrive policy and the loss of Redis delete no message.      *)
LEMMA ServiceKeepsInv ==
    ASSUME PipelineInv,
           \/ \E u \in Users : LockExpires(u)
           \/ \E m \in Messages : VisibilityTimeout(m) \/ Redrive(m)
           \/ CacheLost
    PROVE  PipelineInv'
<1>1. /\ UNCHANGED <<product, dbStock, orders, catalog, amount, pc, task, announced>>
      /\ \/ UNCHANGED cacheVars \/ (\E u \in Users : ExpireLock(u)) \/ FlushCache
      /\ UNCHANGED queueVars \/ (\E m \in Messages : Reappear(m) \/ DeadLetter(m))
  BY DEF LockExpires, VisibilityTimeout, Redrive, CacheLost, ServiceUnchanged, ledgerVars
<1>2. /\ QueueTypeOK'
      /\ \A m \in Messages : (queue'[m] = "none") <=> (queue[m] = "none")
      /\ \A m \in Messages : queue'[m] = "deleted" => queue[m] = "deleted"
  BY <1>1, QueueKeepsMessages DEF PipelineInv, TypeOK, QueueTypeOK, queueVars
<1>3. CacheTypeOK'
  BY <1>1 DEF PipelineInv, TypeOK, CacheTypeOK, ExpireLock, FlushCache, cacheVars
<1>4. TypeOK'
  BY <1>1, <1>2, <1>3 DEF PipelineInv, TypeOK, LedgerTypeOK
<1>5. SentInv'
  <2>1. \A o \in OrderIDs : Sent(o)' <=> Sent(o)
    BY <1>2 DEF Sent, CopiesOf
  <2> QED
    BY <1>1, <2>1 DEF PipelineInv, SentInv
<1>6. WorkInv'
  BY <1>1, <1>2 DEF PipelineInv, WorkInv, WorkDoneBeforeAck
<1> QED
  BY <1>4, <1>5, <1>6 DEF PipelineInv

(* Every step of the pipeline keeps the invariant.                          *)
LEMMA PipelineStepInv == PipelineInv /\ [Next]_vars => PipelineInv'
<1> SUFFICES ASSUME PipelineInv, [Next]_vars
             PROVE  PipelineInv'
  OBVIOUS
<1>1. CASE UNCHANGED vars
  BY <1>1
  DEF vars, PipelineInv, TypeOK, LedgerTypeOK, CacheTypeOK, QueueTypeOK, SentInv,
      WorkInv, WorkDoneBeforeAck, Sent, CopiesOf
<1> QED
  BY <1>1, AdminKeepsInv, RequestKeepsInv, WorkerKeepsInv, ServiceKeepsInv
  DEF Next, Terminated

(* So it holds in every reachable state.                                    *)
LEMMA PipelineInvariant == Spec => []PipelineInv
BY PipelineInitInv, PipelineStepInv, PTL DEF Spec

(* Every variable keeps its type; in particular the counter in Redis never  *)
(* drops below zero, however requests, retries and losses interleave.       *)
THEOREM PipelineTypeCorrect == Spec => []TypeOK
<1>1. PipelineInv => TypeOK
  BY DEF PipelineInv
<1> QED
  BY <1>1, PipelineInvariant, PTL

(* No message is deleted and no completion announced before the order is    *)
(* in the collection.                                                       *)
THEOREM PipelineWorkDoneBeforeAck == Spec => []WorkDoneBeforeAck
<1>1. PipelineInv => WorkDoneBeforeAck
  BY DEF PipelineInv, WorkInv
<1> QED
  BY <1>1, PipelineInvariant, PTL

(* An order answered 202 is sold, or still queued or dead-lettered.         *)
THEOREM PipelineAcceptedNeverLost == Spec => []AcceptedNeverLost
<1>1. ASSUME PipelineInv
      PROVE  AcceptedNeverLost
  <2> SUFFICES ASSUME NEW r \in OrderIDs, pc[r] = "accepted", r \notin orders
               PROVE  \E m \in CopiesOf(r) : queue[m] \in {"ready", "hidden", "dead"}
    BY DEF AcceptedNeverLost
  <2>1. PICK m \in CopiesOf(r) : queue[m] # "none"
    BY <1>1 DEF PipelineInv, SentInv, Sent
  <2>2. m \in Messages /\ OrderOf(m) = r
    BY DEF CopiesOf
  <2>3. queue[m] # "deleted"
    BY <1>1, <2>2 DEF PipelineInv, WorkInv, WorkDoneBeforeAck
  <2> QED
    BY <1>1, <2>1, <2>2, <2>3 DEF PipelineInv, TypeOK, QueueTypeOK, MessageStates
<1> QED
  BY <1>1, PipelineInvariant, PTL
=============================================================================
