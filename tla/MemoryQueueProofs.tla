--------------------------- MODULE MemoryQueueProofs ---------------------------
(***************************************************************************)
(* What holds of the in-memory queue for any orders, users, stock, channel *)
(* size and faults: the invariants, what backs the units that Redis has    *)
(* given out, and the contract of OrderPromise.                            *)
(***************************************************************************)
EXTENDS MemoryQueue, OrderLedgerProofs, SequenceTheorems

(* Whatever was queued, handled, given up, lost or sold was answered 202,   *)
(* and nothing else.                                                        *)
Reached == orders \cup abandoned \cup lost \cup Queued \cup InHand

OnlyAccepted == \A o \in Reached : pc[o] = "accepted"
AllReached   == \A o \in OrderIDs : pc[o] = "accepted" => o \in Reached

(* The orders that Redis has given units to, and that may still be sold.     *)
Claims == {o \in OrderIDs \ orders : pc[o] \in {"publish", "restore", "accepted"}}

(* The request has taken units from the counter and not had them refused.   *)
Begun(o) == pc[o] \notin {"idle", "refused"}

(* Unless Redis was overfilled, the stock covers what it has given out and   *)
(* what it can still give.                                                  *)
ClaimsCovered ==
    /\ product = "absent" => cacheStock = 0 /\ ~prewarming
    /\ \A o \in OrderIDs : Begun(o) => product # "absent" /\ ValidQuantity(o)
    /\ ~overfilled => cacheStock + Total(Claims) <= dbStock

(* A context that serves a request, or did, holds some request's header.     *)
HeldHeaders ==
    \A o \in OrderIDs :
        pc[o] \in Serving \/ o \in Queued \cup InHand => header[ContextOf[o]] # NoOrder

(* The consumer is part of its process.                                     *)
StoppedWhenDown == process = "down" => worker = "stopped"

QueueInv ==
    /\ TypeOK /\ LedgerInv /\ StoppedWhenDown
    /\ OnlyAccepted /\ AllReached /\ ClaimsCovered /\ HeldHeaders

-----------------------------------------------------------------------------
(* The channel as a set: a send adds the order.                             *)
LEMMA SendAddsOne ==
    ASSUME ch \in Seq(OrderIDs), NEW o \in OrderIDs, ch' = Append(ch, o)
    PROVE  ch' \in Seq(OrderIDs) /\ Len(ch') = Len(ch) + 1 /\ Queued' = Queued \cup {o}
<1>1. /\ ch' \in Seq(OrderIDs) /\ Len(ch') = Len(ch) + 1
      /\ \A i \in 1..Len(ch) : ch'[i] = ch[i]
      /\ ch'[Len(ch) + 1] = o
  BY AppendProperties
<1>2. Len(ch) \in Nat /\ DOMAIN ch = 1..Len(ch) /\ DOMAIN ch' = 1..(Len(ch) + 1)
  BY <1>1, LenProperties
<1>3. 1..(Len(ch) + 1) = (1..Len(ch)) \cup {Len(ch) + 1}
  BY <1>2
<1> QED
  BY <1>1, <1>2, <1>3 DEF Queued

(* A receive takes the head from it.                                        *)
LEMMA ReceiveTakesOne ==
    ASSUME ch \in Seq(OrderIDs), ch # <<>>, ch' = Tail(ch)
    PROVE  /\ ch' \in Seq(OrderIDs) /\ Len(ch') = Len(ch) - 1
           /\ Head(ch) \in OrderIDs
           /\ Queued = {Head(ch)} \cup Queued'
<1>1. /\ Head(ch) \in OrderIDs /\ ch' \in Seq(OrderIDs) /\ Len(ch') = Len(ch) - 1
      /\ \A i \in 1..Len(ch') : ch'[i] = ch[i + 1]
  BY HeadTailProperties
<1>2. Len(ch) \in Nat /\ Len(ch) >= 1 /\ DOMAIN ch = 1..Len(ch) /\ DOMAIN ch' = 1..(Len(ch) - 1)
  BY <1>1, LenProperties, EmptySeq
<1>3. Head(ch) = ch[1]
  OBVIOUS
<1>4. ASSUME NEW i \in 1..Len(ch), i # 1
      PROVE  \E j \in 1..(Len(ch) - 1) : ch'[j] = ch[i]
  <2>1. i - 1 \in 1..(Len(ch) - 1) /\ (i - 1) + 1 = i
    BY <1>2, <1>4
  <2> QED
    BY <1>1, <1>2, <2>1
<1>5. ASSUME NEW j \in 1..(Len(ch) - 1)
      PROVE  j + 1 \in 1..Len(ch) /\ ch'[j] = ch[j + 1]
  BY <1>1, <1>2
<1>6. Queued \subseteq {Head(ch)} \cup Queued'
  BY <1>2, <1>3, <1>4 DEF Queued
<1>7. {Head(ch)} \cup Queued' \subseteq Queued
  <2>1. 1 \in 1..Len(ch)
    BY <1>2
  <2>2. Queued' \subseteq Queued
    BY <1>2, <1>5 DEF Queued
  <2> QED
    BY <1>2, <1>3, <2>1, <2>2 DEF Queued
<1> QED
  BY <1>1, <1>6, <1>7

(* The channel of a process that ended is empty.                            *)
LEMMA EmptyChannel == ASSUME ch' = <<>> PROVE ch' \in Seq(OrderIDs) /\ Len(ch') = 0 /\ Queued' = {}
BY EmptySeq DEF Queued
-----------------------------------------------------------------------------
(* Claims and a counter that only shrink stay covered.                      *)
LEMMA FewerClaims ==
    ASSUME QueueInv, Claims' \subseteq Claims, UNCHANGED <<dbStock, product>>,
           cacheStock' \in Nat, cacheStock' <= cacheStock,
           overfilled => overfilled', prewarming' => prewarming,
           \A o \in OrderIDs : Begun(o)' => Begun(o)
    PROVE  ClaimsCovered'
<1>1. Claims \in SUBSET OrderIDs /\ Claims' \in SUBSET Claims
  BY DEF Claims
<1>2. Total(Claims') <= Total(Claims)
  BY <1>1, TotalMonotone
<1>3. /\ Total(Claims) \in Nat /\ Total(Claims') \in Nat /\ dbStock \in Nat /\ cacheStock \in Nat
  BY <1>1, TotalType DEF QueueInv, TypeOK, LedgerTypeOK
<1>4. Total(Claims)' = Total(Claims')
  BY DEF Total, Units
<1>5. (~overfilled => cacheStock + Total(Claims) <= dbStock)'
  BY <1>2, <1>3, <1>4 DEF QueueInv, ClaimsCovered
<1>6. (product = "absent" => cacheStock = 0 /\ ~prewarming)'
  BY <1>3 DEF QueueInv, ClaimsCovered
<1>7. (\A o \in OrderIDs : Begun(o) => product # "absent" /\ ValidQuantity(o))'
  BY DEF QueueInv, ClaimsCovered, ValidQuantity
<1> QED
  BY <1>5, <1>6, <1>7 DEF ClaimsCovered

(* Once overfilled, the counter has nothing to answer for.                  *)
LEMMA OverfilledCovered ==
    ASSUME QueueInv, product # "absent", product' = product, overfilled',
           \A o \in OrderIDs : Begun(o)' => Begun(o)
    PROVE  ClaimsCovered'
BY DEF QueueInv, ClaimsCovered, ValidQuantity

(* The script takes what it says it took, and never more than there is.     *)
LEMMA DecrementTakes ==
    ASSUME cacheStock \in Nat, NEW q \in Nat, NEW ok \in BOOLEAN,
           Cache!DecrementStockAtomic(q, ok) \/ Cache!DecrementStockTwice(q, ok)
    PROVE  /\ cacheStock' \in Nat /\ cacheStock' <= cacheStock
           /\ ok => cacheStock' + q <= cacheStock
BY DEF Cache!DecrementStockAtomic, Cache!DecrementStockTwice, Cache!AfterDecrement

(* An order in hand is sold already, or it is a claim; and then the stock   *)
(* covers it, unless Redis was overfilled.                                  *)
LEMMA InHandCovered ==
    ASSUME QueueInv, worker = "handling"
    PROVE  /\ current \in OrderIDs /\ pc[current] = "accepted" /\ product # "absent"
           /\ ValidQuantity(current)
           /\ current \notin orders => current \in Claims
           /\ current \notin orders /\ ~overfilled => CanFulfil(current)
<1>1. current \in OrderIDs /\ pc[current] = "accepted"
  BY NoOrderAssumption DEF QueueInv, TypeOK, OnlyAccepted, Reached, InHand
<1>2. product # "absent" /\ ValidQuantity(current)
  BY <1>1 DEF QueueInv, ClaimsCovered, Begun
<1>3. ASSUME current \notin orders
      PROVE  current \in Claims
  BY <1>1, <1>3 DEF Claims
<1>4. ASSUME current \notin orders, ~overfilled
      PROVE  CanFulfil(current)
  <2>1. Claims \in SUBSET OrderIDs /\ {current} \in SUBSET Claims
    BY <1>3, <1>4 DEF Claims
  <2>2. Total({current}) <= Total(Claims) /\ Total({current}) = Quantity[current]
    BY <1>1, <1>2, <2>1, TotalMonotone, TotalSingleton
  <2>3. /\ Total(Claims) \in Nat /\ Quantity[current] \in Int /\ dbStock \in Nat
        /\ cacheStock \in Nat
    BY <1>1, <2>1, TotalType, QuantityAssumption DEF QueueInv, TypeOK, LedgerTypeOK
  <2>4. Quantity[current] <= dbStock
    BY <1>4, <2>2, <2>3 DEF QueueInv, ClaimsCovered
  <2> QED
    BY <1>2, <1>4, <2>3, <2>4 DEF CanFulfil
<1> QED
  BY <1>1, <1>2, <1>3, <1>4

(* The program starts out with nothing to account for.                      *)
LEMMA InitInv == Init => QueueInv
<1> SUFFICES ASSUME Init PROVE QueueInv
  OBVIOUS
<1>1. LedgerInv
  BY LedgerInitInv DEF Init
<1>2. Queued = {} /\ InHand = {} /\ Claims = {}
  BY DEF Init, Queued, InHand, Claims
<1>3. ch \in Seq(OrderIDs) /\ Len(ch) = 0
  BY EmptySeq DEF Init
<1>7. /\ cacheStock \in Nat /\ prewarming \in BOOLEAN /\ overfilled \in BOOLEAN
      /\ pc \in [OrderIDs -> RequestSteps]
  BY DEF Init, RequestSteps
<1>4. TypeOK
  BY <1>1, <1>3, <1>7, BufferSizeAssumption DEF Init, TypeOK, LedgerInv, MaxAttempts
<1>5. OnlyAccepted /\ AllReached
  BY <1>2 DEF Init, LedgerInit, OnlyAccepted, Reached, AllReached
<1>6. ClaimsCovered /\ HeldHeaders /\ StoppedWhenDown
  BY <1>2, TotalEmpty
  DEF Init, LedgerInit, ClaimsCovered, Begun, HeldHeaders, Serving, StoppedWhenDown
<1> QED
  BY <1>1, <1>4, <1>5, <1>6 DEF QueueInv

-----------------------------------------------------------------------------
(* A SET keeps the invariant: before the sale nobody has a claim on the      *)
(* stock, and later it counts as overfilling.                               *)
LEMMA SetStockCovers ==
    ASSUME QueueInv, NEW n \in 0..InitialStock, product # "absent", SetStock(n),
           UNCHANGED <<ledgerVars, pc>>
    PROVE  ClaimsCovered' /\ cacheStock' \in Nat /\ overfilled' \in BOOLEAN
<1>1. cacheStock' = n /\ n \in Nat /\ n <= InitialStock /\ overfilled' \in BOOLEAN
  BY InitialStockAssumption DEF SetStock, Cache!PrewarmStock, QueueInv, TypeOK
<1>2. \A o \in OrderIDs : Begun(o)' => Begun(o)
  BY DEF Begun
<1>3. CASE overfilled'
  BY <1>1, <1>2, <1>3, OverfilledCovered DEF ledgerVars
<1>4. CASE ~overfilled'
  <2>1. ~SaleBegun
    BY <1>4 DEF SetStock
  <2>2. \A o \in OrderIDs : ~Begun(o)
    BY <2>1 DEF SaleBegun, Begun
  <2>3. orders = {}
    BY <2>2 DEF QueueInv, OnlyAccepted, Reached, TypeOK, LedgerTypeOK, Begun
  <2>4. Claims' = {}
    BY <2>2 DEF Claims, Begun
  <2>5. Total(Claims)' = 0
    BY <2>4, TotalEmpty DEF Total, Units
  <2>6. dbStock' = InitialStock /\ product' # "absent"
    BY <2>3, TotalEmpty DEF QueueInv, TypeOK, LedgerInv, LedgerTypeOK, Conservation, ledgerVars
  <2> QED
    BY <1>1, <1>2, <2>2, <2>5, <2>6, InitialStockAssumption DEF ClaimsCovered
<1> QED
  BY <1>1, <1>3, <1>4

(* A step of the administrator keeps the invariant.                         *)
LEMMA AdminStepInv ==
    ASSUME QueueInv,
           InsertProduct \/ AutoPrewarm \/ \E n \in 0..InitialStock : PrewarmStock(n)
    PROVE  QueueInv'
<1>1. AdminUnchanged
  BY DEF InsertProduct, AutoPrewarm, PrewarmStock
<1>2. LedgerInv' /\ orders' = orders
  BY LedgerStepInv
  DEF InsertProduct, CreateProduct, AutoPrewarm, PrewarmStock, LedgerNext, QueueInv, ledgerVars
<1>3. StoppedWhenDown' /\ OnlyAccepted' /\ AllReached' /\ HeldHeaders'
  BY <1>1, <1>2
  DEF AdminUnchanged, queueVars, QueueInv, StoppedWhenDown, OnlyAccepted, Reached, AllReached,
      HeldHeaders, Queued, InHand
<1>4. ClaimsCovered' /\ cacheStock' \in Nat /\ prewarming' \in BOOLEAN /\ overfilled' \in BOOLEAN
  <2>1. CASE InsertProduct
    <3>1. \A o \in OrderIDs : ~Begun(o)
      BY <2>1 DEF InsertProduct, CreateProduct, QueueInv, ClaimsCovered
    <3>2. Claims' = {} /\ \A o \in OrderIDs : ~Begun(o)'
      BY <1>1, <3>1 DEF AdminUnchanged, Claims, Begun
    <3>3. Total(Claims)' = 0
      BY <3>2, TotalEmpty DEF Total, Units
    <3>4. product' = "flash" /\ cacheStock' = 0 /\ dbStock' \in Nat
      BY <1>2, <2>1
      DEF InsertProduct, CreateProduct, QueueInv, ClaimsCovered, LedgerInv, LedgerTypeOK
    <3>5. prewarming' \in BOOLEAN /\ overfilled' \in BOOLEAN
      BY <2>1 DEF InsertProduct, QueueInv, TypeOK
    <3> QED
      BY <3>2, <3>3, <3>4, <3>5 DEF ClaimsCovered
  <2>2. CASE AutoPrewarm
    <3>1. product # "absent" /\ UNCHANGED <<ledgerVars, pc>> /\ prewarming' = FALSE
      BY <1>1, <2>2 DEF AutoPrewarm, AdminUnchanged, QueueInv, ClaimsCovered
    <3>2. CASE SetStock(InitialStock)
      <4>1. InitialStock \in 0..InitialStock
        BY InitialStockAssumption
      <4>2. ClaimsCovered' /\ cacheStock' \in Nat /\ overfilled' \in BOOLEAN
        BY <3>1, <3>2, <4>1, SetStockCovers
      <4> QED
        BY <3>1, <4>2
    <3>3. CASE UNCHANGED <<cacheStock, overfilled>>
      <4>1. Claims' \subseteq Claims /\ UNCHANGED <<dbStock, product>>
        BY <3>1 DEF Claims, ledgerVars
      <4>2. \A o \in OrderIDs : Begun(o)' => Begun(o)
        BY <3>1 DEF Begun
      <4>3. cacheStock' \in Nat /\ cacheStock' <= cacheStock /\ overfilled' \in BOOLEAN
        BY <3>3 DEF QueueInv, TypeOK
      <4> QED
        BY <3>1, <3>3, <4>1, <4>2, <4>3, FewerClaims
    <3> QED
      BY <2>2, <3>1, <3>2, <3>3 DEF AutoPrewarm
  <2>3. ASSUME NEW n \in 0..InitialStock, PrewarmStock(n)
        PROVE  ClaimsCovered' /\ cacheStock' \in Nat /\ prewarming' \in BOOLEAN
               /\ overfilled' \in BOOLEAN
    <3>1. /\ product # "absent" /\ SetStock(n) /\ UNCHANGED <<ledgerVars, pc>>
          /\ prewarming' \in BOOLEAN
      BY <1>1, <2>3 DEF PrewarmStock, AdminUnchanged, QueueInv, TypeOK
    <3> QED
      BY <3>1, SetStockCovers
  <2> QED
    BY <2>1, <2>2, <2>3
<1>5. TypeOK'
  BY <1>1, <1>2, <1>4 DEF AdminUnchanged, queueVars, QueueInv, TypeOK, LedgerInv
<1> QED
  BY <1>2, <1>3, <1>4, <1>5 DEF QueueInv

(* What a request's step leaves alone.                                      *)
LEMMA RequestStep ==
    ASSUME QueueInv, NEW o \in OrderIDs, Reserve(o) \/ PublishOrderEvent(o) \/ Restore(o)
    PROVE  /\ RequestUnchanged /\ LedgerInv' /\ StoppedWhenDown'
           /\ UNCHANGED <<product, dbStock, orders>>
           /\ InHand' = InHand
           /\ o \notin Reached
<1>1. RequestUnchanged /\ pc[o] # "accepted"
  BY DEF Reserve, PublishOrderEvent, Publishing, Restore
<1>2. LedgerInv' /\ UNCHANGED <<product, dbStock, orders>> /\ StoppedWhenDown' /\ InHand' = InHand
  BY <1>1, LedgerStepInv DEF RequestUnchanged, QueueInv, StoppedWhenDown, ledgerVars, InHand
<1> QED
  BY <1>1, <1>2 DEF QueueInv, OnlyAccepted

(* A request that has no event in the channel, and sends none, keeps the    *)
(* invariant if the stock covers its next step.                             *)
LEMMA QuietRequest ==
    ASSUME QueueInv, NEW o \in OrderIDs, Reserve(o) \/ PublishOrderEvent(o) \/ Restore(o),
           UNCHANGED ch, NEW step \in {"publish", "restore", "refused"}, Goto(o, step),
           header' \in [Contexts -> OrderIDs \cup {NoOrder}], header'[ContextOf[o]] # NoOrder,
           \A c \in Contexts : header[c] # NoOrder => header'[c] # NoOrder,
           cacheStock' \in Nat, overfilled' \in BOOLEAN, ClaimsCovered'
    PROVE  QueueInv'
<1>1. /\ RequestUnchanged /\ LedgerInv' /\ StoppedWhenDown'
      /\ UNCHANGED <<product, dbStock, orders>>
      /\ InHand' = InHand /\ o \notin Reached
  BY RequestStep
<1>2. \A p \in OrderIDs : pc'[p] = IF p = o THEN step ELSE pc[p]
  BY DEF Goto, QueueInv, TypeOK
<1>3. TypeOK'
  BY <1>1 DEF RequestUnchanged, Goto, QueueInv, TypeOK, LedgerInv, RequestSteps, Serving
<1>4. Queued' = Queued /\ Reached' = Reached
  BY <1>1 DEF RequestUnchanged, Reached, Queued
<1>5. OnlyAccepted' /\ AllReached'
  <2>1. \A p \in Reached : p \in OrderIDs
    BY LenProperties DEF QueueInv, TypeOK, LedgerTypeOK, Reached, Queued, InHand
  <2> QED
    BY <1>1, <1>2, <1>4, <2>1 DEF QueueInv, OnlyAccepted, AllReached
<1>6. HeldHeaders'
  BY <1>1, <1>2, <1>4, ContextOfAssumption DEF QueueInv, HeldHeaders
<1> QED
  BY <1>1, <1>3, <1>5, <1>6 DEF QueueInv

(* A step of a request keeps the invariant.                                 *)
LEMMA RequestStepInv ==
    ASSUME QueueInv, NEW o \in OrderIDs, Reserve(o) \/ PublishOrderEvent(o) \/ Restore(o)
    PROVE  QueueInv'
<1>1. /\ RequestUnchanged /\ LedgerInv' /\ StoppedWhenDown'
      /\ UNCHANGED <<product, dbStock, orders>>
      /\ InHand' = InHand /\ o \notin Reached /\ o \notin orders
      /\ prewarming' = prewarming
  BY RequestStep DEF Reached, RequestUnchanged
<1>2. /\ Claims \in SUBSET OrderIDs /\ Total(Claims) \in Nat /\ dbStock \in Nat
      /\ cacheStock \in Nat /\ overfilled \in BOOLEAN
  BY TotalType DEF Claims, QueueInv, TypeOK, LedgerTypeOK
<1>3. ASSUME NEW step \in RequestSteps, Goto(o, step)
      PROVE  /\ \A p \in OrderIDs : pc'[p] = IF p = o THEN step ELSE pc[p]
             /\ step \notin {"publish", "restore", "accepted"} => Claims' = Claims \ {o}
             /\ step \in {"publish", "restore", "accepted"} => Claims' = Claims \cup {o}
  <2>1. \A p \in OrderIDs : pc'[p] = IF p = o THEN step ELSE pc[p]
    BY <1>3 DEF Goto, QueueInv, TypeOK
  <2> QED
    BY <1>1, <2>1 DEF Claims
<1>4. CASE Reserve(o)
  <2>1. /\ header' \in [Contexts -> OrderIDs \cup {NoOrder}] /\ header'[ContextOf[o]] # NoOrder
        /\ \A c \in Contexts : header[c] # NoOrder => header'[c] # NoOrder
    BY <1>4, ContextOfAssumption, NoOrderAssumption DEF Reserve, QueueInv, TypeOK
  <2>2. pc[o] = "idle" /\ UNCHANGED <<ch, overfilled>>
    BY <1>4 DEF Reserve
  <2>3. ASSUME Goto(o, "refused"), cacheStock' \in Nat, cacheStock' <= cacheStock
        PROVE  QueueInv'
    <3>1. Claims' \subseteq Claims /\ \A p \in OrderIDs : Begun(p)' => Begun(p)
      BY <1>3, <2>3 DEF RequestSteps, Begun
    <3>2. ClaimsCovered'
      BY <1>1, <2>2, <2>3, <3>1, FewerClaims
    <3> QED
      BY <1>2, <1>4, <2>1, <2>2, <2>3, <3>2, QuietRequest
  <2>4. ASSUME Goto(o, "publish"), cacheStock' \in Nat, cacheStock' + Quantity[o] <= cacheStock,
               ValidQuantity(o), product = "flash"
        PROVE  QueueInv'
    <3>1. Claims' = Claims \cup {o} /\ o \notin Claims
      BY <1>3, <2>2, <2>4 DEF RequestSteps, Serving, Claims
    <3>2. Total(Claims)' = Total(Claims) + Quantity[o]
      BY <1>2, <2>4, <3>1, TotalAdd DEF Total, Units
    <3>3. Quantity[o] \in Int
      BY QuantityAssumption
    <3>4. (~overfilled => cacheStock + Total(Claims) <= dbStock)'
      BY <1>1, <1>2, <2>2, <2>4, <3>2, <3>3 DEF QueueInv, ClaimsCovered
    <3>5. \A p \in OrderIDs : Begun(p)' => p = o \/ Begun(p)
      BY <1>3, <2>4 DEF RequestSteps, Serving, Begun
    <3>6. ClaimsCovered'
      BY <1>1, <2>4, <3>4, <3>5 DEF QueueInv, ClaimsCovered, ValidQuantity
    <3> QED
      BY <1>2, <1>4, <2>1, <2>2, <2>4, <3>6, QuietRequest
  <2>5. ASSUME ValidQuantity(o), product = "flash", NEW ok \in BOOLEAN,
               \/ Cache!DecrementStockAtomic(Quantity[o], ok)
               \/ Cache!DecrementStockTwice(Quantity[o], ok),
               Goto(o, IF ok THEN "publish" ELSE "refused") \/ Goto(o, "refused")
        PROVE  QueueInv'
    <3>1. Quantity[o] \in Nat
      BY <2>5, QuantityAssumption DEF ValidQuantity, MaxQuantity
    <3>2. /\ cacheStock' \in Nat /\ cacheStock' <= cacheStock
          /\ ok => cacheStock' + Quantity[o] <= cacheStock
      BY <1>2, <2>5, <3>1, DecrementTakes
    <3> QED
      BY <2>3, <2>4, <2>5, <3>2
  <2>6. CASE UNCHANGED cacheStock /\ Goto(o, "refused")
    BY <1>2, <2>3, <2>6
  <2> QED
    BY <1>4, <2>5, <2>6 DEF Reserve
<1>5. CASE PublishOrderEvent(o)
  <2>1. /\ pc[o] = "publish" /\ UNCHANGED <<cacheStock, overfilled, header>>
        /\ product # "absent" /\ o \in Claims
    BY <1>1, <1>5 DEF PublishOrderEvent, Publishing, QueueInv, ClaimsCovered, Begun, Claims
  <2>2. header[ContextOf[o]] # NoOrder
    BY <2>1 DEF QueueInv, HeldHeaders, Serving
  <2>3. ASSUME NEW step \in {"accepted", "restore"}, Goto(o, step)
        PROVE  ClaimsCovered'
    <3>1. Claims' \subseteq Claims
      BY <1>3, <2>1, <2>3 DEF RequestSteps, Serving
    <3>2. \A p \in OrderIDs : Begun(p)' => Begun(p)
      BY <1>3, <2>1, <2>3 DEF RequestSteps, Serving, Begun
    <3> QED
      BY <1>1, <1>2, <2>1, <3>1, <3>2, FewerClaims
  <2>4. CASE Len(ch) < BufferSize /\ ch' = Append(ch, o) /\ Goto(o, "accepted")
    <3>1. /\ ch' \in Seq(OrderIDs) /\ Len(ch') = Len(ch) + 1
          /\ Queued' = Queued \cup {o}
      BY <2>4, SendAddsOne DEF QueueInv, TypeOK
    <3>2. TypeOK'
      BY <1>1, <2>1, <2>4, <3>1, BufferSizeAssumption, LenProperties
      DEF Goto, RequestUnchanged, QueueInv, TypeOK, LedgerInv, RequestSteps
    <3>3. \A p \in OrderIDs : pc'[p] = IF p = o THEN "accepted" ELSE pc[p]
      BY <1>3, <2>4 DEF RequestSteps
    <3>4. Reached' = Reached \cup {o}
      BY <1>1, <3>1 DEF RequestUnchanged, Reached
    <3>5. OnlyAccepted' /\ AllReached'
      <4>1. \A p \in Reached : p \in OrderIDs
        BY LenProperties DEF QueueInv, TypeOK, LedgerTypeOK, Reached, Queued, InHand
      <4> QED
        BY <3>3, <3>4, <4>1 DEF QueueInv, OnlyAccepted, AllReached
    <3>6. HeldHeaders'
      BY <1>1, <2>1, <2>2, <3>1, <3>3 DEF QueueInv, HeldHeaders, Serving
    <3> QED
      BY <1>1, <2>3, <2>4, <3>2, <3>5, <3>6 DEF QueueInv
  <2>5. CASE UNCHANGED ch /\ Goto(o, "restore")
    <3>1. ClaimsCovered' /\ header' \in [Contexts -> OrderIDs \cup {NoOrder}]
      BY <2>1, <2>3, <2>5 DEF QueueInv, TypeOK
    <3> QED
      BY <1>2, <1>5, <2>1, <2>2, <2>5, <3>1, QuietRequest
  <2> QED
    BY <1>5, <2>4, <2>5 DEF PublishOrderEvent
<1>6. CASE Restore(o)
  <2>1. /\ pc[o] = "restore" /\ Goto(o, "refused") /\ UNCHANGED <<ch, header>>
        /\ o \in Claims /\ product # "absent" /\ ValidQuantity(o)
    BY <1>1, <1>6 DEF Restore, QueueInv, ClaimsCovered, Begun, Claims
  <2>2. /\ Claims' = Claims \ {o}
        /\ \A p \in OrderIDs : Begun(p)' => Begun(p)
    BY <1>3, <2>1 DEF RequestSteps, Serving, Begun
  <2>3. header[ContextOf[o]] # NoOrder /\ header' \in [Contexts -> OrderIDs \cup {NoOrder}]
    BY <2>1 DEF QueueInv, TypeOK, HeldHeaders, Serving
  <2>4. Quantity[o] \in Nat
    BY <2>1, QuantityAssumption DEF ValidQuantity, MaxQuantity
  <2>5. ClaimsCovered' /\ cacheStock' \in Nat /\ overfilled' \in BOOLEAN
    <3>1. CASE Cache!IncrementStock(Quantity[o], 1) /\ UNCHANGED overfilled
      <4>1. cacheStock' = cacheStock + Quantity[o]
        BY <1>2, <2>4, <3>1 DEF Cache!IncrementStock
      <4>2. Total(Claims)' = Total(Claims) - Quantity[o]
        BY <1>2, <2>1, <2>2, TotalRemove DEF Total, Units
      <4>3. (~overfilled => cacheStock + Total(Claims) <= dbStock)'
        BY <1>1, <1>2, <2>4, <3>1, <4>1, <4>2 DEF QueueInv, ClaimsCovered
      <4>4. ClaimsCovered'
        BY <1>1, <2>1, <2>2, <4>3 DEF QueueInv, ClaimsCovered, ValidQuantity
      <4> QED
        BY <1>2, <2>4, <3>1, <4>1, <4>4
    <3>2. CASE UNCHANGED <<cacheStock, overfilled>>
      BY <1>1, <1>2, <2>2, <3>2, FewerClaims
    <3>3. CASE Cache!IncrementStock(Quantity[o], 2) /\ overfilled' = TRUE
      <4>1. cacheStock' \in Nat
        BY <1>2, <2>4, <3>3 DEF Cache!IncrementStock
      <4> QED
        BY <1>1, <2>1, <2>2, <3>3, <4>1, OverfilledCovered
    <3> QED
      BY <1>6, <3>1, <3>2, <3>3 DEF Restore
  <2> QED
    BY <1>6, <2>1, <2>3, <2>5, QuietRequest
<1> QED
  BY <1>4, <1>5, <1>6

(* A step that touches neither the stock nor a request keeps the claims      *)
(* covered.                                                                 *)
LEMMA SameClaims ==
    ASSUME QueueInv, UNCHANGED <<dbStock, product, orders, pc, stockVars>>
    PROVE  ClaimsCovered'
<1>1. Claims' \subseteq Claims /\ \A o \in OrderIDs : Begun(o)' => Begun(o)
  BY DEF Claims, Begun
<1>2. cacheStock' \in Nat /\ cacheStock' <= cacheStock
  BY DEF stockVars, QueueInv, TypeOK
<1> QED
  BY <1>1, <1>2, FewerClaims DEF stockVars

(* What a call of the handler does to the ledger and to the orders.         *)
LEMMA HandleStep ==
    ASSUME QueueInv, Handle
    PROVE  /\ worker = "handling" /\ LedgerInv'
           /\ \/ Store(current) /\ abandoned' \in {abandoned, abandoned \cup {current}}
              \/ /\ UNCHANGED <<ledgerVars, soldTo>>
                 /\ abandoned' = abandoned \/ (abandoned' = abandoned \cup {current})
           /\ \/ NextEvent /\ (current \in orders' \cup abandoned')
              \/ Retry /\ attempt < MaxAttempts
           /\ UNCHANGED <<stockVars, process, pc, header, lost>>
<1>1. LedgerInv'
  BY InHandCovered, LedgerStepInv
  DEF Handle, Store, LedgerNext, QueueInv, ledgerVars, HandlerError, NextEvent, Retry
<1> QED
  BY <1>1 DEF Handle, Store, Fulfil, HandlerError, ConsumerUnchanged, ledgerVars

(* A step of the consumer keeps the invariant.                              *)
LEMMA ConsumerStepInv == ASSUME QueueInv, Consume PROVE QueueInv'
<1>4. StoppedWhenDown'
  BY DEF QueueInv, StoppedWhenDown, Consume, Take, Stop, Handle, ConsumerUnchanged
<1>1. CASE Take
  <2>1. LedgerInv' /\ UNCHANGED <<dbStock, product, orders, pc, abandoned, lost, stockVars>>
    BY <1>1, LedgerStepInv DEF Take, ConsumerUnchanged, QueueInv, ledgerVars
  <2>2. /\ ch' \in Seq(OrderIDs) /\ Len(ch') = Len(ch) - 1
        /\ Head(ch) \in OrderIDs /\ Queued = {Head(ch)} \cup Queued'
    BY <1>1, ReceiveTakesOne DEF Take, QueueInv, TypeOK
  <2>3. TypeOK'
    BY <1>1, <2>1, <2>2, NoOrderAssumption, BufferSizeAssumption, LenProperties
    DEF Take, ConsumerUnchanged, QueueInv, TypeOK, LedgerInv, MaxAttempts, stockVars
  <2>4. InHand = {} /\ InHand' = {Head(ch)}
    BY <1>1, <2>2, NoOrderAssumption DEF Take, QueueInv, TypeOK, InHand
  <2>5. OnlyAccepted' /\ AllReached' /\ HeldHeaders'
    BY <1>1, <2>1, <2>2, <2>4
    DEF Take, ConsumerUnchanged, QueueInv, OnlyAccepted, Reached, AllReached, HeldHeaders
  <2> QED
    BY <1>4, <2>1, <2>3, <2>5, SameClaims DEF QueueInv
<1>2. CASE Stop
  <2>1. /\ LedgerInv'
        /\ UNCHANGED <<dbStock, product, orders, pc, abandoned, lost, ch, current, stockVars>>
    BY <1>2, LedgerStepInv DEF Stop, ConsumerUnchanged, QueueInv, ledgerVars
  <2>2. TypeOK'
    BY <1>2, <2>1 DEF Stop, ConsumerUnchanged, QueueInv, TypeOK, LedgerInv, stockVars
  <2>3. OnlyAccepted' /\ AllReached' /\ HeldHeaders'
    BY <1>2, <2>1 DEF Stop, ConsumerUnchanged, QueueInv, OnlyAccepted, Reached, AllReached,
                      HeldHeaders, Queued, InHand
  <2> QED
    BY <1>4, <2>1, <2>2, <2>3, SameClaims DEF QueueInv
<1>3. CASE Handle
  <2>1. /\ worker = "handling" /\ current \in OrderIDs /\ pc[current] = "accepted"
        /\ product # "absent"
        /\ current \notin orders => current \in Claims
        /\ UNCHANGED stockVars
    BY <1>3, HandleStep, InHandCovered
  <2>2. ch' = ch /\ Queued' = Queued
    BY <1>3, HandleStep DEF NextEvent, Retry, Queued
  <2>3. /\ InHand = {current}
        /\ \/ InHand' = {} /\ current \in orders' \cup abandoned'
           \/ InHand' = {current}
    BY <1>3, <2>1, HandleStep, NoOrderAssumption DEF NextEvent, Retry, InHand
  <2>4. /\ orders' = orders \/ orders' = orders \cup {current}
        /\ abandoned' = abandoned \/ abandoned' = abandoned \cup {current}
        /\ pc' = pc /\ lost' = lost
    BY <1>3, HandleStep DEF Store, Fulfil, ledgerVars
  <2>5. TypeOK'
    <3>1. /\ worker' \in {"listening", "handling"}
          /\ current' \in OrderIDs \cup {NoOrder}
          /\ worker' = "handling" <=> current' # NoOrder
          /\ attempt' \in 0..MaxAttempts
      BY <1>3, <2>1, HandleStep, NoOrderAssumption DEF NextEvent, Retry, QueueInv, TypeOK, MaxAttempts
    <3>2. soldTo' \subseteq OrderIDs \X Users
      <4>1. ASSUME Store(current) PROVE soldTo' \subseteq OrderIDs \X Users
        <5>1. Buyer(current) \in Users
          <6>1. ContextOf[current] \in Contexts /\ UserOf[current] \in Users
            BY <2>1, ContextOfAssumption, UserOfAssumption
          <6>2. header[ContextOf[current]] \in OrderIDs
            <7>1. current \in Queued \cup InHand
              BY <2>3
            <7>2. header[ContextOf[current]] # NoOrder
              BY <2>1, <7>1 DEF QueueInv, HeldHeaders
            <7>3. header[ContextOf[current]] \in OrderIDs \cup {NoOrder}
              BY <6>1 DEF QueueInv, TypeOK
            <7> QED
              BY <7>2, <7>3
          <6> QED
            BY <6>1, <6>2, UserOfAssumption DEF Buyer
        <5> QED
          BY <2>1, <4>1, <5>1 DEF Store, QueueInv, TypeOK
      <4> QED
        BY <1>3, <4>1, HandleStep DEF QueueInv, TypeOK
    <3> QED
      BY <1>3, <2>1, <2>2, <2>4, <3>1, <3>2, HandleStep DEF QueueInv, TypeOK, LedgerInv, stockVars
  <2>6. OnlyAccepted' /\ AllReached'
    <3>1. Reached' = Reached
      BY <2>2, <2>3, <2>4 DEF Reached
    <3> QED
      BY <2>4, <3>1 DEF QueueInv, OnlyAccepted, AllReached, Reached
  <2>8. HeldHeaders'
    <3>1. header' = header /\ pc' = pc /\ Queued' = Queued /\ InHand' \subseteq InHand
      BY <1>3, <2>2, <2>3, HandleStep
    <3> QED
      BY <3>1 DEF QueueInv, HeldHeaders
  <2>7. ClaimsCovered'
    <3>1. CASE Store(current)
      <4>1. /\ current \in Claims /\ ValidQuantity(current)
            /\ orders' = orders \cup {current} /\ dbStock' = dbStock - Quantity[current]
            /\ product' = product
        BY <2>1, <3>1 DEF Store, Fulfil, CanFulfil
      <4>2. Claims' = Claims \ {current}
        BY <2>4, <4>1 DEF Claims
      <4>3. Claims \in SUBSET OrderIDs /\ Total(Claims)' = Total(Claims \ {current})
        BY <4>2 DEF Claims, Total, Units
      <4>4. Total(Claims \ {current}) = Total(Claims) - Quantity[current]
        BY <4>1, <4>3, TotalRemove
      <4>5. Total(Claims) \in Nat /\ dbStock \in Nat /\ Quantity[current] \in Int
        BY <2>1, <4>3, TotalType, QuantityAssumption DEF QueueInv, TypeOK, LedgerTypeOK
      <4>6. (~overfilled => cacheStock + Total(Claims) <= dbStock)'
        BY <2>1, <4>1, <4>3, <4>4, <4>5 DEF QueueInv, TypeOK, ClaimsCovered, stockVars
      <4> QED
        BY <2>1, <2>4, <4>1, <4>6 DEF QueueInv, ClaimsCovered, Begun, ValidQuantity
    <3>2. CASE UNCHANGED ledgerVars
      BY <2>1, <2>4, <3>2, SameClaims DEF ledgerVars
    <3> QED
      BY <1>3, <3>1, <3>2, HandleStep
  <2> QED
    BY <1>3, <1>4, <2>5, <2>6, <2>7, <2>8, HandleStep DEF QueueInv
<1> QED
  BY <1>1, <1>2, <1>3 DEF Consume

(* A step of the process keeps the invariant.                               *)
LEMMA ProcessStepInv ==
    ASSUME QueueInv, Shutdown \/ Exit \/ Crash \/ Restart
    PROVE  QueueInv'
<1>1. CASE Shutdown \/ Restart
  <2>1. /\ LedgerInv'
        /\ UNCHANGED <<dbStock, product, orders, pc, abandoned, lost, ch, current, header, stockVars>>
    BY <1>1, LedgerStepInv DEF Shutdown, Restart, queueVars, QueueInv, ledgerVars
  <2>2. TypeOK' /\ StoppedWhenDown'
    BY <1>1, <2>1, BufferSizeAssumption
    DEF Shutdown, Restart, queueVars, stockVars, QueueInv, TypeOK, LedgerInv, StoppedWhenDown
  <2>3. OnlyAccepted' /\ AllReached' /\ HeldHeaders'
    BY <2>1 DEF QueueInv, OnlyAccepted, Reached, AllReached, HeldHeaders, Queued, InHand
  <2> QED
    BY <2>1, <2>2, <2>3, SameClaims DEF QueueInv
<1>2. CASE End
  <2>1. /\ LedgerInv' /\ dbStock' = dbStock /\ product' = product /\ orders' = orders
        /\ abandoned' = abandoned /\ lost' = lost \cup Queued \cup InHand
        /\ UNCHANGED <<cacheStock, overfilled>> /\ prewarming' = FALSE
    BY <1>2, LedgerStepInv DEF End, QueueInv, ledgerVars
  <2>2. /\ ch' \in Seq(OrderIDs) /\ Len(ch') = 0 /\ Queued' = {} /\ InHand' = {}
    BY <1>2, EmptyChannel DEF End, InHand
  <2>3. \A o \in OrderIDs : pc'[o] = IF pc[o] \in Serving THEN "crashed" ELSE pc[o]
    BY <1>2 DEF End
  <2>4. Queued \subseteq OrderIDs /\ InHand \subseteq OrderIDs
    BY LenProperties DEF QueueInv, TypeOK, Queued, InHand
  <2>9. pc' \in [OrderIDs -> RequestSteps]
    BY <1>2 DEF End, QueueInv, TypeOK, RequestSteps
  <2>10. cacheStock' \in Nat /\ prewarming' \in BOOLEAN /\ overfilled' \in BOOLEAN
    BY <2>1 DEF QueueInv, TypeOK
  <2>5. TypeOK' /\ StoppedWhenDown'
    BY <1>2, <2>1, <2>2, <2>4, <2>9, <2>10, BufferSizeAssumption
    DEF End, QueueInv, TypeOK, LedgerInv, MaxAttempts, StoppedWhenDown
  <2>6. OnlyAccepted' /\ AllReached'
    <3>1. Reached' = Reached /\ Reached \subseteq OrderIDs
      BY <2>1, <2>2, <2>4 DEF Reached, QueueInv, TypeOK, LedgerTypeOK
    <3>2. \A o \in OrderIDs : pc'[o] = "accepted" <=> pc[o] = "accepted"
      BY <2>3 DEF Serving
    <3> QED
      BY <3>1, <3>2 DEF QueueInv, OnlyAccepted, AllReached, Reached
  <2>7. HeldHeaders' /\ Claims' \subseteq Claims /\ \A o \in OrderIDs : Begun(o)' => Begun(o)
    BY <2>1, <2>2, <2>3 DEF HeldHeaders, Claims, Begun, Serving
  <2>8. cacheStock' \in Nat /\ cacheStock' <= cacheStock
    BY <2>1 DEF QueueInv, TypeOK
  <2> QED
    BY <2>1, <2>5, <2>6, <2>7, <2>8, FewerClaims DEF QueueInv
<1> QED
  BY <1>1, <1>2 DEF Exit, Crash

(* Every step keeps the invariant.                                          *)
LEMMA QueueStepInv == QueueInv /\ [Next]_vars => QueueInv'
<1> SUFFICES ASSUME QueueInv, [Next]_vars
             PROVE  QueueInv'
  OBVIOUS
<1>1. CASE \E o \in OrderIDs : Reserve(o) \/ PublishOrderEvent(o) \/ Restore(o)
  BY <1>1, RequestStepInv
<1>5. CASE InsertProduct \/ AutoPrewarm \/ \E n \in 0..InitialStock : PrewarmStock(n)
  BY <1>5, AdminStepInv
<1>2. CASE Consume
  BY <1>2, ConsumerStepInv
<1>3. CASE Shutdown \/ Exit \/ Crash \/ Restart
  BY <1>3, ProcessStepInv
<1>4. CASE UNCHANGED vars
  <2>1. LedgerInv' /\ UNCHANGED <<dbStock, product, orders, pc, stockVars>>
    BY <1>4, LedgerStepInv DEF vars, ledgerVars, QueueInv
  <2>2. TypeOK' /\ StoppedWhenDown'
    BY <1>4, <2>1
    DEF vars, ledgerVars, queueVars, stockVars, QueueInv, TypeOK, LedgerInv, StoppedWhenDown
  <2>3. OnlyAccepted' /\ AllReached' /\ HeldHeaders'
    BY <1>4 DEF vars, ledgerVars, queueVars, QueueInv, OnlyAccepted, Reached, AllReached,
                HeldHeaders, Queued, InHand
  <2> QED
    BY <2>1, <2>2, <2>3, SameClaims DEF QueueInv
<1> QED
  BY <1>1, <1>2, <1>3, <1>4, <1>5 DEF Next

(* The invariant holds in every behaviour.                                  *)
LEMMA QueueInvariant == Spec => []QueueInv
BY InitInv, QueueStepInv, PTL DEF Spec

-----------------------------------------------------------------------------
(* The variables keep their types; an event gets three attempts at most.    *)
THEOREM MemoryQueueTypeCorrect == Spec => []TypeOK
<1>1. QueueInv => TypeOK
  BY DEF QueueInv
<1> QED
  BY <1>1, QueueInvariant, PTL

(* An order is sold, on its way, given up after its last attempt, or lost   *)
(* with its process, exactly if it was answered 202; the stock is conserved.*)
THEOREM MemoryQueueAccounts == Spec => [](AcceptedAccounted /\ Conservation)
<1>1. QueueInv => AcceptedAccounted /\ Conservation
  BY DEF QueueInv, LedgerInv, OnlyAccepted, AllReached, Reached, AcceptedAccounted
<1> QED
  BY <1>1, QueueInvariant, PTL

(* An order whose units were given back is not on its way, and never sold.  *)
RefusedNeverSold ==
    \A o \in OrderIDs : pc[o] = "refused" => o \notin orders \cup Queued \cup InHand

(* An order whose units were given back was never sent.                     *)
THEOREM MemoryQueueRefusedNeverSold == Spec => []RefusedNeverSold
<1>1. QueueInv => RefusedNeverSold
  BY DEF QueueInv, OnlyAccepted, Reached, RefusedNeverSold
<1> QED
  BY <1>1, QueueInvariant, PTL

(* What Redis gave out is still in stock at the last attempt, unless Redis  *)
(* was overfilled by a SET during the sale or by an INCRBY applied twice:   *)
(* whatever else fails, no order is given up for want of stock.             *)
THEOREM MemoryQueueNeverShortOfStock == Spec => NeverGivenUpForStock
<1> DEFINE Covered ==
        abandoned' # abandoned /\ ~overfilled => current \in orders \/ CanFulfil(current)
<1>1. QueueInv /\ [Next]_vars => [Covered]_vars
  <2> SUFFICES ASSUME QueueInv, Next, abandoned' # abandoned, ~overfilled
               PROVE  current \in orders \/ CanFulfil(current)
    BY DEF vars
  <2>1. Handle
    BY DEF Next, InsertProduct, AutoPrewarm, PrewarmStock, AdminUnchanged, Reserve,
           PublishOrderEvent, Publishing, Restore, RequestUnchanged, Consume, Take, Stop,
           Shutdown, Exit, Crash, End, Restart
  <2> QED
    BY <2>1, HandleStep, InHandCovered
<1> QED
  BY <1>1, QueueInvariant, PTL DEF Spec, NeverGivenUpForStock

-----------------------------------------------------------------------------
(* No event is in the channel twice.                                        *)
Distinct == \A i, j \in DOMAIN ch : ch[i] = ch[j] => i = j

(* A send of an order that is not there keeps it so.                        *)
LEMMA SendKeepsDistinct ==
    ASSUME ch \in Seq(OrderIDs), Distinct, NEW o \in OrderIDs, o \notin Queued, ch' = Append(ch, o)
    PROVE  Distinct'
<1>1. /\ ch' \in Seq(OrderIDs) /\ Len(ch') = Len(ch) + 1
      /\ \A i \in 1..Len(ch) : ch'[i] = ch[i]
      /\ ch'[Len(ch) + 1] = o
  BY AppendProperties
<1>2. Len(ch) \in Nat /\ DOMAIN ch = 1..Len(ch) /\ DOMAIN ch' = 1..(Len(ch) + 1)
  BY <1>1, LenProperties
<1>3. \A i \in 1..Len(ch) : ch[i] # o
  BY <1>2 DEF Queued
<1>4. \A i \in 1..(Len(ch) + 1) : i \in 1..Len(ch) \/ i = Len(ch) + 1
  BY <1>2
<1>5. ASSUME NEW i \in DOMAIN ch', NEW j \in DOMAIN ch', ch'[i] = ch'[j]
      PROVE  i = j
  BY <1>1, <1>2, <1>3, <1>4, <1>5 DEF Distinct
<1> QED
  BY <1>5 DEF Distinct

(* A receive keeps it so, and the event received is not there any more.     *)
LEMMA ReceiveKeepsDistinct ==
    ASSUME ch \in Seq(OrderIDs), ch # <<>>, Distinct, ch' = Tail(ch)
    PROVE  Distinct' /\ Head(ch) \notin Queued'
<1>1. /\ ch' \in Seq(OrderIDs) /\ Len(ch') = Len(ch) - 1
      /\ \A i \in 1..Len(ch') : ch'[i] = ch[i + 1]
  BY HeadTailProperties
<1>2. Len(ch) \in Nat /\ Len(ch) >= 1 /\ DOMAIN ch = 1..Len(ch) /\ DOMAIN ch' = 1..(Len(ch) - 1)
  BY <1>1, LenProperties, EmptySeq
<1>3. \A i \in DOMAIN ch' : i + 1 \in DOMAIN ch /\ i + 1 # 1 /\ ch'[i] = ch[i + 1]
  BY <1>1, <1>2
<1>4. Head(ch) = ch[1]
  OBVIOUS
<1>5. 1 \in DOMAIN ch
  BY <1>2
<1>6. ASSUME NEW i \in DOMAIN ch', NEW j \in DOMAIN ch', ch'[i] = ch'[j]
      PROVE  i = j
  <2>1. i + 1 = j + 1
    BY <1>3, <1>6 DEF Distinct
  <2> QED
    BY <1>2, <2>1
<1>7. \A i \in DOMAIN ch' : ch'[i] # Head(ch)
  BY <1>3, <1>4, <1>5 DEF Distinct
<1> QED
  BY <1>6, <1>7 DEF Distinct, Queued

(* An event in hand is at its first attempt or a later one.                 *)
OnceInv == DeliveredOnce /\ (worker = "handling" => attempt > 0)

(* A call of the handler leaves the channel alone: the event stays in hand  *)
(* for another attempt, or leaves it sold or given up.                      *)
LEMMA HandleKeepsOnce == ASSUME QueueInv, OnceInv, Handle PROVE OnceInv'
<1>1. worker = "handling" /\ current \in OrderIDs /\ InHand = {current} /\ attempt \in Nat /\ attempt > 0
  BY HandleStep, InHandCovered, NoOrderAssumption DEF InHand, OnceInv, QueueInv, TypeOK, MaxAttempts
<1>2. ch' = ch /\ Queued' = Queued /\ lost' = lost
  BY HandleStep DEF NextEvent, Retry, Queued
<1>3. /\ orders' \in {orders, orders \cup {current}}
      /\ abandoned' \in {abandoned, abandoned \cup {current}}
  BY HandleStep DEF Store, Fulfil, ledgerVars
<1>4. current \notin Queued \cup abandoned \cup lost
  BY <1>1 DEF OnceInv, DeliveredOnce
<1>5. CASE NextEvent
  <2>1. InHand' = {} /\ worker' = "listening"
    BY <1>5 DEF NextEvent, InHand
  <2> QED
    BY <1>1, <1>2, <1>3, <1>4, <2>1 DEF OnceInv, DeliveredOnce
<1>6. CASE Retry
  <2>1. abandoned' = abandoned
    BY <1>1, <1>6 DEF Handle, HandlerError, NextEvent, Retry
  <2>2. InHand' = {current} /\ attempt' > 1 /\ attempt' > 0
    BY <1>1, <1>6 DEF Retry, InHand
  <2> QED
    BY <1>1, <1>2, <1>3, <1>4, <2>1, <2>2 DEF OnceInv, DeliveredOnce
<1> QED
  BY <1>5, <1>6, HandleStep

(* Every step keeps an event in one place.                                  *)
LEMMA OnceStep == QueueInv /\ OnceInv /\ [Next]_vars => OnceInv'
<1> SUFFICES ASSUME QueueInv, OnceInv, [Next]_vars
             PROVE  OnceInv'
  OBVIOUS
<1>1. CASE UNCHANGED <<orders, ch, worker, current, attempt, abandoned, lost>>
  BY <1>1 DEF OnceInv, DeliveredOnce, Queued, InHand
<1>2. ASSUME NEW o \in OrderIDs, PublishOrderEvent(o), ch' = Append(ch, o)
      PROVE  OnceInv'
  <2>1. UNCHANGED <<orders, worker, current, attempt, abandoned, lost>> /\ InHand' = InHand
    BY <1>2 DEF PublishOrderEvent, Publishing, RequestUnchanged, ledgerVars, InHand
  <2>2. o \notin Reached
    BY <1>2, RequestStep
  <2>3. Queued' = Queued \cup {o} /\ Distinct'
    BY <1>2, <2>2, SendAddsOne, SendKeepsDistinct
    DEF QueueInv, TypeOK, OnceInv, DeliveredOnce, Distinct, Reached
  <2> QED
    BY <2>1, <2>2, <2>3 DEF OnceInv, DeliveredOnce, Distinct, Reached
<1>3. CASE Take
  <2>1. UNCHANGED <<orders, abandoned, lost>> /\ worker' = "handling" /\ attempt' = 1
    BY <1>3 DEF Take, ConsumerUnchanged, ledgerVars
  <2>2. /\ Queued = {Head(ch)} \cup Queued' /\ Distinct' /\ Head(ch) \notin Queued'
        /\ Head(ch) \in OrderIDs
    BY <1>3, ReceiveTakesOne, ReceiveKeepsDistinct
    DEF Take, QueueInv, TypeOK, OnceInv, DeliveredOnce, Distinct
  <2>3. InHand' = {Head(ch)}
    BY <1>3, <2>2, NoOrderAssumption DEF Take, InHand
  <2> QED
    BY <2>1, <2>2, <2>3 DEF OnceInv, DeliveredOnce, Distinct
<1>4. CASE End
  <2>1. /\ UNCHANGED <<orders, abandoned>> /\ lost' = lost \cup Queued \cup InHand
        /\ worker' = "stopped" /\ InHand' = {}
    BY <1>4 DEF End, ledgerVars, InHand
  <2>2. Queued' = {} /\ Distinct'
    BY <1>4, EmptySeq DEF End, Queued, Distinct
  <2> QED
    BY <2>1, <2>2 DEF OnceInv, DeliveredOnce, Distinct
<1>5. CASE Stop \/ Restart
  <2>1. /\ UNCHANGED <<orders, ch, current, attempt, abandoned, lost>>
        /\ worker' # "handling"
    BY <1>5 DEF Stop, Restart, ConsumerUnchanged, ledgerVars
  <2> QED
    BY <2>1 DEF OnceInv, DeliveredOnce, Queued, InHand
<1> QED
  BY <1>1, <1>2, <1>3, <1>4, <1>5, HandleKeepsOnce
  DEF Next, vars, ledgerVars, queueVars, InsertProduct, CreateProduct, AutoPrewarm, PrewarmStock,
      AdminUnchanged, Reserve, PublishOrderEvent, Publishing, Restore, RequestUnchanged, Consume,
      Shutdown, Exit, Crash

(* The channel and its consumer deliver an event once, whatever fails and   *)
(* however often the process restarts: it is waiting, in hand, given up or  *)
(* lost, and the handler meets a sold order only in a retry.                *)
THEOREM MemoryQueueDeliversOnce == Spec => []DeliveredOnce
<1>1. Init => OnceInv
  <2> SUFFICES ASSUME Init PROVE OnceInv
    OBVIOUS
  <2>1. Queued = {} /\ InHand = {} /\ Distinct
    BY EmptySeq DEF Init, Queued, InHand, Distinct
  <2> QED
    BY <2>1 DEF Init, LedgerInit, OnceInv, DeliveredOnce, Distinct
<1>2. OnceInv => DeliveredOnce
  BY DEF OnceInv
<1> QED
  BY <1>1, <1>2, OnceStep, QueueInvariant, PTL DEF Spec

-----------------------------------------------------------------------------
(* A step of a request answers it, or tells its buyer nothing.              *)
LEMMA RequestPromise ==
    ASSUME QueueInv, NEW o \in OrderIDs, Reserve(o) \/ PublishOrderEvent(o) \/ Restore(o)
    PROVE  Promise!Accept(o) \/ Promise!Refuse(o) \/ UNCHANGED <<answer, fate>>
<1>1. RequestUnchanged /\ o \notin Reached
  BY RequestStep
<1>2. UNCHANGED fate /\ fate[o] = "open"
  BY <1>1 DEF RequestUnchanged, ledgerVars, Reached, fate
<1>3. PICK step \in {"accepted", "refused", "publish", "restore"} : Goto(o, step)
  BY DEF Reserve, PublishOrderEvent, Restore
<1>4. \A p \in OrderIDs : pc'[p] = IF p = o THEN step ELSE pc[p]
  BY <1>3 DEF Goto, QueueInv, TypeOK
<1>5. answer[o] = "none"
  BY DEF Reserve, PublishOrderEvent, Publishing, Restore, answer
<1>6. CASE step \in {"accepted", "refused"}
  <2>1. answer' = [answer EXCEPT ![o] = step]
    BY <1>4, <1>6 DEF answer
  <2> QED
    BY <1>2, <1>5, <1>6, <2>1 DEF Promise!Accept, Promise!Refuse
<1>7. CASE step \in {"publish", "restore"}
  <2>1. UNCHANGED answer
    BY <1>4, <1>5, <1>7 DEF answer
  <2> QED
    BY <1>2, <2>1
<1> QED
  BY <1>6, <1>7

(* A step of the queue is a step of the contract, or none.                  *)
LEMMA PromiseStep == QueueInv /\ [Next]_vars => [Promise!Next]_(Promise!vars)
<1> SUFFICES ASSUME QueueInv, [Next]_vars
             PROVE  [Promise!Next]_<<answer, fate>>
  BY DEF Promise!vars
<1>1. ASSUME UNCHANGED <<orders, abandoned, lost>>
      PROVE  UNCHANGED fate
  BY <1>1 DEF fate
<1>2. ASSUME UNCHANGED pc
      PROVE  UNCHANGED answer
  BY <1>2 DEF answer
<1>3. CASE \/ InsertProduct \/ AutoPrewarm \/ \E n \in 0..InitialStock : PrewarmStock(n)
           \/ Take \/ Stop \/ Shutdown \/ Restart \/ UNCHANGED vars
  <2>1. UNCHANGED <<orders, abandoned, lost, pc>>
    BY <1>3 DEF InsertProduct, CreateProduct, AutoPrewarm, PrewarmStock, AdminUnchanged, Take,
                Stop, ConsumerUnchanged, Shutdown, Restart, vars, ledgerVars
  <2> QED
    BY <1>1, <1>2, <2>1
<1>4. ASSUME NEW o \in OrderIDs, Reserve(o) \/ PublishOrderEvent(o) \/ Restore(o)
      PROVE  Promise!Next \/ UNCHANGED <<answer, fate>>
  BY <1>4, RequestPromise DEF Promise!Next
<1>6. ASSUME Handle
      PROVE  Promise!Next \/ UNCHANGED <<answer, fate>>
  <2>1. /\ current \in OrderIDs /\ answer[current] = "accepted" /\ UNCHANGED answer
    BY <1>2, <1>6, HandleStep, InHandCovered DEF answer
  <2>2. CASE Store(current) /\ abandoned' \in {abandoned, abandoned \cup {current}}
    <3>1. current \notin orders /\ orders' = orders \cup {current} /\ lost' = lost
      BY <1>6, <2>2, HandleStep DEF Store, Fulfil, CanFulfil
    <3>2. fate[current] # "sold" /\ fate' = [fate EXCEPT ![current] = "sold"]
      BY <2>1, <2>2, <3>1 DEF fate
    <3>3. Promise!Sell(current)
      BY <2>1, <3>2 DEF Promise!Sell
    <3> QED
      BY <2>1, <3>3 DEF Promise!Next
  <2>3. CASE UNCHANGED <<orders, abandoned>>
    BY <1>1, <1>6, <2>1, <2>3, HandleStep
  <2>4. CASE UNCHANGED orders /\ abandoned' = abandoned \cup {current}
    <3>1. lost' = lost
      BY <1>6, HandleStep
    <3>2. CASE fate[current] = "open"
      <4>1. fate' = [p \in OrderIDs |-> IF p \in {current} THEN "dropped" ELSE fate[p]]
        BY <2>1, <2>4, <3>1, <3>2 DEF fate
      <4>2. Promise!GiveUp({current})
        BY <2>1, <3>2, <4>1 DEF Promise!GiveUp
      <4> QED
        BY <2>1, <4>2 DEF Promise!Next
    <3>3. CASE fate[current] # "open"
      <4>1. UNCHANGED fate
        BY <2>1, <2>4, <3>1, <3>3 DEF fate
      <4> QED
        BY <2>1, <4>1
    <3> QED
      BY <3>2, <3>3
  <2> QED
    BY <1>6, <2>2, <2>3, <2>4, HandleStep DEF ledgerVars
<1>7. ASSUME End
      PROVE  Promise!Next
  <2> DEFINE Dropped == {o \in Queued \cup InHand : fate[o] = "open"}
  <2>1. Queued \cup InHand \in SUBSET OrderIDs
    BY LenProperties DEF QueueInv, TypeOK, Queued, InHand
  <2>2. UNCHANGED answer
    BY <1>7 DEF End, answer, Serving
  <2>3. \A o \in Dropped : answer[o] # "refused" /\ fate[o] = "open"
    BY <2>1 DEF QueueInv, OnlyAccepted, Reached, answer
  <2>4. fate' = [o \in OrderIDs |-> IF o \in Dropped THEN "dropped" ELSE fate[o]]
    BY <1>7, <2>1 DEF End, fate, ledgerVars
  <2>5. Promise!GiveUp(Dropped)
    BY <2>2, <2>3, <2>4 DEF Promise!GiveUp
  <2> QED
    BY <2>1, <2>5 DEF Promise!Next
<1> QED
  BY <1>3, <1>4, <1>6, <1>7 DEF Next, Consume, Exit, Crash, Promise!Next

(* The channel keeps the contract of OrderPromise, whatever fails: a buyer  *)
(* is answered once and for good, nobody is refused an order that is on its *)
(* way, and no order is sold twice.                                         *)
THEOREM MemoryQueueKeepsPromise == Spec => PromiseSpec
<1>1. Init => Promise!Init
  BY DEF Init, LedgerInit, Promise!Init, answer, fate
<1> QED
  BY <1>1, PromiseStep, QueueInvariant, PTL DEF Spec, PromiseSpec, Promise!Spec
=============================================================================
