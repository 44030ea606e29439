------------------------ MODULE OrderTransactionProofs ------------------------
(***************************************************************************)
(* The MongoDB transaction of CreateOrderAndDecrementStock implements the  *)
(* ledger, for any number of orders, sessions and units of stock.          *)
(*                                                                         *)
(* The argument: whoever has written the product document in an open       *)
(* transaction did so from the committed stock, and nobody commits another *)
(* value before that transaction ends (WriterIsCurrent).  For a transaction*)
(* to enter that state, what it checked in its snapshot must still be true,*)
(* which holds while no commit made the snapshot stale (SnapshotInv).      *)
(***************************************************************************)
EXTENDS OrderTransaction, OrderLedgerProofs

(* With the above, what makes the refinement of the ledger inductive: what  *)
(* a call has checked in its snapshot stays true while the snapshot is the  *)
(* current one, and what is still to be answered is accounted for.          *)
SnapshotInv ==
    /\ product = "absent" => dbStock = 0
    /\ \A s \in Sessions :
          /\ step[s] \in OpenSteps => ValidQuantity(doc[s])
          /\ step[s] = "decrement" /\ s \notin stale =>
                snapStock[s] = dbStock /\ doc[s] \notin orders
          /\ step[s] \in {"insert", "commit"} => Quantity[doc[s]] <= snapStock[s]

Pending(s, o) == outcome[s] = "created" /\ doc[s] = o

AnswerInv ==
    /\ \A s \in Sessions :
          /\ outcome[s] # "none" => step[s] = "answer"
          /\ outcome[s] = "created" => doc[s] \in orders
    /\ \A s, t \in Sessions : \A o \in OrderIDs :
          Pending(s, o) /\ Pending(t, o) => s = t
    /\ \A o \in OrderIDs : claims[o] = 1 => \A s \in Sessions : ~Pending(s, o)

IInv == TypeOK /\ WriterIsCurrent /\ SnapshotInv /\ CreatedOnce /\ AnswerInv /\ DuplicateMeansDone

-----------------------------------------------------------------------------
(* The invariant holds initially.                                            *)
LEMMA TxnInit == Init => IInv
BY DEF Init, LedgerInit, IInv, TypeOK, LedgerTypeOK, ProductKinds, Outcomes,
       OpenSteps, WriterIsCurrent, SnapshotInv, CreatedOnce, AnswerInv,
       Pending, DuplicateMeansDone

(* Every step of every action preserves the invariant.                      *)
LEMMA TxnStep == IInv /\ [Next]_vars => IInv'
<1> SUFFICES ASSUME IInv, [Next]_vars
             PROVE  IInv'
  OBVIOUS
<1> USE DEF IInv
<1>1. ASSUME InsertProduct
      PROVE  IInv'
  <2>1. TypeOK'
    BY <1>1, InitialStockAssumption
    DEF InsertProduct, CreateProduct, ProductKinds, TypeOK, LedgerTypeOK
  <2>2. WriterIsCurrent'
    BY <1>1
    DEF InsertProduct, CreateProduct, OpenSteps, WriterIsCurrent, SnapshotInv,
        ValidQuantity
  <2>3. SnapshotInv'
    BY <1>1 DEF InsertProduct, CreateProduct, SnapshotInv
  <2>4. CreatedOnce'
    BY <1>1 DEF InsertProduct, CreateProduct, CreatedOnce
  <2>5. AnswerInv'
    BY <1>1 DEF InsertProduct, CreateProduct, AnswerInv, Pending
  <2>6. DuplicateMeansDone'
    BY <1>1 DEF InsertProduct, CreateProduct, DuplicateMeansDone
  <2> QED
    BY <2>1, <2>2, <2>3, <2>4, <2>5, <2>6
<1>2. ASSUME NEW s \in Sessions, NEW o \in OrderIDs, Begin(s, o)
      PROVE  IInv'
  <2>1. TypeOK'
    BY <1>2 DEF ledgerVars, Begin, Goto, TypeOK, LedgerTypeOK, OpenSteps
  <2>2. WriterIsCurrent'
    BY <1>2 DEF ledgerVars, Begin, Goto, WriterIsCurrent
  <2>3. SnapshotInv'
    BY <1>2 DEF ledgerVars, Begin, Goto, TypeOK, SnapshotInv
  <2>4. CreatedOnce'
    BY <1>2 DEF ledgerVars, Begin, CreatedOnce
  <2>5. AnswerInv'
    BY <1>2 DEF ledgerVars, Begin, Goto, AnswerInv, Pending
  <2>6. DuplicateMeansDone'
    BY <1>2 DEF ledgerVars, Begin, DuplicateMeansDone, AnswerInv
  <2> QED
    BY <2>1, <2>2, <2>3, <2>4, <2>5, <2>6
<1>3. ASSUME NEW s \in Sessions, FindExisting(s)
      PROVE  IInv'
  <2>1. TypeOK'
    BY <1>3
    DEF ledgerVars, FindExisting, Goto, Finish, TypeOK, LedgerTypeOK,
        OpenSteps, Outcomes
  <2>2. WriterIsCurrent'
    BY <1>3
    DEF ledgerVars, FindExisting, Goto, Finish, TypeOK, WriterIsCurrent
  <2>3. SnapshotInv'
    BY <1>3 DEF ledgerVars, FindExisting, Goto, Finish, TypeOK, SnapshotInv
  <2>4. CreatedOnce'
    BY <1>3 DEF ledgerVars, FindExisting, CreatedOnce
  <2>5. AnswerInv'
    BY <1>3
    DEF ledgerVars, FindExisting, Goto, Finish, TypeOK, AnswerInv, Pending
  <2>6. DuplicateMeansDone'
    BY <1>3 DEF ledgerVars, FindExisting, Finish, TypeOK, DuplicateMeansDone
  <2> QED
    BY <2>1, <2>2, <2>3, <2>4, <2>5, <2>6
<1>4. ASSUME NEW s \in Sessions, DecrementStock(s)
      PROVE  IInv'
  <2>1. TypeOK'
    BY <1>4
    DEF ledgerVars, DecrementStock, Goto, Finish, TypeOK, LedgerTypeOK,
        OpenSteps, Outcomes
  <2>2. WriterIsCurrent'
    BY <1>4, NoSessionAssumption
    DEF ledgerVars, DecrementStock, Goto, Finish, TypeOK, WriterIsCurrent,
        SnapshotInv
  <2>3. SnapshotInv'
    BY <1>4 DEF ledgerVars, DecrementStock, Goto, Finish, TypeOK, SnapshotInv
  <2>4. CreatedOnce'
    BY <1>4 DEF ledgerVars, DecrementStock, CreatedOnce
  <2>5. AnswerInv'
    BY <1>4
    DEF ledgerVars, DecrementStock, Goto, Finish, TypeOK, AnswerInv, Pending
  <2>6. DuplicateMeansDone'
    BY <1>4 DEF ledgerVars, DecrementStock, Finish, TypeOK, DuplicateMeansDone
  <2> QED
    BY <2>1, <2>2, <2>3, <2>4, <2>5, <2>6
<1>5. ASSUME NEW s \in Sessions, InsertOrder(s)
      PROVE  IInv'
  <2>1. TypeOK'
    BY <1>5 DEF ledgerVars, InsertOrder, Goto, TypeOK, LedgerTypeOK, OpenSteps
  <2>2. WriterIsCurrent'
    BY <1>5 DEF ledgerVars, InsertOrder, Goto, WriterIsCurrent
  <2>3. SnapshotInv'
    BY <1>5 DEF ledgerVars, InsertOrder, Goto, OpenSteps, SnapshotInv
  <2>4. CreatedOnce'
    BY <1>5 DEF ledgerVars, InsertOrder, CreatedOnce
  <2>5. AnswerInv'
    BY <1>5 DEF ledgerVars, InsertOrder, Goto, AnswerInv, Pending
  <2>6. DuplicateMeansDone'
    BY <1>5 DEF ledgerVars, InsertOrder, DuplicateMeansDone
  <2> QED
    BY <2>1, <2>2, <2>3, <2>4, <2>5, <2>6
<1>6. ASSUME NEW s \in Sessions, Commit(s)
      PROVE  IInv'
  <2>1. TypeOK'
    BY <1>6
    DEF Commit, Goto, Finish, TypeOK, LedgerTypeOK, Outcomes, SnapshotInv,
        ValidQuantity
  <2>2. WriterIsCurrent'
    BY <1>6 DEF Commit, Goto, Finish, TypeOK, WriterIsCurrent
  <2>3. SnapshotInv'
    BY <1>6
    DEF Commit, Goto, Finish, OpenSteps, SnapshotInv, WriterIsCurrent,
        ValidQuantity
  <2>4. CreatedOnce'
    BY <1>6 DEF Commit, CreatedOnce
  <2>5. AnswerInv'
    BY <1>6
    DEF Commit, Goto, Finish, TypeOK, AnswerInv, Pending, CreatedOnce,
        WriterIsCurrent
  <2>6. DuplicateMeansDone'
    BY <1>6 DEF Commit, Finish, DuplicateMeansDone
  <2> QED
    BY <2>1, <2>2, <2>3, <2>4, <2>5, <2>6
<1>7. ASSUME NEW s \in Sessions, Abort(s)
      PROVE  IInv'
  <2>1. TypeOK'
    BY <1>7
    DEF ledgerVars, Abort, Goto, Finish, LetGo, TypeOK, LedgerTypeOK,
        OpenSteps, Outcomes
  <2>2. WriterIsCurrent'
    BY <1>7
    DEF ledgerVars, Abort, Goto, Finish, LetGo, TypeOK, WriterIsCurrent
  <2>3. SnapshotInv'
    BY <1>7 DEF ledgerVars, Abort, Goto, Finish, TypeOK, SnapshotInv
  <2>4. CreatedOnce'
    BY <1>7 DEF ledgerVars, Abort, CreatedOnce
  <2>5. AnswerInv'
    BY <1>7
    DEF ledgerVars, Abort, Goto, Finish, TypeOK, OpenSteps, AnswerInv, Pending
  <2>6. DuplicateMeansDone'
    BY <1>7 DEF ledgerVars, Abort, Finish, TypeOK, DuplicateMeansDone
  <2> QED
    BY <2>1, <2>2, <2>3, <2>4, <2>5, <2>6
<1>8. ASSUME NEW s \in Sessions, Answer(s)
      PROVE  IInv'
  <2>1. TypeOK'
    BY <1>8
    DEF ledgerVars, Answer, Goto, TypeOK, LedgerTypeOK, OpenSteps, Outcomes
  <2>2. WriterIsCurrent'
    BY <1>8 DEF ledgerVars, Answer, Goto, WriterIsCurrent
  <2>3. SnapshotInv'
    BY <1>8 DEF ledgerVars, Answer, Goto, OpenSteps, SnapshotInv
  <2>4. CreatedOnce'
    BY <1>8 DEF ledgerVars, Answer, TypeOK, CreatedOnce, AnswerInv, Pending
  <2>5. AnswerInv'
    BY <1>8 DEF ledgerVars, Answer, Goto, TypeOK, AnswerInv, Pending
  <2>6. DuplicateMeansDone'
    BY <1>8 DEF ledgerVars, Answer, TypeOK, DuplicateMeansDone
  <2> QED
    BY <2>1, <2>2, <2>3, <2>4, <2>5, <2>6
<1>9. ASSUME NEW s \in Sessions, Crash(s)
      PROVE  IInv'
  <2>1. TypeOK'
    BY <1>9 DEF ledgerVars, Crash, Goto, TypeOK, LedgerTypeOK
  <2>2. WriterIsCurrent'
    BY <1>9 DEF ledgerVars, Crash, Goto, WriterIsCurrent
  <2>3. SnapshotInv'
    BY <1>9 DEF ledgerVars, Crash, Goto, SnapshotInv
  <2>4. CreatedOnce'
    BY <1>9 DEF ledgerVars, Crash, CreatedOnce
  <2>5. AnswerInv'
    BY <1>9 DEF ledgerVars, Crash, Goto, OpenSteps, AnswerInv, Pending
  <2>6. DuplicateMeansDone'
    BY <1>9 DEF ledgerVars, Crash, DuplicateMeansDone
  <2> QED
    BY <2>1, <2>2, <2>3, <2>4, <2>5, <2>6
<1>10. ASSUME NEW s \in Sessions, AbortOrphan(s)
      PROVE  IInv'
  <2>1. TypeOK'
    BY <1>10
    DEF ledgerVars, AbortOrphan, Goto, LetGo, TypeOK, LedgerTypeOK, OpenSteps
  <2>2. WriterIsCurrent'
    BY <1>10 DEF ledgerVars, AbortOrphan, Goto, LetGo, WriterIsCurrent
  <2>3. SnapshotInv'
    BY <1>10 DEF ledgerVars, AbortOrphan, Goto, OpenSteps, SnapshotInv
  <2>4. CreatedOnce'
    BY <1>10 DEF ledgerVars, AbortOrphan, CreatedOnce
  <2>5. AnswerInv'
    BY <1>10 DEF ledgerVars, AbortOrphan, Goto, AnswerInv, Pending
  <2>6. DuplicateMeansDone'
    BY <1>10 DEF ledgerVars, AbortOrphan, DuplicateMeansDone, AnswerInv
  <2> QED
    BY <2>1, <2>2, <2>3, <2>4, <2>5, <2>6
<1>11. CASE UNCHANGED vars
  BY <1>11 DEF vars, txnVars, TypeOK, LedgerTypeOK, WriterIsCurrent,
       SnapshotInv, CreatedOnce, AnswerInv, Pending, DuplicateMeansDone
<1> QED
  BY <1>1, <1>2, <1>3, <1>4, <1>5, <1>6, <1>7, <1>8, <1>9, <1>10, <1>11 DEF Next, CallStep

-----------------------------------------------------------------------------
(* So the invariant holds in every reachable state.                         *)
LEMMA TxnInvariant == Spec => []IInv
BY TxnInit, TxnStep, PTL DEF Spec

(* The variables keep their types: the committed stock in MongoDB never     *)
(* goes below zero or above what the product was created with.              *)
THEOREM TxnTypeCorrect == Spec => []TypeOK
<1>1. IInv => TypeOK
  BY DEF IInv
<1> QED
  BY <1>1, TxnInvariant, PTL

(* At most one of the calls for an order answers that it created it: the    *)
(* metrics and events of a created order are not produced twice.            *)
THEOREM TxnCreatedOnce == Spec => []CreatedOnce
<1>1. IInv => CreatedOnce
  BY DEF IInv
<1> QED
  BY <1>1, TxnInvariant, PTL

(* A call that answers "duplicate" - so that its message is deleted - finds *)
(* the order committed.                                                     *)
THEOREM TxnDuplicateMeansDone == Spec => []DuplicateMeansDone
<1>1. IInv => DuplicateMeansDone
  BY DEF IInv
<1> QED
  BY <1>1, TxnInvariant, PTL

(* A transaction that has written the product document works from the       *)
(* committed stock: no decrement is lost.                                   *)
THEOREM TxnWriterIsCurrent == Spec => []WriterIsCurrent
<1>1. IInv => WriterIsCurrent
  BY DEF IInv
<1> QED
  BY <1>1, TxnInvariant, PTL

-----------------------------------------------------------------------------
(* The commit of a transaction is the ledger's Fulfil: it takes the stock   *)
(* from its current value, for an order that is not there yet.              *)
LEMMA CommitFulfils ==
    ASSUME IInv, NEW s \in Sessions, Commit(s)
    PROVE  Fulfil(doc[s]) /\ doc[s] \in OrderIDs
<1>1. /\ step[s] = "commit" /\ doc[s] \in OrderIDs
      /\ dbStock' = snapStock[s] - Quantity[doc[s]]
      /\ orders' = orders \cup {doc[s]}
      /\ product' = product
  BY DEF Commit, IInv, TypeOK, OpenSteps
<1>2. /\ snapStock[s] = dbStock /\ doc[s] \notin orders
      /\ Quantity[doc[s]] <= snapStock[s]
      /\ ValidQuantity(doc[s])
  BY <1>1 DEF IInv, WriterIsCurrent, SnapshotInv, OpenSteps
<1>3. product # "absent"
  <2>1. dbStock >= 1
    BY <1>1, <1>2, QuantityAssumption DEF ValidQuantity, IInv, TypeOK, LedgerTypeOK
  <2> QED
    BY <2>1 DEF IInv, SnapshotInv
<1>4. dbStock >= Quantity[doc[s]]
  BY <1>1, <1>2, QuantityAssumption DEF IInv, TypeOK, LedgerTypeOK
<1> QED
  BY <1>1, <1>2, <1>3, <1>4 DEF Fulfil, CanFulfil

(* Every other step leaves the ledger alone.                                *)
LEMMA TxnStepRefines == IInv /\ [Next]_vars => [LedgerNext]_ledgerVars
<1> SUFFICES ASSUME IInv, [Next]_vars
             PROVE  [LedgerNext]_ledgerVars
  OBVIOUS
<1>1. CASE InsertProduct
  BY <1>1 DEF InsertProduct, LedgerNext
<1>2. ASSUME NEW s \in Sessions, Commit(s)
      PROVE  LedgerNext
  BY <1>2, CommitFulfils DEF LedgerNext
<1>3. ASSUME NEW s \in Sessions,
             \/ \E o \in OrderIDs : Begin(s, o)
             \/ FindExisting(s) \/ DecrementStock(s) \/ InsertOrder(s)
             \/ Abort(s) \/ Answer(s) \/ Crash(s) \/ AbortOrphan(s)
      PROVE  UNCHANGED ledgerVars
  BY <1>3 DEF Begin, FindExisting, DecrementStock, InsertOrder, Abort, Answer,
       Crash, AbortOrphan
<1>4. CASE UNCHANGED vars
  BY <1>4 DEF vars, ledgerVars
<1> QED
  BY <1>1, <1>2, <1>3, <1>4 DEF Next, CallStep

(* CreateOrderAndDecrementStock keeps the ledger's promise: whatever the    *)
(* interleaving, the aborts and the crashes, an order and its decrement     *)
(* appear together, once, and from the current stock.                       *)
THEOREM TxnImplementsLedger == Spec => LedgerSpec
<1>1. Init => LedgerInit
  BY DEF Init
<1> QED
  BY <1>1, TxnStepRefines, TxnInvariant, PTL DEF Spec, LedgerSpec

(* So no crash, retry or conflict loses or invents a unit of stock.         *)
THEOREM TxnConservation == Spec => []Conservation
BY TxnImplementsLedger, LedgerConservation, PTL
=============================================================================
