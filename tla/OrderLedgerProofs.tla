--------------------------- MODULE OrderLedgerProofs ---------------------------
(***************************************************************************)
(* What the ledger promises, for every set of orders and every stock.  The *)
(* modules that implement the ledger inherit it by refinement.             *)
(***************************************************************************)
EXTENDS OrderLedger, OrdersTheorems

LedgerInv ==
    /\ LedgerTypeOK
    /\ product = "absent" => orders = {} /\ dbStock = 0
    /\ Conservation

(* The ledger starts out conserving nothing.                                *)
LEMMA LedgerInitInv == LedgerInit => LedgerInv
BY DEF LedgerInit, LedgerInv, LedgerTypeOK, ProductKinds, Conservation

(* Creating the product or fulfilling an order keeps the ledger's invariant.*)
LEMMA LedgerStepInv == LedgerInv /\ [LedgerNext]_ledgerVars => LedgerInv'
<1> SUFFICES ASSUME LedgerInv, [LedgerNext]_ledgerVars
             PROVE  LedgerInv'
  OBVIOUS
<1>1. ASSUME NEW kind \in {"regular", "flash"}, CreateProduct(kind)
      PROVE  LedgerInv'
  <2>1. orders = {} /\ orders' = {} /\ dbStock' = InitialStock
    BY <1>1 DEF CreateProduct, LedgerInv
  <2>2. Total(orders)' = 0
    BY <2>1, TotalEmpty DEF Total, Units
  <2>3. Conservation'
    BY <2>1, <2>2, InitialStockAssumption DEF Conservation
  <2>4. LedgerTypeOK' /\ product' # "absent"
    BY <1>1, InitialStockAssumption
    DEF CreateProduct, LedgerInv, LedgerTypeOK, ProductKinds
  <2> QED
    BY <2>3, <2>4 DEF LedgerInv
<1>2. ASSUME NEW o \in OrderIDs, Fulfil(o)
      PROVE  LedgerInv'
  <2>1. /\ product # "absent" /\ product' = product
        /\ o \notin orders /\ orders' = orders \cup {o}
        /\ ValidQuantity(o) /\ Quantity[o] <= dbStock
        /\ dbStock' = dbStock - Quantity[o]
    BY <1>2 DEF Fulfil, CanFulfil
  <2>2. orders \in SUBSET OrderIDs /\ dbStock \in Nat /\ Quantity[o] \in Int
    BY QuantityAssumption DEF LedgerInv, LedgerTypeOK
  <2>3. Total(orders)' = Total(orders) + Quantity[o]
    BY <2>1, <2>2, TotalAdd DEF Total, Units
  <2>4. Total(orders) \in Nat /\ dbStock + Total(orders) = InitialStock
    BY <2>1, <2>2, TotalType DEF LedgerInv, Conservation
  <2>5. Conservation'
    BY <2>1, <2>2, <2>3, <2>4 DEF Conservation
  <2>6. LedgerTypeOK'
    BY <2>1, <2>2 DEF LedgerInv, LedgerTypeOK
  <2> QED
    BY <2>1, <2>5, <2>6 DEF LedgerInv
<1>3. CASE UNCHANGED ledgerVars
  BY <1>3 DEF ledgerVars, LedgerInv, LedgerTypeOK, Conservation, Total, Units
<1> QED
  BY <1>1, <1>2, <1>3 DEF LedgerNext

(* The stock that is left and the stock the completed orders took are       *)
(* always what the product was created with.                                *)
THEOREM LedgerConservation == LedgerSpec => []Conservation
<1>1. LedgerInv => Conservation
  BY DEF LedgerInv
<1> QED
  BY <1>1, LedgerInitInv, LedgerStepInv, PTL DEF LedgerSpec
=============================================================================
