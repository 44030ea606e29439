------------------------------ MODULE OrderLedger ------------------------------
(***************************************************************************)
(* What the durable store promises: the product document and the orders    *)
(* collection of MongoDB, seen as OrderRepository and ProductRepository    *)
(* (internal/domain/repository.go) describe them.  An order is created and *)
(* its stock taken in one indivisible step, at most once per order id, and *)
(* only while the stock covers it.                                         *)
(*                                                                         *)
(* OrderTransaction shows how the MongoDB transaction implements this;     *)
(* OrderPipeline uses it as the store behind the queue.                    *)
(***************************************************************************)
EXTENDS Orders

CONSTANT InitialStock      \* CreateProductDTO.Stock

ASSUME InitialStockAssumption == InitialStock \in Nat

VARIABLES product,         \* the product document: absent, regular or flash sale
          dbStock,         \* its "stock" field
          orders           \* ids in the orders collection, all COMPLETED

ledgerVars == <<product, dbStock, orders>>

ProductKinds == {"absent", "regular", "flash"}

LedgerTypeOK ==
    /\ product \in ProductKinds
    /\ dbStock \in Nat
    /\ orders \subseteq OrderIDs

-----------------------------------------------------------------------------
LedgerInit ==
    /\ product = "absent"
    /\ dbStock = 0
    /\ orders = {}

(* InsertOne of a validated product; kind is its is_flash_sale field.       *)
CreateProduct(kind) ==
    /\ product = "absent"
    /\ product' = kind
    /\ dbStock' = InitialStock
    /\ UNCHANGED orders

CanFulfil(o) ==
    /\ o \notin orders
    /\ product # "absent"
    /\ ValidQuantity(o)
    /\ dbStock >= Quantity[o]

(* Mutant: the order is inserted, the decrement forgotten.                  *)
FulfilWithoutDecrement(o) ==
    /\ CanFulfil(o)
    /\ orders' = orders \cup {o}
    /\ UNCHANGED <<product, dbStock>>

(* CreateOrderAndDecrementStock when it answers created = true.             *)
Fulfil(o) ==
    /\ CanFulfil(o)
    /\ dbStock' = dbStock - Quantity[o]
    /\ orders' = orders \cup {o}
    /\ UNCHANGED product

LedgerNext ==
    \/ \E kind \in {"regular", "flash"} : CreateProduct(kind)
    \/ \E o \in OrderIDs : Fulfil(o)

LedgerSpec == LedgerInit /\ [][LedgerNext]_ledgerVars

-----------------------------------------------------------------------------
(* Stock is neither lost nor invented: what is left plus what the completed *)
(* orders took is what the product was created with.  Breaks when the two   *)
(* writes of CreateOrderAndDecrementStock part, or one of them repeats.     *)
Conservation ==
    product # "absent" => dbStock + Total(orders) = InitialStock
=============================================================================
