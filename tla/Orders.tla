-------------------------------- MODULE Orders --------------------------------
(***************************************************************************)
(* The entities of internal/domain that every other module speaks about:   *)
(* the purchase requests of one flash-sale product.                        *)
(*                                                                         *)
(* CreateFlashSaleOrder draws a fresh uuid for the order and another one   *)
(* for the lock token, so an order id names its request, its event and its *)
(* lock token alike; the fields of the event that matter here, the user    *)
(* and the quantity, are functions of that id.                             *)
(*                                                                         *)
(* Every Redis key, every MongoDB filter and every lock is keyed by the    *)
(* product, so the products do not interact and one of them is modelled.   *)
(***************************************************************************)
EXTENDS Integers, FiniteSets

CONSTANTS OrderIDs, Users, UserOf, Quantity

ASSUME OrderIDsAssumption == IsFiniteSet(OrderIDs)
ASSUME UserOfAssumption   == UserOf \in [OrderIDs -> Users]
ASSUME QuantityAssumption == Quantity \in [OrderIDs -> Int]

-----------------------------------------------------------------------------
(* The bound CreateFlashSaleOrder and ProcessOrderFromQueue both check.     *)
MaxQuantity == 10

ValidQuantity(o) == Quantity[o] \in 1..MaxQuantity

(***************************************************************************)
(* Total(S) is the sum of the quantities of the orders in S, written as    *)
(* the size of the set of units they ask for: <<o, i>> is the i-th unit of *)
(* order o.  For orders of a valid quantity that is their sum, and its     *)
(* laws follow from those of Cardinality without induction.                *)
(***************************************************************************)
Units(S) == {u \in S \X (1..MaxQuantity) : u[2] <= Quantity[u[1]]}

Total(S) == Cardinality(Units(S))
=============================================================================
