-------------------------- MODULE MCOrderTransaction --------------------------
(***************************************************************************)
(* Instances of OrderTransaction for TLC: the stock covers any two of the  *)
(* three orders but not all of them.                                       *)
(***************************************************************************)
EXTENDS OrderTransaction, TLC

CONSTANTS o1, o2, o3, u

ThreeUserOf   == (o1 :> u) @@ (o2 :> u) @@ (o3 :> u)
ThreeQuantity == (o1 :> 1) @@ (o2 :> 2) @@ (o3 :> 2)
=============================================================================
