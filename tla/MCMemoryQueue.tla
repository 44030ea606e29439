----------------------------- MODULE MCMemoryQueue -----------------------------
(***************************************************************************)
(* Instances of MemoryQueue for TLC: three orders, a channel that holds    *)
(* fewer, a stock that covers any two of them but not all, and two request *)
(* contexts, one of which serves the orders of two users.                  *)
(***************************************************************************)
EXTENDS MemoryQueue, TLC

CONSTANTS o1, o2, o3, u, v, c1, c2

ThreeUserOf    == (o1 :> u) @@ (o2 :> v) @@ (o3 :> u)
ThreeQuantity  == (o1 :> 1) @@ (o2 :> 1) @@ (o3 :> 2)
ThreeContextOf == (o1 :> c1) @@ (o2 :> c1) @@ (o3 :> c2)

AllFaults == FaultKinds
=============================================================================
