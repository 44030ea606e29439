-------------------------- MODULE MCOrderStatusStream --------------------------
(***************************************************************************)
(* Instances of OrderStatusStream for TLC: the buyer's and a seller's      *)
(* stream, a customer whose token claims a role Firebase does not know, a  *)
(* token with the buyer's name that nobody signed, and no token at all.    *)
(***************************************************************************)
EXTENDS OrderStatusStream, TLC

CONSTANTS s1, s2, s3, s4, s5, buyer, other

Bearer(uid, role, signed) ==
    [form |-> "bearer", token |-> [uid |-> uid, role |-> role, signed |-> signed]]

StreamHeaders ==
    (s1 :> Bearer(buyer, "none", TRUE)) @@ (s2 :> Bearer(other, "seller", TRUE)) @@
    (s3 :> Bearer(other, "unknown", TRUE)) @@ (s4 :> Bearer(buyer, "admin", FALSE)) @@
    (s5 :> [Bearer(buyer, "none", TRUE) EXCEPT !.form = "missing"])
=============================================================================
