------------------------------ MODULE OrderPromise ------------------------------
(***************************************************************************)
(* What the shop promises about each order, whichever queue carries it:    *)
(* the contract of QueueRepository (internal/domain/repository.go) between *)
(* CreateFlashSaleOrder, which answers the buyer, and                      *)
(* ProcessOrderFromQueue, which sells.  OrderPipeline (SQS and its         *)
(* workers) and MemoryQueue (a channel and its consumer) implement it.     *)
(***************************************************************************)
CONSTANTS
    OrderIDs,
    Unsold       \* the fate of an order that nothing in the program sells:
                 \* "parked" in SQS's dead-letter queue, where an operator can
                 \* find it, or "dropped" by the in-memory queue

VARIABLES
    answer,      \* what the buyer was told: none, accepted (202) or refused
    fate         \* open, sold, or given up

vars == <<answer, fate>>

TypeOK ==
    /\ answer \in [OrderIDs -> {"none", "accepted", "refused"}]
    /\ fate \in [OrderIDs -> {"open", "sold", Unsold}]

Init ==
    /\ answer = [o \in OrderIDs |-> "none"]
    /\ fate = [o \in OrderIDs |-> "open"]

Accept(o) ==
    /\ answer[o] = "none"
    /\ answer' = [answer EXCEPT ![o] = "accepted"]
    /\ UNCHANGED fate

(* Nobody is refused an order that is on its way, or sold.                  *)
Refuse(o) ==
    /\ answer[o] = "none"
    /\ fate[o] = "open"
    /\ answer' = [answer EXCEPT ![o] = "refused"]
    /\ UNCHANGED fate

(* Once, and for good; an order that was given up may be sold by a handler  *)
(* that has it in hand still.                                               *)
Sell(o) ==
    /\ answer[o] # "refused"
    /\ fate[o] # "sold"
    /\ fate' = [fate EXCEPT ![o] = "sold"]
    /\ UNCHANGED answer

(* The orders of a process that ends are given up together.                 *)
GiveUp(S) ==
    /\ \A o \in S : answer[o] # "refused" /\ fate[o] = "open"
    /\ fate' = [o \in OrderIDs |-> IF o \in S THEN Unsold ELSE fate[o]]
    /\ UNCHANGED answer

Next ==
    \/ \E o \in OrderIDs : Accept(o) \/ Refuse(o) \/ Sell(o)
    \/ \E S \in SUBSET OrderIDs : GiveUp(S)

Spec == Init /\ [][Next]_vars

(* No accepted order stays open: who was told 202 has the order, or the     *)
(* queue has given it up.                                                   *)
Settled == \A o \in OrderIDs : answer[o] = "accepted" ~> fate[o] # "open"
=============================================================================
