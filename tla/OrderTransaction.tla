--------------------------- MODULE OrderTransaction ---------------------------
(***************************************************************************)
(* CreateOrderAndDecrementStock (internal/repository/mongodb/              *)
(* order_repository.go) operation by operation: FindOne, UpdateOne,        *)
(* InsertOne and the commit of one MongoDB transaction, interleaved with   *)
(* the transactions of the other goroutines and worker processes, with the *)
(* driver's WithTransaction around it that may run the callback again.     *)
(*                                                                         *)
(* MongoDB is modelled by snapshot isolation: a transaction reads the      *)
(* state at its first operation, and its write to a document that another  *)
(* open transaction wrote, or that was committed since, is a WriteConflict.*)
(***************************************************************************)
EXTENDS OrderLedger

CONSTANTS Sessions, NoOrder, NoSession

ASSUME NoOrderAssumption   == NoOrder \notin OrderIDs
ASSUME NoSessionAssumption == NoSession \notin Sessions

VARIABLES
    step,        \* the operation each session's call is at
    doc,         \* the order of its call
    snapStock,   \* the product's stock in its transaction's snapshot
    stale,       \* sessions whose snapshot has an older product document
    writer,      \* the session whose open transaction wrote the product
    outcome,     \* what its finished transaction will make the call answer
    claims       \* how many calls have answered created = true, per order

txnVars == <<step, doc, snapStock, stale, outcome>>
vars == <<product, dbStock, orders, writer, claims, txnVars>>

OpenSteps == {"find", "decrement", "insert", "commit"}
Outcomes == {"none", "created", "duplicate", "error"}

TypeOK ==
    /\ LedgerTypeOK
    /\ step \in [Sessions -> OpenSteps \cup {"idle", "answer", "orphan"}]
    /\ doc \in [Sessions -> OrderIDs \cup {NoOrder}]
    /\ \A s \in Sessions : step[s] \in OpenSteps \cup {"answer"} => doc[s] \in OrderIDs
    /\ snapStock \in [Sessions -> Nat]
    /\ stale \subseteq Sessions
    /\ writer \in Sessions \cup {NoSession}
    /\ outcome \in [Sessions -> Outcomes]
    /\ claims \in [OrderIDs -> Nat]

Init ==
    /\ LedgerInit
    /\ step = [s \in Sessions |-> "idle"]
    /\ doc = [s \in Sessions |-> NoOrder]
    /\ snapStock = [s \in Sessions |-> 0]
    /\ stale = {}
    /\ writer = NoSession
    /\ outcome = [s \in Sessions |-> "none"]
    /\ claims = [o \in OrderIDs |-> 0]

Goto(s, next) == step' = [step EXCEPT ![s] = next]

(* The transaction is over and the call is about to answer this.            *)
Finish(s, result) ==
    /\ Goto(s, "answer")
    /\ outcome' = [outcome EXCEPT ![s] = result]

LetGo(s) == writer' = IF writer = s THEN NoSession ELSE writer

-----------------------------------------------------------------------------
(* The other writer of the product document.                                *)
InsertProduct ==
    /\ \E kind \in {"regular", "flash"} : CreateProduct(kind)
    /\ stale' = Sessions
    /\ UNCHANGED <<step, doc, snapStock, writer, outcome, claims>>

(* The call, with an order ProcessOrderFromQueue has validated.             *)
Begin(s, o) ==
    /\ step[s] = "idle"
    /\ ValidQuantity(o)
    /\ Goto(s, "find")
    /\ doc' = [doc EXCEPT ![s] = o]
    /\ UNCHANGED <<ledgerVars, snapStock, stale, writer, outcome, claims>>

(* FindOne, the transaction's first operation, takes the snapshot.          *)
FindExisting(s) ==
    /\ step[s] = "find"
    /\ snapStock' = [snapStock EXCEPT ![s] = dbStock]
    /\ stale' = stale \ {s}
    /\ \/ doc[s] \in orders /\ Finish(s, "duplicate")
       \/ doc[s] \notin orders /\ Goto(s, "decrement") /\ UNCHANGED outcome
    /\ UNCHANGED <<ledgerVars, doc, writer, claims>>

(* Mutants: the filter without the stock; the UpdateOne outside the         *)
(* transaction; no conflict detected; a conflict taken for a duplicate.     *)
DecrementUnfiltered(s) ==
    /\ step[s] = "decrement"
    /\ writer = NoSession
    /\ s \notin stale
    /\ writer' = s
    /\ Goto(s, "insert")
    /\ UNCHANGED <<ledgerVars, doc, snapStock, stale, outcome, claims>>

DecrementOutside(s) ==
    /\ step[s] = "decrement"
    /\ dbStock >= Quantity[doc[s]]
    /\ dbStock' = dbStock - Quantity[doc[s]]
    /\ writer' = s
    /\ Goto(s, "insert")
    /\ UNCHANGED <<product, orders, doc, snapStock, stale, outcome, claims>>

DecrementUnguarded(s) ==
    /\ step[s] = "decrement"
    /\ snapStock[s] >= Quantity[doc[s]]
    /\ writer' = s
    /\ Goto(s, "insert")
    /\ UNCHANGED <<ledgerVars, doc, snapStock, stale, outcome, claims>>

DecrementOrSkip(s) ==
    /\ step[s] = "decrement"
    /\ IF writer = NoSession
       THEN writer' = s /\ Goto(s, "insert") /\ UNCHANGED outcome
       ELSE Finish(s, "duplicate") /\ UNCHANGED writer
    /\ UNCHANGED <<ledgerVars, doc, snapStock, stale, claims>>

(* UpdateOne with the filter stock >= quantity, evaluated in the snapshot:  *)
(* it matches nothing, or it writes without conflict.                       *)
DecrementStock(s) ==
    /\ step[s] = "decrement"
    /\ \/ /\ snapStock[s] < Quantity[doc[s]]
          /\ Finish(s, "error")
          /\ UNCHANGED writer
       \/ /\ snapStock[s] >= Quantity[doc[s]]
          /\ writer = NoSession
          /\ s \notin stale
          /\ writer' = s
          /\ Goto(s, "insert")
          /\ UNCHANGED outcome
    /\ UNCHANGED <<ledgerVars, doc, snapStock, stale, claims>>

(* InsertOne under the unique index on order_id.                            *)
InsertOrder(s) ==
    /\ step[s] = "insert"
    /\ doc[s] \notin orders
    /\ Goto(s, "commit")
    /\ UNCHANGED <<ledgerVars, doc, snapStock, stale, writer, outcome, claims>>

(* The commit makes both writes visible at once.                            *)
Commit(s) ==
    /\ step[s] = "commit"
    /\ dbStock' = snapStock[s] - Quantity[doc[s]]
    /\ orders' = orders \cup {doc[s]}
    /\ stale' = Sessions
    /\ writer' = NoSession
    /\ Finish(s, "created")
    /\ UNCHANGED <<product, doc, snapStock, claims>>

(* An operation or the commit fails (a conflict, a network error, an        *)
(* election): the transaction aborts, and WithTransaction runs the callback *)
(* again or returns the error, as the error's labels and its time limit say.*)
Abort(s) ==
    /\ step[s] \in OpenSteps
    /\ LetGo(s)
    /\ Finish(s, "error") \/ (Goto(s, "find") /\ UNCHANGED outcome)
    /\ UNCHANGED <<ledgerVars, doc, snapStock, stale, claims>>

(* Mutant: the callback answers true for an order it found.                 *)
AnswerCreatedAlways(s) ==
    /\ step[s] = "answer"
    /\ claims' = [claims EXCEPT ![doc[s]] =
                     @ + (IF outcome[s] \in {"created", "duplicate"} THEN 1 ELSE 0)]
    /\ Goto(s, "idle")
    /\ doc' = [doc EXCEPT ![s] = NoOrder]
    /\ outcome' = [outcome EXCEPT ![s] = "none"]
    /\ UNCHANGED <<ledgerVars, snapStock, stale, writer>>

(* The call returns; the reply to the commit may be lost for good, and then *)
(* it returns an error although the transaction took effect.                *)
Answer(s) ==
    /\ step[s] = "answer"
    /\ \/ claims' = [claims EXCEPT ![doc[s]] = @ + (IF outcome[s] = "created" THEN 1 ELSE 0)]
       \/ outcome[s] # "error" /\ UNCHANGED claims
    /\ Goto(s, "idle")
    /\ doc' = [doc EXCEPT ![s] = NoOrder]
    /\ outcome' = [outcome EXCEPT ![s] = "none"]
    /\ UNCHANGED <<ledgerVars, snapStock, stale, writer>>

(* The worker process dies; the server still has its open transaction.      *)
Crash(s) ==
    /\ step[s] \in OpenSteps
    /\ Goto(s, "orphan")
    /\ UNCHANGED <<ledgerVars, doc, snapStock, stale, writer, outcome, claims>>

(* The server aborts a transaction whose client is gone.                    *)
AbortOrphan(s) ==
    /\ step[s] = "orphan"
    /\ LetGo(s)
    /\ Goto(s, "idle")
    /\ doc' = [doc EXCEPT ![s] = NoOrder]
    /\ UNCHANGED <<ledgerVars, snapStock, stale, outcome, claims>>

CallStep(s) ==
    \/ FindExisting(s) \/ DecrementStock(s) \/ InsertOrder(s) \/ Commit(s)
    \/ Abort(s) \/ Answer(s) \/ Crash(s) \/ AbortOrphan(s)

Next ==
    \/ InsertProduct
    \/ \E s \in Sessions, o \in OrderIDs : Begin(s, o)
    \/ \E s \in Sessions : CallStep(s)

Spec == Init /\ [][Next]_vars

-----------------------------------------------------------------------------
(* "created is false when the order ID was already processed successfully": *)
(* of all calls for an order, at any time, in any process, at most one      *)
(* answers created, and then the order is there.                            *)
CreatedOnce ==
    \A o \in OrderIDs : claims[o] <= 1 /\ (claims[o] = 1 => o \in orders)

(* A call that answers created = false, which makes the worker delete the   *)
(* message, does so only when the order is durably there.                   *)
DuplicateMeansDone ==
    \A s \in Sessions : outcome[s] = "duplicate" => doc[s] \in orders

(* One open transaction at a time has written the product, from the stock   *)
(* that is still the committed one: its commit loses no other's decrement.  *)
WriterIsCurrent ==
    \A s \in Sessions :
        step[s] \in {"insert", "commit"} =>
            /\ writer = s
            /\ snapStock[s] = dbStock
            /\ doc[s] \notin orders
=============================================================================
