------------------------------ MODULE OrderQueue ------------------------------
(***************************************************************************)
(* The SQS queue as internal/repository/aws/sqs_repository.go uses it, and *)
(* as scripts/init-localstack.sh configures it: at-least-once delivery     *)
(* with a visibility timeout, and a dead-letter queue that takes a message *)
(* received MaxReceive times (maxReceiveCount) and not deleted.            *)
(*                                                                         *)
(* A message is <<o, c>>: the c-th copy of the event of order o.  One      *)
(* PublishOrderEvent sends one copy, or MaxCopies of them when a lost      *)
(* reply makes the AWS client repeat SendMessage.                          *)
(***************************************************************************)
EXTENDS Orders

CONSTANTS MaxReceive,      \* redrive policy, 3 in init-localstack.sh
          MaxBatch,        \* MaxNumberOfMessages, 10 in ReceiveOrderEvents
          MaxCopies        \* bound on the copies of one event

ASSUME QueueBoundsAssumption ==
    /\ MaxReceive \in Nat \ {0}
    /\ MaxBatch \in Nat \ {0}
    /\ MaxCopies \in Nat \ {0}

VARIABLES queue,           \* where each message is
          receives         \* its ApproximateReceiveCount

queueVars == <<queue, receives>>

Messages == OrderIDs \X (1..MaxCopies)
OrderOf(m) == m[1]

MessageStates == {"none", "ready", "hidden", "deleted", "dead"}

QueueTypeOK ==
    /\ queue \in [Messages -> MessageStates]
    /\ receives \in [Messages -> 0..MaxReceive]

QueueInit ==
    /\ queue = [m \in Messages |-> "none"]
    /\ receives = [m \in Messages |-> 0]

CopiesOf(o) == {m \in Messages : OrderOf(m) = o}
Sent(o) == \E m \in CopiesOf(o) : queue[m] # "none"

-----------------------------------------------------------------------------
(* SendMessage, which put this many copies of the event in the queue.       *)
SendMessage(o, copies) ==
    /\ queue' = [m \in Messages |->
                    IF OrderOf(m) = o /\ m[2] <= copies THEN "ready" ELSE queue[m]]
    /\ UNCHANGED receives

(* Mutant: messages are taken off the queue as they are received.           *)
ReceiveAndDelete(batch) ==
    /\ batch # {}
    /\ Cardinality(batch) <= MaxBatch
    /\ \A m \in batch : queue[m] = "ready" /\ receives[m] < MaxReceive
    /\ queue' = [m \in Messages |-> IF m \in batch THEN "deleted" ELSE queue[m]]
    /\ UNCHANGED receives

(* One ReceiveMessage call hands out a batch and hides it.                  *)
ReceiveMessage(batch) ==
    /\ batch # {}
    /\ Cardinality(batch) <= MaxBatch
    /\ \A m \in batch : queue[m] = "ready" /\ receives[m] < MaxReceive
    /\ queue' = [m \in Messages |-> IF m \in batch THEN "hidden" ELSE queue[m]]
    /\ receives' = [m \in Messages |->
                       IF m \in batch THEN receives[m] + 1 ELSE receives[m]]

(* The visibility timeout of a received message ends.                       *)
Reappear(m) ==
    /\ queue[m] = "hidden"
    /\ queue' = [queue EXCEPT ![m] = "ready"]
    /\ UNCHANGED receives

(* The redrive policy moves it to the dead-letter queue.                    *)
DeadLetter(m) ==
    /\ queue[m] = "ready"
    /\ receives[m] = MaxReceive
    /\ queue' = [queue EXCEPT ![m] = "dead"]
    /\ UNCHANGED receives

(* A receipt handle deletes the message wherever the source queue has it,   *)
(* and does nothing to one that is deleted or dead-lettered already.        *)
DeleteMessage(m) ==
    /\ queue' = IF queue[m] \in {"ready", "hidden"}
                THEN [queue EXCEPT ![m] = "deleted"] ELSE queue
    /\ UNCHANGED receives
=============================================================================
