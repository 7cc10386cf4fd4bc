------------------------------ MODULE JobQueue ------------------------------
(***************************************************************************)
(* The RabbitMQ work queue between Manager and Worker and its dead-letter   *)
(* queue, as both services use them.  Delivery is at least once: a message  *)
(* is removed from ready when it is delivered and goes back when its        *)
(* channel dies before the ack.                                             *)
(***************************************************************************)
EXTENDS JobStore

VARIABLES
    ready,  \* ready[j]: copies of j's message waiting in the queue
    dlq     \* jobs whose message was dead-lettered

queueVars == <<ready, dlq>>

QueueTypeOK ==
    /\ ready \in [Jobs -> Nat]
    /\ dlq \subseteq Jobs

QueueInit ==
    /\ ready = [j \in Jobs |-> 0]
    /\ dlq = {}

Enqueue(j) ==
    /\ ready' = [ready EXCEPT ![j] = ready[j] + 1]
    /\ UNCHANGED dlq

Dequeue(j) ==
    /\ ready[j] > 0
    /\ ready' = [ready EXCEPT ![j] = ready[j] - 1]
    /\ UNCHANGED dlq

Ack == UNCHANGED queueVars

(* Nack(false, false): no requeue, the message is dead-lettered.  On a dead *)
(* channel the nack fails and is only logged.                               *)
Nack(j, live) ==
    /\ dlq' = IF live THEN dlq \cup {j} ELSE dlq
    /\ UNCHANGED ready
=============================================================================
