------------------------------- MODULE Broker -------------------------------
(***************************************************************************)
(* The queue "aggregation.queue" that the API publishes to and the workers *)
(* consume from (RabbitMQ, modelled from how messaging/rabbitmq.rs uses    *)
(* it).  Workers compete for messages and prefetch them, so the queue is a *)
(* bag: the number of copies of each message waiting for delivery.         *)
(***************************************************************************)
EXTENDS JobManager

VARIABLE queue

BrokerTypeOK == queue \in [Messages -> Nat]

\* MessagePublisher::publish under the broker's own with_retry.  Nothing is
\* confirmed: an attempt that reports success may still lose the message
\* (copies = 0), and one that reports failure may have delivered it.
PublishOutcomes == [ok : BOOLEAN, copies : 0..MAX_RETRIES]

PublishCost(o) ==
    CASE ~o.ok                -> MAX_RETRIES
      [] o.ok /\ o.copies = 0 -> 1
      [] OTHER                -> o.copies - 1

Publish(m, o) ==
    /\ Spend(PublishCost(o))
    /\ queue' = [queue EXCEPT ![m] = @ + o.copies]

\* A consumer takes one copy, which stays unacknowledged until it is acked
\* (it is then gone) or requeued.
Take(m) == queue[m] > 0 /\ queue' = [queue EXCEPT ![m] = @ - 1]

Requeue(m) == queue' = [queue EXCEPT ![m] = @ + 1]

=============================================================================
