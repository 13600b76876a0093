------------------------------- MODULE Queues -------------------------------
(***************************************************************************)
(* The queue providers: a queue in memory, a Valkey list, and a JetStream  *)
(* stream with a durable push consumer and a bounded channel per host.     *)
(* Items are numbered as they are queued.                                  *)
(***************************************************************************)
EXTENDS Locks

CONSTANTS
  Capacity,   \* CHANNEL_CAPACITY
  MaxItems    \* bound on the items that are queued

VARIABLES
  queue,      \* the queue or list, next item first
  items,      \* the number of items that were queued
  unacked,    \* per host the items its consumer has not acknowledged
  channel     \* per host the internal channel
queues == <<queue, items, unacked, channel>>

QueuesInit ==
  /\ queue = <<>> /\ items = 0
  /\ unacked = [h \in Hosts |-> {}] /\ channel = [h \in Hosts |-> <<>>]

\* push_back, LPUSH and publish: the stream has every item for every consumer.
queue_work ==
  /\ items < MaxItems /\ items' = items + 1
  /\ IF backend = "nats"
     THEN unacked' = [h \in Hosts |-> unacked[h] \cup {items + 1}] /\ UNCHANGED queue
     ELSE queue' = Append(queue, items + 1) /\ UNCHANGED unacked
  /\ UNCHANGED channel

\* Slip: a message is acknowledged also when the channel is full.
NatsDeliverAcked(h, i) ==
  /\ i \in unacked[h]
  /\ channel' = IF Len(channel[h]) < Capacity THEN [channel EXCEPT ![h] = Append(@, i)] ELSE channel
  /\ unacked' = [unacked EXCEPT ![h] = @ \ {i}] /\ NoFault
  /\ UNCHANGED <<queue, items>>

\* The consumer task: try_send, then acknowledge.  With a full channel the
\* message stays, and comes again; so it does when the acknowledgement fails.
NatsDeliver(h, i) ==
  /\ i \in unacked[h] /\ Len(channel[h]) < Capacity
  /\ channel' = [channel EXCEPT ![h] = Append(@, i)]
  /\ \/ unacked' = [unacked EXCEPT ![h] = @ \ {i}] /\ NoFault
     \/ UNCHANGED unacked /\ Fault
  /\ UNCHANGED <<queue, items>>

\* dequeue_work: the item that is next, if there is one.
Next_item(h) == IF backend = "nats" THEN channel[h] ELSE queue
dequeue_work(h) ==
  /\ Next_item(h) # <<>>
  /\ IF backend = "nats" THEN channel' = [channel EXCEPT ![h] = Tail(@)] /\ UNCHANGED queue
                         ELSE queue' = Tail(queue) /\ UNCHANGED channel
  /\ UNCHANGED <<items, unacked>>
=============================================================================
