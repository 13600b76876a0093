------------------------------ MODULE Workers -------------------------------
(***************************************************************************)
(* Hosts that share one instance, through the lock and queue providers.    *)
(* The workflow consumer of a host takes an item, tries the lock, makes a  *)
(* pass, which may queue the instance again, and releases the lock; the    *)
(* event consumer does the same for an event that the instance waits for.  *)
(* Both use the one lock provider of their host, with its one list of      *)
(* locks held.  Callers queue items, hosts stop and crash, messages are    *)
(* lost.                                                                   *)
(*                                                                         *)
(* What a pass does is Engine's matter: here it only takes time.  So does  *)
(* the section in which process_event has the lock, which is called a pass *)
(* as well; where events come from is left open.                           *)
(***************************************************************************)
EXTENDS Queues

CONSTANTS
  EventHosts,  \* hosts that come to process events of the instance
  MaxStops     \* bound on hosts that stop or crash
ASSUME EventHostsAssumption == EventHosts \subseteq Hosts

Consumers == (Hosts \X {"workflow"}) \cup (EventHosts \X {"event"})
Of(c) == c[1]

VARIABLES
  pc,       \* idle, popping, have, insert, pass, delete, forget
  item,     \* the item that was popped and is on its way to the host, 0 if none
  stopped, crashed,
  taken,    \* items that some consumer got
  dropped,  \* items that a host took from the queue and lost
  dirty,    \* hosts that stopped with an item in hand
  struck    \* hosts that struck from their list a lock one of their consumers had
consumers == <<pc, item, stopped, crashed, taken, dropped, dirty, struck>>
all == <<backend, locks, faults, queues, consumers>>

Init ==
  /\ LocksInit /\ QueuesInit
  /\ pc = [c \in Consumers |-> "idle"] /\ item = [h \in Hosts |-> 0]
  /\ stopped = {} /\ crashed = {} /\ taken = {} /\ dropped = {} /\ dirty = {} /\ struck = {}

Running(h) == h \notin stopped \cup crashed
Alive(h) == h \notin crashed
Passing == {c \in Consumers : pc[c] = "pass" /\ Alive(Of(c))}
Goes(c, from, to) == pc[c] = from /\ Alive(Of(c)) /\ pc' = [pc EXCEPT ![c] = to]
Rest == UNCHANGED <<backend, stopped, crashed, dirty>>

-----------------------------------------------------------------------------
\* A caller queues the instance.
Call == queue_work /\ UNCHANGED <<backend, locks, faults, consumers>>

Deliver(h) ==
  /\ backend = "nats" /\ Running(h)
  /\ \E i \in 1 .. MaxItems : NatsDeliver(h, i)
  /\ UNCHANGED <<backend, locks, consumers>>

\* RPOP is done before its answer is there; the others hand the item over.
Dequeue(h) ==
  /\ Running(h) /\ dequeue_work(h)
  /\ LET i == Head(Next_item(h))
         c == <<h, "workflow">> IN
       IF backend = "valkey" THEN Goes(c, "idle", "popping") /\ item' = [item EXCEPT ![h] = i] /\ UNCHANGED taken
                             ELSE Goes(c, "idle", "have") /\ taken' = taken \cup {i} /\ UNCHANGED item
  /\ Rest /\ UNCHANGED <<locks, faults, dropped, struck>>
Reply(h) ==
  /\ Goes(<<h, "workflow">>, "popping", "have") /\ taken' = taken \cup {item[h]}
  /\ item' = [item EXCEPT ![h] = 0]
  /\ Rest /\ UNCHANGED <<locks, faults, queues, dropped, struck>>
\* The answer is lost: the error is logged, and nobody has the item.
ReplyLost(h) ==
  /\ Fault /\ Goes(<<h, "workflow">>, "popping", "idle") /\ dropped' = dropped \cup {item[h]}
  /\ item' = [item EXCEPT ![h] = 0]
  /\ Rest /\ UNCHANGED <<locks, queues, taken, struck>>

\* An item of the event queue: its consumer comes to a subscription of the
\* instance.
Event(h) ==
  /\ Running(h) /\ items < MaxItems /\ items' = items + 1 /\ taken' = taken \cup {items'}
  /\ Goes(<<h, "event">>, "idle", "have")
  /\ Rest /\ UNCHANGED <<item, dropped, struck, locks, faults, queue, unacked, channel>>

\* execute and process_event: without the lock, and when asking for it fails,
\* the item is gone, or the event queued again.  The answer can be lost when the
\* key is already set.
Acquire(c) ==
  /\ acquire_lock(Of(c)) /\ NoFault
  /\ Goes(c, "have", IF backend = "nats" THEN "insert" ELSE "pass")
  /\ Rest /\ UNCHANGED <<item, taken, dropped, struck, queues>>
AcquireBusy(c) ==
  /\ key # None /\ Goes(c, "have", "idle")
  /\ Rest /\ UNCHANGED <<item, taken, dropped, struck, locks, faults, queues>>
AcquireFails(c) ==
  /\ backend # "memory" /\ Fault /\ Goes(c, "have", "idle")
  /\ acquire_lock(Of(c)) \/ UNCHANGED locks
  /\ Rest /\ UNCHANGED <<item, taken, dropped, struck, queues>>
ListLock(c) ==
  /\ Insert(Of(c)) /\ Goes(c, "insert", "pass")
  /\ Rest /\ UNCHANGED <<item, taken, dropped, struck, faults, queues>>

\* The instance is queued again before the lock is released.
Requeue(c) ==
  /\ pc[c] = "pass" /\ Alive(Of(c)) /\ queue_work
  /\ UNCHANGED <<backend, locks, faults, consumers>>

Release(c) ==
  /\ \/ backend = "memory" /\ Goes(c, "pass", "idle") /\ MemRelease /\ NoFault
     \/ backend = "valkey" /\ Goes(c, "pass", "idle") /\ ValkeyRelease(Of(c)) /\ NoFault
     \/ backend = "valkey" /\ Goes(c, "pass", "idle") /\ UNCHANGED locks /\ Fault
     \/ backend = "nats" /\ Goes(c, "pass", IF NatsOwns(Of(c)) THEN "delete" ELSE "forget") /\ UNCHANGED locks /\ NoFault
     \/ backend = "nats" /\ Goes(c, "pass", "forget") /\ UNCHANGED locks /\ Fault
  /\ Rest /\ UNCHANGED <<item, taken, dropped, struck, queues>>
Delete(c) ==
  /\ Goes(c, "delete", "forget")
  /\ \/ NatsDelete /\ NoFault
     \/ UNCHANGED locks /\ Fault
  /\ Rest /\ UNCHANGED <<item, taken, dropped, struck, queues>>
\* The name is struck, also when the other consumer of the host has just
\* acquired the lock and listed it.
Forget(c) ==
  /\ Goes(c, "forget", "idle") /\ NatsForget(Of(c))
  /\ struck' = IF \E d \in Consumers : Of(d) = Of(c) /\ pc[d] \in {"pass", "delete"}
               THEN struck \cup {Of(c)} ELSE struck
  /\ Rest /\ UNCHANGED <<item, taken, dropped, faults, queues>>

Consumer(c) ==
  \/ Acquire(c) \/ AcquireBusy(c) \/ ListLock(c) \/ Release(c)
  \/ Delete(c) \/ Forget(c)

-----------------------------------------------------------------------------
MayGo == Cardinality(stopped \cup crashed) < MaxStops

\* stop: the consumers leave their select, which abandons a dequeue under way;
\* an iteration is finished.  The queue's tasks and the heartbeat end.
Stop(h) ==
  /\ Running(h) /\ MayGo
  /\ stopped' = stopped \cup {h}
  /\ beat' = HeartbeatsWithout(h)
  /\ dirty' = IF \A c \in Consumers : Of(c) = h => pc[c] \in {"idle", "popping"} THEN dirty ELSE dirty \cup {h}
  /\ dropped' = dropped \cup ({item[h]} \ {0})
  /\ pc' = [c \in Consumers |-> IF Of(c) = h /\ pc[c] = "popping" THEN "idle" ELSE pc[c]]
  /\ UNCHANGED <<backend, key, left, held, faults, queues, item, crashed, taken, struck>>

\* A process ends without warning; with the memory backend everything would.
Crash(h) ==
  /\ Running(h) /\ MayGo /\ backend # "memory"
  /\ crashed' = crashed \cup {h}
  /\ beat' = [beat EXCEPT ![h] = Off]
  /\ dropped' = dropped \cup ({item[h]} \ {0})
  /\ UNCHANGED <<backend, key, left, held, faults, queues, pc, item, stopped, taken, dirty, struck>>

Clock ==
  /\ \/ \E h \in Hosts : HeartbeatPut(h, Running(h))
     \/ Tick({c \in Consumers : pc[c] = "insert" /\ Alive(Of(c))}, {Of(c) : c \in Passing})
  /\ UNCHANGED <<queues, consumers>>

Next ==
  \/ Call \/ Clock
  \/ \E h \in Hosts : Deliver(h) \/ Dequeue(h) \/ Reply(h) \/ ReplyLost(h) \/ Stop(h) \/ Crash(h)
  \/ \E h \in EventHosts : Event(h)
  \/ \E c \in Consumers : Consumer(c) \/ AcquireFails(c) \/ Requeue(c)

Spec == Init /\ [][Next]_all

\* The tasks of a host go on, and so does time; nothing makes a message get
\* lost, a caller call, an event come or a host stop.
FairSpec ==
  /\ Spec /\ WF_all(Clock)
  /\ \A h \in Hosts : WF_all(Deliver(h)) /\ WF_all(Dequeue(h) \/ Reply(h))
  /\ \A c \in Consumers : WF_all(Consumer(c))

-----------------------------------------------------------------------------
(* Properties.                                                             *)

\* The key names a host or nobody, and the heartbeats and consumers are at one
\* of their points.
Points == {"idle", "popping", "have", "insert", "pass", "delete", "forget"}
TypeOK ==
  /\ backend \in Backends /\ key \in Hosts \cup {None} /\ left \in 0..Ttl
  /\ held \subseteq Hosts /\ faults \in 0..MaxFaults
  /\ beat \in [Hosts -> {Off, Putting} \cup 0..Interval]
  /\ pc \in [Consumers -> Points]
  /\ stopped \subseteq Hosts /\ crashed \subseteq Hosts /\ dirty \subseteq Hosts /\ struck \subseteq Hosts

\* The lock keeps two consumers, of one host or of two, from changing the
\* instance at once, also when one message is lost (of two refreshes in a row
\* the lease would not outlast the second).  Two things undo it, and nothing
\* else: a host that is stopped with an item in hand, since stop ends the
\* heartbeat and the pass goes on, and a consumer of NATS that strikes from the
\* list what the other consumer of its host has just acquired.
OnePass == dirty \cup struck = {} => Cardinality(Passing) <= 1

\* The same without a condition: DistributedLockProvider is "for preventing
\* concurrent execution of the same workflow".
NeverTwo == Cardinality(Passing) <= 1

\* A key that names a host that is not at a pass goes away again, so that a
\* crash, a lost answer or a refresh that came late blocks the instance for a
\* while only.
Orphan ==
  /\ backend # "memory" /\ key # None
  /\ \A c \in Consumers : pc[c] \in {"idle", "popping", "have"} \/ ~Alive(Of(c))
LockComesFree == Orphan ~> ~Orphan

\* An item that was queued comes to a consumer, unless the host that took it out
\* of the queue stopped before it had it, or the answer to its RPOP was lost, or
\* no host is left.
ItemsTaken ==
  \A i \in 1 .. MaxItems :
    i <= items ~> i \in taken \cup dropped \/ \A h \in Hosts : ~Running(h)

\* host.stop: "no new work is picked up after this call".
NoneLost == dropped = {}
=============================================================================
